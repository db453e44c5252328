------------------------------ MODULE D4Proofs ------------------------------
(***************************************************************************)
(* What TLAPS proves of a session on IEEE 1284.4, for any number of        *)
(* commands.  For any number of troubles: all counters of retries keep     *)
(* within their bounds, and with a printer that answers in time or never,  *)
(* the answer that readAnswer takes for the one to its command is that     *)
(* one.  Up to the number of troubles that the retries of d4lib.c are good *)
(* for: each command is executed once, in its order, and answered to its   *)
(* caller; and it is sent only on an open channel and for credit.          *)
(***************************************************************************)
EXTENDS D4, SequenceTheorems, TLAPS

(* What is on the wires.                                                   *)
CommandPackets ==
  [kind : {"cmd"}, to : Commands, socket : Nat, fresh : BOOLEAN]

DataPackets ==
  [kind : {"data"}, to : Nat, socket : Nat, fresh : BOOLEAN]

Answers ==
  [kind : {"answer", "zeros"}, to : Commands, result : Nat, value : Nat,
   fresh : BOOLEAN]
    \union
  [kind : {"error", "data"}, to : {"none"}, result : Nat, value : Nat,
   fresh : BOOLEAN]

Wires ==
  /\ out \in Seq(CommandPackets \union DataPackets)
  /\ in \in Seq(Answers)

Printers ==
  [open : BOOLEAN, keeps : BOOLEAN, punctual : BOOLEAN,
   gone : BOOLEAN, credit : Nat, given : Nat, says : Seq(Answers),
   executed : Nat, troubles : Nat]

Printer == dev \in Printers

Places ==
  {"flush", "drained", "enter", "init", "socket", "open", "reopen", "drain",
   "start", "ask", "renew", "find", "again", "give", "write", "read",
   "close", "over"}

(* The commands that are waited for at each place.                         *)
Awaits ==
  [enter |-> "enter", init |-> "init", again |-> "init",
   socket |-> "socket", find |-> "socket", open |-> "open",
   renew |-> "close", reopen |-> "close", close |-> "close",
   ask |-> "request", drain |-> "credit", give |-> "credit"]

Waits == cmd = "none" \/ (pc \in DOMAIN Awaits /\ cmd = Awaits[pc])

Locals ==
  /\ loc \in [tries : 0 .. 5, opens : 0 .. 4, from : {"init", "ask"},
              count : 0 .. 11, retries : -3 .. 9, asked : Nat, socket : Nat,
              reads : -1 .. 5, answered : 0 .. Exchanges, got : Nat]
  /\ pc \notin {"close", "over"} => loc.answered < Exchanges
  /\ loc.from = "ask" => pc \in {"open", "reopen"}

(* askForCredit: each round of its loop takes a retry, and the last one    *)
(* begins with none left.                                                  *)
Rounds ==
  pc \in {"ask", "renew", "find", "again"} \/ loc.from = "ask" =>
    loc.retries >= -1 /\ loc.count + loc.retries <= 9

Shape == pc \in Places /\ Wires /\ Printer /\ Waits /\ Locals /\ Rounds

-----------------------------------------------------------------------------
(* A punctual printer while readAnswer waits: the command is on its way,   *)
(* or its answer is, and nothing else, until the printer is gone.          *)
Asking ==
  \/ /\ in = << >>
     /\ \/ dev.gone \/ out = << >>
        \/ /\ Len(out) = 1
           /\ out[1].kind = "cmd" /\ out[1].to = cmd /\ out[1].fresh
  \/ /\ Len(in) = 1 /\ in[1].fresh
     /\ dev.gone \/ out = << >>

(* What is to be read when a command was sent on the channel: its answer,  *)
(* perhaps behind another, or an error.  readAnswer has tries enough.      *)
Incoming == in \o dev.says

Reading ==
  /\ \/ Incoming \in {<< >>, <<Data(loc.answered + 1)>>} /\ loc.reads >= 4
     \/ /\ Incoming \in {<<Data(0), Data(loc.answered + 1)>>,
                         <<ErrorPacket(129)>>, <<ErrorPacket(132)>>}
        /\ loc.reads = 5
  /\ \/ dev.gone \/ out = << >>
     \/ /\ Len(out) = 1
        /\ out[1].kind = "data" /\ out[1].to = loc.answered + 1
        /\ in = << >> /\ dev.says = << >> /\ loc.reads = 5

(* Elsewhere nothing is on the wires.                                      *)
Still ==
  /\ pc # "flush" => in = << >>
  /\ dev.gone \/ out = << >>

(* And the printer has nothing to say, or nobody to say it to.             *)
Mute ==
  pc # "read" =>
    \/ dev.says = << >> \/ dev.gone
    \/ pc \in {"close", "over"} /\ dev.given = 0

Tidy ==
  dev.punctual =>
    /\ Mute
    /\ IF cmd # "none" THEN Asking
       ELSE IF pc = "read" THEN Reading ELSE Still

DInv == Shape /\ Tidy

-----------------------------------------------------------------------------
(* Packets.                                                                *)
LEMMA StaleTypes ==
  ASSUME NEW S, NEW s \in Seq(S),
         \A p \in S : [p EXCEPT !.fresh = FALSE] \in S
  PROVE  Stale(s) \in Seq(S) /\ Len(Stale(s)) = Len(s)
<1>1. DOMAIN s = 1 .. Len(s) /\ Len(s) \in Nat
  OBVIOUS
<1>2. \A i \in 1 .. Len(s) : s[i] \in S
  OBVIOUS
<1>3. Stale(s) = [i \in 1 .. Len(s) |-> [s[i] EXCEPT !.fresh = FALSE]]
  BY <1>1 DEF Stale
<1>4. \A i \in 1 .. Len(s) : [s[i] EXCEPT !.fresh = FALSE] \in S
  BY <1>2
<1> QED  BY <1>1, <1>3, <1>4

LEMMA StaleWires ==
  ASSUME Wires
  PROVE  /\ Stale(out) \in Seq(CommandPackets \union DataPackets)
         /\ Stale(in) \in Seq(Answers)
         /\ out = << >> => Stale(out) = << >>
         /\ in = << >> => Stale(in) = << >>
<1>1. \A p \in Answers : [p EXCEPT !.fresh = FALSE] \in Answers
  BY DEF Answers
<1>2. \A p \in CommandPackets \union DataPackets :
        [p EXCEPT !.fresh = FALSE] \in CommandPackets \union DataPackets
  BY DEF CommandPackets, DataPackets
<1>3. /\ Stale(out) \in Seq(CommandPackets \union DataPackets)
      /\ Len(Stale(out)) = Len(out)
  BY <1>2, StaleTypes DEF Wires
<1>4. Stale(in) \in Seq(Answers) /\ Len(Stale(in)) = Len(in)
  BY <1>1, StaleTypes DEF Wires
<1> QED  BY <1>3, <1>4, EmptySeq

(* What is read or said moves along what is incoming.                      *)
LEMMA HeadOfConcat ==
  ASSUME NEW S, NEW s \in Seq(S), NEW t \in Seq(S), s # << >>
  PROVE  /\ s \o t # << >> /\ Head(s \o t) = Head(s)
         /\ Tail(s \o t) = Tail(s) \o t
<1>1. /\ s \o t \in Seq(S) /\ Len(s \o t) = Len(s) + Len(t)
      /\ \A i \in 1 .. Len(s) + Len(t) :
           (s \o t)[i] = IF i <= Len(s) THEN s[i] ELSE t[i - Len(s)]
      /\ Len(s) \in Nat \ {0} /\ Len(t) \in Nat
  BY ConcatProperties, EmptySeq
<1>2. s \o t # << >>
  BY <1>1, EmptySeq
<1>3. /\ Tail(s) \in Seq(S) /\ Len(Tail(s)) = Len(s) - 1
      /\ \A i \in 1 .. Len(s) - 1 : Tail(s)[i] = s[i + 1]
  BY HeadTailProperties
<1>4. /\ Tail(s \o t) \in Seq(S) /\ Len(Tail(s \o t)) = Len(s) + Len(t) - 1
      /\ \A i \in 1 .. Len(s) + Len(t) - 1 : Tail(s \o t)[i] = (s \o t)[i + 1]
  BY <1>1, <1>2, HeadTailProperties
<1>5. /\ Tail(s) \o t \in Seq(S) /\ Len(Tail(s) \o t) = Len(s) - 1 + Len(t)
      /\ \A i \in 1 .. Len(s) - 1 + Len(t) :
           (Tail(s) \o t)[i] =
             IF i <= Len(s) - 1 THEN Tail(s)[i] ELSE t[i - (Len(s) - 1)]
  BY <1>3, ConcatProperties
<1>6. ASSUME NEW i \in 1 .. Len(s) + Len(t) - 1
      PROVE  Tail(s \o t)[i] = (Tail(s) \o t)[i]
  <2>1. Tail(s \o t)[i] = IF i + 1 <= Len(s) THEN s[i + 1] ELSE t[i + 1 - Len(s)]
    BY <1>1, <1>4
  <2>2. i + 1 - Len(s) = i - (Len(s) - 1)
    BY <1>1
  <2> QED  BY <1>1, <1>3, <1>5, <2>1, <2>2
<1>7. Tail(s \o t) = Tail(s) \o t
  BY <1>1, <1>4, <1>5, <1>6, SeqEqual
<1>8. Head(s \o t) = Head(s)
  BY <1>1
<1> QED  BY <1>2, <1>7, <1>8

LEMMA MoveAlong ==
  ASSUME NEW S, NEW s \in Seq(S), NEW t \in Seq(S), t # << >>
  PROVE  Append(s, Head(t)) \o Tail(t) = s \o t
<1>1. Head(t) \in S /\ Tail(t) \in Seq(S) /\ t = <<Head(t)>> \o Tail(t)
  <2>1. Head(t) \in S /\ Tail(t) \in Seq(S)
    BY HeadTailProperties
  <2>2. /\ Len(t) \in Nat \ {0} /\ 1 \in 1 .. Len(t) /\ Len(t) \in 1 .. Len(t)
    BY EmptySeq
  <2>3. SubSeq(t, 1, Len(t)) = <<t[1]>> \o SubSeq(t, 1 + 1, Len(t))
    BY <2>2, SubSeqRecursiveFirst
  <2>4. SubSeq(t, 1, Len(t)) = t /\ Tail(t) = SubSeq(t, 2, Len(t))
    BY SubSeqFull, TailIsSubSeq
  <2>5. 1 + 1 = 2 /\ Head(t) = t[1]
    OBVIOUS
  <2> QED  BY <2>1, <2>3, <2>4, <2>5
<1>2. Append(s, Head(t)) = s \o <<Head(t)>>
  BY <1>1, AppendIsConcat
<1>3. <<Head(t)>> \in Seq(S)
  BY <1>1
<1>4. (s \o <<Head(t)>>) \o Tail(t) = s \o (<<Head(t)>> \o Tail(t))
  BY <1>1, <1>3, ConcatAssociative
<1> QED  BY <1>1, <1>2, <1>4

LEMMA ShortSequences ==
  ASSUME NEW a, NEW b
  PROVE  /\ Head(<<a>>) = a /\ Tail(<<a>>) = << >>
         /\ Head(<<a, b>>) = a /\ Tail(<<a, b>>) = <<b>>
OBVIOUS

LEMMA DataFacts ==
  ASSUME NEW n \in Nat, NEW e
  PROVE  /\ Data(n) \in Answers /\ Data(n).kind = "data" /\ Data(n).value = n
         /\ ErrorPacket(e).kind = "error"
         /\ e \in Nat => ErrorPacket(e) \in Answers
<1>1. Data(n).kind = "data" /\ Data(n).value = n
  BY DEF Data, Answer
<1>2. Data(n) \in Answers
  BY DEF Data, Answer, Answers
<1>3. ErrorPacket(e).kind = "error"
  BY DEF ErrorPacket, Answer
<1>4. e \in Nat => ErrorPacket(e) \in Answers
  BY DEF ErrorPacket, Answer, Answers
<1> QED  BY <1>1, <1>2, <1>3, <1>4

(* sendReceiveCmd sends the command of its place.                          *)
LEMMA SendStep ==
  ASSUME DInv, NEW c, NEW socket \in Nat, Send(c, socket),
         pc \in DOMAIN Awaits, Awaits[pc] = c
  PROVE  DInv'
<1>1. c \in Commands
  BY DEF Awaits, Commands, AnswerLength
<1>2. pc' = pc /\ cmd = "none" /\ cmd' = c /\ loc' = loc /\ dev' = dev
  BY DEF Send
<1> DEFINE p == [kind |-> "cmd", to |-> c, socket |-> socket, fresh |-> TRUE]
<1>3. out' = Append(Stale(out), p) /\ in' = Stale(in)
  BY DEF Send
<1>4. p \in CommandPackets
  BY <1>1 DEF CommandPackets
<1> HIDE DEF p
<1>5. Wires'
  BY <1>3, <1>4, StaleWires DEF DInv, Shape, Wires
<1>6. Shape'
  <2>1. pc' \in Places /\ Printer' /\ Waits' /\ Locals' /\ Rounds'
    BY <1>2 DEF DInv, Shape, Printer, Printers, Waits, Locals, Rounds
  <2> QED  BY <1>5, <2>1 DEF Shape
<1>7. Tidy'
  <2> SUFFICES ASSUME dev.punctual PROVE Tidy'
    BY <1>2 DEF Tidy
  <2>1. pc # "read" /\ pc # "flush" /\ c # "none"
    BY DEF Awaits
  <2>2. Mute /\ Still
    BY <1>2, <2>1 DEF DInv, Tidy
  <2>3. Mute'
    BY <1>2, <2>2 DEF Mute
  <2>4. in' = << >>
    BY <1>3, <2>1, <2>2, StaleWires DEF DInv, Shape, Still
  <2>5. out = << >> => Len(out') = 1 /\ out'[1] = p
    BY <1>3, StaleWires DEF DInv, Shape
  <2>6. p.kind = "cmd" /\ p.to = c /\ p.fresh
    BY DEF p
  <2>7. Asking'
    BY <1>2, <2>2, <2>4, <2>5, <2>6 DEF Asking, Still
  <2> QED  BY <1>2, <2>1, <2>3, <2>7 DEF Tidy
<1> QED  BY <1>6, <1>7 DEF DInv

(* What a wait leaves: the printer as it was, but perhaps for a trouble.   *)
SameDev ==
  /\ \A f \in DOMAIN dev \ {"troubles"} : dev'[f] = dev[f]
  /\ Printer'

LEMMA TimesOutLeaves ==
  ASSUME Shape, TimesOut
  PROVE  /\ SameDev /\ in = << >> /\ in' = << >>
         /\ dev.punctual => Silent
<1>1. in = << >> /\ in' = << >>
  BY DEF TimesOut
<1>2. CASE Silent /\ UNCHANGED dev
  BY <1>1, <1>2 DEF SameDev, Shape, Printer, Printers
<1>3. CASE ~Silent /\ ~dev.punctual /\ MayTrouble /\ dev' = Troubled
  BY <1>1, <1>3 DEF SameDev, Shape, Printer, Printers, Troubled
<1> QED  BY <1>1, <1>2, <1>3 DEF TimesOut

(* An answer is read, or none comes.                                       *)
LEMMA ReceiveLeaves ==
  ASSUME DInv, NEW c, Receive(c), c # "none"
  PROVE  /\ pc \in DOMAIN Awaits /\ c = Awaits[pc] /\ c \in Commands
         /\ cmd = c /\ cmd' = "none"
         /\ SameDev /\ Wires'
         /\ dev.punctual => in' = << >> /\ (dev.gone \/ out' = << >>)
         /\ in # << >> => Head(in) \in Answers
<1>1. cmd = c /\ cmd' = "none" /\ out' = out
  BY DEF Receive
<1>2. pc \in DOMAIN Awaits /\ c = Awaits[pc] /\ c \in Commands
  BY <1>1 DEF DInv, Shape, Waits, Awaits, Commands, AnswerLength
<1>3. in \in Seq(Answers)
  BY DEF DInv, Shape, Wires
<1>4. dev.punctual => Asking
  BY <1>1 DEF DInv, Tidy
<1>5. CASE in # << >> /\ in' = Tail(in) /\ UNCHANGED dev
  <2>1. in' \in Seq(Answers) /\ Head(in) \in Answers /\ Len(in') = Len(in) - 1
    BY <1>3, <1>5
  <2>2. SameDev
    BY <1>5 DEF DInv, Shape, SameDev, Printer, Printers
  <2>3. dev.punctual => in' = << >> /\ (dev.gone \/ out' = << >>)
    BY <1>1, <1>4, <1>5, <2>1, EmptySeq DEF Asking
  <2> QED  BY <1>1, <1>2, <2>1, <2>2, <2>3 DEF DInv, Shape, Wires
<1>6. CASE TimesOut
  <2>1. SameDev /\ in = << >> /\ in' = << >> /\ (dev.punctual => Silent)
    BY <1>6, TimesOutLeaves DEF DInv
  <2>2. dev.punctual => dev.gone \/ out' = << >>
    BY <1>1, <2>1 DEF Silent
  <2> QED  BY <1>1, <1>2, <1>3, <2>1, <2>2 DEF DInv, Shape, Wires
<1> QED  BY <1>5, <1>6 DEF Receive

(* Whatever the session does next, it finds the wires still.               *)
LEMMA ReceiveStep ==
  ASSUME DInv, NEW c, Receive(c), c # "none",
         pc' \in Places \ {"read"}, pc = "close" => pc' = "over",
         Locals', Rounds'
  PROVE  DInv'
<1>1. /\ pc \in DOMAIN Awaits /\ cmd = c /\ cmd' = "none"
      /\ SameDev /\ Wires'
      /\ dev.punctual => in' = << >> /\ (dev.gone \/ out' = << >>)
  BY ReceiveLeaves
<1>2. Shape'
  BY <1>1 DEF Shape, SameDev, Waits
<1>3. dev.punctual' = dev.punctual /\ dev'.gone = dev.gone /\ dev'.says = dev.says
      /\ dev'.given = dev.given /\ dev'.punctual = dev.punctual
  BY <1>1 DEF SameDev, DInv, Shape, Printer, Printers
<1>4. Tidy'
  <2> SUFFICES ASSUME dev.punctual PROVE Tidy'
    BY <1>3 DEF Tidy
  <2>1. Mute
    BY DEF DInv, Tidy
  <2>2. pc # "read" /\ pc # "over"
    BY <1>1 DEF Awaits
  <2>3. Mute'
    BY <1>3, <2>1, <2>2 DEF Mute
  <2>4. Still'
    BY <1>1, <1>3 DEF Still
  <2> QED  BY <1>1, <2>3, <2>4 DEF Tidy
<1> QED  BY <1>2, <1>4 DEF DInv

(* What comes of an answer.                                                *)
LEMMA ResultTypes ==
  ASSUME DInv, NEW c, Receive(c), c # "none"
  PROVE  Result.rd \in Int /\ Result.value \in Nat /\ Credit \in Int
<1>1. c \in Commands /\ cmd = c /\ (in # << >> => Head(in) \in Answers)
  BY ReceiveLeaves
<1>2. AnswerLength \in [Commands -> Nat]
  BY DEF AnswerLength, Commands
<1>3. ASSUME in # << >>
      PROVE  Result.rd \in Int /\ Result.value \in Nat
  <2> DEFINE p == Head(in)
  <2>1. p \in Answers
    BY <1>1, <1>3
  <2> HIDE DEF p
  <2>2. p.result \in Nat /\ p.value \in Nat
    BY <2>1 DEF Answers
  <2>3. p.kind = "answer" \/ p.kind = "zeros" \/ p.kind = "error" \/ p.kind = "data"
    BY <2>1 DEF Answers
  <2>4. CASE p.kind = "error"
    BY <2>4, <1>3 DEF Result, SendReceive, p
  <2>5. CASE p.kind = "data"
    BY <2>5, <1>3 DEF Result, SendReceive, p
  <2>6. CASE p.kind \in {"answer", "zeros"}
    <3>1. p.to \in Commands
      BY <2>1, <2>6 DEF Answers
    <3>2. AnswerLength[p.to] \in Nat /\ AnswerLength[cmd] \in Nat
      BY <1>1, <1>2, <3>1
    <3>3. Result = SendReceive(p)
      BY <1>3 DEF Result, p
    <3>4. CASE p.result # 0
      BY <2>2, <2>6, <3>3, <3>4 DEF SendReceive
    <3>5. CASE p.result = 0
      <4>1. Result.value \in {p.value, Socket, Other}
        BY <2>6, <3>3, <3>5 DEF SendReceive
      <4>2. Result.rd = IF AnswerLength[p.to] < AnswerLength[cmd]
                        THEN AnswerLength[p.to] ELSE AnswerLength[cmd]
        BY <2>6, <3>3, <3>5 DEF SendReceive
      <4> QED  BY <2>2, <3>2, <4>1, <4>2 DEF Other, Socket
    <3> QED  BY <3>4, <3>5
  <2> QED  BY <2>3, <2>4, <2>5, <2>6
<1>4. in = << >> => Result = NoAnswer
  BY DEF Result
<1>5. Result.rd \in Int /\ Result.value \in Nat
  BY <1>3, <1>4 DEF NoAnswer
<1>6. Credit \in Int
  BY <1>5 DEF Credit
<1> QED  BY <1>5, <1>6

-----------------------------------------------------------------------------
(* The steps of the session.                                               *)
LEMMA FlushKeeps ==
  ASSUME DInv, Flush
  PROVE  DInv'
<1>1. /\ pc \in {"flush", "drained"} /\ pc' \in {"enter", "start"}
      /\ loc' = loc /\ cmd' = cmd /\ out' = out /\ dev' = dev /\ in' = << >>
  BY DEF Flush, Goto
<1>2. cmd = "none"
  BY <1>1 DEF DInv, Shape, Waits, Awaits
<1>3. Locals' /\ Rounds'
  BY <1>1 DEF DInv, Shape, Locals, Rounds
<1>4. Wires'
  BY <1>1, EmptySeq DEF DInv, Shape, Wires
<1>5. Shape'
  BY <1>1, <1>2, <1>3, <1>4 DEF DInv, Shape, Places, Printer, Printers, Waits
<1>6. Tidy'
  <2> SUFFICES ASSUME dev.punctual PROVE Tidy'
    BY <1>1 DEF Tidy
  <2>1. Mute' /\ Still'
    BY <1>1, <1>2 DEF DInv, Tidy, Mute, Still
  <2> QED  BY <1>1, <1>2, <2>1 DEF Tidy
<1> QED  BY <1>5, <1>6 DEF DInv

LEMMA RetryMoves ==
  ASSUME DInv, Retry, pc \in {"enter", "init"}
  PROVE  pc' \in {"flush", "over"} /\ Locals' /\ Rounds'
<1>1. CASE loc.tries < 5
  <2>1. pc' = "flush" /\ loc' = [loc EXCEPT !.tries = @ + 1]
    BY <1>1 DEF Retry
  <2>2. loc.tries + 1 \in 0 .. 5
    BY <1>1 DEF DInv, Shape, Locals
  <2> QED  BY <2>1, <2>2 DEF DInv, Shape, Locals, Rounds
<1>2. CASE ~(loc.tries < 5)
  BY <1>2 DEF Retry, Goto, DInv, Shape, Locals, Rounds
<1> QED  BY <1>1, <1>2

LEMMA GotoMoves ==
  ASSUME DInv, NEW p \in {"enter", "init", "socket", "start", "drained",
                          "find", "give", "write", "close", "over", "reopen"},
         Goto(p), p \notin {"close", "over"} => pc # "close",
         loc.from = "ask" => p = "reopen", p = "find" => pc = "renew",
         pc \in DOMAIN Awaits
  PROVE  pc' = p /\ Locals' /\ Rounds'
BY DEF Goto, DInv, Shape, Locals, Rounds, Awaits

LEMMA EnterKeeps ==
  ASSUME DInv, EnterIEEE
  PROVE  DInv'
<1>1. pc = "enter" /\ pc \in DOMAIN Awaits /\ Awaits[pc] = "enter"
  BY DEF EnterIEEE, Awaits
<1>2. CASE Send("enter", 0)
  BY <1>1, <1>2, SendStep
<1>3. CASE Receive("enter") /\ Retry
  BY <1>1, <1>3, RetryMoves, ReceiveStep DEF Places
<1>4. ASSUME NEW p \in {"enter", "init"}, Receive("enter"), Goto(p)
      PROVE  DInv'
  <2>1. loc.from # "ask"
    BY <1>1 DEF DInv, Shape, Locals
  <2>2. pc' = p /\ Locals' /\ Rounds'
    BY <1>1, <1>4, <2>1, GotoMoves
  <2> QED  BY <1>1, <1>4, <2>2, ReceiveStep DEF Places
<1> QED  BY <1>1, <1>2, <1>3, <1>4 DEF EnterIEEE

LEMMA InitKeeps ==
  ASSUME DInv, InitPrinter
  PROVE  DInv'
<1>1. pc = "init" /\ pc \in DOMAIN Awaits /\ Awaits[pc] = "init"
  BY DEF InitPrinter, Awaits
<1>2. loc.from # "ask"
  BY <1>1 DEF DInv, Shape, Locals
<1>3. CASE Send("init", 0)
  BY <1>1, <1>3, SendStep
<1>4. CASE Receive("init") /\ Retry
  BY <1>1, <1>4, RetryMoves, ReceiveStep DEF Places
<1>5. CASE Receive("init") /\ Goto("socket")
  BY <1>1, <1>2, <1>5, GotoMoves, ReceiveStep DEF Places
<1> QED  BY <1>1, <1>3, <1>4, <1>5 DEF InitPrinter

LEMMA SocketKeeps ==
  ASSUME DInv, GetSocketID
  PROVE  DInv'
<1>1. pc = "socket" /\ pc \in DOMAIN Awaits /\ Awaits[pc] = "socket"
  BY DEF GetSocketID, Awaits
<1>2. loc.from # "ask"
  BY <1>1 DEF DInv, Shape, Locals
<1>3. CASE Send("socket", 0)
  BY <1>1, <1>3, SendStep
<1>4. CASE Receive("socket") /\ ~Send("socket", 0)
  <2>1. /\ pc' = IF SocketFound = 0 THEN "over" ELSE "open"
        /\ loc' = [loc EXCEPT !.socket = SocketFound, !.asked = SocketFound]
    BY <1>4 DEF GetSocketID
  <2>2. SocketFound \in Nat
    BY <1>4, ResultTypes DEF SocketFound
  <2>3. Locals' /\ Rounds'
    <3> DEFINE f == SocketFound
    <3>1. f \in Nat /\ loc' = [loc EXCEPT !.socket = f, !.asked = f]
          /\ pc' \in {"over", "open"}
      BY <2>1, <2>2
    <3> HIDE DEF f
    <3> QED  BY <1>1, <1>2, <3>1 DEF DInv, Shape, Locals, Rounds
  <2>4. pc' \in {"over", "open"}
    BY <2>1
  <2> QED  BY <1>1, <1>4, <2>3, <2>4, ReceiveStep DEF Places
<1> QED  BY <1>1, <1>3, <1>4 DEF GetSocketID

(* The outer loop of askForCredit goes round.                              *)
LEMMA NextRoundMoves ==
  ASSUME DInv, NEW left \in Int, NextRound(left),
         pc \in {"ask", "renew", "find", "again"} \/ loc.from = "ask",
         left \in loc.retries - 1 .. loc.retries
  PROVE  pc' \in {"ask", "give"} /\ Locals' /\ Rounds'
<1>1. loc.retries >= -1 /\ loc.count + loc.retries <= 9
  BY DEF DInv, Shape, Rounds
<1>2. /\ pc' = IF left >= 0 THEN "ask" ELSE "give"
      /\ loc' = [loc EXCEPT !.count = @ + 1, !.retries = left - 1,
                            !.opens = 0, !.from = "init"]
  BY DEF NextRound, After
<1>3. loc.count \in 0 .. 11 /\ loc.retries \in -3 .. 9
  BY DEF DInv, Shape, Locals
<1>4. loc.count + 1 \in 0 .. 11 /\ left - 1 \in -3 .. 9
  BY <1>1, <1>3
<1>5. pc \notin {"close", "over"}
  BY DEF DInv, Shape, Locals
<1>6. Locals'
  <2>1. loc.answered < Exchanges
    BY <1>5 DEF DInv, Shape, Locals
  <2>2. /\ loc'.answered = loc.answered /\ loc'.from = "init"
        /\ loc' \in [tries : 0 .. 5, opens : 0 .. 4, from : {"init", "ask"},
                     count : 0 .. 11, retries : -3 .. 9, asked : Nat,
                     socket : Nat, reads : -1 .. 5,
                     answered : 0 .. Exchanges, got : Nat]
    <3> DEFINE c == loc.count + 1
               r == left - 1
    <3>1. /\ loc' = [loc EXCEPT !.count = c, !.retries = r, !.opens = 0,
                                !.from = "init"]
          /\ c \in 0 .. 11 /\ r \in -3 .. 9 /\ 0 \in 0 .. 4
      BY <1>2, <1>4
    <3> HIDE DEF c, r
    <3> QED  BY <3>1 DEF DInv, Shape, Locals
  <2> QED  BY <2>1, <2>2 DEF Locals
<1>7. /\ loc'.count = loc.count + 1 /\ loc'.retries = left - 1
      /\ loc'.from = "init"
  BY <1>2 DEF DInv, Shape, Locals
<1>8. Rounds'
  BY <1>1, <1>2, <1>3, <1>7 DEF Rounds
<1> QED  BY <1>2, <1>6, <1>8

LEMMA OpenReturnsMoves ==
  ASSUME DInv, NEW ok \in BOOLEAN, OpenReturns(ok), pc \in {"open", "reopen"}
  PROVE  pc' \in {"ask", "give", "drain", "over"} /\ Locals' /\ Rounds'
<1>1. CASE loc.from = "ask"
  <2>1. NextRound(loc.retries)
    BY <1>1 DEF OpenReturns
  <2>2. loc.retries \in Int /\ loc.retries \in loc.retries - 1 .. loc.retries
    BY DEF DInv, Shape, Locals
  <2> QED  BY <1>1, <2>1, <2>2, NextRoundMoves
<1>2. CASE loc.from # "ask"
  <2>1. /\ pc' = IF ok THEN "drain" ELSE "over"
        /\ loc' = [loc EXCEPT !.opens = 0]
    BY <1>2 DEF OpenReturns
  <2> QED  BY <1>2, <2>1 DEF DInv, Shape, Locals, Rounds
<1> QED  BY <1>1, <1>2

LEMMA OpenKeeps ==
  ASSUME DInv, OpenChannel
  PROVE  DInv'
<1>1. pc = "open" /\ pc \in DOMAIN Awaits /\ Awaits[pc] = "open"
  BY DEF OpenChannel, Awaits
<1>2. CASE Send("open", loc.asked)
  <2>1. loc.asked \in Nat
    BY DEF DInv, Shape, Locals
  <2> QED  BY <1>1, <1>2, <2>1, SendStep
<1>3. ASSUME Receive("open"), NEW ok \in BOOLEAN, OpenReturns(ok)
      PROVE  DInv'
  BY <1>1, <1>3, OpenReturnsMoves, ReceiveStep DEF Places
<1>4. CASE Receive("open") /\ Goto("reopen")
  <2>1. pc' = "reopen" /\ Locals' /\ Rounds'
    BY <1>1, <1>4 DEF Goto, DInv, Shape, Locals, Rounds
  <2> QED  BY <1>1, <1>4, <2>1, ReceiveStep DEF Places
<1> QED  BY <1>1, <1>2, <1>3, <1>4 DEF OpenChannel

LEMMA ReopenKeeps ==
  ASSUME DInv, Reopen
  PROVE  DInv'
<1>1. pc = "reopen" /\ pc \in DOMAIN Awaits /\ Awaits[pc] = "close"
  BY DEF Reopen, Awaits
<1>2. CASE Send("close", loc.asked)
  <2>1. loc.asked \in Nat
    BY DEF DInv, Shape, Locals
  <2> QED  BY <1>1, <1>2, <2>1, SendStep
<1>3. CASE Receive("close") /\ OpenAgain
  <2>1. CASE loc.opens < 4
    <3>1. pc' = "open" /\ loc' = [loc EXCEPT !.opens = @ + 1]
      BY <2>1, <1>3 DEF OpenAgain
    <3>2. loc.opens + 1 \in 0 .. 4
      BY <2>1 DEF DInv, Shape, Locals
    <3>3. Locals' /\ Rounds'
      BY <1>1, <3>1, <3>2 DEF DInv, Shape, Locals, Rounds
    <3> QED  BY <1>1, <1>3, <3>1, <3>3, ReceiveStep DEF Places
  <2>2. CASE ~(loc.opens < 4)
    <3>1. OpenReturns(TRUE)
      BY <2>2, <1>3 DEF OpenAgain
    <3> QED  BY <1>1, <1>3, <3>1, OpenReturnsMoves, ReceiveStep DEF Places
  <2> QED  BY <2>1, <2>2
<1> QED  BY <1>1, <1>2, <1>3 DEF Reopen

LEMMA DrainKeeps ==
  ASSUME DInv, Drain
  PROVE  DInv'
<1>1. pc = "drain" /\ pc \in DOMAIN Awaits /\ Awaits[pc] = "credit"
  BY DEF Drain, Awaits
<1>2. loc.from # "ask"
  BY <1>1 DEF DInv, Shape, Locals
<1>3. CASE Send("credit", loc.socket)
  <2>1. loc.socket \in Nat
    BY DEF DInv, Shape, Locals
  <2> QED  BY <1>1, <1>3, <2>1, SendStep
<1>4. ASSUME NEW p \in {"drained", "start"}, Receive("credit"), Goto(p)
      PROVE  DInv'
  <2>1. pc' = p /\ Locals' /\ Rounds'
    BY <1>1, <1>2, <1>4, GotoMoves
  <2> QED  BY <1>1, <1>4, <2>1, ReceiveStep DEF Places
<1> QED  BY <1>1, <1>3, <1>4 DEF Drain

LEMMA GiveKeeps ==
  ASSUME DInv, GiveCredit
  PROVE  DInv'
<1>1. pc = "give" /\ pc \in DOMAIN Awaits /\ Awaits[pc] = "credit"
  BY DEF GiveCredit, Awaits
<1>2. loc.from # "ask"
  BY <1>1 DEF DInv, Shape, Locals
<1>3. CASE Send("credit", loc.socket)
  <2>1. loc.socket \in Nat
    BY DEF DInv, Shape, Locals
  <2> QED  BY <1>1, <1>3, <2>1, SendStep
<1>4. ASSUME NEW p \in {"write", "close"}, Receive("credit"), Goto(p)
      PROVE  DInv'
  <2>1. pc' = p /\ Locals' /\ Rounds'
    BY <1>1, <1>2, <1>4, GotoMoves
  <2> QED  BY <1>1, <1>4, <2>1, ReceiveStep DEF Places
<1> QED  BY <1>1, <1>3, <1>4 DEF GiveCredit, After

LEMMA CloseKeeps ==
  ASSUME DInv, CloseChannel
  PROVE  DInv'
<1>1. pc = "close" /\ pc \in DOMAIN Awaits /\ Awaits[pc] = "close"
  BY DEF CloseChannel, Awaits
<1>2. loc.from # "ask"
  BY <1>1 DEF DInv, Shape, Locals
<1>3. CASE Send("close", loc.socket)
  <2>1. loc.socket \in Nat
    BY DEF DInv, Shape, Locals
  <2> QED  BY <1>1, <1>3, <2>1, SendStep
<1>4. CASE Receive("close") /\ Goto("over")
  <2>1. pc' = "over" /\ Locals' /\ Rounds'
    BY <1>1, <1>2, <1>4, GotoMoves
  <2> QED  BY <1>1, <1>4, <2>1, ReceiveStep DEF Places
<1> QED  BY <1>1, <1>3, <1>4 DEF CloseChannel

LEMMA StartKeeps ==
  ASSUME DInv, StartExchange
  PROVE  DInv'
<1>1. /\ pc = "start" /\ pc' = "ask"
      /\ loc' = [loc EXCEPT !.asked = loc.socket, !.count = 0, !.retries = 9]
      /\ UNCHANGED <<cmd, out, in, dev>>
  BY DEF StartExchange
<1>2. cmd = "none" /\ loc.from # "ask"
  BY <1>1 DEF DInv, Shape, Waits, Awaits, Locals
<1>3. Locals'
  <2>1. 0 \in 0 .. 11 /\ 9 \in -3 .. 9
    OBVIOUS
  <2>2. loc' \in [tries : 0 .. 5, opens : 0 .. 4, from : {"init", "ask"},
                  count : 0 .. 11, retries : -3 .. 9, asked : Nat,
                  socket : Nat, reads : -1 .. 5,
                  answered : 0 .. Exchanges, got : Nat]
    BY <1>1, <2>1 DEF DInv, Shape, Locals
  <2>3. loc'.answered = loc.answered /\ loc'.from = loc.from
    BY <1>1 DEF DInv, Shape, Locals
  <2>4. loc.answered < Exchanges
    BY <1>1 DEF DInv, Shape, Locals
  <2> QED  BY <1>2, <2>2, <2>3, <2>4 DEF Locals
<1>4. loc'.count = 0 /\ loc'.retries = 9
  BY <1>1 DEF DInv, Shape, Locals
<1>5. Rounds'
  BY <1>4 DEF Rounds
<1>6. Shape'
  BY <1>1, <1>2, <1>3, <1>5 DEF DInv, Shape, Places, Wires, Printer, Printers, Waits
<1>7. Tidy'
  BY <1>1, <1>2 DEF DInv, Tidy, Mute, Still
<1> QED  BY <1>6, <1>7 DEF DInv

LEMMA NoCreditMoves ==
  ASSUME DInv, NoCredit, pc = "ask"
  PROVE  pc' \in {"ask", "give"} /\ Locals' /\ Rounds'
<1>1. /\ loc.retries \in Int /\ loc.retries >= -1
      /\ loc.count + loc.retries <= 9 /\ loc.retries \in -3 .. 9
      /\ loc.count \in Nat
  BY DEF DInv, Shape, Locals, Rounds
<1>2. CASE loc.count < 2 /\ loc.retries >= 0
  <2>1. pc' = "ask" /\ loc' = [loc EXCEPT !.retries = @ - 1]
    BY <1>2 DEF NoCredit
  <2>2. loc.retries - 1 \in -3 .. 9
    BY <1>1, <1>2
  <2>3. Locals'
    BY <2>1, <2>2 DEF DInv, Shape, Locals
  <2>4. loc'.retries = loc.retries - 1 /\ loc'.count = loc.count
    BY <2>1 DEF DInv, Shape, Locals
  <2>5. Rounds'
    BY <1>1, <1>2, <2>4 DEF Rounds
  <2> QED  BY <2>1, <2>3, <2>5
<1>3. CASE ~(loc.count < 2 /\ loc.retries >= 0)
  <2> DEFINE left == IF loc.count < 2 THEN loc.retries - 1 ELSE loc.retries
  <2>1. left \in Int /\ left \in loc.retries - 1 .. loc.retries
    BY <1>1
  <2>2. NextRound(left)
    BY <1>3 DEF NoCredit
  <2> HIDE DEF left
  <2> QED  BY <2>1, <2>2, NextRoundMoves
<1> QED  BY <1>2, <1>3

LEMMA AskKeeps ==
  ASSUME DInv, AskForCredit
  PROVE  DInv'
<1>1. pc = "ask" /\ pc \in DOMAIN Awaits /\ Awaits[pc] = "request"
  BY DEF AskForCredit, Awaits
<1>2. loc.from # "ask"
  BY <1>1 DEF DInv, Shape, Locals
<1>3. CASE Send("request", loc.asked)
  <2>1. loc.asked \in Nat
    BY DEF DInv, Shape, Locals
  <2> QED  BY <1>1, <1>3, <2>1, SendStep
<1>4. ASSUME Receive("request"), NEW p \in {"give", "close"}, Goto(p)
      PROVE  DInv'
  <2>1. pc' = p /\ Locals' /\ Rounds'
    BY <1>1, <1>2, <1>4, GotoMoves
  <2> QED  BY <1>1, <1>4, <2>1, ReceiveStep DEF Places
<1>5. ASSUME Receive("request"), Goto("renew")
      PROVE  DInv'
  <2>1. pc' = "renew" /\ Locals' /\ Rounds'
    BY <1>1, <1>5 DEF Goto, DInv, Shape, Locals, Rounds
  <2> QED  BY <1>1, <1>5, <2>1, ReceiveStep DEF Places
<1>6. CASE Receive("request") /\ NoCredit
  BY <1>1, <1>6, NoCreditMoves, ReceiveStep DEF Places
<1>7. CASE Receive("request") /\ ~Send("request", loc.asked)
  <2>1. Credit \in Int
    BY <1>7, ResultTypes
  <2>2. CASE Credit > 0
    <3>1. Goto("give")
      BY <1>7, <2>2 DEF AskForCredit, After
    <3> QED  BY <1>4, <1>7, <3>1
  <2>3. CASE Credit = 0
    <3>1. NoCredit
      BY <1>7, <2>3 DEF AskForCredit
    <3> QED  BY <1>6, <1>7, <3>1
  <2>4. CASE Credit < 0
    <3>1. Goto("close") \/ Goto("renew")
      BY <1>7, <2>1, <2>4 DEF AskForCredit
    <3> QED  BY <1>4, <1>5, <1>7, <3>1
  <2> QED  BY <2>1, <2>2, <2>3, <2>4
<1> QED  BY <1>3, <1>7 DEF AskForCredit

LEMMA RenewKeeps ==
  ASSUME DInv, Renew
  PROVE  DInv'
<1>1. /\ Awaits["renew"] = "close" /\ Awaits["find"] = "socket"
      /\ Awaits["again"] = "init"
      /\ {"renew", "find", "again"} \subseteq DOMAIN Awaits
  BY DEF Awaits
<1>2. loc.asked \in Nat /\ (pc \in {"renew", "find", "again"} => loc.from # "ask")
  BY DEF DInv, Shape, Locals
<1>3. CASE pc = "renew" /\ Send("close", loc.asked)
  BY <1>1, <1>2, <1>3, SendStep
<1>4. CASE pc = "find" /\ Send("socket", 0)
  BY <1>1, <1>4, SendStep
<1>5. CASE pc = "again" /\ Send("init", 0)
  BY <1>1, <1>5, SendStep
<1>6. CASE pc = "renew" /\ Receive("close") /\ Goto("find")
  <2>1. pc' = "find" /\ Locals' /\ Rounds'
    BY <1>1, <1>2, <1>6, GotoMoves
  <2> QED  BY <1>6, <2>1, ReceiveStep DEF Places
<1>7. CASE /\ pc = "find" /\ Receive("socket")
           /\ pc' = "again" /\ loc' = [loc EXCEPT !.asked = SocketFound]
  <2> DEFINE f == SocketFound
  <2>1. f \in Nat /\ loc' = [loc EXCEPT !.asked = f]
    BY <1>7, ResultTypes DEF SocketFound
  <2> HIDE DEF f
  <2>2. Locals' /\ Rounds'
    BY <1>2, <1>7, <2>1 DEF DInv, Shape, Locals, Rounds
  <2> QED  BY <1>7, <2>2, ReceiveStep DEF Places
<1>8. CASE /\ pc = "again" /\ Receive("init")
           /\ pc' = "open" /\ loc' = [loc EXCEPT !.from = "ask"]
  <2>1. Locals' /\ Rounds'
    BY <1>8 DEF DInv, Shape, Locals, Rounds
  <2> QED  BY <1>8, <2>1, ReceiveStep DEF Places
<1>9. CASE pc = "again" /\ Receive("init") /\ NextRound(loc.retries)
  <2>1. loc.retries \in Int /\ loc.retries \in loc.retries - 1 .. loc.retries
    BY DEF DInv, Shape, Locals
  <2>2. pc' \in {"ask", "give"} /\ Locals' /\ Rounds'
    BY <1>9, <2>1, NextRoundMoves
  <2> QED  BY <1>9, <2>2, ReceiveStep DEF Places
<1> QED  BY <1>3, <1>4, <1>5, <1>6, <1>7, <1>8, <1>9 DEF Renew

(* A command goes out on the channel; nothing else is on the wires.        *)
LEMMA WriteKeeps ==
  ASSUME DInv, WriteData
  PROVE  DInv'
<1>1. /\ pc = "write" /\ loc' = [loc EXCEPT !.reads = 5]
      /\ UNCHANGED <<cmd, in, dev>>
      /\ pc' = IF dev.gone THEN "close" ELSE "read"
  BY DEF WriteData, After
<1>2. cmd = "none" /\ loc.from # "ask" /\ loc.answered < Exchanges
  BY <1>1 DEF DInv, Shape, Waits, Awaits, Locals
<1>3. Locals' /\ Rounds'
  BY <1>1, <1>2 DEF DInv, Shape, Locals, Rounds
<1>4. loc'.answered = loc.answered /\ loc'.reads = 5
  BY <1>1 DEF DInv, Shape, Locals
<1> DEFINE p == [kind |-> "data", to |-> loc.answered + 1,
                 socket |-> loc.socket, fresh |-> FALSE]
<1>5. out' = IF dev.gone THEN out ELSE Append(out, p)
  BY DEF WriteData
<1>6. p \in DataPackets /\ p.kind = "data" /\ p.to = loc.answered + 1
  BY DEF DataPackets, DInv, Shape, Locals
<1> HIDE DEF p
<1>7. Wires'
  BY <1>1, <1>5, <1>6 DEF DInv, Shape, Wires
<1>8. Shape'
  BY <1>1, <1>2, <1>3, <1>7 DEF DInv, Shape, Places, Printer, Printers, Waits
<1>9. Tidy'
  <2> SUFFICES ASSUME dev.punctual PROVE Tidy'
    BY <1>1 DEF Tidy
  <2>1. Mute /\ in = << >> /\ (dev.gone \/ out = << >>)
    BY <1>1, <1>2 DEF DInv, Tidy, Still
  <2>2. Mute'
    BY <1>1, <2>1 DEF Mute
  <2>3. CASE dev.gone
    BY <1>1, <1>2, <2>1, <2>2, <2>3 DEF Tidy, Still
  <2>4. CASE ~dev.gone
    <3>1. pc' = "read" /\ dev.says = << >>
      BY <1>1, <2>1, <2>4 DEF Mute
    <3>2. Len(out') = 1 /\ out'[1] = p
      BY <1>5, <2>1, <2>4
    <3>3. Incoming' = << >>
      BY <1>1, <2>1, <3>1 DEF Incoming
    <3>4. Reading'
      BY <1>1, <1>4, <1>6, <2>1, <3>1, <3>2, <3>3 DEF Reading
    <3> QED  BY <1>1, <1>2, <2>2, <3>1, <3>4 DEF Tidy
  <2> QED  BY <2>3, <2>4
<1> QED  BY <1>8, <1>9 DEF DInv

(* What the session knows when it reads data of a punctual printer.        *)
LEMMA ReadingFacts ==
  ASSUME DInv, dev.punctual, pc = "read"
  PROVE  cmd = "none" /\ Reading
<1>1. cmd = "none"
  BY DEF DInv, Shape, Waits, Awaits
<1> QED  BY <1>1 DEF DInv, Tidy

LEMMA ReadKeeps ==
  ASSUME DInv, ReadData
  PROVE  DInv'
<1>1. /\ pc = "read" /\ cmd' = cmd /\ out' = out /\ cmd = "none"
      /\ loc.from # "ask" /\ loc.answered < Exchanges
  BY DEF ReadData, DInv, Shape, Waits, Awaits, Locals
<1>2. in \in Seq(Answers) /\ dev.says \in Seq(Answers)
  BY DEF DInv, Shape, Wires, Printer, Printers
<1>3. CASE TimesOut /\ Goto("close")
  <2>1. SameDev /\ in = << >> /\ in' = << >> /\ (dev.punctual => Silent)
    BY <1>3, TimesOutLeaves DEF DInv
  <2>2. pc' = "close" /\ loc' = loc
    BY <1>3 DEF Goto
  <2>3. Locals' /\ Rounds'
    BY <1>1, <2>2 DEF DInv, Shape, Locals, Rounds
  <2>4. Shape'
    BY <1>1, <1>2, <2>1, <2>2, <2>3 DEF DInv, Shape, Places, Wires, Waits, SameDev
  <2>5. /\ dev'.punctual = dev.punctual /\ dev'.gone = dev.gone
        /\ dev'.says = dev.says /\ dev'.given = dev.given
    BY <2>1 DEF SameDev, DInv, Shape, Printer, Printers
  <2>6. Tidy'
    BY <1>1, <2>1, <2>2, <2>5 DEF Tidy, Mute, Still, Silent
  <2> QED  BY <2>4, <2>6 DEF DInv
<1>4. CASE in # << >> /\ in' = Tail(in) /\ UNCHANGED dev /\ ~TimesOut
  <2> DEFINE h == Head(in)
  <2>1. h \in Answers /\ in' \in Seq(Answers)
    BY <1>2, <1>4
  <2>2. Incoming # << >> /\ Head(Incoming) = h /\ Tail(Incoming) = in' \o dev.says
    BY <1>2, <1>4, HeadOfConcat DEF Incoming
  <2>3. dev.punctual => Reading /\ (dev.gone \/ out = << >>)
    BY <1>1, <1>4, ReadingFacts DEF Reading
  <2>4. loc.answered \in Nat /\ loc.reads \in Int
    BY DEF DInv, Shape, Locals
  <2>5. CASE (Passes(h) \/ loc.reads < 0) /\ Answered(h)
    <3>1. /\ loc' = [loc EXCEPT !.answered = @ + 1, !.got = h.value]
          /\ pc' = IF loc.answered + 1 < Exchanges THEN "start" ELSE "close"
      BY <2>5 DEF Answered
    <3>2. Locals'
      <4> DEFINE v == h.value
                 n == loc.answered + 1
      <4>1. v \in Nat /\ n \in 0 .. Exchanges
        BY <1>1, <2>1, <2>4, ExchangesAssumption DEF Answers
      <4>2. loc' = [loc EXCEPT !.answered = n, !.got = v]
        BY <3>1
      <4> HIDE DEF v, n
      <4>3. loc' \in [tries : 0 .. 5, opens : 0 .. 4, from : {"init", "ask"},
                      count : 0 .. 11, retries : -3 .. 9, asked : Nat,
                      socket : Nat, reads : -1 .. 5,
                      answered : 0 .. Exchanges, got : Nat]
        BY <4>1, <4>2 DEF DInv, Shape, Locals
      <4>4. loc'.answered = loc.answered + 1 /\ loc'.from = loc.from
        BY <4>2 DEF n, DInv, Shape, Locals
      <4> QED  BY <1>1, <3>1, <4>3, <4>4 DEF Locals
    <3>3. loc'.from = loc.from /\ pc' \in {"start", "close"}
      BY <3>1 DEF DInv, Shape, Locals
    <3>4. Shape'
      BY <1>1, <1>4, <2>1, <3>2, <3>3
         DEF DInv, Shape, Places, Wires, Waits, Rounds, Printer, Printers
    <3>5. ASSUME dev.punctual
          PROVE  in' = << >> /\ dev.says = << >>
      <4>1. Passes(h) /\ h.kind = "data" /\ h.value > 0
        BY <2>3, <2>4, <2>5, <3>5 DEF Reading, Passes
      <4>2. Tail(Incoming) = << >>
        <5>1. Incoming # <<Data(0), Data(loc.answered + 1)>>
          BY <2>2, <4>1, ShortSequences, DataFacts
        <5>2. Incoming \in {<<Data(loc.answered + 1)>>,
                            <<ErrorPacket(129)>>, <<ErrorPacket(132)>>}
          BY <2>2, <2>3, <3>5, <5>1 DEF Reading
        <5> QED  BY <5>2, ShortSequences
      <4>3. in' \o dev.says = << >>
        BY <2>2, <4>2
      <4> QED  BY <1>2, <2>1, <4>3, ConcatEqualIffEmpty
    <3>6. Tidy'
      BY <1>1, <1>4, <2>3, <3>3, <3>5 DEF Tidy, Mute, Still
    <3> QED  BY <3>4, <3>6 DEF DInv
  <2>6. CASE /\ ~(Passes(h) \/ loc.reads < 0)
             /\ pc' = pc /\ loc' = [loc EXCEPT !.reads = @ - 1]
    <3> DEFINE r == loc.reads - 1
    <3>1. r \in -1 .. 5 /\ loc' = [loc EXCEPT !.reads = r]
      BY <2>6 DEF DInv, Shape, Locals
    <3>2. loc'.reads = r /\ loc'.answered = loc.answered /\ loc'.from = loc.from
      BY <3>1 DEF DInv, Shape, Locals
    <3>3. Locals'
      <4> HIDE DEF r
      <4>1. loc' \in [tries : 0 .. 5, opens : 0 .. 4, from : {"init", "ask"},
                      count : 0 .. 11, retries : -3 .. 9, asked : Nat,
                      socket : Nat, reads : -1 .. 5,
                      answered : 0 .. Exchanges, got : Nat]
        BY <3>1 DEF DInv, Shape, Locals
      <4> QED  BY <1>1, <2>6, <3>2, <4>1 DEF Locals
    <3>4. Shape'
      BY <1>1, <1>4, <2>1, <2>6, <3>2, <3>3
         DEF DInv, Shape, Places, Wires, Waits, Rounds, Printer, Printers
    <3>5. ASSUME dev.punctual
          PROVE  Reading'
      <4>1. Incoming' = Tail(Incoming)
        BY <1>4, <2>2 DEF Incoming
      <4>2. Incoming # <<Data(loc.answered + 1)>>
        <5>1. loc.answered + 1 \in Nat /\ loc.answered + 1 > 0
          BY <2>4
        <5>2. Passes(Data(loc.answered + 1))
          BY <5>1, DataFacts DEF Passes
        <5> QED  BY <2>2, <2>6, <5>2, ShortSequences
      <4>3. /\ Incoming \in {<<Data(0), Data(loc.answered + 1)>>,
                              <<ErrorPacket(129)>>, <<ErrorPacket(132)>>}
            /\ loc.reads = 5
        BY <2>2, <2>3, <3>5, <4>2 DEF Reading
      <4>4. Incoming' \in {<< >>, <<Data(loc.answered + 1)>>}
        <5>1. /\ Tail(<<Data(0), Data(loc.answered + 1)>>) =
                   <<Data(loc.answered + 1)>>
              /\ Tail(<<ErrorPacket(129)>>) = << >>
              /\ Tail(<<ErrorPacket(132)>>) = << >>
          BY ShortSequences, Zenon
        <5> QED  BY <4>1, <4>3, <5>1, Zenon
      <4> QED  BY <1>1, <1>4, <2>3, <3>2, <3>5, <4>3, <4>4 DEF Reading
    <3>6. Tidy'
      BY <1>1, <1>4, <2>6, <3>5 DEF Tidy, Mute
    <3> QED  BY <3>4, <3>6 DEF DInv
  <2>7. CASE Passes(h) \/ loc.reads < 0
    <3>1. Answered(h)
      BY <1>4, <2>7 DEF ReadData
    <3> QED  BY <2>5, <2>7, <3>1
  <2>8. CASE ~(Passes(h) \/ loc.reads < 0)
    <3>1. pc' = pc /\ loc' = [loc EXCEPT !.reads = @ - 1]
      BY <1>4, <2>8 DEF ReadData
    <3> QED  BY <2>6, <2>8, <3>1
  <2> QED  BY <2>7, <2>8
<1>5. in # << >> => ~TimesOut
  BY DEF TimesOut
<1>6. \/ TimesOut /\ Goto("close")
      \/ in # << >> /\ in' = Tail(in) /\ UNCHANGED dev
  BY DEF ReadData
<1> QED  BY <1>3, <1>4, <1>5, <1>6

-----------------------------------------------------------------------------
(* The steps of the printer.                                               *)
LEMMA FirstPacket ==
  ASSUME DInv, out # << >>
  PROVE  /\ Head(out) \in CommandPackets \union DataPackets
         /\ Tail(out) \in Seq(CommandPackets \union DataPackets)
         /\ Len(out) = 1 => Tail(out) = << >> /\ Head(out) = out[1]
<1>1. out \in Seq(CommandPackets \union DataPackets)
  BY DEF DInv, Shape, Wires
<1>2. /\ Head(out) \in CommandPackets \union DataPackets
      /\ Tail(out) \in Seq(CommandPackets \union DataPackets)
      /\ Len(Tail(out)) = Len(out) - 1
  BY <1>1, HeadTailProperties
<1>3. Tail(out) # << >> => Len(Tail(out)) \in Nat \ {0}
  BY <1>2, EmptySeq
<1> QED  BY <1>2, <1>3

(* The printer is told something: the session waits for the answer, or has *)
(* sent a command on the channel.                                          *)
LEMMA ToldFacts ==
  ASSUME DInv, dev.punctual, ~dev.gone, out # << >>
  PROVE  /\ in = << >> /\ Len(out) = 1
         /\ \/ /\ Head(out).kind = "cmd" /\ cmd # "none" /\ Asking
               /\ Head(out).to = cmd /\ Head(out).fresh
               /\ pc \in DOMAIN Awaits /\ cmd = Awaits[pc]
            \/ /\ Head(out).kind = "data" /\ cmd = "none" /\ pc = "read"
               /\ Reading /\ Head(out).to = loc.answered + 1
               /\ dev.says = << >> /\ loc.reads = 5
<1>1. CASE cmd # "none"
  <2>1. Asking
    BY <1>1 DEF DInv, Tidy
  <2>2. /\ in = << >> /\ Len(out) = 1
        /\ out[1].kind = "cmd" /\ out[1].to = cmd /\ out[1].fresh
    BY <2>1 DEF Asking
  <2>3. pc \in DOMAIN Awaits /\ cmd = Awaits[pc]
    BY <1>1 DEF DInv, Shape, Waits
  <2> QED  BY <1>1, <2>1, <2>2, <2>3, FirstPacket
<1>2. CASE cmd = "none" /\ pc = "read"
  <2>1. Reading
    BY <1>2, ReadingFacts
  <2>2. /\ in = << >> /\ Len(out) = 1 /\ dev.says = << >> /\ loc.reads = 5
        /\ out[1].kind = "data" /\ out[1].to = loc.answered + 1
    BY <2>1 DEF Reading
  <2> QED  BY <1>2, <2>1, <2>2, FirstPacket
<1>3. CASE cmd = "none" /\ pc # "read"
  BY <1>3 DEF DInv, Tidy, Still
<1> QED  BY <1>1, <1>2, <1>3

(* What the printer does when it is told to, and what it says.             *)
LEMMA DoneTypes ==
  ASSUME DInv, NEW p \in CommandPackets
  PROVE  /\ Done(p) \in Printers
         /\ Done(p).gone = dev.gone /\ Done(p).punctual = dev.punctual
         /\ Done(p).says \in {dev.says, << >>}
         /\ p.to # "credit" => Done(p).given \in {dev.given, 0}
         /\ p.to = "credit" /\ Knows(p) =>
              Done(p).given = dev.given + 1 /\ Done(p).says = dev.says
         /\ Done(p).troubles = dev.troubles
<1>1. dev \in Printers
  BY DEF DInv, Shape, Printer, Printers
<1>2. << >> \in Seq(Answers)
  OBVIOUS
<1>3. ASSUME NEW open \in BOOLEAN
      PROVE  /\ Opened(open) \in Printers
             /\ Opened(open).gone = dev.gone /\ Opened(open).punctual = dev.punctual
             /\ Opened(open).says = << >> /\ Opened(open).given = 0
             /\ Opened(open).troubles = dev.troubles
  BY <1>1, <1>2 DEF Opened, Printers
<1>4. CASE p.to = "init"
  <2>1. Done(p) = Opened(dev.open /\ dev.keeps) /\ (dev.open /\ dev.keeps) \in BOOLEAN
    BY <1>1, <1>4 DEF Done, Printers
  <2> QED  BY <1>3, <1>4, <2>1
<1>5. CASE p.to = "open"
  <2>1. Done(p) \in {Opened(TRUE), dev}
    BY <1>5 DEF Done
  <2> QED  BY <1>1, <1>3, <1>5, <2>1
<1>6. CASE p.to = "close"
  <2>1. Done(p) \in {Opened(FALSE), dev}
    BY <1>6 DEF Done
  <2> QED  BY <1>1, <1>3, <1>6, <2>1
<1>7. CASE p.to = "request"
  <2>1. Done(p) \in {[dev EXCEPT !.credit = @ + 1], dev}
    BY <1>7 DEF Done
  <2>2. [dev EXCEPT !.credit = @ + 1] \in Printers
    BY <1>1 DEF Printers
  <2>3. \A f \in {"gone", "punctual", "says", "given", "troubles"} :
          [dev EXCEPT !.credit = @ + 1][f] = dev[f]
    BY <1>1 DEF Printers
  <2> QED  BY <1>1, <1>7, <2>1, <2>2, <2>3
<1>8. CASE p.to = "credit"
  <2>1. Done(p) = IF Knows(p) THEN [dev EXCEPT !.given = @ + 1] ELSE dev
    BY <1>8 DEF Done
  <2>2. [dev EXCEPT !.given = @ + 1] \in Printers
    BY <1>1 DEF Printers
  <2>3. /\ \A f \in {"gone", "punctual", "says", "troubles"} :
             [dev EXCEPT !.given = @ + 1][f] = dev[f]
        /\ [dev EXCEPT !.given = @ + 1].given = dev.given + 1
    BY <1>1 DEF Printers
  <2> QED  BY <1>1, <1>8, <2>1, <2>2, <2>3
<1>9. CASE p.to \notin {"init", "open", "close", "request", "credit"}
  <2>1. Done(p) = dev
    BY <1>9 DEF Done
  <2> QED  BY <1>1, <1>9, <2>1
<1> QED  BY <1>4, <1>5, <1>6, <1>7, <1>8, <1>9

LEMMA ReplyTypes ==
  ASSUME DInv, NEW p \in CommandPackets, NEW a \in {Reply(p), Refusal(p)}
  PROVE  FreshIf(p, a) \in Answers /\ (p.fresh => FreshIf(p, a).fresh)
<1>1. p.to \in {"enter", "init", "socket", "open", "close", "request", "credit"}
      /\ p.to \in Commands /\ p.fresh \in BOOLEAN
  BY DEF CommandPackets, Commands, AnswerLength
<1>2. ASSUME NEW c \in Commands, NEW result \in Nat, NEW value \in Nat
      PROVE  Answer(c, result, value) \in Answers
  BY <1>2 DEF Answer, Answers
<1>3. Reply(p) \in Answers
  <2>1. CASE p.to \in {"enter", "init"}
    BY <1>1, <1>2, <2>1 DEF Reply, Other
  <2>2. CASE p.to = "socket"
    BY <1>1, <1>2, <2>2 DEF Reply, Socket
  <2>3. CASE p.to = "open"
    <3> DEFINE r == IF p.socket # Socket THEN 9 ELSE IF dev.open THEN 6 ELSE 0
    <3>1. r \in Nat /\ Other \in Nat /\ Reply(p) = Answer(p.to, r, Other)
      BY <2>3 DEF Reply, Other
    <3> HIDE DEF r
    <3> QED  BY <1>1, <1>2, <3>1
  <2>4. CASE p.to = "request"
    <3> DEFINE r == IF Knows(p) THEN 0 ELSE 8
    <3>1. r \in Nat /\ Reply(p) = Answer(p.to, r, 1)
      BY <2>4 DEF Reply
    <3> HIDE DEF r
    <3> QED  BY <1>1, <1>2, <3>1
  <2>5. CASE p.to \in {"close", "credit"}
    <3> DEFINE r == IF Knows(p) THEN 0 ELSE 8
    <3>1. r \in Nat /\ Socket \in Nat /\ Reply(p) = Answer(p.to, r, Socket)
      BY <2>5 DEF Reply, Socket
    <3> HIDE DEF r
    <3> QED  BY <1>1, <1>2, <3>1
  <2> QED  BY <1>1, <2>1, <2>2, <2>3, <2>4, <2>5
<1>4. Refusal(p) \in Answers
  <2>1. CASE p.to = "enter"
    <3>1. [Answer("enter", 0, Other) EXCEPT !.kind = "zeros"] \in Answers
      BY <1>1, <2>1 DEF Answer, Answers, Other
    <3>2. Refusal(p) = [Answer("enter", 0, Other) EXCEPT !.kind = "zeros"]
      BY <2>1 DEF Refusal
    <3> QED  BY <3>1, <3>2
  <2>2. CASE p.to # "enter"
    <3>1. \E result \in Nat, value \in Nat :
            Refusal(p) = Answer(p.to, result, value)
      <4>1. CASE p.to = "request"
        <5>1. Refusal(p) = Answer(p.to, IF Knows(p) THEN 0 ELSE 8, 0)
          BY <4>1 DEF Refusal
        <5>2. (IF Knows(p) THEN 0 ELSE 8) \in Nat
          OBVIOUS
        <5> QED  BY <5>1, <5>2
      <4>2. CASE p.to # "request"
        BY <1>1, <2>2, <4>2 DEF Refusal, Other, Socket
      <4> QED  BY <4>1, <4>2
    <3> QED  BY <1>1, <1>2, <3>1
  <2> QED  BY <2>1, <2>2
<1>5. a \in Answers
  BY <1>3, <1>4
<1>6. [a EXCEPT !.fresh = p.fresh] \in Answers
      /\ [a EXCEPT !.fresh = p.fresh].fresh = p.fresh
  BY <1>1, <1>5 DEF Answers
<1> QED  BY <1>6 DEF FreshIf

(* Nothing of the session's own changes.                                   *)
LEMMA SessionStays ==
  ASSUME DInv, UNCHANGED <<pc, cmd, loc>>
  PROVE  /\ pc' \in Places /\ Waits' /\ Locals' /\ Rounds'
         /\ pc' = pc /\ cmd' = cmd /\ loc' = loc
BY DEF DInv, Shape, Waits, Locals, Rounds

LEMMA ObeysKeeps ==
  ASSUME DInv, Obeys
  PROVE  DInv'
<1> DEFINE p == Head(out)
<1>1. /\ ~dev.gone /\ out # << >> /\ out' = Tail(out) /\ p.kind = "cmd"
      /\ UNCHANGED <<pc, cmd, loc>>
  BY DEF Obeys
<1>2. p \in CommandPackets /\ out' \in Seq(CommandPackets \union DataPackets)
  BY <1>1, FirstPacket DEF DataPackets
<1>3. in \in Seq(Answers) /\ dev.says \in Seq(Answers) /\ dev \in Printers
  BY DEF DInv, Shape, Wires, Printer, Printers
<1>4. dev.punctual =>
        /\ in = << >> /\ out' = << >> /\ p.fresh
        /\ cmd # "none" /\ p.to = cmd /\ pc \in DOMAIN Awaits /\ cmd = Awaits[pc]
  BY <1>1, ToldFacts, FirstPacket
<1>5. dev.punctual => Mute /\ (pc # "close" => dev.says = << >>)
  BY <1>1, <1>4 DEF DInv, Tidy, Mute, Awaits
<1>6. ASSUME NEW a \in Answers, p.fresh => a.fresh,
             in' = Append(in, a) \/ in' = in,
             dev' \in Printers,
             dev'.gone = dev.gone, dev'.punctual = dev.punctual,
             dev'.says \in {dev.says, << >>},
             pc = "close" /\ dev.punctual => dev'.given \in {dev.given, 0}
      PROVE  DInv'
  <2>1. in' \in Seq(Answers)
    BY <1>3, <1>6
  <2>2. Shape'
    BY <1>1, <1>2, <1>6, <2>1, SessionStays DEF Shape, Wires, Printer
  <2>3. ASSUME dev.punctual
        PROVE  Mute'
    BY <1>1, <1>4, <1>5, <1>6, <2>3 DEF Mute, Awaits
  <2>4. ASSUME dev.punctual
        PROVE  Asking'
    <3>1. in = << >> /\ out' = << >> /\ p.fresh
      BY <1>4, <2>4
    <3>2. CASE in' = in
      BY <3>1, <3>2 DEF Asking
    <3>3. CASE in' = Append(in, a)
      <4>1. Len(in') = 1 /\ in'[1] = a
        BY <3>1, <3>3
      <4> QED  BY <1>6, <3>1, <4>1 DEF Asking
    <3> QED  BY <1>6, <3>2, <3>3
  <2>5. Tidy'
    BY <1>1, <1>4, <1>6, <2>3, <2>4 DEF Tidy
  <2> QED  BY <2>2, <2>5 DEF DInv
<1>7. Done(p) \in Printers /\ Done(p).gone = dev.gone
      /\ Done(p).punctual = dev.punctual /\ Done(p).says \in {dev.says, << >>}
      /\ (p.to # "credit" => Done(p).given \in {dev.given, 0})
  BY <1>2, DoneTypes
<1>8. pc = "close" /\ dev.punctual => Done(p).given \in {dev.given, 0}
  BY <1>4, <1>7 DEF Awaits
<1>9. CASE \E first \in SaidFirst(p) :
             /\ in' = in \o first \o <<FreshIf(p, Reply(p))>>
             /\ dev' = IF first = << >> THEN Done(p)
                       ELSE [Done(p) EXCEPT !.says = Tail(@), !.given = @ - 1]
  <2>1. PICK first \in SaidFirst(p) :
             /\ in' = in \o first \o <<FreshIf(p, Reply(p))>>
             /\ dev' = IF first = << >> THEN Done(p)
                       ELSE [Done(p) EXCEPT !.says = Tail(@), !.given = @ - 1]
    BY <1>9
  <2> DEFINE a == FreshIf(p, Reply(p))
  <2>2. a \in Answers /\ (p.fresh => a.fresh)
    BY <1>2, ReplyTypes
  <2> HIDE DEF a
  <2>3. CASE first = << >>
    <3>1. in' = Append(in, a) /\ dev' = Done(p)
      <4>1. in' = (in \o << >>) \o <<a>>
        BY <2>1, <2>3 DEF a
      <4>2. in \o << >> = in /\ Append(in, a) = in \o <<a>>
        BY <1>3, <2>2, ConcatEmptySeq, AppendIsConcat
      <4> QED  BY <2>1, <2>3, <4>1, <4>2
    <3> QED  BY <1>6, <1>7, <1>8, <2>2, <3>1
  <2>4. CASE first # << >>
    <3>1. /\ p.to = "credit" /\ Knows(p) /\ dev.says # << >>
          /\ first = <<Head(dev.says)>>
      BY <2>1, <2>4 DEF SaidFirst
    <3>2. ~dev.punctual
      BY <1>4, <1>5, <3>1 DEF Awaits
    <3>3. /\ Done(p).given = dev.given + 1 /\ Done(p).says = dev.says
      BY <1>2, <3>1, DoneTypes
    <3>4. dev' = [Done(p) EXCEPT !.says = Tail(@), !.given = @ - 1]
      BY <2>1, <2>4
    <3>5. dev' \in Printers /\ dev'.punctual = dev.punctual
      <4>1. Tail(dev.says) \in Seq(Answers) /\ dev.given \in Nat
        BY <1>3, <3>1 DEF Printers
      <4>2. dev' = [Done(p) EXCEPT !.says = Tail(dev.says), !.given = dev.given]
        <5>1. Done(p).given - 1 = dev.given /\ Tail(Done(p).says) = Tail(dev.says)
          BY <3>3, <4>1
        <5> QED  BY <3>4, <5>1, Zenon
      <4>3. \A d \in Printers, s \in Seq(Answers), n \in Nat :
              /\ [d EXCEPT !.says = s, !.given = n] \in Printers
              /\ [d EXCEPT !.says = s, !.given = n].punctual = d.punctual
        BY DEF Printers
      <4> QED  BY <1>7, <4>1, <4>2, <4>3
    <3>6. in' \in Seq(Answers)
      <4>1. Head(dev.says) \in Answers
        BY <1>3, <3>1
      <4>2. in' = (in \o <<Head(dev.says)>>) \o <<a>>
        BY <2>1, <3>1 DEF a
      <4>3. <<Head(dev.says)>> \in Seq(Answers) /\ <<a>> \in Seq(Answers)
        BY <2>2, <4>1
      <4>4. in \o <<Head(dev.says)>> \in Seq(Answers)
        BY <1>3, <4>3, ConcatProperties
      <4> QED  BY <4>2, <4>3, <4>4, ConcatProperties
    <3>7. Shape'
      BY <1>1, <1>2, <3>5, <3>6, SessionStays DEF Shape, Wires, Printer
    <3>8. Tidy'
      BY <3>2, <3>5 DEF Tidy
    <3> QED  BY <3>7, <3>8 DEF DInv
  <2> QED  BY <2>3, <2>4
<1>10. CASE /\ MayTrouble /\ dev' = Troubled
            /\ in' = Append(in, FreshIf(p, Refusal(p))) \/ in' = in
  <2> DEFINE a == FreshIf(p, Refusal(p))
  <2>1. a \in Answers /\ (p.fresh => a.fresh)
    BY <1>2, ReplyTypes
  <2> HIDE DEF a
  <2>2. in' = Append(in, a) \/ in' = in
    BY <1>10 DEF a
  <2>3. /\ dev' \in Printers /\ dev'.gone = dev.gone
        /\ dev'.punctual = dev.punctual /\ dev'.says = dev.says
        /\ dev'.given = dev.given
    BY <1>3, <1>10 DEF Troubled, Printers
  <2> QED  BY <1>6, <2>1, <2>2, <2>3
<1>11. CASE dev' = [Done(p) EXCEPT !.troubles = @ + 1] /\ in' = in
  <2> DEFINE a == FreshIf(p, Reply(p))
  <2>1. a \in Answers /\ (p.fresh => a.fresh)
    BY <1>2, ReplyTypes
  <2> HIDE DEF a
  <2>2. /\ dev' \in Printers /\ dev'.gone = Done(p).gone
        /\ dev'.punctual = Done(p).punctual /\ dev'.says = Done(p).says
        /\ dev'.given = Done(p).given
    BY <1>7, <1>11 DEF Printers
  <2> QED  BY <1>6, <1>7, <1>8, <1>11, <2>1, <2>2
<1> QED  BY <1>9, <1>10, <1>11 DEF Obeys

(* A command on the channel is answered, or it is an error.                *)
LEMMA ExecutesKeeps ==
  ASSUME DInv, Executes
  PROVE  DInv'
<1> DEFINE p == Head(out)
           n == p.to
<1>1. /\ ~dev.gone /\ out # << >> /\ out' = Tail(out) /\ p.kind = "data"
      /\ UNCHANGED <<pc, cmd, loc>>
  BY DEF Executes
<1>2. /\ n \in Nat /\ out' \in Seq(CommandPackets \union DataPackets)
  BY <1>1, FirstPacket DEF DataPackets, CommandPackets
<1>3. in \in Seq(Answers) /\ dev.says \in Seq(Answers) /\ dev \in Printers
  BY DEF DInv, Shape, Wires, Printer, Printers
<1>4. dev.punctual =>
        /\ in = << >> /\ out' = << >> /\ cmd = "none" /\ pc = "read"
        /\ Reading /\ n = loc.answered + 1 /\ dev.says = << >>
        /\ loc.reads = 5
  BY <1>1, ToldFacts, FirstPacket
<1>5. ASSUME in' \in Seq(Answers), dev' \in Printers,
             dev'.punctual = dev.punctual, dev'.gone = dev.gone,
             dev.punctual =>
               Incoming' \in {<<Data(n)>>, <<Data(0), Data(n)>>,
                              <<ErrorPacket(129)>>, <<ErrorPacket(132)>>}
      PROVE  DInv'
  <2>1. Shape'
    BY <1>1, <1>2, <1>5, SessionStays DEF Shape, Wires, Printer
  <2>2. Tidy'
    <3> SUFFICES ASSUME dev.punctual PROVE Tidy'
      BY <1>5 DEF Tidy
    <3>1. Reading'
      BY <1>1, <1>4, <1>5 DEF Reading
    <3> QED  BY <1>1, <1>4, <3>1 DEF Tidy, Mute
  <2> QED  BY <2>1, <2>2 DEF DInv
<1>6. Data(n) \in Answers /\ Data(0) \in Answers
      /\ ErrorPacket(129) \in Answers /\ ErrorPacket(132) \in Answers
  BY <1>2, DataFacts
<1> HIDE DEF n
<1>7. ASSUME NEW e \in {129, 132}, in' = Append(in, ErrorPacket(e)), dev' = dev
      PROVE  DInv'
  <2>1. in' \in Seq(Answers)
    BY <1>3, <1>6, <1>7
  <2>2. dev.punctual => Incoming' = <<ErrorPacket(e)>>
    <3> SUFFICES ASSUME dev.punctual PROVE Incoming' = <<ErrorPacket(e)>>
      OBVIOUS
    <3>1. in' = <<ErrorPacket(e)>> /\ dev'.says = << >>
      BY <1>4, <1>7
    <3>2. in' \o << >> = in'
      BY <2>1, ConcatEmptySeq
    <3> QED  BY <3>1, <3>2 DEF Incoming
  <2>3. Incoming' = <<ErrorPacket(e)>> =>
          Incoming' \in {<<ErrorPacket(129)>>, <<ErrorPacket(132)>>}
    OBVIOUS
  <2> QED  BY <1>3, <1>5, <1>7, <2>1, <2>2, <2>3
<1>8. ASSUME NEW says \in {<<Data(n)>>, <<Data(0), Data(n)>>},
             in' = in, dev' \in Printers, dev'.punctual = dev.punctual,
             dev'.gone = dev.gone, dev'.says = dev.says \o says
      PROVE  DInv'
  <2>1. says \in Seq(Answers)
    <3>1. <<Data(n)>> \in Seq(Answers) /\ <<Data(0), Data(n)>> \in Seq(Answers)
      BY <1>6
    <3> QED  BY <1>8, <3>1, Zenon
  <2>2. ASSUME dev.punctual PROVE Incoming' = says
    <3>1. Incoming' = << >> \o (<< >> \o says)
      BY <1>4, <1>8, <2>2 DEF Incoming
    <3>2. << >> \o says = says
      BY <2>1, ConcatEmptySeq
    <3> QED  BY <3>1, <3>2
  <2> QED  BY <1>3, <1>5, <1>8, <2>2
<1>9. CASE /\ ~Knows(p) \/ dev.credit = 0
           /\ in' = Append(in, ErrorPacket(IF Knows(p) THEN 129 ELSE 132))
           /\ UNCHANGED dev
  <2>1. \E e \in {129, 132} : in' = Append(in, ErrorPacket(e))
    BY <1>9
  <2> QED  BY <1>7, <1>9, <2>1
<1>10. ASSUME dev.credit > 0, in' = in
       PROVE  /\ dev' = [dev EXCEPT !.credit = @ - 1, !.executed = n,
                                    !.says = Append(@, Data(n))] => DInv'
              /\ dev' = [Troubled EXCEPT !.credit = @ - 1, !.executed = n,
                                         !.says = @ \o <<Data(0), Data(n)>>]
                    => DInv'
  <2>1. dev.credit - 1 \in Nat
    BY <1>3, <1>10 DEF Printers
  <2>2. ASSUME dev' = [dev EXCEPT !.credit = @ - 1, !.executed = n,
                                  !.says = Append(@, Data(n))]
        PROVE  DInv'
    <3>1. Append(dev.says, Data(n)) \in Seq(Answers)
          /\ Append(dev.says, Data(n)) = dev.says \o <<Data(n)>>
      BY <1>3, <1>6, AppendIsConcat
    <3>2. /\ dev' \in Printers /\ dev'.punctual = dev.punctual
          /\ dev'.gone = dev.gone /\ dev'.says = Append(dev.says, Data(n))
      BY <1>2, <1>3, <2>1, <2>2, <3>1 DEF Printers
    <3> QED  BY <1>8, <1>10, <3>1, <3>2
  <2>3. ASSUME dev' = [Troubled EXCEPT !.credit = @ - 1, !.executed = n,
                                       !.says = @ \o <<Data(0), Data(n)>>]
        PROVE  DInv'
    <3> DEFINE says == dev.says \o <<Data(0), Data(n)>>
    <3>1. says \in Seq(Answers)
      BY <1>3, <1>6, ConcatProperties
    <3>2. /\ Troubled \in Printers /\ Troubled.punctual = dev.punctual
          /\ Troubled.gone = dev.gone /\ Troubled.says = dev.says
          /\ Troubled.credit = dev.credit
      BY <1>3 DEF Troubled, Printers
    <3>3. dev' = [Troubled EXCEPT !.credit = Troubled.credit - 1,
                                  !.executed = n, !.says = says]
      BY <2>3, <3>2
    <3> HIDE DEF says
    <3>4. /\ dev' \in Printers /\ dev'.punctual = dev.punctual
          /\ dev'.gone = dev.gone /\ dev'.says = says
      BY <1>2, <2>1, <3>1, <3>2, <3>3 DEF Printers
    <3> QED  BY <1>8, <1>10, <3>4 DEF says
  <2> QED  BY <2>2, <2>3
<1>11. CASE dev.credit > 0 /\ in' = in
  <2>1. \/ dev' = [dev EXCEPT !.credit = @ - 1, !.executed = n,
                              !.says = Append(@, Data(n))]
        \/ dev' = [Troubled EXCEPT !.credit = @ - 1, !.executed = n,
                                   !.says = @ \o <<Data(0), Data(n)>>]
        \/ in' = Append(in, ErrorPacket(IF Knows(p) THEN 129 ELSE 132))
           /\ UNCHANGED dev /\ (~Knows(p) \/ dev.credit = 0)
    BY DEF Executes, n
  <2> QED  BY <1>9, <1>10, <1>11, <2>1
<1>12. \/ dev.credit > 0 /\ in' = in
       \/ in' = Append(in, ErrorPacket(IF Knows(p) THEN 129 ELSE 132))
          /\ UNCHANGED dev /\ (~Knows(p) \/ dev.credit = 0)
  BY DEF Executes
<1> QED  BY <1>9, <1>11, <1>12

LEMMA SpeaksKeeps ==
  ASSUME DInv, Speaks
  PROVE  DInv'
<1>1. /\ ~dev.gone /\ dev.says # << >> /\ dev.given > 0
      /\ in' = Append(in, Head(dev.says))
      /\ dev' = [dev EXCEPT !.says = Tail(@), !.given = @ - 1]
      /\ UNCHANGED <<pc, cmd, loc, out>>
  BY DEF Speaks
<1>2. in \in Seq(Answers) /\ dev.says \in Seq(Answers) /\ dev \in Printers
  BY DEF DInv, Shape, Wires, Printer, Printers
<1>3. Head(dev.says) \in Answers /\ Tail(dev.says) \in Seq(Answers)
  BY <1>1, <1>2
<1>4. in' \in Seq(Answers)
  BY <1>1, <1>2, <1>3
<1>5. dev.given - 1 \in Nat
  BY <1>1, <1>2 DEF Printers
<1>6. /\ dev' \in Printers /\ dev'.punctual = dev.punctual
      /\ dev'.gone = dev.gone /\ dev'.says = Tail(dev.says)
  BY <1>1, <1>2, <1>3, <1>5 DEF Printers
<1>7. Shape'
  BY <1>1, <1>4, <1>6, SessionStays DEF Shape, Wires, Printer, DInv
<1>8. Tidy'
  <2> SUFFICES ASSUME dev.punctual PROVE Tidy'
    BY <1>6 DEF Tidy
  <2>1. pc = "read"
    BY <1>1 DEF DInv, Tidy, Mute
  <2>2. cmd = "none" /\ Reading
    BY <2>1, ReadingFacts
  <2>3. Incoming' = Incoming
    BY <1>1, <1>2, <1>6, MoveAlong DEF Incoming
  <2>4. Reading'
    BY <1>1, <1>6, <2>2, <2>3 DEF Reading
  <2> QED  BY <1>1, <2>1, <2>2, <2>4 DEF Tidy, Mute
<1> QED  BY <1>7, <1>8 DEF DInv

LEMMA UnpluggedKeeps ==
  ASSUME DInv, Unplugged
  PROVE  DInv'
<1>1. /\ dev' = [Troubled EXCEPT !.gone = TRUE]
      /\ UNCHANGED <<pc, cmd, loc, out, in>>
  BY DEF Unplugged
<1>2. dev \in Printers
  BY DEF DInv, Shape, Printer, Printers
<1>3. Troubled \in Printers /\ Troubled.punctual = dev.punctual
      /\ Troubled.says = dev.says
  BY <1>2 DEF Troubled, Printers
<1>4. /\ dev' \in Printers /\ dev'.punctual = dev.punctual /\ dev'.gone
      /\ dev'.says = dev.says
  BY <1>1, <1>3 DEF Printers
<1>5. Shape'
  BY <1>1, <1>4, SessionStays DEF Shape, Wires, Printer, DInv
<1>6. Tidy'
  <2> SUFFICES ASSUME dev.punctual PROVE Tidy'
    BY <1>4 DEF Tidy
  <2>1. Mute'
    BY <1>4 DEF Mute
  <2>2. Asking => Asking'
    BY <1>1, <1>4 DEF Asking
  <2>3. Reading => Reading'
    BY <1>1, <1>4 DEF Reading, Incoming
  <2>4. Still => Still'
    BY <1>1, <1>4 DEF Still
  <2> QED  BY <1>1, <2>1, <2>2, <2>3, <2>4 DEF DInv, Tidy
<1> QED  BY <1>5, <1>6 DEF DInv

-----------------------------------------------------------------------------
LEMMA DInvInit == Init => DInv
<1> SUFFICES ASSUME Init PROVE DInv
  OBVIOUS
<1>1. /\ pc = "flush" /\ cmd = "none" /\ out = << >>
      /\ loc = [tries |-> 0, opens |-> 0, from |-> "init", count |-> 0,
                retries |-> 0, asked |-> 0, socket |-> 0, reads |-> 0,
                answered |-> 0, got |-> 0]
      /\ (in = << >> \/ in = <<Data(0)>>)
  BY DEF Init
<1>2. dev.says = << >> /\ dev \in Printers
  <2>1. << >> \in Seq(Answers)
    OBVIOUS
  <2>2. dev \in [open : BOOLEAN, keeps : BOOLEAN, punctual : BOOLEAN,
                gone : {FALSE}, credit : {0}, given : {0}, says : {<< >>},
                executed : {0}, troubles : {0}]
    BY DEF Init
  <2>3. dev.says = << >>
    BY <2>2
  <2>4. PICK o \in BOOLEAN, k \in BOOLEAN, u \in BOOLEAN :
          dev = [open |-> o, keeps |-> k, punctual |-> u, gone |-> FALSE,
                 credit |-> 0, given |-> 0, says |-> << >>, executed |-> 0,
                 troubles |-> 0]
    BY <2>2, Zenon
  <2> QED  BY <2>1, <2>4 DEF Printers
<1>3. Data(0) \in Answers
  BY DataFacts
<1>4. Wires
  <2>1. << >> \in Seq(Answers) /\ <<Data(0)>> \in Seq(Answers)
        /\ << >> \in Seq(CommandPackets \union DataPackets)
    BY <1>3
  <2> QED  BY <1>1, <2>1, Zenon DEF Wires
<1>5. Locals
  BY <1>1, ExchangesAssumption DEF Locals
<1>6. Rounds
  BY <1>1 DEF Rounds
<1>7. Shape
  BY <1>1, <1>2, <1>4, <1>5, <1>6 DEF Shape, Places, Printer, Waits
<1>8. Tidy
  BY <1>1, <1>2 DEF Tidy, Mute, Still
<1> QED  BY <1>7, <1>8 DEF DInv

LEMMA DInvStep == DInv /\ [Next]_vars => DInv'
<1> SUFFICES ASSUME DInv, [Next]_vars PROVE DInv'
  OBVIOUS
<1>1. CASE UNCHANGED vars
  BY <1>1 DEF vars, DInv, Shape, Tidy, Wires, Printer, Waits, Locals, Rounds,
              Mute, Asking, Reading, Incoming, Still
<1>2. CASE Session
  BY <1>2, FlushKeeps, EnterKeeps, InitKeeps, SocketKeeps, OpenKeeps,
     ReopenKeeps, DrainKeeps, StartKeeps, AskKeeps, RenewKeeps, GiveKeeps,
     WriteKeeps, ReadKeeps, CloseKeeps DEF Session
<1>3. CASE Over
  BY <1>1, <1>3 DEF Over
<1> QED  BY <1>1, <1>2, <1>3, ObeysKeeps, ExecutesKeeps, SpeaksKeeps,
            UnpluggedKeeps DEF Next

(* Every loop of retries of d4lib.c keeps within its bound, however often  *)
(* the printer is mute, late, busy or wrong, and no counter of credit ever *)
(* goes below zero.                                                        *)
THEOREM SessionTypes == Spec => []TypeOK
<1>1. ASSUME DInv PROVE TypeOK
  <2>1. cmd \in Commands \union {"none"}
    BY <1>1 DEF DInv, Shape, Waits, Awaits, Commands, AnswerLength
  <2>2. /\ loc.tries \in 0 .. 5 /\ loc.opens \in 0 .. 4
        /\ loc.count \in 0 .. 11 /\ loc.retries \in -3 .. 9
        /\ loc.reads \in -1 .. 5 /\ loc.answered \in 0 .. Exchanges
    BY <1>1 DEF DInv, Shape, Locals
  <2>3. dev.credit \in Nat /\ dev.given \in Nat
    BY <1>1 DEF DInv, Shape, Printer, Printers
  <2> QED  BY <2>1, <2>2, <2>3 DEF TypeOK
<1>2. Spec => []DInv
  BY DInvInit, DInvStep, PTL DEF Spec
<1> QED  BY <1>1, <1>2, PTL

(* readAnswer never compares an answer with the command it is taken for.   *)
(* If the printer answers in time or not at all it need not: the first     *)
(* packet on the wire is that answer, though earlier tries may have failed *)
(* and data may be waiting.                                                *)
THEOREM AnswersInStep == Spec => []InStep
<1>1. ASSUME DInv PROVE InStep
  <2> SUFFICES ASSUME dev.punctual, cmd # "none", in # << >>
               PROVE  Head(in).fresh
    BY DEF InStep
  <2>1. Asking
    BY <1>1 DEF DInv, Tidy
  <2>2. in[1].fresh
    BY <2>1 DEF Asking
  <2>3. in \in Seq(Answers)
    BY <1>1 DEF DInv, Shape, Wires
  <2> QED  BY <2>2, <2>3
<1>2. Spec => []DInv
  BY DInvInit, DInvStep, PTL DEF Spec
<1> QED  BY <1>1, <1>2, PTL

-----------------------------------------------------------------------------
(* Packets of a set M on a wire: none, or at most one and that in V.       *)
NoneOf(s, M) == \A i \in 1 .. Len(s) : s[i] \notin M

OneOf(s, M, V) ==
  /\ \A i \in 1 .. Len(s) : s[i] \in M => s[i] \in V
  /\ \A i, j \in 1 .. Len(s) : s[i] \in M /\ s[j] \in M => i = j

(* The packets that tell of a command: those that pass for its answer.     *)
Telling == {p \in Answers : Passes(p)}

TellingOf(n) == {p \in Telling : p.value = n}
CommandOf(n) == {p \in DataPackets : p.to = n}

(* The command of this exchange is not executed: it may be on its way.     *)
Waiting ==
  /\ dev.executed = loc.answered /\ dev.says = << >>
  /\ NoneOf(in, Telling)
  /\ OneOf(out, DataPackets, CommandOf(loc.answered + 1))

(* It is, and nobody has been told.                                        *)
Served ==
  /\ dev.executed = loc.answered + 1
  /\ dev.says \in {<< >>, <<Data(loc.answered + 1)>>,
                   <<Data(0), Data(loc.answered + 1)>>}
  /\ IF dev.says = << >> THEN OneOf(in, Telling, TellingOf(loc.answered + 1))
     ELSE NoneOf(in, Telling)
  /\ NoneOf(out, DataPackets)

Once ==
  /\ loc.got = loc.answered
  /\ \/ Waiting /\ (pc \notin {"read", "close", "over"} => NoneOf(out, DataPackets))
     \/ Served /\ pc \in {"read", "close", "over"}

(* Every packet that is not the one waited for was a trouble.              *)
OnWires ==
  IF dev.gone THEN Len(in) ELSE Len(in) + Len(out) + Len(dev.says)

Budget ==
  /\ dev.troubles <= MaxTroubles
  /\ pc = "read" => OnWires <= dev.troubles + loc.reads - 4
  /\ pc = "flush" /\ ~dev.gone => Len(out) <= dev.troubles
  /\ pc \notin {"read", "close", "over", "flush"} /\ ~dev.gone =>
       OnWires <= dev.troubles + IF cmd = "none" THEN 0 ELSE 1

(* The answer is never taken from what readAnswer gives up with.           *)
Patient == dev.punctual \/ MaxTroubles <= 5

OInv == DInv /\ Once /\ Budget /\ Patient

LEMMA NoneAppend ==
  ASSUME NEW S, NEW s \in Seq(S), NEW a, NEW M
  PROVE  NoneOf(Append(s, a), M) <=> NoneOf(s, M) /\ a \notin M
<1>1. /\ Len(s) \in Nat /\ Len(Append(s, a)) = Len(s) + 1
      /\ \A i \in 1 .. Len(s) : Append(s, a)[i] = s[i]
      /\ Append(s, a)[Len(s) + 1] = a
  OBVIOUS
<1> QED  BY <1>1 DEF NoneOf

LEMMA NoneTail ==
  ASSUME NEW S, NEW s \in Seq(S), s # << >>, NEW M, NoneOf(s, M)
  PROVE  NoneOf(Tail(s), M) /\ Head(s) \notin M
<1>1. /\ Len(s) \in Nat \ {0} /\ Len(Tail(s)) = Len(s) - 1
      /\ \A i \in 1 .. Len(s) - 1 : Tail(s)[i] = s[i + 1]
      /\ Head(s) = s[1]
  BY EmptySeq
<1> QED  BY <1>1 DEF NoneOf

LEMMA NoneIsOne ==
  ASSUME NEW s, NEW M, NEW V, NoneOf(s, M)
  PROVE  OneOf(s, M, V)
BY DEF NoneOf, OneOf

LEMMA OneAppend ==
  ASSUME NEW S, NEW s \in Seq(S), NEW a, NEW M, NEW V,
         \/ OneOf(s, M, V) /\ a \notin M
         \/ NoneOf(s, M) /\ (a \in M => a \in V)
  PROVE  OneOf(Append(s, a), M, V)
<1> DEFINE t == Append(s, a)
<1>1. /\ Len(s) \in Nat /\ Len(t) = Len(s) + 1
      /\ \A i \in 1 .. Len(s) : t[i] = s[i]
      /\ t[Len(s) + 1] = a
  OBVIOUS
<1> HIDE DEF t
<1>2. \A i \in 1 .. Len(t) : i \in 1 .. Len(s) \/ i = Len(s) + 1
  BY <1>1
<1>3. CASE OneOf(s, M, V) /\ a \notin M
  BY <1>1, <1>2, <1>3 DEF OneOf, t
<1>4. CASE NoneOf(s, M) /\ (a \in M => a \in V)
  BY <1>1, <1>2, <1>4 DEF OneOf, NoneOf, t
<1> QED  BY <1>3, <1>4

LEMMA OneTail ==
  ASSUME NEW S, NEW s \in Seq(S), s # << >>, NEW M, NEW V, OneOf(s, M, V)
  PROVE  /\ OneOf(Tail(s), M, V)
         /\ Head(s) \in M => Head(s) \in V /\ NoneOf(Tail(s), M)
<1> DEFINE t == Tail(s)
<1>1. /\ Len(s) \in Nat \ {0} /\ Len(t) = Len(s) - 1
      /\ \A i \in 1 .. Len(s) - 1 : t[i] = s[i + 1]
      /\ Head(s) = s[1]
  BY EmptySeq
<1> HIDE DEF t
<1>2. \A i \in 1 .. Len(t) : i + 1 \in 1 .. Len(s) /\ t[i] = s[i + 1] /\ i + 1 # 1
  BY <1>1
<1>3. 1 \in 1 .. Len(s)
  BY <1>1
<1>4. OneOf(t, M, V)
  <2>1. \A i \in 1 .. Len(t) : t[i] \in M => t[i] \in V
    BY <1>2 DEF OneOf
  <2>2. ASSUME NEW i \in 1 .. Len(t), NEW j \in 1 .. Len(t),
               t[i] \in M, t[j] \in M
        PROVE  i = j
    <3>1. i + 1 = j + 1
      BY <1>2, <2>2 DEF OneOf
    <3>2. i \in Int /\ j \in Int
      BY <1>1
    <3> QED  BY <3>1, <3>2
  <2> QED  BY <2>1, <2>2 DEF OneOf
<1>5. Head(s) \in M => Head(s) \in V /\ NoneOf(t, M)
  BY <1>1, <1>2, <1>3 DEF OneOf, NoneOf
<1> QED  BY <1>4, <1>5 DEF t

LEMMA StaleKinds ==
  ASSUME NEW S, NEW s \in Seq(S), NEW M, NEW V,
         \A p \in S : [p EXCEPT !.fresh = FALSE] \in M => p \in M,
         \A p \in V : [p EXCEPT !.fresh = FALSE] \in V
  PROVE  /\ NoneOf(s, M) => NoneOf(Stale(s), M)
         /\ OneOf(s, M, V) => OneOf(Stale(s), M, V)
         /\ Len(Stale(s)) = Len(s)
<1>1. DOMAIN s = 1 .. Len(s) /\ Len(s) \in Nat
  OBVIOUS
<1>2. \A i \in 1 .. Len(s) : s[i] \in S
  OBVIOUS
<1> DEFINE t == Stale(s)
<1>3. t = [i \in 1 .. Len(s) |-> [s[i] EXCEPT !.fresh = FALSE]]
  BY <1>1 DEF Stale
<1>4. Len(t) = Len(s) /\ \A i \in 1 .. Len(s) : t[i] = [s[i] EXCEPT !.fresh = FALSE]
  BY <1>1, <1>3
<1> HIDE DEF t
<1>5. \A i \in 1 .. Len(t) : t[i] \in M => s[i] \in M
  BY <1>2, <1>4, Zenon
<1>6. \A i \in 1 .. Len(t) : s[i] \in V => t[i] \in V
  BY <1>4, Zenon
<1>7. NoneOf(s, M) => NoneOf(t, M)
  BY <1>4, <1>5 DEF NoneOf
<1>8. OneOf(s, M, V) => OneOf(t, M, V)
  BY <1>4, <1>5, <1>6 DEF OneOf
<1> QED  BY <1>4, <1>7, <1>8 DEF t

-----------------------------------------------------------------------------
(* What a function of the session leaves alone: the commands are counted   *)
(* where one is answered, and read where one was sent.                     *)
Moves ==
  /\ pc' \in Places \ {"read"} /\ (pc = "close" => pc' = "over")
  /\ loc'.answered = loc.answered /\ loc'.got = loc.got

LEMMA NextRoundCounts ==
  ASSUME DInv, NEW left, NextRound(left)
  PROVE  pc' \in {"ask", "give"} /\ loc'.answered = loc.answered /\ loc'.got = loc.got
BY DEF NextRound, After, DInv, Shape, Locals

LEMMA GotoCounts ==
  ASSUME DInv, NEW p, Goto(p)
  PROVE  pc' = p /\ loc'.answered = loc.answered /\ loc'.got = loc.got
BY DEF Goto

LEMMA OpenReturnsCounts ==
  ASSUME DInv, NEW ok \in BOOLEAN, OpenReturns(ok)
  PROVE  /\ pc' \in {"ask", "give", "drain", "over"}
         /\ loc'.answered = loc.answered /\ loc'.got = loc.got
<1>1. CASE loc.from = "ask"
  BY <1>1, NextRoundCounts DEF OpenReturns
<1>2. CASE loc.from # "ask"
  <2>1. /\ pc' \in {"drain", "over"} /\ loc' = [loc EXCEPT !.opens = 0]
    BY <1>2 DEF OpenReturns
  <2> QED  BY <2>1 DEF DInv, Shape, Locals
<1> QED  BY <1>1, <1>2

(* What the session does is to send, to receive, or one of four steps.     *)
LEMMA SessionMoves ==
  ASSUME DInv, Session
  PROVE  \/ Flush \/ StartExchange \/ WriteData \/ ReadData
         \/ \E c \in Commands, socket \in Nat :
              /\ Send(c, socket) /\ pc \in DOMAIN Awaits /\ c = Awaits[pc]
              /\ pc \in {"ask", "open", "reopen"} => socket = loc.asked
         \/ \E c \in Commands : Receive(c) /\ Moves
<1> DEFINE Sends == \E c \in Commands, socket \in Nat :
                      /\ Send(c, socket) /\ pc \in DOMAIN Awaits /\ c = Awaits[pc]
                      /\ pc \in {"ask", "open", "reopen"} => socket = loc.asked
           Takes == \E c \in Commands : Receive(c) /\ Moves
<1>1. /\ Commands = {"enter", "init", "socket", "open", "close", "request", "credit"}
      /\ DOMAIN Awaits = {"enter", "init", "again", "socket", "find", "open",
                          "renew", "reopen", "close", "ask", "drain", "give"}
      /\ Awaits["enter"] = "enter" /\ Awaits["init"] = "init"
      /\ Awaits["again"] = "init" /\ Awaits["socket"] = "socket"
      /\ Awaits["find"] = "socket" /\ Awaits["open"] = "open"
      /\ Awaits["renew"] = "close" /\ Awaits["reopen"] = "close"
      /\ Awaits["close"] = "close" /\ Awaits["ask"] = "request"
      /\ Awaits["drain"] = "credit" /\ Awaits["give"] = "credit"
  BY DEF Commands, AnswerLength, Awaits
<1>2. loc.asked \in Nat /\ loc.socket \in Nat /\ 0 \in Nat
  BY DEF DInv, Shape, Locals
<1>3. ASSUME NEW c \in Commands, NEW socket \in Nat, Send(c, socket),
             pc \in DOMAIN Awaits, c = Awaits[pc],
             pc \in {"ask", "open", "reopen"} => socket = loc.asked
      PROVE  Sends
  BY <1>3
<1>4. ASSUME NEW c \in Commands, Receive(c), Moves
      PROVE  Takes
  BY <1>4
<1> HIDE DEF Sends, Takes
<1>5. ASSUME Retry, pc # "close" PROVE Moves
  <2>1. CASE loc.tries < 5
    BY <1>5, <2>1 DEF Retry, Moves, Places, DInv, Shape, Locals
  <2>2. CASE ~(loc.tries < 5)
    BY <1>5, <2>2, GotoCounts DEF Retry, Moves, Places
  <2> QED  BY <2>1, <2>2
<1>6. ASSUME NEW p \in Places \ {"read"}, Goto(p), pc = "close" => p = "over"
      PROVE  Moves
  BY <1>6, GotoCounts DEF Moves
<1>7. ASSUME NEW left, NextRound(left), pc # "close" PROVE Moves
  BY <1>7, NextRoundCounts DEF Moves, Places
<1>8. ASSUME NEW ok \in BOOLEAN, OpenReturns(ok), pc # "close" PROVE Moves
  BY <1>8, OpenReturnsCounts DEF Moves, Places
<1>9. CASE EnterIEEE
  <2>1. Send("enter", 0) => Sends
    BY <1>1, <1>2, <1>3, <1>9 DEF EnterIEEE
  <2>2. Receive("enter") /\ Moves => Takes
    BY <1>1, <1>4
  <2> QED  BY <1>5, <1>6, <1>9, <2>1, <2>2 DEF EnterIEEE, Places, Sends, Takes
<1>10. CASE InitPrinter
  <2>1. Send("init", 0) => Sends
    BY <1>1, <1>2, <1>3, <1>10 DEF InitPrinter
  <2>2. Receive("init") /\ Moves => Takes
    BY <1>1, <1>4
  <2> QED  BY <1>5, <1>6, <1>10, <2>1, <2>2 DEF InitPrinter, Places, Sends, Takes
<1>11. CASE GetSocketID
  <2>1. Send("socket", 0) => Sends
    BY <1>1, <1>2, <1>3, <1>11 DEF GetSocketID
  <2>2. Receive("socket") /\ Moves => Takes
    BY <1>1, <1>4
  <2>3. ASSUME NEW f, loc' = [loc EXCEPT !.socket = f, !.asked = f],
               pc' \in {"over", "open"}
        PROVE  Moves
    BY <1>11, <2>3 DEF Moves, GetSocketID, Places, DInv, Shape, Locals
  <2>4. Send("socket", 0) \/ (Receive("socket") /\ Moves)
    <3>1. CASE Receive("socket") /\ ~Send("socket", 0)
      <4>1. /\ pc' = IF SocketFound = 0 THEN "over" ELSE "open"
            /\ loc' = [loc EXCEPT !.socket = SocketFound, !.asked = SocketFound]
        BY <1>11, <3>1 DEF GetSocketID
      <4>2. pc' \in {"over", "open"}
        BY <4>1
      <4> QED  BY <2>3, <3>1, <4>1, <4>2
    <3> QED  BY <1>11, <3>1 DEF GetSocketID
  <2> QED  BY <2>1, <2>2, <2>4 DEF Sends, Takes
<1>12. CASE OpenChannel
  <2>1. Send("open", loc.asked) => Sends
    BY <1>1, <1>2, <1>3, <1>12 DEF OpenChannel
  <2>2. Receive("open") /\ Moves => Takes
    BY <1>1, <1>4
  <2>3. pc # "close" /\ (Send("open", loc.asked) \/
          (Receive("open") /\ (OpenReturns(TRUE) \/ OpenReturns(FALSE) \/ Goto("reopen"))))
    BY <1>12 DEF OpenChannel
  <2> QED  BY <1>6, <1>8, <2>1, <2>2, <2>3 DEF Places, Sends, Takes
<1>13. CASE Reopen
  <2>1. Send("close", loc.asked) => Sends
    BY <1>1, <1>2, <1>3, <1>13 DEF Reopen
  <2>2. Receive("close") /\ Moves => Takes
    BY <1>1, <1>4
  <2>3. OpenAgain => Moves
    <3>1. pc # "close"
      BY <1>13 DEF Reopen
    <3>2. CASE loc.opens < 4
      BY <3>1, <3>2 DEF OpenAgain, Moves, Places, DInv, Shape, Locals
    <3>3. CASE ~(loc.opens < 4)
      BY <3>1, <3>3, <1>8 DEF OpenAgain
    <3> QED  BY <3>2, <3>3
  <2> QED  BY <1>13, <2>1, <2>2, <2>3 DEF Reopen, Sends, Takes
<1>14. CASE Drain
  <2>1. Send("credit", loc.socket) => Sends
    BY <1>1, <1>2, <1>3, <1>14 DEF Drain
  <2>2. Receive("credit") /\ Moves => Takes
    BY <1>1, <1>4
  <2> QED  BY <1>6, <1>14, <2>1, <2>2 DEF Drain, Places, Sends, Takes
<1>15. CASE AskForCredit
  <2>1. Send("request", loc.asked) => Sends
    BY <1>1, <1>2, <1>3, <1>15 DEF AskForCredit
  <2>2. Receive("request") /\ Moves => Takes
    BY <1>1, <1>4
  <2>3. NoCredit => Moves
    <3>1. pc # "close" /\ pc = "ask"
      BY <1>15 DEF AskForCredit
    <3>2. CASE loc.count < 2 /\ loc.retries >= 0
      BY <3>1, <3>2 DEF NoCredit, Moves, Places, DInv, Shape, Locals
    <3>3. CASE ~(loc.count < 2 /\ loc.retries >= 0)
      BY <3>1, <3>3, <1>7 DEF NoCredit
    <3> QED  BY <3>2, <3>3
  <2>4. pc = "ask" /\ (Send("request", loc.asked) \/
          (Receive("request") /\
             (NoCredit \/ Goto("give") \/ Goto("close") \/ Goto("renew"))))
    <3>1. CASE Receive("request") /\ ~Send("request", loc.asked)
      <4>1. Credit \in Int
        BY <1>1, <3>1, ResultTypes
      <4>2. CASE Credit > 0
        BY <1>15, <3>1, <4>2 DEF AskForCredit, After
      <4>3. CASE Credit = 0
        BY <1>15, <3>1, <4>3 DEF AskForCredit
      <4>4. CASE Credit < 0
        BY <1>15, <3>1, <4>1, <4>4 DEF AskForCredit
      <4> QED  BY <4>1, <4>2, <4>3, <4>4
    <3> QED  BY <1>15, <3>1 DEF AskForCredit
  <2> QED  BY <1>6, <2>1, <2>2, <2>3, <2>4 DEF Places, Sends, Takes
<1>16. CASE Renew
  <2>1. ASSUME NEW c \in {"close", "socket", "init"},
               NEW socket \in {0, loc.asked}, Send(c, socket),
               pc \in DOMAIN Awaits, c = Awaits[pc], pc \notin {"ask", "open", "reopen"}
        PROVE  Sends
    BY <1>1, <1>2, <1>3, <2>1
  <2>2. ASSUME NEW f, loc' = [loc EXCEPT !.asked = f], pc' = "again", pc = "find"
        PROVE  Moves
    BY <2>2 DEF Moves, Places, DInv, Shape, Locals
  <2>3. ASSUME loc' = [loc EXCEPT !.from = "ask"], pc' = "open", pc = "again"
        PROVE  Moves
    BY <2>3 DEF Moves, Places, DInv, Shape, Locals
  <2>4. CASE pc = "renew"
    <3>1. Send("close", loc.asked) => Sends
      BY <1>1, <2>1, <2>4
    <3>2. Send("close", loc.asked) \/ (Receive("close") /\ Goto("find"))
      BY <1>16, <2>4 DEF Renew
    <3> QED  BY <1>1, <1>4, <1>6, <2>4, <3>1, <3>2 DEF Places, Sends, Takes
  <2>5. CASE pc = "find"
    <3>1. Send("socket", 0) => Sends
      BY <1>1, <2>1, <2>5
    <3>2. \/ Send("socket", 0)
          \/ Receive("socket") /\ pc' = "again"
             /\ loc' = [loc EXCEPT !.asked = SocketFound]
      BY <1>16, <2>5 DEF Renew
    <3>3. Receive("socket") /\ Moves => Takes
      BY <1>1, <1>4
    <3> QED  BY <2>2, <2>5, <3>1, <3>2, <3>3 DEF Sends, Takes
  <2>6. CASE pc = "again"
    <3>1. Send("init", 0) => Sends
      BY <1>1, <2>1, <2>6
    <3>2. \/ Send("init", 0)
          \/ Receive("init") /\ pc' = "open" /\ loc' = [loc EXCEPT !.from = "ask"]
          \/ Receive("init") /\ NextRound(loc.retries)
      BY <1>16, <2>6 DEF Renew
    <3>3. Receive("init") /\ Moves => Takes
      BY <1>1, <1>4
    <3> QED  BY <1>7, <2>3, <2>6, <3>1, <3>2, <3>3 DEF Sends, Takes
  <2>7. pc \in {"renew", "find", "again"}
    BY <1>16 DEF Renew
  <2> QED  BY <2>4, <2>5, <2>6, <2>7
<1>17. CASE GiveCredit
  <2>1. Send("credit", loc.socket) => Sends
    BY <1>1, <1>2, <1>3, <1>17 DEF GiveCredit
  <2>2. Receive("credit") /\ Moves => Takes
    BY <1>1, <1>4
  <2> QED  BY <1>6, <1>17, <2>1, <2>2 DEF GiveCredit, After, Places, Sends, Takes
<1>18. CASE CloseChannel
  <2>1. Send("close", loc.socket) => Sends
    BY <1>1, <1>2, <1>3, <1>18 DEF CloseChannel
  <2>2. Receive("close") /\ Moves => Takes
    BY <1>1, <1>4
  <2> QED  BY <1>6, <1>18, <2>1, <2>2 DEF CloseChannel, Places, Sends, Takes
<1> QED  BY <1>9, <1>10, <1>11, <1>12, <1>13, <1>14, <1>15, <1>16, <1>17, <1>18
         DEF Session, Sends, Takes

-----------------------------------------------------------------------------
(* The steps of the session.                                               *)
LEMMA OnceTypes ==
  ASSUME DInv
  PROVE  /\ in \in Seq(Answers) /\ out \in Seq(CommandPackets \union DataPackets)
         /\ dev.says \in Seq(Answers) /\ dev \in Printers
         /\ Len(in) \in Nat /\ Len(out) \in Nat /\ Len(dev.says) \in Nat
         /\ dev.troubles \in Nat /\ dev.gone \in BOOLEAN
         /\ loc.answered \in Nat /\ loc.reads \in -1 .. 5 /\ loc.got \in Nat
<1>1. /\ in \in Seq(Answers) /\ out \in Seq(CommandPackets \union DataPackets)
      /\ dev \in Printers
  BY DEF DInv, Shape, Wires, Printer
<1>2. dev.says \in Seq(Answers) /\ dev.troubles \in Nat /\ dev.gone \in BOOLEAN
  BY <1>1 DEF Printers
<1>3. loc.answered \in Nat /\ loc.reads \in -1 .. 5 /\ loc.got \in Nat
  BY ExchangesAssumption DEF DInv, Shape, Locals
<1> QED  BY <1>1, <1>2, <1>3

LEMMA SendOnce ==
  ASSUME OInv, NEW c \in Commands, NEW socket \in Nat, Send(c, socket),
         pc \in DOMAIN Awaits
  PROVE  Once' /\ Budget'
<1>1. pc' = pc /\ cmd = "none" /\ cmd' = c /\ loc' = loc /\ dev' = dev
      /\ c # "none" /\ pc # "read" /\ pc # "flush"
  BY DEF Send, Commands, AnswerLength, Awaits
<1> DEFINE p == [kind |-> "cmd", to |-> c, socket |-> socket, fresh |-> TRUE]
           s == Stale(out)
           t == Stale(in)
           n == loc.answered + 1
<1>2. out' = Append(s, p) /\ in' = t
  BY DEF Send
<1>3. p \in CommandPackets /\ p \notin DataPackets
  BY DEF CommandPackets, DataPackets
<1>4. s \in Seq(CommandPackets \union DataPackets) /\ t \in Seq(Answers)
  BY StaleWires DEF OInv, DInv, Shape
<1>5. /\ NoneOf(in, Telling) => NoneOf(t, Telling)
      /\ OneOf(in, Telling, TellingOf(n)) => OneOf(t, Telling, TellingOf(n))
      /\ Len(t) = Len(in)
  <2>1. \A q \in Answers : [q EXCEPT !.fresh = FALSE] \in Telling => q \in Telling
    BY DEF Telling, Passes, Answers
  <2>2. \A q \in TellingOf(n) : [q EXCEPT !.fresh = FALSE] \in TellingOf(n)
    BY DEF Telling, TellingOf, Passes, Answers
  <2> QED  BY <2>1, <2>2, OnceTypes, StaleKinds DEF OInv
<1>6. /\ NoneOf(out, DataPackets) => NoneOf(s, DataPackets)
      /\ OneOf(out, DataPackets, CommandOf(n)) => OneOf(s, DataPackets, CommandOf(n))
      /\ Len(s) = Len(out)
  <2>1. \A q \in CommandPackets \union DataPackets :
          [q EXCEPT !.fresh = FALSE] \in DataPackets => q \in DataPackets
    BY DEF CommandPackets, DataPackets
  <2>2. \A q \in CommandOf(n) : [q EXCEPT !.fresh = FALSE] \in CommandOf(n)
    BY DEF CommandOf, DataPackets
  <2> QED  BY <2>1, <2>2, OnceTypes, StaleKinds DEF OInv
<1> HIDE DEF p, s, t
<1>7. /\ NoneOf(s, DataPackets) => NoneOf(out', DataPackets)
      /\ OneOf(s, DataPackets, CommandOf(n)) => OneOf(out', DataPackets, CommandOf(n))
      /\ Len(out') = Len(out) + 1
  BY <1>2, <1>3, <1>4, <1>6, NoneAppend, OneAppend
<1>8. loc'.answered + 1 = n
  BY <1>1
<1> HIDE DEF n
<1>9. Waiting => Waiting'
  BY <1>1, <1>2, <1>5, <1>6, <1>7, <1>8 DEF Waiting, n
<1>10. Served => Served'
  BY <1>1, <1>2, <1>5, <1>6, <1>7, <1>8 DEF Served, n
<1>11. Once'
  BY <1>1, <1>6, <1>7, <1>9, <1>10 DEF Once, OInv
<1>12. Budget'
  <2>1. Len(in') = Len(in) /\ Len(out') = Len(out) + 1
    BY <1>2, <1>5, <1>7
  <2>2. /\ Len(in) \in Nat /\ Len(out) \in Nat /\ Len(dev.says) \in Nat
        /\ dev.troubles \in Nat
    BY OnceTypes DEF OInv
  <2>3. ~dev.gone => OnWires' = OnWires + 1 /\ OnWires \in Nat
    <3> SUFFICES ASSUME ~dev.gone PROVE OnWires' = OnWires + 1 /\ OnWires \in Nat
      OBVIOUS
    <3>1. OnWires = Len(in) + Len(out) + Len(dev.says)
      BY DEF OnWires
    <3>2. OnWires' = Len(in') + Len(out') + Len(dev.says)
      BY <1>1 DEF OnWires
    <3>3. \A i, j, k \in Nat : i + (j + 1) + k = (i + j + k) + 1 /\ i + j + k \in Nat
      OBVIOUS
    <3>4. OnWires' = Len(in) + (Len(out) + 1) + Len(dev.says)
      BY <2>1, <3>2, Zenon
    <3>5. /\ Len(in) + (Len(out) + 1) + Len(dev.says)
               = (Len(in) + Len(out) + Len(dev.says)) + 1
          /\ Len(in) + Len(out) + Len(dev.says) \in Nat
      BY <2>2, <3>3, Zenon
    <3> QED  BY <3>1, <3>4, <3>5, Zenon
  <2>4. ~dev.gone /\ pc \notin {"close", "over"} => OnWires <= dev.troubles
    BY <1>1, <2>2, <2>3 DEF Budget, OInv
  <2>5. dev.troubles <= MaxTroubles
    BY DEF Budget, OInv
  <2> QED  BY <1>1, <2>2, <2>3, <2>4, <2>5 DEF Budget
<1> QED  BY <1>11, <1>12

(* What a wait without an answer leaves.                                   *)
LEMMA TimesOutDoes ==
  ASSUME DInv, TimesOut
  PROVE  /\ in = << >> /\ in' = << >>
         /\ dev'.executed = dev.executed /\ dev'.says = dev.says
         /\ dev'.gone = dev.gone
         /\ \/ dev' = dev /\ Silent
            \/ dev'.troubles = dev.troubles + 1 /\ dev.troubles < MaxTroubles
<1>1. dev \in Printers
  BY OnceTypes
<1>2. in = << >> /\ in' = << >>
  BY DEF TimesOut
<1>3. CASE dev' = Troubled /\ MayTrouble
  BY <1>1, <1>2, <1>3 DEF Troubled, MayTrouble, Printers
<1> QED  BY <1>2, <1>3 DEF TimesOut

LEMMA ReceiveOnce ==
  ASSUME OInv, NEW c \in Commands, Receive(c), Moves
  PROVE  Once' /\ Budget'
<1>1. /\ pc \in DOMAIN Awaits /\ cmd = c /\ cmd' = "none" /\ out' = out
      /\ c # "none" /\ pc # "read" /\ pc # "flush" /\ pc # "over"
  <2>1. c # "none"
    BY DEF Commands, AnswerLength
  <2>2. pc \in DOMAIN Awaits /\ cmd = c /\ cmd' = "none"
    BY <2>1, ReceiveLeaves DEF OInv
  <2> QED  BY <2>1, <2>2 DEF Receive, Awaits
<1>2. /\ pc' \in Places \ {"read"} /\ (pc = "close" => pc' = "over")
      /\ loc'.answered = loc.answered /\ loc'.got = loc.got
  BY DEF Moves
<1>3. /\ NoneOf(in, Telling) => NoneOf(in', Telling)
      /\ \A V : OneOf(in, Telling, V) => OneOf(in', Telling, V)
      /\ dev'.executed = dev.executed /\ dev'.says = dev.says
      /\ dev'.gone = dev.gone
      /\ \/ /\ dev'.troubles = dev.troubles /\ Len(in') = Len(in) - 1
         \/ /\ dev'.troubles = dev.troubles /\ Len(in') = 0 /\ Silent
         \/ /\ dev'.troubles = dev.troubles + 1 /\ dev.troubles < MaxTroubles
            /\ Len(in) = 0 /\ Len(in') = 0
  <2>1. CASE in # << >> /\ in' = Tail(in) /\ UNCHANGED dev
    <3>1. in \in Seq(Answers)
      BY OnceTypes DEF OInv
    <3>2. Len(in') = Len(in) - 1
      BY <2>1, <3>1
    <3> QED  BY <2>1, <3>1, <3>2, NoneTail, OneTail
  <2>2. CASE TimesOut
    <3>1. /\ in = << >> /\ in' = << >>
          /\ dev'.executed = dev.executed /\ dev'.says = dev.says
          /\ dev'.gone = dev.gone
          /\ \/ dev' = dev /\ Silent
             \/ dev'.troubles = dev.troubles + 1 /\ dev.troubles < MaxTroubles
      BY <2>2, TimesOutDoes DEF OInv
    <3>2. Len(in) = 0 /\ Len(in') = 0
      BY <3>1
    <3> QED  BY <3>1, <3>2
  <2> QED  BY <2>1, <2>2 DEF Receive
<1>4. Waiting => Waiting'
  BY <1>1, <1>2, <1>3 DEF Waiting
<1>5. Served => Served'
  BY <1>1, <1>2, <1>3 DEF Served
<1>6. Once'
  BY <1>1, <1>2, <1>4, <1>5 DEF Once, OInv
<1>7. dev'.troubles <= MaxTroubles
  BY <1>3, OnceTypes, TroublesAssumption DEF Budget, OInv
<1>8. ASSUME pc' \notin {"read", "close", "over"}, ~dev'.gone
      PROVE  /\ OnWires' <= dev'.troubles
             /\ Len(out') <= dev'.troubles
  <2>1. pc \notin {"read", "close", "over"} /\ ~dev.gone
    BY <1>1, <1>2, <1>3, <1>8
  <2>2. OnWires <= dev.troubles + 1 /\ OnWires = Len(in) + Len(out) + Len(dev.says)
    <3>1. OnWires = Len(in) + Len(out) + Len(dev.says)
      BY <2>1, OnceTypes DEF OInv, OnWires
    <3>2. cmd # "none"
      BY <1>1
    <3> QED  BY <1>1, <2>1, <3>1, <3>2 DEF Budget, OInv
  <2>3. Waiting /\ dev.says = << >> /\ Len(dev.says) = 0
    BY <2>1 DEF Once, OInv, Waiting
  <2>4. OnWires' = Len(in') + Len(out)
    BY <1>1, <1>3, <2>1, <2>3, OnceTypes DEF OnWires, OInv
  <2>5. CASE Len(in') = 0 /\ Silent /\ dev'.troubles = dev.troubles
    <3>1. Len(out) = 0
      BY <2>1, <2>5 DEF Silent
    <3> QED  BY <1>1, <2>4, <2>5, <3>1, OnceTypes DEF OInv
  <2>6. CASE dev'.troubles = dev.troubles /\ Len(in') = Len(in) - 1
    BY <1>1, <2>2, <2>3, <2>4, <2>6, OnceTypes DEF OInv
  <2>7. CASE dev'.troubles = dev.troubles + 1 /\ Len(in) = 0 /\ Len(in') = 0
    BY <1>1, <2>2, <2>3, <2>4, <2>7, OnceTypes DEF OInv
  <2> QED  BY <1>3, <2>5, <2>6, <2>7
<1>9. Budget'
  <2>1. dev'.troubles \in Nat
    BY <1>3, OnceTypes DEF OInv
  <2> QED  BY <1>1, <1>2, <1>7, <1>8, <2>1 DEF Budget
<1> QED  BY <1>6, <1>9

LEMMA FlushOnce ==
  ASSUME OInv, Flush
  PROVE  Once' /\ Budget'
<1>1. /\ pc \in {"flush", "drained"} /\ pc' \in {"enter", "start"}
      /\ loc' = loc /\ cmd' = cmd /\ out' = out /\ dev' = dev /\ in' = << >>
  BY DEF Flush, Goto
<1>2. Len(in') = 0 /\ NoneOf(in', Telling)
  BY <1>1 DEF NoneOf
<1>3. Waiting /\ NoneOf(out, DataPackets) /\ loc.got = loc.answered
      /\ dev.says = << >> /\ Len(dev.says) = 0
  BY <1>1 DEF OInv, Once, Waiting
<1>4. Waiting'
  BY <1>1, <1>2, <1>3 DEF Waiting
<1>5. Once'
  BY <1>1, <1>3, <1>4 DEF Once
<1>6. /\ Len(in) \in Nat /\ Len(out) \in Nat /\ dev.troubles \in Nat
      /\ cmd = "none"
  BY <1>1, OnceTypes DEF OInv, DInv, Shape, Waits, Awaits
<1>7. ~dev.gone => Len(out) <= dev.troubles
  <2>1. CASE pc = "flush"
    BY <2>1 DEF OInv, Budget
  <2>2. CASE pc = "drained" /\ ~dev.gone
    <3>1. OnWires <= dev.troubles
      BY <1>6, <2>2 DEF OInv, Budget
    <3>2. OnWires = Len(in) + Len(out) + Len(dev.says)
      BY <2>2 DEF OnWires
    <3> QED  BY <1>3, <1>6, <3>1, <3>2
  <2> QED  BY <1>1, <2>1, <2>2
<1>8. ~dev.gone => OnWires' = Len(out)
  <2> SUFFICES ASSUME ~dev.gone PROVE OnWires' = Len(out)
    OBVIOUS
  <2>1. OnWires' = Len(in') + Len(out) + Len(dev.says)
    BY <1>1 DEF OnWires
  <2> QED  BY <1>2, <1>3, <1>6, <2>1
<1>9. dev.troubles <= MaxTroubles
  BY DEF OInv, Budget
<1>10. Budget'
  BY <1>1, <1>6, <1>7, <1>8, <1>9 DEF Budget
<1> QED  BY <1>5, <1>10

LEMMA StartOnce ==
  ASSUME OInv, StartExchange
  PROVE  Once' /\ Budget' /\ loc'.got = loc.got
<1>1. /\ pc = "start" /\ pc' = "ask" /\ UNCHANGED <<cmd, out, in, dev>>
      /\ loc'.answered = loc.answered /\ loc'.got = loc.got
  BY DEF StartExchange, OInv, DInv, Shape, Locals
<1>2. Once'
  BY <1>1 DEF OInv, Once, Waiting
<1>3. Budget'
  BY <1>1 DEF OInv, Budget, OnWires
<1> QED  BY <1>1, <1>2, <1>3

LEMMA WriteOnce ==
  ASSUME OInv, WriteData
  PROVE  Once' /\ Budget' /\ loc'.got = loc.got
<1> DEFINE n == loc.answered + 1
           p == [kind |-> "data", to |-> n, socket |-> loc.socket,
                 fresh |-> FALSE]
<1>1. /\ pc = "write" /\ pc' = (IF dev.gone THEN "close" ELSE "read")
      /\ loc' = [loc EXCEPT !.reads = 5]
      /\ UNCHANGED <<cmd, in, dev>>
      /\ out' = IF dev.gone THEN out ELSE Append(out, p)
  BY DEF WriteData, After
<1>2. p \in CommandOf(n)
  <2>1. loc.socket \in Nat /\ n \in Nat
    BY OnceTypes DEF OInv, DInv, Shape, Locals
  <2> QED  BY <2>1 DEF CommandOf, DataPackets
<1>3. /\ loc'.answered = loc.answered /\ loc'.got = loc.got /\ loc'.reads = 5
  BY <1>1 DEF OInv, DInv, Shape, Locals
<1> HIDE DEF p
<1>4. /\ in \in Seq(Answers) /\ out \in Seq(CommandPackets \union DataPackets)
      /\ Len(in) \in Nat /\ Len(out) \in Nat /\ dev.troubles \in Nat
      /\ cmd = "none"
  BY <1>1, OnceTypes DEF OInv, DInv, Shape, Waits, Awaits
<1>5. Waiting /\ NoneOf(out, DataPackets) /\ loc.got = loc.answered
      /\ dev.says = << >> /\ Len(dev.says) = 0
  BY <1>1 DEF OInv, Once, Waiting
<1>6. OneOf(out', DataPackets, CommandOf(n))
  BY <1>1, <1>2, <1>4, <1>5, NoneIsOne, OneAppend
<1>7. Waiting'
  BY <1>1, <1>3, <1>5, <1>6 DEF Waiting
<1>8. Once'
  BY <1>1, <1>3, <1>5, <1>7 DEF Once
<1>9. ASSUME ~dev.gone
      PROVE  OnWires' <= dev.troubles + 5 - 4
  <2>1. OnWires <= dev.troubles
    BY <1>1, <1>4, <1>9 DEF OInv, Budget
  <2>2. OnWires = Len(in) + Len(out) + Len(dev.says)
    BY <1>9 DEF OnWires
  <2>3. OnWires' = Len(in) + Len(out') + Len(dev.says)
    BY <1>1, <1>9 DEF OnWires
  <2>4. Len(out') = Len(out) + 1
    BY <1>1, <1>4, <1>9
  <2> QED  BY ONLY <1>4, <1>5, <2>1, <2>2, <2>3, <2>4
<1>10. dev.troubles <= MaxTroubles
  BY DEF OInv, Budget
<1>11. Budget'
  BY <1>1, <1>3, <1>9, <1>10 DEF Budget
<1> QED  BY <1>3, <1>8, <1>11

(* An answer is taken only if it is the one to the command; it is the only *)
(* one there is.                                                           *)
LEMMA ReadOnce ==
  ASSUME OInv, ReadData
  PROVE  /\ Once' /\ Budget'
         /\ \/ loc'.got = loc.got
            \/ loc.got < dev.executed /\ loc'.got = dev.executed
         /\ dev'.executed = dev.executed
<1>1. /\ pc = "read" /\ cmd' = cmd /\ out' = out /\ cmd = "none"
  BY DEF ReadData, OInv, DInv, Shape, Waits, Awaits
<1>2. /\ in \in Seq(Answers) /\ out \in Seq(CommandPackets \union DataPackets)
      /\ Len(in) \in Nat /\ Len(out) \in Nat /\ Len(dev.says) \in Nat
      /\ dev.troubles \in Nat
      /\ loc.answered \in Nat /\ loc.reads \in -1 .. 5 /\ loc.got \in Nat
      /\ dev.gone \in BOOLEAN
  BY OnceTypes DEF OInv
<1>3. loc.got = loc.answered /\ (Waiting \/ Served)
  BY DEF OInv, Once
<1>4. CASE TimesOut /\ Goto("close")
  <2>1. /\ in = << >> /\ in' = << >>
        /\ dev'.executed = dev.executed /\ dev'.says = dev.says
        /\ dev'.gone = dev.gone
        /\ \/ dev' = dev /\ Silent
           \/ dev'.troubles = dev.troubles + 1 /\ dev.troubles < MaxTroubles
    BY <1>4, TimesOutDoes DEF OInv
  <2>2. pc' = "close" /\ loc' = loc
    BY <1>4 DEF Goto
  <2>3. Once'
    BY <1>1, <1>3, <2>1, <2>2 DEF Once, Waiting, Served
  <2>4. dev'.troubles <= MaxTroubles
    BY <1>2, <2>1, TroublesAssumption DEF OInv, Budget
  <2>5. Budget'
    BY <2>2, <2>4 DEF Budget
  <2> QED  BY <2>1, <2>2, <2>3, <2>5
<1>5. CASE in # << >> /\ in' = Tail(in) /\ UNCHANGED dev
  <2> DEFINE h == Head(in)
             n == loc.answered + 1
  <2>1. h \in Answers /\ Len(in') = Len(in) - 1 /\ Len(in) >= 1
    BY <1>2, <1>5
  <2>2. OnWires <= dev.troubles + loc.reads - 4
    BY <1>1 DEF OInv, Budget
  <2>3. dev.troubles <= MaxTroubles
    BY DEF OInv, Budget
  <2>4. Len(in) <= dev.troubles + loc.reads - 4
    <3>1. CASE dev.gone
      BY <2>2, <3>1 DEF OnWires
    <3>2. CASE ~dev.gone
      <4>1. OnWires = Len(in) + Len(out) + Len(dev.says)
        BY <3>2 DEF OnWires
      <4>2. \A i, j, k \in Nat, m \in Int : i + j + k <= m => i <= m
        OBVIOUS
      <4>3. dev.troubles + loc.reads - 4 \in Int
        BY <1>2
      <4> QED  BY <1>2, <2>2, <4>1, <4>2, <4>3
    <3> QED  BY <3>1, <3>2
  <2>5. loc.reads >= 0
    <3>1. CASE dev.punctual
      <4>1. Reading
        BY <1>1, <3>1, ReadingFacts DEF OInv
      <4>2. loc.reads >= 4 \/ loc.reads = 5
        BY <4>1 DEF Reading
      <4> QED  BY <1>2, <4>2
    <3>2. CASE MaxTroubles <= 5
      <4>1. dev.troubles <= 5
        BY <1>2, <2>3, <3>2, TroublesAssumption
      <4> QED  BY <1>2, <2>1, <2>4, <4>1
    <3> QED  BY <3>1, <3>2 DEF OInv, Patient
  <2>6. \/ Passes(h) /\ Answered(h)
        \/ ~Passes(h) /\ pc' = pc /\ loc' = [loc EXCEPT !.reads = @ - 1]
    <3>1. ~TimesOut
      BY <1>5 DEF TimesOut
    <3>2. loc.reads \in Int /\ ~(loc.reads < 0)
      BY <1>2, <2>5
    <3> QED  BY <3>1, <3>2 DEF ReadData
  <2>7. CASE Passes(h) /\ Answered(h)
    <3>1. h \in Telling
      BY <2>1, <2>7 DEF Telling
    <3>2. ~NoneOf(in, Telling)
      BY <1>2, <1>5, <3>1, NoneTail
    <3>3. /\ dev.executed = n /\ dev.says = << >>
          /\ OneOf(in, Telling, TellingOf(n)) /\ NoneOf(out, DataPackets)
      BY <1>3, <3>2 DEF Waiting, Served
    <3>4. h \in TellingOf(n) /\ NoneOf(in', Telling)
      BY <1>2, <1>5, <3>1, <3>3, OneTail
    <3>5. h.value = n
      BY <3>4 DEF TellingOf
    <3>6. /\ loc' = [loc EXCEPT !.answered = @ + 1, !.got = h.value]
          /\ pc' \in {"start", "close"}
      BY <2>7 DEF Answered
    <3>7. loc'.answered = n /\ loc'.got = n
      BY <3>5, <3>6 DEF OInv, DInv, Shape, Locals
    <3>8. Waiting'
      BY <1>1, <1>5, <3>3, <3>4, <3>7, NoneIsOne DEF Waiting
    <3>9. Once'
      BY <1>1, <3>3, <3>7, <3>8 DEF Once
    <3>10. ASSUME ~dev.gone
           PROVE  OnWires' <= dev.troubles
      <4>1. OnWires = Len(in) + Len(out) + Len(dev.says)
        BY <3>10 DEF OnWires
      <4>2. OnWires' = Len(in') + Len(out) + Len(dev.says)
        BY <1>1, <1>5, <3>10 DEF OnWires
      <4>3. \A i, j, k, t \in Nat, r \in -1 .. 5 :
              i + j + k <= t + r - 4 => (i - 1) + j + k <= t
        OBVIOUS
      <4>4. OnWires' = (Len(in) - 1) + Len(out) + Len(dev.says)
        BY <2>1, <4>2, Zenon
      <4> QED  BY <1>2, <2>2, <4>1, <4>3, <4>4
    <3>11. Budget'
      BY <1>1, <1>5, <2>3, <3>6, <3>10, <1>2 DEF Budget
    <3>12. loc.got < dev.executed /\ loc'.got = dev.executed
      BY <1>2, <1>3, <3>3, <3>7
    <3> QED  BY <1>5, <3>9, <3>11, <3>12
  <2>8. CASE ~Passes(h) /\ pc' = pc /\ loc' = [loc EXCEPT !.reads = @ - 1]
    <3>1. /\ loc'.reads = loc.reads - 1 /\ loc'.answered = loc.answered
          /\ loc'.got = loc.got
      BY <2>8 DEF OInv, DInv, Shape, Locals
    <3>2. /\ NoneOf(in, Telling) => NoneOf(in', Telling)
          /\ \A V : OneOf(in, Telling, V) => OneOf(in', Telling, V)
      BY <1>2, <1>5, NoneTail, OneTail
    <3>3. Once'
      BY <1>1, <1>3, <1>5, <2>8, <3>1, <3>2 DEF Once, Waiting, Served
    <3>4. OnWires' = OnWires - 1
      <4>1. CASE dev.gone
        <5>1. OnWires = Len(in) /\ OnWires' = Len(in')
          BY <1>5, <4>1 DEF OnWires
        <5> QED  BY <2>1, <5>1
      <4>2. CASE ~dev.gone
        <5>1. OnWires = Len(in) + Len(out) + Len(dev.says)
          BY <4>2 DEF OnWires
        <5>2. OnWires' = Len(in') + Len(out) + Len(dev.says)
          BY <1>1, <1>5, <4>2 DEF OnWires
        <5> QED  BY ONLY <1>2, <2>1, <5>1, <5>2
      <4> QED  BY <4>1, <4>2
    <3>5. OnWires \in Int
      BY <1>2 DEF OnWires
    <3>6. OnWires' <= dev.troubles + loc'.reads - 4
      <4>1. \A w \in Int, t \in Nat, r \in -1 .. 5 :
              w <= t + r - 4 => w - 1 <= t + (r - 1) - 4
        OBVIOUS
      <4> QED  BY <1>2, <2>2, <3>1, <3>4, <3>5, <4>1
    <3>7. Budget'
      BY <1>1, <1>5, <2>3, <2>8, <3>6 DEF Budget
    <3> QED  BY <1>5, <3>1, <3>3, <3>7
  <2> QED  BY <2>6, <2>7, <2>8
<1> QED  BY <1>4, <1>5 DEF ReadData

-----------------------------------------------------------------------------
(* The steps of the printer.                                               *)
LEMMA ReplyTellsNothing ==
  ASSUME DInv, NEW p \in CommandPackets, NEW a \in {Reply(p), Refusal(p)}
  PROVE  FreshIf(p, a) \in Answers \ Telling
<1>1. p.to \in {"enter", "init", "socket", "open", "close", "request", "credit"}
  BY DEF CommandPackets, Commands, AnswerLength
<1>2. \A c, r, v : Answer(c, r, v).kind = "answer"
  BY DEF Answer
<1>3. Reply(p).kind = "answer"
  <2>1. \E r, v : Reply(p) = Answer(p.to, r, v)
    BY <1>1 DEF Reply
  <2> QED  BY <1>2, <2>1
<1>4. Refusal(p).kind # "data"
  <2>1. CASE p.to = "enter"
    <3>1. Refusal(p) = [Answer("enter", 0, Other) EXCEPT !.kind = "zeros"]
      BY <2>1 DEF Refusal
    <3> QED  BY <3>1 DEF Answer
  <2>2. CASE p.to # "enter"
    <3>1. \E r, v : Refusal(p) = Answer(p.to, r, v)
      BY <1>1, <2>2 DEF Refusal
    <3> QED  BY <1>2, <3>1
  <2> QED  BY <2>1, <2>2
<1>5. FreshIf(p, a) \in Answers
  BY ReplyTypes
<1>6. a.kind # "data"
  BY <1>3, <1>4
<1>7. FreshIf(p, a).kind = a.kind
  BY DEF FreshIf
<1> QED  BY <1>5, <1>6, <1>7 DEF Telling, Passes

LEMMA DoneExecutes ==
  ASSUME DInv, NEW p \in CommandPackets
  PROVE  Done(p).executed = dev.executed
<1>1. dev \in Printers
  BY OnceTypes
<1>2. \A open : Opened(open).executed = dev.executed
  BY <1>1 DEF Opened, Printers
<1>3. \/ \E open : Done(p) = Opened(open)
      \/ Done(p) = [dev EXCEPT !.credit = @ + 1]
      \/ Done(p) = [dev EXCEPT !.given = @ + 1]
      \/ Done(p) = dev
  <2>1. CASE p.to = "init"
    <3>1. Done(p) = Opened(dev.open /\ dev.keeps)
      BY <2>1 DEF Done
    <3> QED  BY <3>1
  <2>2. CASE p.to = "open"
    BY <2>2 DEF Done
  <2>3. CASE p.to = "close"
    BY <2>3 DEF Done
  <2>4. CASE p.to = "request"
    BY <2>4 DEF Done
  <2>5. CASE p.to = "credit"
    BY <2>5 DEF Done
  <2>6. CASE p.to \notin {"init", "open", "close", "request", "credit"}
    BY <2>6 DEF Done
  <2> QED  BY <2>1, <2>2, <2>3, <2>4, <2>5, <2>6
<1>4. /\ [dev EXCEPT !.credit = @ + 1].executed = dev.executed
      /\ [dev EXCEPT !.given = @ + 1].executed = dev.executed
  BY <1>1 DEF Printers
<1> QED  BY <1>2, <1>3, <1>4

(* What the printer says next moves to the wire.                           *)
LEMMA SaysOnce ==
  ASSUME OInv, dev.says # << >>
  PROVE  LET n == loc.answered + 1
             t == Append(in, Head(dev.says))
         IN  /\ pc \in {"read", "close", "over"} /\ Served
             /\ Tail(dev.says) \in {<< >>, <<Data(n)>>}
             /\ IF Tail(dev.says) = << >>
                THEN OneOf(t, Telling, TellingOf(n)) ELSE NoneOf(t, Telling)
             /\ Head(dev.says) \in Answers
             /\ Len(Tail(dev.says)) = Len(dev.says) - 1
<1> DEFINE n == loc.answered + 1
           t == Append(in, Head(dev.says))
<1>1. pc \in {"read", "close", "over"} /\ Served
  BY DEF OInv, Once, Waiting
<1>2. /\ dev.says \in {<<Data(n)>>, <<Data(0), Data(n)>>}
      /\ NoneOf(in, Telling)
  BY <1>1 DEF Served
<1>3. n \in Nat /\ n > 0 /\ in \in Seq(Answers) /\ dev.says \in Seq(Answers)
  BY OnceTypes DEF OInv
<1>4. /\ Data(n) \in TellingOf(n) /\ Data(0) \in Answers \ Telling
  BY <1>3, DataFacts DEF TellingOf, Telling, Passes
<1>5. Head(dev.says) \in Answers /\ Len(Tail(dev.says)) = Len(dev.says) - 1
  BY <1>3
<1> HIDE DEF n
<1>6. CASE dev.says = <<Data(n)>>
  <2>1. Head(dev.says) = Data(n) /\ Tail(dev.says) = << >>
    BY <1>6, ShortSequences
  <2>2. OneOf(t, Telling, TellingOf(n))
    BY <1>2, <1>3, <1>4, <2>1, OneAppend
  <2> QED  BY <1>1, <1>5, <2>1, <2>2 DEF n
<1>7. CASE dev.says = <<Data(0), Data(n)>>
  <2>1. Head(dev.says) = Data(0) /\ Tail(dev.says) = <<Data(n)>>
    BY <1>7, ShortSequences
  <2>2. NoneOf(t, Telling)
    BY <1>2, <1>3, <1>4, <2>1, NoneAppend
  <2>3. <<Data(n)>> # << >>
    OBVIOUS
  <2> QED  BY <1>1, <1>5, <2>1, <2>2, <2>3 DEF n
<1> QED  BY <1>2, <1>6, <1>7

LEMMA Balance ==
  ASSUME NEW i \in Nat, NEW j \in Nat, NEW k \in Nat,
         NEW i2 \in Nat, NEW k2 \in Nat, NEW t \in Nat, NEW t2 \in Nat,
         \/ i2 = i /\ k2 <= k /\ t2 = t + 1
         \/ i2 = i + 1 /\ k2 <= k /\ t2 \in {t, t + 1}
         \/ i2 = i + 2 /\ k2 = k - 1 /\ t2 = t
  PROVE  i2 + (j - 1) + k2 <= i + j + k + t2 - t
OBVIOUS

(* A command leaves the wire; what comes back is no data, or was said      *)
(* before.                                                                 *)
LEMMA ToldOnce ==
  ASSUME OInv, ~dev.gone, out # << >>, out' = Tail(out),
         Head(out) \in CommandPackets, UNCHANGED <<pc, cmd, loc>>,
         dev'.executed = dev.executed, dev'.gone = dev.gone,
         NEW a \in Answers \ Telling,
         \/ /\ in' = in /\ dev'.says \in {dev.says, << >>}
            /\ dev'.troubles = dev.troubles + 1 /\ dev.troubles < MaxTroubles
         \/ /\ in' = Append(in, a) /\ dev'.says \in {dev.says, << >>}
            /\ \/ dev'.troubles = dev.troubles
               \/ dev'.troubles = dev.troubles + 1 /\ dev.troubles < MaxTroubles
         \/ /\ dev.says # << >> /\ dev'.says = Tail(dev.says)
            /\ in' = Append(Append(in, Head(dev.says)), a)
            /\ dev'.troubles = dev.troubles
  PROVE  Once' /\ Budget'
<1> DEFINE n == loc.answered + 1
<1>1. pc' = pc /\ cmd' = cmd /\ loc' = loc
  OBVIOUS
<1>2. /\ in \in Seq(Answers) /\ out \in Seq(CommandPackets \union DataPackets)
      /\ Len(in) \in Nat /\ Len(out) \in Nat /\ Len(dev.says) \in Nat
      /\ dev.says \in Seq(Answers)
      /\ dev.troubles \in Nat /\ loc.reads \in -1 .. 5
  BY OnceTypes DEF OInv
<1>3. /\ NoneOf(out, DataPackets) => NoneOf(out', DataPackets)
      /\ OneOf(out, DataPackets, CommandOf(n)) => OneOf(out', DataPackets, CommandOf(n))
      /\ Len(out') = Len(out) - 1
  BY <1>2, NoneTail, OneTail
<1>4. /\ loc.got = loc.answered
      /\ \/ Waiting /\ (pc \notin {"read", "close", "over"} => NoneOf(out, DataPackets))
         \/ Served /\ pc \in {"read", "close", "over"}
  BY DEF OInv, Once
<1>5. /\ dev'.troubles \in Nat /\ dev'.troubles <= MaxTroubles
      /\ Len(dev'.says) \in Nat
      /\ Len(in') + Len(out') + Len(dev'.says) <=
           Len(in) + Len(out) + Len(dev.says) + dev'.troubles - dev.troubles
  <2>1. dev.troubles <= MaxTroubles
    BY DEF OInv, Budget
  <2>2. dev'.troubles \in Nat /\ dev'.troubles <= MaxTroubles
    BY <1>2, <2>1, TroublesAssumption
  <2>3. \A s \in {dev.says, << >>} : Len(s) \in Nat /\ Len(s) <= Len(dev.says)
    <3>1. Len(<< >>) = 0
      OBVIOUS
    <3> QED  BY <1>2, <3>1
  <2>4. /\ Len(in') \in Nat /\ Len(dev'.says) \in Nat
        /\ \/ /\ Len(in') = Len(in) /\ Len(dev'.says) <= Len(dev.says)
              /\ dev'.troubles = dev.troubles + 1
           \/ /\ Len(in') = Len(in) + 1 /\ Len(dev'.says) <= Len(dev.says)
              /\ dev'.troubles \in {dev.troubles, dev.troubles + 1}
           \/ /\ Len(in') = Len(in) + 2 /\ Len(dev'.says) = Len(dev.says) - 1
              /\ dev'.troubles = dev.troubles
    <3>1. CASE /\ in' = in /\ dev'.says \in {dev.says, << >>}
               /\ dev'.troubles = dev.troubles + 1
      <4>1. Len(in') = Len(in)
        BY <3>1
      <4> QED  BY <1>2, <2>3, <3>1, <4>1
    <3>2. CASE /\ in' = Append(in, a) /\ dev'.says \in {dev.says, << >>}
               /\ dev'.troubles \in {dev.troubles, dev.troubles + 1}
      <4>1. Len(in') = Len(in) + 1 /\ Len(in') \in Nat
        BY <1>2, <3>2
      <4> QED  BY <2>3, <3>2, <4>1
    <3>3. CASE /\ dev.says # << >> /\ dev'.says = Tail(dev.says)
               /\ in' = Append(Append(in, Head(dev.says)), a)
               /\ dev'.troubles = dev.troubles
      <4>1. Len(dev'.says) = Len(dev.says) - 1 /\ Head(dev.says) \in Answers
            /\ Len(dev'.says) \in Nat
        BY <1>2, <3>3
      <4> DEFINE t == Append(in, Head(dev.says))
      <4>2. t \in Seq(Answers) /\ Len(t) = Len(in) + 1
        BY <1>2, <4>1
      <4>3. in' = Append(t, a)
        BY <3>3
      <4> HIDE DEF t
      <4>4. Len(in') = Len(t) + 1
        BY <4>2, <4>3
      <4>5. \A k \in Nat : (k + 1) + 1 = k + 2 /\ k + 2 \in Nat
        OBVIOUS
      <4> QED  BY <1>2, <3>3, <4>1, <4>2, <4>4, <4>5, Zenon
    <3> QED  BY <3>1, <3>2, <3>3
  <2> QED
    <3>1. /\ Len(in) \in Nat /\ Len(out) \in Nat /\ Len(dev.says) \in Nat
          /\ dev.troubles \in Nat /\ Len(out') = Len(out) - 1
      BY <1>2, <1>3
    <3>2. Len(in') + (Len(out) - 1) + Len(dev'.says) <=
            Len(in) + Len(out) + Len(dev.says) + dev'.troubles - dev.troubles
      BY ONLY <2>2, <2>4, <3>1, Balance
    <3> QED  BY <2>2, <2>4, <3>1, <3>2, Zenon
<1>6. Budget'
  <2> DEFINE w == Len(in') + Len(out') + Len(dev'.says)
  <2>1. OnWires = Len(in) + Len(out) + Len(dev.says)
    BY DEF OnWires
  <2>2. OnWires' = w
    BY DEF OnWires
  <2>3. Len(in') \in Nat /\ Len(out') \in Nat
    <3>1. out' \in Seq(CommandPackets \union DataPackets)
      BY <1>2
    <3>2. in' \in Seq(Answers)
      <4>1. dev.says # << >> =>
              Head(dev.says) \in Answers /\ Append(in, Head(dev.says)) \in Seq(Answers)
        BY <1>2
      <4>2. a \in Answers
        OBVIOUS
      <4>3. \A s \in Seq(Answers) : Append(s, a) \in Seq(Answers)
        BY <4>2
      <4> QED  BY <1>2, <4>1, <4>3
    <3> QED  BY <3>1, <3>2
  <2>4. OnWires \in Int /\ OnWires' \in Int
    BY <1>2, <1>5, <2>1, <2>2, <2>3
  <2>5. OnWires' <= OnWires + dev'.troubles - dev.troubles
    BY <1>5, <2>1, <2>2
  <2> HIDE DEF w
  <2>6. pc = "flush" => Len(out') <= dev'.troubles
    <3>1. pc = "flush" => Len(out) <= dev.troubles
      BY DEF OInv, Budget
    <3>2. dev'.troubles >= dev.troubles
      BY <1>2
    <3> QED  BY <1>2, <1>3, <1>5, <3>1, <3>2
  <2>7. pc = "read" => OnWires' <= dev'.troubles + loc.reads - 4
    <3>1. pc = "read" => OnWires <= dev.troubles + loc.reads - 4
      BY DEF OInv, Budget
    <3>2. \A w1, w2 \in Int, t1, t2 \in Nat, r \in -1 .. 5 :
            w1 <= t1 + r - 4 /\ w2 <= w1 + t2 - t1 => w2 <= t2 + r - 4
      OBVIOUS
    <3> QED  BY <1>2, <1>5, <2>4, <2>5, <3>1, <3>2
  <2>8. pc \notin {"read", "close", "over", "flush"} =>
          OnWires' <= dev'.troubles + IF cmd = "none" THEN 0 ELSE 1
    <3> DEFINE e == IF cmd = "none" THEN 0 ELSE 1
    <3>1. pc \notin {"read", "close", "over", "flush"} => OnWires <= dev.troubles + e
      BY DEF OInv, Budget
    <3>2. e \in Nat
      OBVIOUS
    <3> HIDE DEF e
    <3>3. pc \notin {"read", "close", "over", "flush"} => OnWires' <= dev'.troubles + e
      BY ONLY <1>2, <1>5, <2>4, <2>5, <3>1, <3>2
    <3> QED  BY <3>3 DEF e
  <2> QED  BY <1>1, <1>5, <2>6, <2>7, <2>8 DEF Budget
<1>7. CASE in' \in {in, Append(in, a)} /\ dev'.says \in {dev.says, << >>}
  <2>1. /\ NoneOf(in, Telling) => NoneOf(in', Telling)
        /\ OneOf(in, Telling, TellingOf(n)) => OneOf(in', Telling, TellingOf(n))
    <3>1. a \notin Telling
      OBVIOUS
    <3>2. CASE in' = Append(in, a)
      BY <1>2, <3>1, <3>2, NoneAppend, OneAppend
    <3> QED  BY <1>7, <3>2
  <2>2. NoneOf(in', Telling) => OneOf(in', Telling, TellingOf(n))
    BY NoneIsOne
  <2>3. Waiting => Waiting'
    BY <1>1, <1>3, <1>7, <2>1 DEF Waiting
  <2>4. Served => Served'
    BY <1>1, <1>3, <1>7, <2>1, <2>2 DEF Served
  <2>5. Once'
    BY <1>1, <1>3, <1>4, <2>3, <2>4 DEF Once
  <2> QED  BY <1>6, <2>5
<1>8. CASE /\ dev.says # << >> /\ dev'.says = Tail(dev.says)
           /\ in' = Append(Append(in, Head(dev.says)), a)
  <2> DEFINE t == Append(in, Head(dev.says))
  <2>1. /\ pc \in {"read", "close", "over"} /\ Served
        /\ Tail(dev.says) \in {<< >>, <<Data(n)>>}
        /\ IF Tail(dev.says) = << >>
           THEN OneOf(t, Telling, TellingOf(n)) ELSE NoneOf(t, Telling)
        /\ Head(dev.says) \in Answers
    BY <1>8, SaysOnce
  <2>2. t \in Seq(Answers) /\ in' = Append(t, a)
    BY <1>2, <1>8, <2>1
  <2> HIDE DEF t
  <2>3. IF dev'.says = << >>
        THEN OneOf(in', Telling, TellingOf(n)) ELSE NoneOf(in', Telling)
    <3>1. a \notin Telling
      OBVIOUS
    <3>2. /\ NoneOf(t, Telling) => NoneOf(in', Telling)
          /\ OneOf(t, Telling, TellingOf(n)) => OneOf(in', Telling, TellingOf(n))
      BY <2>2, <3>1, NoneAppend, OneAppend
    <3> QED  BY <1>8, <2>1, <3>2 DEF t
  <2>4. Served'
    BY <1>1, <1>3, <1>8, <2>1, <2>3 DEF Served
  <2>5. Once'
    BY <1>1, <1>4, <2>1, <2>4 DEF Once
  <2> QED  BY <1>6, <2>5
<1> QED  BY <1>7, <1>8

LEMMA ObeysOnce ==
  ASSUME OInv, Obeys
  PROVE  Once' /\ Budget' /\ dev'.executed = dev.executed
<1> DEFINE p == Head(out)
<1>1. /\ ~dev.gone /\ out # << >> /\ out' = Tail(out) /\ p.kind = "cmd"
      /\ UNCHANGED <<pc, cmd, loc>>
  BY DEF Obeys
<1>2. p \in CommandPackets
  BY <1>1, FirstPacket DEF OInv, DataPackets
<1>3. in \in Seq(Answers) /\ dev \in Printers /\ dev.says \in Seq(Answers)
  BY OnceTypes DEF OInv
<1>4. /\ Done(p) \in Printers
      /\ Done(p).gone = dev.gone /\ Done(p).says \in {dev.says, << >>}
      /\ Done(p).troubles = dev.troubles /\ Done(p).executed = dev.executed
      /\ p.to = "credit" /\ Knows(p) =>
           Done(p).given = dev.given + 1 /\ Done(p).says = dev.says
  BY <1>2, DoneTypes, DoneExecutes DEF OInv
<1>5. CASE \E first \in SaidFirst(p) :
             /\ in' = in \o first \o <<FreshIf(p, Reply(p))>>
             /\ dev' = IF first = << >> THEN Done(p)
                       ELSE [Done(p) EXCEPT !.says = Tail(@), !.given = @ - 1]
  <2>1. PICK first \in SaidFirst(p) :
             /\ in' = in \o first \o <<FreshIf(p, Reply(p))>>
             /\ dev' = IF first = << >> THEN Done(p)
                       ELSE [Done(p) EXCEPT !.says = Tail(@), !.given = @ - 1]
    BY <1>5
  <2> DEFINE a == FreshIf(p, Reply(p))
  <2>2. a \in Answers \ Telling
    BY <1>2, ReplyTellsNothing DEF OInv
  <2>3. in' = (in \o first) \o <<a>>
    BY <2>1
  <2> HIDE DEF a
  <2>4. CASE first = << >>
    <3>1. in' = Append(in, a) /\ dev' = Done(p)
      <4>1. in \o << >> = in /\ Append(in, a) = in \o <<a>>
        BY <1>3, <2>2, ConcatEmptySeq, AppendIsConcat
      <4> QED  BY <2>1, <2>3, <2>4, <4>1
    <3> QED  BY <1>1, <1>2, <1>4, <2>2, <3>1, ToldOnce
  <2>5. CASE first # << >>
    <3>1. /\ p.to = "credit" /\ Knows(p) /\ dev.says # << >>
          /\ first = <<Head(dev.says)>>
      BY <2>1, <2>5 DEF SaidFirst
    <3>2. Head(dev.says) \in Answers
      BY <1>3, <3>1
    <3>3. in' = Append(Append(in, Head(dev.says)), a)
      <4> DEFINE t == Append(in, Head(dev.says))
      <4>1. t \in Seq(Answers) /\ t = in \o <<Head(dev.says)>>
        BY <1>3, <3>2, AppendIsConcat
      <4>2. in' = t \o <<a>>
        BY <2>3, <3>1, <4>1
      <4> HIDE DEF t
      <4>3. Append(t, a) = t \o <<a>>
        BY <2>2, <4>1, AppendIsConcat
      <4> QED  BY <4>2, <4>3 DEF t
    <3>4. dev' = [Done(p) EXCEPT !.says = Tail(@), !.given = @ - 1]
      BY <2>1, <2>5
    <3>5. /\ dev'.says = Tail(dev.says) /\ dev'.gone = dev.gone
          /\ dev'.troubles = dev.troubles /\ dev'.executed = dev.executed
      BY <1>4, <3>1, <3>4 DEF Printers
    <3> QED  BY <1>1, <1>2, <2>2, <3>1, <3>3, <3>5, ToldOnce
  <2> QED  BY <2>4, <2>5
<1>6. CASE /\ MayTrouble /\ dev' = Troubled
           /\ in' = Append(in, FreshIf(p, Refusal(p))) \/ in' = in
  <2> DEFINE a == FreshIf(p, Refusal(p))
  <2>1. a \in Answers \ Telling
    BY <1>2, ReplyTellsNothing DEF OInv
  <2>2. in' = Append(in, a) \/ in' = in
    BY <1>6
  <2> HIDE DEF a
  <2>3. /\ dev'.says = dev.says /\ dev'.gone = dev.gone
        /\ dev'.troubles = dev.troubles + 1 /\ dev.troubles < MaxTroubles
        /\ dev'.executed = dev.executed
    BY <1>3, <1>6 DEF Troubled, MayTrouble, Printers
  <2> QED  BY <1>1, <1>2, <2>1, <2>2, <2>3, ToldOnce
<1>7. CASE MayTrouble /\ dev' = [Done(p) EXCEPT !.troubles = @ + 1] /\ in' = in
  <2> DEFINE a == FreshIf(p, Reply(p))
  <2>1. a \in Answers \ Telling
    BY <1>2, ReplyTellsNothing DEF OInv
  <2> HIDE DEF a
  <2>2. /\ dev'.says \in {dev.says, << >>} /\ dev'.gone = dev.gone
        /\ dev'.troubles = dev.troubles + 1 /\ dev.troubles < MaxTroubles
        /\ dev'.executed = dev.executed
    BY <1>4, <1>7 DEF MayTrouble, Printers
  <2> QED  BY <1>1, <1>2, <1>7, <2>1, <2>2, ToldOnce
<1> QED  BY <1>5, <1>6, <1>7 DEF Obeys

(* What is on the wires stays as much, but for troubles.                   *)
LEMMA BudgetKept ==
  ASSUME OInv, UNCHANGED <<pc, cmd, loc>>, ~dev.gone, dev'.gone = dev.gone,
         dev'.troubles \in {dev.troubles, dev.troubles + 1},
         dev'.troubles <= MaxTroubles,
         OnWires' \in Int, pc # "flush",
         OnWires' <= OnWires + dev'.troubles - dev.troubles
  PROVE  Budget'
<1>1. pc' = pc /\ cmd' = cmd /\ loc' = loc
  OBVIOUS
<1>2. dev.troubles \in Nat /\ dev'.troubles \in Nat /\ loc.reads \in -1 .. 5
      /\ OnWires \in Int
  BY OnceTypes DEF OInv, OnWires
<1>3. pc = "read" => OnWires' <= dev'.troubles + loc.reads - 4
  <2>1. pc = "read" => OnWires <= dev.troubles + loc.reads - 4
    BY DEF OInv, Budget
  <2>2. \A w1, w2 \in Int, t1, t2 \in Nat, r \in -1 .. 5 :
          w1 <= t1 + r - 4 /\ w2 <= w1 + t2 - t1 => w2 <= t2 + r - 4
    OBVIOUS
  <2> QED  BY <1>2, <2>1, <2>2
<1>4. pc \notin {"read", "close", "over", "flush"} =>
        OnWires' <= dev'.troubles + IF cmd = "none" THEN 0 ELSE 1
  <2> DEFINE e == IF cmd = "none" THEN 0 ELSE 1
  <2>1. pc \notin {"read", "close", "over", "flush"} => OnWires <= dev.troubles + e
    BY DEF OInv, Budget
  <2>2. e \in Nat
    OBVIOUS
  <2> HIDE DEF e
  <2>3. \A w1, w2 \in Int, t1, t2, x \in Nat :
          w1 <= t1 + x /\ w2 <= w1 + t2 - t1 => w2 <= t2 + x
    OBVIOUS
  <2>4. pc \notin {"read", "close", "over", "flush"} => OnWires' <= dev'.troubles + e
    BY <1>2, <2>1, <2>2, <2>3
  <2> QED  BY <2>4 DEF e
<1> QED  BY <1>1, <1>3, <1>4 DEF Budget

LEMMA TroubledFacts ==
  ASSUME DInv
  PROVE  /\ Troubled \in Printers /\ Troubled.gone = dev.gone
         /\ Troubled.says = dev.says /\ Troubled.troubles = dev.troubles + 1
         /\ Troubled.punctual = dev.punctual
<1>1. dev \in Printers
  BY OnceTypes
<1> QED  BY <1>1 DEF Troubled, Printers

LEMMA ExecutesOnce ==
  ASSUME OInv, Executes
  PROVE  /\ Once' /\ Budget' /\ loc' = loc
         /\ \/ dev'.executed = dev.executed
            \/ /\ dev.executed = loc.got
               /\ dev'.executed = dev.executed + 1
<1> DEFINE p == Head(out)
           n == loc.answered + 1
<1>1. /\ ~dev.gone /\ out # << >> /\ out' = Tail(out) /\ p.kind = "data"
      /\ UNCHANGED <<pc, cmd, loc>>
  BY DEF Executes
<1>2. p \in DataPackets
  BY <1>1, FirstPacket DEF OInv, CommandPackets
<1>3. /\ in \in Seq(Answers) /\ dev \in Printers /\ dev.says \in Seq(Answers)
      /\ out \in Seq(CommandPackets \union DataPackets)
      /\ Len(in) \in Nat /\ Len(out) \in Nat /\ Len(dev.says) \in Nat
      /\ dev.troubles \in Nat /\ loc.answered \in Nat
  BY OnceTypes DEF OInv
<1>4. ~NoneOf(out, DataPackets)
  BY <1>1, <1>2, <1>3, NoneTail
<1>5. Waiting /\ pc \in {"read", "close", "over"} /\ loc.got = loc.answered
  BY <1>4 DEF OInv, Once, Served
<1>6. /\ p.to = n /\ NoneOf(out', DataPackets)
      /\ NoneOf(in, Telling) /\ dev.says = << >> /\ dev.executed = loc.answered
  <2>1. OneOf(out, DataPackets, CommandOf(n))
    BY <1>5 DEF Waiting
  <2>2. p \in CommandOf(n) /\ NoneOf(out', DataPackets)
    BY <1>1, <1>2, <1>3, <2>1, OneTail
  <2> QED  BY <1>5, <2>2 DEF CommandOf, Waiting
<1>7. Len(out') = Len(out) - 1 /\ pc' = pc /\ loc' = loc /\ Len(dev.says) = 0
  BY <1>1, <1>3, <1>6
<1>8. dev.troubles <= MaxTroubles
  BY DEF OInv, Budget
<1>9. OnWires = Len(in) + Len(out) + Len(dev.says)
  BY <1>1 DEF OnWires
<1>10. ASSUME NEW e, in' = Append(in, ErrorPacket(e)), dev' = dev, e \in Nat
       PROVE  Once' /\ Budget' /\ dev'.executed = dev.executed
  <2>1. ErrorPacket(e) \in Answers \ Telling
    BY <1>10, DataFacts DEF Telling, Passes
  <2>2. NoneOf(in', Telling) /\ Len(in') = Len(in) + 1
    BY <1>3, <1>6, <1>10, <2>1, NoneAppend
  <2>3. Waiting'
    BY <1>5, <1>6, <1>7, <1>10, <2>2, NoneIsOne DEF Waiting
  <2>4. Once'
    BY <1>5, <1>6, <1>7, <2>3 DEF Once
  <2>5. OnWires' = Len(in') + Len(out') + Len(dev.says)
    BY <1>1, <1>10 DEF OnWires
  <2>6. OnWires' = OnWires /\ OnWires' \in Int
    <3>1. \A i, j, k \in Nat : (i + 1) + (j - 1) + k = i + j + k /\ i + j + k \in Int
      OBVIOUS
    <3>2. OnWires' = (Len(in) + 1) + (Len(out) - 1) + Len(dev.says)
      BY <1>7, <2>2, <2>5, Zenon
    <3>3. /\ (Len(in) + 1) + (Len(out) - 1) + Len(dev.says) =
               Len(in) + Len(out) + Len(dev.says)
          /\ Len(in) + Len(out) + Len(dev.says) \in Int
      BY <1>3, <3>1
    <3> QED  BY <1>9, <3>2, <3>3, Zenon
  <2>7. OnWires' <= OnWires + dev.troubles - dev.troubles
    BY <1>3, <2>6
  <2> QED  BY <1>1, <1>5, <1>8, <1>10, <2>4, <2>6, <2>7, BudgetKept
<1>11. ASSUME in' = in, dev'.executed = n, dev'.gone = dev.gone,
              \/ /\ dev'.says = <<Data(n)>> /\ dev'.troubles = dev.troubles
              \/ /\ dev'.says = <<Data(0), Data(n)>>
                 /\ dev'.troubles = dev.troubles + 1
                 /\ dev.troubles < MaxTroubles
       PROVE  /\ Once' /\ Budget' /\ dev.executed = loc.got
              /\ dev'.executed = dev.executed + 1
  <2>1. dev'.says # << >>
    <3>1. <<Data(n)>> # << >> /\ <<Data(0), Data(n)>> # << >>
      OBVIOUS
    <3> QED  BY <1>11, <3>1
  <2>2. Served'
    BY <1>6, <1>7, <1>11, <2>1 DEF Served
  <2>3. Once'
    BY <1>5, <1>7, <2>2 DEF Once
  <2>4. OnWires' = Len(in) + Len(out') + Len(dev'.says)
    BY <1>1, <1>11 DEF OnWires
  <2>5. Len(dev'.says) = 1 + dev'.troubles - dev.troubles
    <3>1. Len(<<Data(n)>>) = 1 /\ Len(<<Data(0), Data(n)>>) = 2
      OBVIOUS
    <3>2. \A t \in Nat : 1 + t - t = 1 /\ 1 + (t + 1) - t = 2
      OBVIOUS
    <3> QED  BY <1>3, <1>11, <3>1, <3>2
  <2>6. dev'.troubles \in Nat /\ dev'.troubles <= MaxTroubles
    BY <1>3, <1>8, <1>11, TroublesAssumption
  <2>7. OnWires' = OnWires + dev'.troubles - dev.troubles /\ OnWires' \in Int
    <3>1. \A i, j, t1, t2 \in Nat :
            /\ i + (j - 1) + (1 + t2 - t1) = i + j + 0 + t2 - t1
            /\ i + j + 0 + t2 - t1 \in Int
      OBVIOUS
    <3>2. OnWires' = Len(in) + (Len(out) - 1) + (1 + dev'.troubles - dev.troubles)
      BY <1>7, <2>4, <2>5, Zenon
    <3>3. OnWires = Len(in) + Len(out) + 0
      BY <1>7, <1>9
    <3> QED  BY <1>3, <2>6, <3>1, <3>2, <3>3
  <2>8. OnWires' <= OnWires + dev'.troubles - dev.troubles
    BY <2>7
  <2>9. Budget'
    BY <1>1, <1>5, <1>11, <2>6, <2>7, <2>8, BudgetKept
  <2> QED  BY <1>5, <1>6, <1>11, <2>3, <2>9
<1>12. \/ \E e \in Nat : in' = Append(in, ErrorPacket(e)) /\ dev' = dev
       \/ in' = in /\ dev' = [dev EXCEPT !.credit = @ - 1, !.executed = n,
                                         !.says = Append(@, Data(n))]
       \/ /\ in' = in /\ MayTrouble
          /\ dev' = [Troubled EXCEPT !.credit = @ - 1, !.executed = n,
                                     !.says = @ \o <<Data(0), Data(n)>>]
  <2>1. CASE in' = Append(in, ErrorPacket(IF Knows(p) THEN 129 ELSE 132)) /\ dev' = dev
    BY <2>1
  <2> QED  BY <1>6, <2>1 DEF Executes
<1>13. ASSUME in' = in, dev' = [dev EXCEPT !.credit = @ - 1, !.executed = n,
                                          !.says = Append(@, Data(n))]
       PROVE  /\ Once' /\ Budget' /\ dev.executed = loc.got
              /\ dev'.executed = dev.executed + 1
  <2>1. Append(dev.says, Data(n)) = <<Data(n)>>
    BY <1>6
  <2> QED  BY <1>3, <1>11, <1>13, <2>1 DEF Printers
<1>14. ASSUME in' = in, MayTrouble,
              dev' = [Troubled EXCEPT !.credit = @ - 1, !.executed = n,
                                      !.says = @ \o <<Data(0), Data(n)>>]
       PROVE  /\ Once' /\ Budget' /\ dev.executed = loc.got
              /\ dev'.executed = dev.executed + 1
  <2>1. << >> \o <<Data(0), Data(n)>> = <<Data(0), Data(n)>>
    OBVIOUS
  <2>2. /\ Troubled \in Printers /\ Troubled.gone = dev.gone
        /\ Troubled.says = dev.says /\ Troubled.troubles = dev.troubles + 1
    BY TroubledFacts DEF OInv
  <2>3. /\ dev'.executed = n /\ dev'.gone = dev.gone
        /\ dev'.says = Troubled.says \o <<Data(0), Data(n)>>
        /\ dev'.troubles = dev.troubles + 1
    BY <1>14, <2>2 DEF Printers
  <2>4. dev'.says = <<Data(0), Data(n)>>
    BY <1>6, <2>1, <2>2, <2>3, Zenon
  <2> QED  BY <1>11, <1>14, <2>3, <2>4 DEF MayTrouble
<1> QED  BY <1>7, <1>10, <1>12, <1>13, <1>14

LEMMA SpeaksOnce ==
  ASSUME OInv, Speaks
  PROVE  Once' /\ Budget' /\ loc' = loc /\ dev'.executed = dev.executed
<1> DEFINE n == loc.answered + 1
           t == Append(in, Head(dev.says))
<1>1. /\ ~dev.gone /\ dev.says # << >> /\ in' = t
      /\ dev' = [dev EXCEPT !.says = Tail(@), !.given = @ - 1]
      /\ UNCHANGED <<pc, cmd, loc, out>>
  BY DEF Speaks
<1>2. /\ in \in Seq(Answers) /\ dev \in Printers
      /\ Len(in) \in Nat /\ Len(out) \in Nat /\ Len(dev.says) \in Nat
      /\ dev.troubles \in Nat
  BY OnceTypes DEF OInv
<1>3. /\ dev'.says = Tail(dev.says) /\ dev'.gone = dev.gone
      /\ dev'.troubles = dev.troubles /\ dev'.executed = dev.executed
  BY <1>1, <1>2 DEF Printers
<1>4. /\ pc \in {"read", "close", "over"} /\ Served
      /\ Tail(dev.says) \in {<< >>, <<Data(n)>>}
      /\ IF Tail(dev.says) = << >>
         THEN OneOf(t, Telling, TellingOf(n)) ELSE NoneOf(t, Telling)
      /\ Head(dev.says) \in Answers
      /\ Len(Tail(dev.says)) = Len(dev.says) - 1
  BY <1>1, SaysOnce
<1>5. Served'
  BY <1>1, <1>3, <1>4 DEF Served
<1>6. Once'
  BY <1>1, <1>4, <1>5 DEF OInv, Once
<1>7. OnWires' = OnWires /\ OnWires \in Int
  <2>1. OnWires = Len(in) + Len(out) + Len(dev.says)
    BY <1>1 DEF OnWires
  <2>2. OnWires' = Len(in') + Len(out) + Len(dev'.says)
    BY <1>1, <1>3 DEF OnWires
  <2>3. Len(in') = Len(in) + 1
    BY <1>1, <1>2, <1>4
  <2>4. OnWires' = (Len(in) + 1) + Len(out) + (Len(dev.says) - 1)
    BY <1>3, <1>4, <2>2, <2>3, Zenon
  <2>5. \A i, j, k \in Nat : (i + 1) + j + (k - 1) = i + j + k /\ i + j + k \in Int
    OBVIOUS
  <2> QED  BY <1>2, <2>1, <2>4, <2>5
<1>8. dev.troubles <= MaxTroubles /\ OnWires' <= OnWires + dev.troubles - dev.troubles
  BY <1>2, <1>7 DEF OInv, Budget
<1>9. Budget'
  BY <1>1, <1>2, <1>3, <1>4, <1>7, <1>8, BudgetKept
<1> QED  BY <1>1, <1>3, <1>6, <1>9

LEMMA UnpluggedOnce ==
  ASSUME OInv, Unplugged
  PROVE  Once' /\ Budget' /\ loc' = loc /\ dev'.executed = dev.executed
<1>1. /\ ~dev.gone /\ MayTrouble /\ dev' = [Troubled EXCEPT !.gone = TRUE]
      /\ UNCHANGED <<pc, cmd, loc, out, in>>
  BY DEF Unplugged
<1>2. /\ dev \in Printers /\ dev.troubles \in Nat
      /\ Len(in) \in Nat /\ Len(out) \in Nat /\ Len(dev.says) \in Nat
      /\ loc.reads \in -1 .. 5
  BY OnceTypes DEF OInv
<1>3. /\ dev'.says = dev.says /\ dev'.gone
      /\ dev'.troubles = dev.troubles + 1 /\ dev'.executed = dev.executed
  BY <1>1, <1>2 DEF Troubled, Printers
<1>4. Once'
  BY <1>1, <1>3 DEF OInv, Once, Waiting, Served
<1>5. dev'.troubles <= MaxTroubles
  BY <1>1, <1>2, <1>3, TroublesAssumption DEF MayTrouble
<1>6. pc = "read" => OnWires' <= dev'.troubles + loc.reads - 4
  <2> SUFFICES ASSUME pc = "read" PROVE OnWires' <= dev'.troubles + loc.reads - 4
    OBVIOUS
  <2>1. OnWires <= dev.troubles + loc.reads - 4
    BY DEF OInv, Budget
  <2>2. OnWires = Len(in) + Len(out) + Len(dev.says) /\ OnWires' = Len(in)
    BY <1>1, <1>3 DEF OnWires
  <2>3. \A i, j, k, t \in Nat, r \in -1 .. 5 :
          i + j + k <= t + r - 4 => i <= (t + 1) + r - 4
    OBVIOUS
  <2> QED  BY <1>2, <1>3, <2>1, <2>2, <2>3
<1>7. Budget'
  BY <1>1, <1>3, <1>5, <1>6 DEF Budget
<1> QED  BY <1>1, <1>3, <1>4, <1>7

-----------------------------------------------------------------------------
LEMMA OInvInit == Init /\ Patient => OInv /\ Channel!Init
<1> SUFFICES ASSUME Init, Patient PROVE OInv /\ Channel!Init
  OBVIOUS
<1>1. /\ pc = "flush" /\ cmd = "none" /\ out = << >>
      /\ loc.answered = 0 /\ loc.got = 0
      /\ (in = << >> \/ in = <<Data(0)>>)
  BY DEF Init
<1>2. /\ dev.says = << >> /\ dev.executed = 0 /\ dev.troubles = 0
      /\ dev.gone = FALSE
  <2>1. dev \in [open : BOOLEAN, keeps : BOOLEAN, punctual : BOOLEAN,
                gone : {FALSE}, credit : {0}, given : {0}, says : {<< >>},
                executed : {0}, troubles : {0}]
    BY DEF Init
  <2> QED  BY <2>1
<1>3. NoneOf(out, DataPackets) /\ Len(out) = 0
  BY <1>1 DEF NoneOf
<1>4. NoneOf(in, Telling)
  <2>1. NoneOf(<< >>, Telling)
    BY DEF NoneOf
  <2>2. Data(0) \notin Telling
    BY DataFacts DEF Telling, Passes
  <2>3. NoneOf(<<Data(0)>>, Telling)
    BY <2>2 DEF NoneOf
  <2> QED  BY <1>1, <2>1, <2>3, Zenon
<1>5. Waiting
  BY <1>1, <1>2, <1>3, <1>4, NoneIsOne DEF Waiting
<1>6. Once
  BY <1>1, <1>3, <1>5 DEF Once
<1>7. Budget
  BY <1>1, <1>2, <1>3, TroublesAssumption DEF Budget
<1> QED  BY <1>1, <1>2, <1>6, <1>7, DInvInit DEF OInv, Channel!Init

(* What no step of the session or of the printer takes back.               *)
LEMMA PrinterStays ==
  ASSUME DInv, [Next]_vars
  PROVE  /\ dev'.punctual = dev.punctual
         /\ \/ dev'.troubles = dev.troubles
            \/ dev'.troubles = dev.troubles + 1 /\ dev.troubles < MaxTroubles
<1>1. dev \in Printers
  BY OnceTypes
<1>2. /\ Troubled \in Printers /\ Troubled.punctual = dev.punctual
      /\ Troubled.troubles = dev.troubles + 1
  BY TroubledFacts
<1>3. CASE dev' = dev \/ (dev' = Troubled /\ MayTrouble)
  BY <1>2, <1>3 DEF MayTrouble
<1>4. CASE Session
  <2>1. ASSUME NEW c \in Commands, Receive(c)
        PROVE  dev' = dev \/ (dev' = Troubled /\ MayTrouble)
    BY <2>1 DEF Receive, TimesOut
  <2>2. ASSUME ReadData PROVE dev' = dev \/ (dev' = Troubled /\ MayTrouble)
    BY <2>2 DEF ReadData, TimesOut
  <2>3. \A c, socket : Send(c, socket) => dev' = dev
    BY DEF Send
  <2>4. Flush \/ StartExchange \/ WriteData => dev' = dev
    BY DEF Flush, StartExchange, WriteData
  <2> QED  BY <1>3, <1>4, <2>1, <2>2, <2>3, <2>4, SessionMoves
<1>5. CASE Obeys
  <2> DEFINE p == Head(out)
  <2>1. p \in CommandPackets
    <3>1. out # << >> /\ p.kind = "cmd"
      BY <1>5 DEF Obeys
    <3> QED  BY <3>1, FirstPacket DEF DataPackets
  <2>2. /\ Done(p) \in Printers /\ Done(p).punctual = dev.punctual
        /\ Done(p).troubles = dev.troubles
    BY <2>1, DoneTypes
  <2>3. \/ dev' = Done(p) \/ (dev' = Troubled /\ MayTrouble)
        \/ dev' = [Done(p) EXCEPT !.says = Tail(@), !.given = @ - 1]
        \/ dev' = [Done(p) EXCEPT !.troubles = @ + 1] /\ MayTrouble
    BY <1>5 DEF Obeys
  <2> HIDE DEF p
  <2> QED  BY <1>2, <2>2, <2>3 DEF Printers, MayTrouble
<1>6. CASE Executes
  <2>1. \/ dev' = dev
        \/ dev' = [dev EXCEPT !.credit = @ - 1, !.executed = Head(out).to,
                              !.says = Append(@, Data(Head(out).to))]
        \/ /\ MayTrouble
           /\ dev' = [Troubled EXCEPT !.credit = @ - 1, !.executed = Head(out).to,
                                      !.says = @ \o <<Data(0), Data(Head(out).to)>>]
    BY <1>6 DEF Executes
  <2> QED  BY <1>1, <1>2, <2>1 DEF Printers, MayTrouble
<1>7. CASE Speaks
  BY <1>1, <1>7 DEF Speaks, Printers
<1>8. CASE Unplugged
  BY <1>2, <1>8 DEF Unplugged, Printers, MayTrouble
<1>9. CASE Over \/ UNCHANGED vars
  BY <1>9 DEF Over, vars
<1> QED  BY <1>4, <1>5, <1>6, <1>7, <1>8, <1>9 DEF Next

LEMMA OInvStep ==
  ASSUME OInv, [Next]_vars
  PROVE  OInv' /\ [Channel!Next]_(Channel!vars)
<1>1. DInv'
  BY DInvStep DEF OInv
<1>2. dev'.punctual = dev.punctual
  BY PrinterStays DEF OInv
<1>3. Patient'
  BY <1>2 DEF OInv, Patient
<1>4. /\ Once' /\ Budget'
      /\ \/ loc'.got = loc.got /\ dev'.executed = dev.executed
         \/ /\ loc'.got = loc.got /\ dev.executed = loc.got
            /\ dev'.executed = dev.executed + 1
         \/ /\ loc.got < dev.executed /\ loc'.got = dev.executed
            /\ dev'.executed = dev.executed
  <2>1. CASE UNCHANGED vars
    BY <2>1 DEF vars, OInv, Once, Budget, Waiting, Served, OnWires
  <2>2. CASE Session
    <3>1. CASE Flush
      BY <3>1, FlushOnce DEF Flush, Goto
    <3>2. CASE StartExchange
      BY <3>2, StartOnce DEF StartExchange
    <3>3. CASE WriteData
      BY <3>3, WriteOnce DEF WriteData
    <3>4. CASE ReadData
      BY <3>4, ReadOnce
    <3>5. ASSUME NEW c \in Commands, NEW socket \in Nat, Send(c, socket),
                 pc \in DOMAIN Awaits
          PROVE  /\ Once' /\ Budget'
                 /\ loc'.got = loc.got /\ dev'.executed = dev.executed
      BY <3>5, SendOnce DEF Send
    <3>6. ASSUME NEW c \in Commands, Receive(c), Moves
          PROVE  /\ Once' /\ Budget'
                 /\ loc'.got = loc.got /\ dev'.executed = dev.executed
      <4>1. Once' /\ Budget'
        BY <3>6, ReceiveOnce
      <4>2. dev'.executed = dev.executed
        BY <3>6, TimesOutDoes DEF Receive, OInv
      <4> QED  BY <3>6, <4>1, <4>2 DEF Moves
    <3> QED  BY <2>2, <3>1, <3>2, <3>3, <3>4, <3>5, <3>6, SessionMoves DEF OInv
  <2>3. CASE Obeys
    <3>1. loc' = loc
      BY <2>3 DEF Obeys
    <3> QED  BY <2>3, <3>1, ObeysOnce
  <2>4. CASE Executes
    BY <2>4, ExecutesOnce
  <2>5. CASE Speaks
    BY <2>5, SpeaksOnce
  <2>6. CASE Unplugged
    BY <2>6, UnpluggedOnce
  <2>7. CASE Over
    BY <2>1, <2>7 DEF Over
  <2> QED  BY <2>1, <2>2, <2>3, <2>4, <2>5, <2>6, <2>7 DEF Next
<1>5. [Channel!Next]_(Channel!vars)
  BY <1>4 DEF Channel!Next, Channel!Execute, Channel!Confirm, Channel!vars
<1> QED  BY <1>1, <1>3, <1>4, <1>5 DEF OInv

(* What the caller is given is the answer to its own command, which the    *)
(* printer has executed once, and commands are executed in their order:    *)
(* of a punctual printer whatever troubles there are, and of one that is   *)
(* late as long as there are five troubles at most: writeAndReadData takes *)
(* anything for the answer once six packets were of the wrong kind.        *)
THEOREM CommandsExecutedOnce ==
  Spec /\ (dev.punctual \/ MaxTroubles <= 5) => ExecutedOnce
<1>1. Init /\ Patient => OInv /\ Channel!Init
  BY OInvInit
<1>2. OInv /\ [Next]_vars => OInv' /\ [Channel!Next]_(Channel!vars)
  BY OInvStep
<1> QED  BY <1>1, <1>2, PTL DEF Spec, ExecutedOnce, Channel!Spec, Patient

-----------------------------------------------------------------------------
(* askForCredit counts its rounds down from nine retries; each one that    *)
(* does not get credit was a trouble, or was lost to a channel that an     *)
(* earlier trouble had closed.                                             *)
Spent == loc.retries + dev.troubles

Good == dev.open /\ loc.asked = Socket

Spare == IF loc.from = "ask" THEN Spent >= 11 ELSE dev.troubles >= 1

(* What the printer has made of a command.                                 *)
Open == cmd = "none" \/ out # << >>
Told == cmd # "none" /\ in # << >>
Lost == cmd # "none" /\ out = << >> /\ in = << >>

Meant ==
  Told =>
    /\ in[1].to = cmd /\ in[1].kind \in {"answer", "zeros"}
    /\ cmd # "enter" => in[1].kind = "answer"
    /\ cmd = "socket" =>
         in[1].result = 10 \/ (in[1].result = 0 /\ in[1].value = Socket)
    /\ cmd = "request" => in[1].result \in {0, 8} /\ in[1].value \in {0, 1}
    /\ cmd = "open" => in[1].result \in {0, 4, 6, 9}

Sent ==
  cmd # "none" /\ out # << >> /\ pc \in {"ask", "open", "reopen"} =>
    out[1].socket = loc.asked

Asks ==
  pc = "ask" =>
    /\ Open => Spent >= 9 /\ (~Good => Spent >= 10)
    /\ Lost => Spent >= 10
    /\ Told =>
         \/ in[1].result # 0 /\ Spent >= 10
         \/ in[1].result = 0 /\ in[1].value > 0 /\ dev.open /\ dev.credit > 0
         \/ /\ in[1].result = 0 /\ in[1].value = 0
            /\ Spent >= 10 /\ (~Good => Spent >= 11)

Renews ==
  /\ pc \in {"renew", "find", "again"} => Spent >= 10
  /\ pc \in {"find", "again"} /\ (Lost \/ (Told /\ in[1].result # 0)) => Spent >= 11
  /\ pc = "again" /\ loc.asked # Socket => Spent >= 11

Opens ==
  /\ loc.from = "ask" => Spent >= 10
  /\ pc = "open" =>
       /\ Open /\ (loc.asked # Socket \/ (loc.opens > 0 /\ dev.open)) => Spare
       /\ Lost => Spare
       /\ Told => \/ in[1].result = 0 /\ Good
                  \/ in[1].result = 6 /\ loc.asked = Socket /\ (loc.opens > 0 => Spare)
                  \/ in[1].result \notin {0, 6} /\ Spare
  /\ pc = "reopen" =>
       /\ loc.asked = Socket /\ (loc.opens > 0 => Spare)
       /\ Open \/ ~dev.open \/ Spare

Gives ==
  /\ pc \in {"drain", "drained", "start"} => dev.open \/ dev.troubles >= 1
  /\ pc \in {"give", "write", "read"} => dev.open
  /\ pc \in {"give", "write"} => dev.credit > 0

Plan == Sent /\ Asks /\ Renews /\ Opens /\ Gives

Found ==
  /\ pc \notin {"flush", "enter", "init", "socket", "over"} => loc.socket = Socket
  /\ loc.opens > 0 => pc \in {"open", "reopen"}

Credited ==
  out # << >> /\ Head(out).kind = "data" => Knows(Head(out)) /\ dev.credit > 0

Granted ==
  dev.punctual => Found /\ Credited /\ Meant /\ (~dev.gone => Plan)

Generous == dev.troubles <= MaxTroubles /\ MaxTroubles <= 10

CInv == DInv /\ Granted /\ Generous

LEMMA CreditTypes ==
  ASSUME DInv
  PROVE  /\ loc.retries \in -3 .. 9 /\ loc.opens \in 0 .. 4 /\ loc.count \in 0 .. 11
         /\ loc.asked \in Nat /\ loc.socket \in Nat /\ loc.from \in {"init", "ask"}
         /\ loc \in [tries : 0 .. 5, opens : 0 .. 4, from : {"init", "ask"},
                     count : 0 .. 11, retries : -3 .. 9, asked : Nat, socket : Nat,
                     reads : -1 .. 5, answered : 0 .. Exchanges, got : Nat]
         /\ dev.troubles \in Nat /\ dev.credit \in Nat /\ dev.open \in BOOLEAN
         /\ dev.gone \in BOOLEAN /\ dev \in Printers
         /\ pc # "open" /\ pc # "reopen" => loc.from = "init"
         /\ Spent \in Int
<1>1. loc \in [tries : 0 .. 5, opens : 0 .. 4, from : {"init", "ask"},
               count : 0 .. 11, retries : -3 .. 9, asked : Nat, socket : Nat,
               reads : -1 .. 5, answered : 0 .. Exchanges, got : Nat]
  BY DEF DInv, Shape, Locals
<1>2. pc # "open" /\ pc # "reopen" => loc.from = "init"
  BY <1>1 DEF DInv, Shape, Locals
<1>3. dev \in Printers
  BY OnceTypes
<1>4. dev.troubles \in Nat /\ dev.credit \in Nat /\ dev.open \in BOOLEAN
      /\ dev.gone \in BOOLEAN
  BY <1>3 DEF Printers
<1>5. loc.retries \in -3 .. 9
  BY <1>1
<1>6. Spent \in Int
  BY <1>4, <1>5 DEF Spent
<1> QED  BY <1>1, <1>2, <1>3, <1>4, <1>5, <1>6

(* A command is sent.                                                      *)
LEMMA SendGrants ==
  ASSUME CInv, NEW c \in Commands, NEW socket \in Nat, Send(c, socket),
         pc \in DOMAIN Awaits,
         pc \in {"ask", "open", "reopen"} => socket = loc.asked
  PROVE  Granted'
<1> SUFFICES ASSUME dev.punctual PROVE Granted'
  BY DEF Send, Granted
<1>1. pc' = pc /\ cmd = "none" /\ cmd' = c /\ loc' = loc /\ dev' = dev
      /\ c # "none" /\ pc # "read" /\ pc # "flush"
  BY DEF Send, Commands, AnswerLength, Awaits
<1> DEFINE p == [kind |-> "cmd", to |-> c, socket |-> socket, fresh |-> TRUE]
           s == Stale(out)
<1>2. out' = Append(s, p) /\ in' = Stale(in)
  BY DEF Send
<1>3. in = << >> /\ (dev.gone \/ out = << >>)
  BY <1>1 DEF CInv, DInv, Tidy, Still
<1>4. /\ s \in Seq(CommandPackets \union DataPackets)
      /\ out = << >> => s = << >>
      /\ in' = << >>
  BY <1>2, <1>3, StaleWires DEF CInv, DInv, Shape
<1>5. out \in Seq(CommandPackets \union DataPackets)
  BY OnceTypes DEF CInv
<1>6. out # << >> => s # << >> /\ Head(s) = [Head(out) EXCEPT !.fresh = FALSE]
  <2>1. DOMAIN out = 1 .. Len(out) /\ Len(out) \in Nat
    BY <1>5
  <2>2. Len(s) = Len(out) /\ (out # << >> => s[1] = [out[1] EXCEPT !.fresh = FALSE])
    <3>1. s = [i \in 1 .. Len(out) |-> [out[i] EXCEPT !.fresh = FALSE]]
      BY <2>1 DEF Stale
    <3> HIDE DEF s
    <3>2. Len(s) = Len(out)
      BY <1>4, <2>1, <3>1
    <3>3. out # << >> => 1 \in 1 .. Len(out)
      BY <1>5, EmptySeq
    <3>4. 1 \in 1 .. Len(out) => s[1] = [out[1] EXCEPT !.fresh = FALSE]
      BY <3>1, Zenon
    <3> QED  BY <3>2, <3>3, <3>4
  <2> HIDE DEF s
  <2>3. out # << >> => s # << >>
    BY <1>4, <1>5, <2>2, EmptySeq
  <2> QED  BY <2>2, <2>3
<1>7. p \in CommandPackets /\ p.kind = "cmd" /\ p.socket = socket
  BY DEF CommandPackets
<1> HIDE DEF p, s
<1>8. /\ out' # << >> /\ (s = << >> => Head(out') = p /\ out'[1] = p)
      /\ s # << >> => Head(out') = Head(s)
  BY <1>2, <1>4, <1>7
<1>9. Credited'
  <2>1. CASE out = << >>
    BY <1>4, <1>7, <1>8, <2>1 DEF Credited
  <2>2. CASE out # << >>
    <3> DEFINE h == Head(out)
               g == [h EXCEPT !.fresh = FALSE]
    <3>1. h \in CommandPackets \union DataPackets
      BY <1>5, <2>2
    <3>2. g.kind = h.kind /\ g.socket = h.socket
      BY <3>1 DEF CommandPackets, DataPackets
    <3>3. Head(out') = g
      BY <1>6, <1>8, <2>2
    <3> HIDE DEF h, g
    <3>4. h.kind = "data" => Knows(h) /\ dev.credit > 0
      BY <2>2 DEF CInv, Granted, Credited, h
    <3> QED  BY <1>1, <3>2, <3>3, <3>4 DEF Credited, Knows
  <2> QED  BY <2>1, <2>2
<1>10. Found' /\ Meant'
  BY <1>1, <1>4 DEF CInv, Granted, Found, Meant, Told
<1>11. ASSUME ~dev.gone PROVE Plan'
  <2>1. out' # << >> /\ out'[1].socket = socket /\ in' = << >>
    BY <1>3, <1>4, <1>7, <1>8, <1>11
  <2>2. Open /\ Open' /\ ~Told' /\ ~Lost'
    BY <1>1, <2>1 DEF Open, Told, Lost
  <2>3. Spent' = Spent /\ Good' = Good /\ Spare' = Spare
    BY <1>1 DEF Spent, Good, Spare
  <2>4. Plan
    BY <1>11 DEF CInv, Granted
  <2>5. Sent'
    BY <1>1, <2>1 DEF Sent
  <2>6. Asks' /\ Renews' /\ Opens' /\ Gives'
    BY <1>1, <2>2, <2>3, <2>4 DEF Plan, Asks, Renews, Opens, Gives
  <2> QED  BY <2>5, <2>6 DEF Plan
<1> QED  BY <1>1, <1>9, <1>10, <1>11 DEF Granted

(* What readAnswer finds, of a punctual printer.                           *)
LEMMA ReceiveSees ==
  ASSUME CInv, dev.punctual, NEW c \in Commands, Receive(c)
  PROVE  /\ pc \in DOMAIN Awaits /\ cmd = c /\ c = Awaits[pc] /\ c # "none"
         /\ cmd' = "none" /\ dev' = dev /\ out' = out /\ in' = << >>
         /\ ~Open \/ dev.gone
         /\ \/ /\ in = << >> /\ Result.rd = -1 /\ Result.errno = 0
               /\ dev.gone \/ Lost
            \/ /\ Told
               /\ in[1].result = 0 /\ in[1].kind = "answer" =>
                    /\ Result.rd = AnswerLength[c] /\ Result.errno = 0
                    /\ Result.value = in[1].value
               /\ in[1].result # 0 =>
                    /\ Result.rd = IF in[1].result \in Fatal THEN -1 ELSE 0
                    /\ Result.errno = in[1].result
<1>1. c # "none"
  BY DEF Commands, AnswerLength
<1>2. /\ pc \in DOMAIN Awaits /\ c = Awaits[pc] /\ cmd = c /\ cmd' = "none"
      /\ in' = << >> /\ (in # << >> => Head(in) \in Answers)
  BY <1>1, ReceiveLeaves DEF CInv
<1>3. out' = out
  BY DEF Receive
<1>4. Asking
  BY <1>1, <1>2 DEF CInv, DInv, Tidy
<1>5. CASE in # << >> /\ in' = Tail(in) /\ UNCHANGED dev
  <2>1. Told
    BY <1>1, <1>2, <1>5 DEF Told
  <2>2. dev.gone \/ out = << >>
    BY <1>4, <1>5 DEF Asking
  <2>3. /\ in[1].to = c /\ in[1].kind \in {"answer", "zeros"}
    BY <1>2, <2>1 DEF CInv, Granted, Meant
  <2>4. Result = SendReceive(in[1])
    BY <1>5 DEF Result
  <2>5. in[1].result = 0 /\ in[1].kind = "answer" =>
          /\ Result.rd = AnswerLength[c] /\ Result.errno = 0
          /\ Result.value = in[1].value
    BY <1>2, <2>3, <2>4 DEF SendReceive
  <2>6. in[1].result # 0 =>
          /\ Result.rd = IF in[1].result \in Fatal THEN -1 ELSE 0
          /\ Result.errno = in[1].result
    BY <1>2, <2>3, <2>4 DEF SendReceive
  <2> QED  BY <1>1, <1>2, <1>3, <1>5, <2>1, <2>2, <2>5, <2>6 DEF Open
<1>6. CASE TimesOut
  <2>1. in = << >> /\ Silent /\ dev' = dev
    BY <1>6 DEF TimesOut
  <2>2. dev.gone \/ out = << >>
    BY <2>1 DEF Silent
  <2>3. Result.rd = -1 /\ Result.errno = 0
    BY <2>1 DEF Result, NoAnswer
  <2> QED  BY <1>1, <1>2, <1>3, <2>1, <2>2, <2>3 DEF Open, Lost
<1> QED  BY <1>5, <1>6 DEF Receive

(* What is left to show where something was received.                      *)
LEMMA ReceiveGrants ==
  ASSUME CInv, dev.punctual, NEW c \in Commands, Receive(c),
         Found', ~dev.gone => Asks' /\ Renews' /\ Opens' /\ Gives'
  PROVE  Granted'
<1>1. cmd' = "none" /\ dev' = dev /\ out' = out
  BY ReceiveSees
<1>2. Credited'
  BY <1>1 DEF CInv, Granted, Credited, Knows
<1>3. Meant' /\ Sent'
  BY <1>1 DEF Meant, Sent, Told
<1> QED  BY <1>1, <1>2, <1>3 DEF Granted, Plan

-----------------------------------------------------------------------------
(* The functions before the first exchange: nothing is promised of credit. *)
LEMMA QuietGrants ==
  ASSUME CInv, dev.punctual, NEW c \in Commands, Receive(c), Found',
         pc' \in {"flush", "enter", "init", "socket", "close", "over"},
         loc'.from = "init"
  PROVE  Granted'
BY ReceiveGrants DEF Asks, Renews, Opens, Gives

LEMMA EnterGrants ==
  ASSUME CInv, dev.punctual, EnterIEEE, Receive("enter")
  PROVE  Granted'
<1>1. pc = "enter" /\ "enter" \in Commands /\ cmd = "enter"
  BY DEF EnterIEEE, Commands, AnswerLength, Receive
<1>2. /\ pc' \in {"flush", "over", "enter", "init"}
      /\ loc'.from = loc.from /\ loc'.opens = loc.opens
  <2>1. CASE Retry
    BY <2>1, CreditTypes DEF CInv, Retry, Goto
  <2>2. CASE \E p \in {"enter", "init"} : Goto(p)
    BY <2>2 DEF Goto
  <2>3. ~Send("enter", 0)
    BY <1>1 DEF Send
  <2>4. Retry \/ \E p \in {"enter", "init"} : Goto(p)
    BY <2>3 DEF EnterIEEE
  <2> QED  BY <2>1, <2>2, <2>4
<1>3. loc.from = "init" /\ ~(loc.opens > 0)
  BY <1>1, CreditTypes DEF CInv, Granted, Found
<1>4. Found'
  BY <1>2, <1>3 DEF Found
<1> QED  BY <1>1, <1>2, <1>3, <1>4, QuietGrants

LEMMA InitGrants ==
  ASSUME CInv, dev.punctual, InitPrinter, Receive("init")
  PROVE  Granted'
<1>1. pc = "init" /\ "init" \in Commands /\ cmd = "init"
  BY DEF InitPrinter, Commands, AnswerLength, Receive
<1>2. /\ pc' \in {"flush", "over", "socket"}
      /\ loc'.from = loc.from /\ loc'.opens = loc.opens
  <2>1. CASE Retry
    BY <2>1, CreditTypes DEF CInv, Retry, Goto
  <2>2. CASE Goto("socket")
    BY <2>2 DEF Goto
  <2>3. ~Send("init", 0)
    BY <1>1 DEF Send
  <2> QED  BY <2>1, <2>2, <2>3 DEF InitPrinter
<1>3. loc.from = "init" /\ ~(loc.opens > 0)
  BY <1>1, CreditTypes DEF CInv, Granted, Found
<1>4. Found'
  BY <1>2, <1>3 DEF Found
<1> QED  BY <1>1, <1>2, <1>3, <1>4, QuietGrants

(* The socket is the printer's, or none.                                   *)
LEMMA SocketIsFound ==
  ASSUME CInv, dev.punctual, Receive("socket")
  PROVE  /\ SocketFound \in {0, Socket}
         /\ ~dev.gone => SocketFound = Socket \/ Lost \/ (Told /\ in[1].result # 0)
<1>1. "socket" \in Commands /\ AnswerLength["socket"] = 19 /\ "socket" # "enter"
  BY DEF Commands, AnswerLength
<1>2. cmd = "socket"
  BY DEF Receive
<1>3. CASE in = << >>
  <2>1. Result.rd = -1 /\ (dev.gone \/ Lost)
    BY <1>1, <1>3, ReceiveSees DEF Told
  <2> QED  BY <2>1 DEF SocketFound
<1>4. CASE in # << >>
  <2>1. /\ Told
        /\ in[1].result = 0 /\ in[1].kind = "answer" =>
             Result.rd = 19 /\ Result.value = in[1].value
        /\ in[1].result # 0 => Result.rd = IF in[1].result \in Fatal THEN -1 ELSE 0
    BY <1>1, <1>4, ReceiveSees
  <2>2. /\ in[1].kind = "answer"
        /\ in[1].result = 10 \/ (in[1].result = 0 /\ in[1].value = Socket)
    BY <1>1, <1>2, <2>1 DEF CInv, Granted, Meant
  <2>3. CASE in[1].result = 10
    BY <2>1, <2>3 DEF SocketFound, Fatal
  <2>4. CASE in[1].result = 0 /\ in[1].value = Socket
    BY <2>1, <2>2, <2>4 DEF SocketFound
  <2> QED  BY <2>2, <2>3, <2>4
<1> QED  BY <1>3, <1>4

LEMMA SocketGrants ==
  ASSUME CInv, dev.punctual, GetSocketID, Receive("socket")
  PROVE  Granted'
<1>1. pc = "socket" /\ "socket" \in Commands /\ cmd = "socket"
  BY DEF GetSocketID, Commands, AnswerLength, Receive
<1>2. loc.from = "init" /\ ~(loc.opens > 0) /\ loc.opens \in 0 .. 4
  BY <1>1, CreditTypes DEF CInv, Granted, Found
<1> DEFINE f == SocketFound
<1>3. f \in {0, Socket}
  BY SocketIsFound
<1>4. /\ pc' = IF f = 0 THEN "over" ELSE "open"
      /\ loc' = [loc EXCEPT !.socket = f, !.asked = f]
  <2>1. ~Send("socket", 0)
    BY <1>1 DEF Send
  <2> QED  BY <2>1 DEF GetSocketID
<1> HIDE DEF f
<1>5. /\ loc'.socket = f /\ loc'.asked = f /\ loc'.opens = loc.opens
      /\ loc'.from = "init"
  BY <1>2, <1>4, CreditTypes DEF CInv
<1>6. CASE f = 0
  <2>1. Found'
    BY <1>2, <1>4, <1>5, <1>6 DEF Found
  <2> QED  BY <1>1, <1>4, <1>5, <1>6, <2>1, QuietGrants
<1>7. CASE f = Socket
  <2>1. pc' = "open" /\ loc'.opens = 0
    BY <1>2, <1>4, <1>5, <1>7 DEF Socket
  <2>2. Found'
    BY <1>5, <1>7, <2>1 DEF Found
  <2>3. cmd' = "none"
    BY DEF Receive
  <2>4. Asks' /\ Renews' /\ Gives'
    BY <2>1 DEF Asks, Renews, Gives
  <2>5. Opens'
    BY <1>5, <1>7, <2>1, <2>3 DEF Opens, Told, Lost
  <2> QED  BY <1>1, <2>2, <2>4, <2>5, ReceiveGrants
<1> QED  BY <1>3, <1>6, <1>7

LEMMA DrainGrants ==
  ASSUME CInv, dev.punctual, Drain, Receive("credit")
  PROVE  Granted'
<1>1. pc = "drain" /\ "credit" \in Commands /\ cmd = "credit"
  BY DEF Drain, Commands, AnswerLength, Receive
<1>2. loc.from = "init" /\ ~(loc.opens > 0) /\ loc.socket = Socket
  BY <1>1, CreditTypes DEF CInv, Granted, Found
<1>3. pc' \in {"drained", "start"} /\ loc' = loc
  <2>1. ~Send("credit", loc.socket)
    BY <1>1 DEF Send
  <2> QED  BY <2>1 DEF Drain, Goto
<1>4. Found'
  BY <1>2, <1>3 DEF Found
<1>5. dev' = dev
  BY <1>1, ReceiveSees
<1>6. ~dev.gone => Asks' /\ Renews' /\ Opens' /\ Gives'
  <2>1. ~dev.gone => Gives
    BY DEF CInv, Granted, Plan
  <2>2. Asks' /\ Renews' /\ Opens'
    BY <1>2, <1>3 DEF Asks, Renews, Opens
  <2>3. ~dev.gone => Gives'
    BY <1>1, <1>3, <1>5, <2>1 DEF Gives
  <2> QED  BY <2>2, <2>3
<1> QED  BY <1>1, <1>4, <1>6, ReceiveGrants

LEMMA GiveGrants ==
  ASSUME CInv, dev.punctual, GiveCredit, Receive("credit")
  PROVE  Granted'
<1>1. pc = "give" /\ "credit" \in Commands /\ cmd = "credit"
  BY DEF GiveCredit, Commands, AnswerLength, Receive
<1>2. loc.from = "init" /\ ~(loc.opens > 0) /\ loc.socket = Socket
  BY <1>1, CreditTypes DEF CInv, Granted, Found
<1>3. pc' \in {"write", "close"} /\ loc' = loc
  <2>1. ~Send("credit", loc.socket)
    BY <1>1 DEF Send
  <2> QED  BY <2>1 DEF GiveCredit, Goto, After
<1>4. Found'
  BY <1>2, <1>3 DEF Found
<1>5. dev' = dev
  BY <1>1, ReceiveSees
<1>6. ~dev.gone => Asks' /\ Renews' /\ Opens' /\ Gives'
  <2>1. ~dev.gone => Gives
    BY DEF CInv, Granted, Plan
  <2>2. Asks' /\ Renews' /\ Opens'
    BY <1>2, <1>3 DEF Asks, Renews, Opens
  <2>3. ~dev.gone => Gives'
    BY <1>1, <1>3, <1>5, <2>1 DEF Gives
  <2> QED  BY <2>2, <2>3
<1> QED  BY <1>1, <1>4, <1>6, ReceiveGrants

LEMMA CloseGrants ==
  ASSUME CInv, dev.punctual, CloseChannel, Receive("close")
  PROVE  Granted'
<1>1. pc = "close" /\ "close" \in Commands /\ cmd = "close"
  BY DEF CloseChannel, Commands, AnswerLength, Receive
<1>2. loc.from = "init" /\ ~(loc.opens > 0)
  BY <1>1, CreditTypes DEF CInv, Granted, Found
<1>3. pc' = "over" /\ loc' = loc
  <2>1. ~Send("close", loc.socket)
    BY <1>1 DEF Send
  <2> QED  BY <2>1 DEF CloseChannel, Goto
<1>4. Found'
  BY <1>2, <1>3 DEF Found
<1> QED  BY <1>1, <1>2, <1>3, <1>4, QuietGrants

-----------------------------------------------------------------------------
(* The rounds of askForCredit.  The last one ends without credit only if   *)
(* eleven troubles were spent.                                             *)
LEMMA RoundGrants ==
  ASSUME CInv, dev.punctual, NEW c \in Commands, Receive(c),
         NEW left \in Int, NextRound(left),
         pc \in {"ask", "again", "open", "reopen"},
         ~dev.gone => /\ left + dev.troubles >= 10
                      /\ ~Good => left + dev.troubles >= 11
  PROVE  Granted'
<1>1. /\ pc' = IF left >= 0 THEN "ask" ELSE "give"
      /\ loc' = [loc EXCEPT !.count = @ + 1, !.retries = left - 1,
                            !.opens = 0, !.from = "init"]
  BY DEF NextRound, After
<1>2. /\ loc'.retries = left - 1 /\ loc'.opens = 0 /\ loc'.from = "init"
      /\ loc'.asked = loc.asked /\ loc'.socket = loc.socket
  BY <1>1, CreditTypes DEF CInv
<1>3. loc.socket = Socket
  BY DEF CInv, Granted, Found
<1>4. Found'
  BY <1>1, <1>2, <1>3 DEF Found
<1>5. dev' = dev /\ cmd' = "none"
  BY ReceiveSees
<1>6. ASSUME ~dev.gone
      PROVE  Asks' /\ Renews' /\ Opens' /\ Gives'
  <2>1. dev.troubles \in Nat /\ dev.troubles <= 10
    BY CreditTypes, TroublesAssumption DEF CInv, Generous
  <2>2. left >= 0
    BY <1>6, <2>1
  <2>3. Spent' = left - 1 + dev.troubles
    BY <1>2, <1>5 DEF Spent
  <2>4. Good' = Good
    BY <1>2, <1>5 DEF Good
  <2>5. Spent' >= 9 /\ (~Good' => Spent' >= 10)
    BY <1>6, <2>1, <2>3, <2>4
  <2>6. Asks'
    BY <1>5, <2>5 DEF Asks, Told, Lost
  <2> QED  BY <1>1, <1>2, <2>2, <2>6 DEF Renews, Opens, Gives
<1> QED  BY <1>4, <1>6, ReceiveGrants

LEMMA NoCreditGrants ==
  ASSUME CInv, dev.punctual, Receive("request"), NoCredit, pc = "ask",
         ~dev.gone => Spent >= 10 /\ (~Good => Spent >= 11)
  PROVE  Granted'
<1>1. "request" \in Commands /\ loc.from = "init" /\ ~(loc.opens > 0)
      /\ loc.socket = Socket
  BY CreditTypes DEF CInv, Granted, Found, Commands, AnswerLength
<1>2. /\ loc.retries \in -3 .. 9 /\ dev.troubles \in Nat /\ dev.troubles <= 10
      /\ loc.retries >= -1
  BY CreditTypes, TroublesAssumption DEF CInv, Generous, DInv, Shape, Rounds
<1>3. CASE loc.count < 2 /\ loc.retries >= 0
  <2>1. pc' = "ask" /\ loc' = [loc EXCEPT !.retries = @ - 1]
    BY <1>3 DEF NoCredit
  <2>2. /\ loc'.retries = loc.retries - 1 /\ loc'.asked = loc.asked
        /\ loc'.from = "init" /\ loc'.opens = loc.opens /\ loc'.socket = Socket
    BY <1>1, <2>1, CreditTypes DEF CInv
  <2>3. dev' = dev /\ cmd' = "none"
    BY <1>1, ReceiveSees
  <2>4. Found'
    BY <1>1, <2>1, <2>2 DEF Found
  <2>5. Spent' = Spent - 1 /\ Good' = Good
    BY <1>2, <2>2, <2>3 DEF Spent, Good
  <2>6. Spent \in Int
    BY CreditTypes DEF CInv
  <2>7. ~dev.gone => Asks'
    BY <2>3, <2>5, <2>6 DEF Asks, Told, Lost
  <2>8. Renews' /\ Opens' /\ Gives'
    BY <2>1, <2>2 DEF Renews, Opens, Gives
  <2> QED  BY <1>1, <2>4, <2>7, <2>8, ReceiveGrants
<1>4. CASE ~(loc.count < 2) \/ ~(loc.retries >= 0)
  <2> DEFINE left == IF loc.count < 2 THEN loc.retries - 1 ELSE loc.retries
  <2>1. NextRound(left) /\ left \in Int
    BY <1>2, <1>4 DEF NoCredit
  <2>2. ASSUME ~dev.gone
        PROVE  left + dev.troubles >= 10 /\ (~Good => left + dev.troubles >= 11)
    <3>1. loc.retries >= 0
      BY <1>2, <2>2 DEF Spent
    <3>2. left = loc.retries
      BY <1>4, <3>1
    <3> HIDE DEF left
    <3> QED  BY <2>2, <3>2 DEF Spent
  <2> HIDE DEF left
  <2> QED  BY <1>1, <2>1, <2>2, RoundGrants
<1> QED  BY <1>3, <1>4

LEMMA AskGrants ==
  ASSUME CInv, dev.punctual, AskForCredit, Receive("request")
  PROVE  Granted'
<1>1. pc = "ask" /\ "request" \in Commands /\ cmd = "request" /\ "request" # "enter"
      /\ AnswerLength["request"] = 12
  BY DEF AskForCredit, Commands, AnswerLength, Receive
<1>2. loc.from = "init" /\ ~(loc.opens > 0) /\ loc.socket = Socket
  BY <1>1, CreditTypes DEF CInv, Granted, Found
<1>3. dev' = dev /\ cmd' = "none" /\ (~Open \/ dev.gone)
  BY <1>1, ReceiveSees
<1>4. ~dev.gone => Asks
  BY DEF CInv, Granted, Plan
<1>6. /\ Credit > 0 => Goto("give")
      /\ Credit = 0 => NoCredit
      /\ Credit < 0 => Goto("close") \/ Goto("renew")
  <2>1. ~Send("request", loc.asked)
    BY <1>1 DEF Send
  <2>2. Credit \in Int
    BY <1>1, ResultTypes DEF CInv
  <2>3. Credit > 0 => Goto("give")
    BY <2>1, <2>2 DEF AskForCredit, After
  <2>4. Credit = 0 => NoCredit
    BY <2>1, <2>2 DEF AskForCredit
  <2>5. Credit < 0 => Goto("close") \/ Goto("renew")
    BY <2>1, <2>2 DEF AskForCredit
  <2> QED  BY <2>3, <2>4, <2>5
<1>7. ASSUME Goto("close") \/ Goto("renew") \/ Goto("give"),
             ~dev.gone => /\ Goto("renew") => Spent >= 10
                          /\ Goto("give") => dev.open /\ dev.credit > 0
      PROVE  Granted'
  <2>1. pc' \in {"close", "renew", "give"} /\ loc' = loc
    BY <1>7 DEF Goto
  <2>2. Found'
    BY <1>2, <2>1 DEF Found
  <2>3. ASSUME ~dev.gone PROVE Asks' /\ Renews' /\ Opens' /\ Gives'
    <3>1. /\ pc' = "renew" => Spent >= 10
          /\ pc' = "give" => dev.open /\ dev.credit > 0
      BY <1>7, <2>1, <2>3 DEF Goto
    <3>2. Spent' = Spent
      BY <1>3, <2>1 DEF Spent
    <3>3. Asks' /\ Opens'
      BY <1>2, <2>1 DEF Asks, Opens
    <3>4. Renews' /\ Gives'
      BY <1>3, <2>1, <3>1, <3>2 DEF Renews, Gives
    <3> QED  BY <3>3, <3>4
  <2> QED  BY <1>1, <2>2, <2>3, ReceiveGrants
<1>8. CASE in = << >>
  <2>1. Result.rd = -1 /\ (dev.gone \/ Lost)
    BY <1>1, <1>8, ReceiveSees DEF Told
  <2>2. Credit = -1
    BY <2>1 DEF Credit
  <2>3. ~dev.gone => Spent >= 10
    BY <1>1, <1>4, <2>1 DEF Asks
  <2>4. Goto("close") \/ Goto("renew")
    BY <1>6, <2>2
  <2>5. ~Goto("give")
    BY <2>4 DEF Goto
  <2> QED  BY <1>7, <2>3, <2>4, <2>5
<1>9. CASE in # << >>
  <2>1. /\ Told
        /\ in[1].result = 0 /\ in[1].kind = "answer" =>
             Result.rd = 12 /\ Result.value = in[1].value
        /\ in[1].result # 0 => Result.rd = IF in[1].result \in Fatal THEN -1 ELSE 0
    BY <1>1, <1>9, ReceiveSees
  <2>2. /\ in[1].kind = "answer"
        /\ in[1].result \in {0, 8} /\ in[1].value \in {0, 1}
    BY <1>1, <2>1 DEF CInv, Granted, Meant
  <2>3. CASE in[1].result = 8
    <3>1. Result.rd = -1
      BY <2>1, <2>3 DEF Fatal
    <3>2. Credit = -1
      BY <3>1 DEF Credit
    <3>3. ~dev.gone => Spent >= 10
      BY <1>1, <1>4, <2>1, <2>3 DEF Asks
    <3>4. Goto("close") \/ Goto("renew")
      BY <1>6, <3>2
    <3>5. ~Goto("give")
      BY <3>4 DEF Goto
    <3> QED  BY <1>7, <3>3, <3>4, <3>5
  <2>4. CASE in[1].result = 0
    <3>1. Credit = in[1].value
      BY <2>1, <2>2, <2>4 DEF Credit
    <3>2. CASE in[1].value = 1
      <4>1. Goto("give")
        BY <1>6, <3>1, <3>2
      <4>2. ~dev.gone => dev.open /\ dev.credit > 0
        BY <1>1, <1>4, <2>1, <2>4, <3>2 DEF Asks
      <4>3. ~Goto("renew")
        BY <4>1 DEF Goto
      <4> QED  BY <1>7, <4>1, <4>2, <4>3
    <3>3. CASE in[1].value = 0
      <4>1. NoCredit
        BY <1>6, <3>1, <3>3
      <4>2. ~dev.gone => Spent >= 10 /\ (~Good => Spent >= 11)
        BY <1>1, <1>4, <2>1, <2>4, <3>3 DEF Asks
      <4> QED  BY <1>1, <4>1, <4>2, NoCreditGrants
    <3> QED  BY <2>2, <3>2, <3>3
  <2> QED  BY <2>2, <2>3, <2>4
<1> QED  BY <1>8, <1>9

LEMMA RenewGrants ==
  ASSUME CInv, dev.punctual, Renew, NEW c \in Commands, Receive(c)
  PROVE  Granted'
<1>1. /\ pc \in {"renew", "find", "again"} /\ cmd = c /\ cmd # "none"
      /\ dev' = dev /\ cmd' = "none" /\ (~Open \/ dev.gone)
  <2>1. pc \in {"renew", "find", "again"}
    BY DEF Renew
  <2> QED  BY <2>1, ReceiveSees
<1>2. loc.from = "init" /\ ~(loc.opens > 0) /\ loc.socket = Socket /\ loc.opens = 0
  BY <1>1, CreditTypes DEF CInv, Granted, Found
<1>3. ~dev.gone => Renews
  BY DEF CInv, Granted, Plan
<1>4. Spent \in Int
  BY CreditTypes DEF CInv
<1>5. \A d, socket : ~Send(d, socket)
  BY <1>1 DEF Send
<1>6. CASE pc = "renew"
  <2>1. pc' = "find" /\ loc' = loc
    BY <1>5, <1>6 DEF Renew, Goto
  <2>2. Found'
    BY <1>2, <2>1 DEF Found
  <2>3. ~dev.gone => Renews'
    BY <1>1, <1>3, <2>1 DEF Renews, Spent, Told, Lost
  <2>4. Asks' /\ Opens' /\ Gives'
    BY <1>2, <2>1 DEF Asks, Opens, Gives
  <2> QED  BY <2>2, <2>3, <2>4, ReceiveGrants
<1>7. CASE pc = "find"
  <2> DEFINE f == SocketFound
  <2>1. Receive("socket") /\ pc' = "again" /\ loc' = [loc EXCEPT !.asked = f]
    BY <1>5, <1>7 DEF Renew
  <2>2. /\ f \in {0, Socket}
        /\ ~dev.gone => f = Socket \/ Lost \/ (Told /\ in[1].result # 0)
    BY <2>1, SocketIsFound
  <2> HIDE DEF f
  <2>3. /\ loc'.asked = f /\ loc'.opens = loc.opens /\ loc'.from = "init"
        /\ loc'.socket = Socket /\ loc'.retries = loc.retries
    BY <1>2, <2>1, CreditTypes DEF CInv
  <2>4. Found'
    BY <1>2, <2>1, <2>3 DEF Found
  <2>5. Spent' = Spent
    BY <1>1, <2>3 DEF Spent
  <2>6. ASSUME ~dev.gone
        PROVE  Spent >= 10 /\ (f # Socket => Spent >= 11)
    BY <1>3, <1>7, <2>2, <2>6 DEF Renews
  <2>7. ~dev.gone => Renews'
    BY <1>1, <2>1, <2>3, <2>5, <2>6 DEF Renews, Told, Lost
  <2>8. Asks' /\ Opens' /\ Gives'
    BY <2>1, <2>3 DEF Asks, Opens, Gives
  <2> QED  BY <2>4, <2>7, <2>8, ReceiveGrants
<1>8. CASE pc = "again"
  <2>1. /\ Receive("init") /\ c = "init"
        /\ IF Result.rd = 9 THEN pc' = "open" /\ loc' = [loc EXCEPT !.from = "ask"]
                            ELSE NextRound(loc.retries)
    <3>1. Receive("init")
      BY <1>5, <1>8 DEF Renew
    <3>2. c = "init"
      BY <1>1, <3>1 DEF Receive
    <3> QED  BY <1>5, <1>8, <3>1, <3>2 DEF Renew
  <2>2. CASE Result.rd = 9
    <3>1. pc' = "open" /\ loc' = [loc EXCEPT !.from = "ask"]
      BY <2>1, <2>2
    <3>2. /\ loc'.asked = loc.asked /\ loc'.opens = 0 /\ loc'.from = "ask"
          /\ loc'.socket = Socket /\ loc'.retries = loc.retries
      BY <1>2, <3>1, CreditTypes DEF CInv
    <3>3. Found'
      BY <3>1, <3>2 DEF Found
    <3>4. Spent' = Spent
      BY <1>1, <3>2 DEF Spent
    <3>5. ~dev.gone => Spent >= 10 /\ (loc.asked # Socket => Spent >= 11)
      BY <1>3, <1>8 DEF Renews
    <3>6. ~dev.gone => Opens'
      BY <1>1, <3>1, <3>2, <3>4, <3>5 DEF Opens, Spare, Told, Lost
    <3>7. Asks' /\ Renews' /\ Gives'
      BY <3>1 DEF Asks, Renews, Gives
    <3> QED  BY <3>3, <3>6, <3>7, ReceiveGrants
  <2>3. CASE Result.rd # 9
    <3>1. NextRound(loc.retries) /\ loc.retries \in Int
      BY <2>1, <2>3, CreditTypes DEF CInv
    <3>2. AnswerLength["init"] = 9 /\ "init" # "enter"
      BY DEF AnswerLength
    <3>3. ASSUME ~dev.gone
          PROVE  Lost \/ (Told /\ in[1].result # 0)
      <4>1. CASE in = << >>
        BY <2>1, <3>3, <4>1, ReceiveSees DEF Told
      <4>2. CASE in # << >>
        <5>1. /\ Told
              /\ in[1].result = 0 /\ in[1].kind = "answer" => Result.rd = 9
          BY <2>1, <3>2, <4>2, ReceiveSees
        <5>2. in[1].kind = "answer"
          BY <1>1, <2>1, <3>2, <5>1 DEF CInv, Granted, Meant
        <5> QED  BY <2>3, <5>1, <5>2
      <4> QED  BY <4>1, <4>2
    <3>4. ~dev.gone => Spent >= 11
      BY <1>3, <1>8, <3>3 DEF Renews
    <3>5. ~dev.gone => loc.retries + dev.troubles >= 10 /\ loc.retries + dev.troubles >= 11
      BY <1>4, <3>4 DEF Spent
    <3> QED  BY <1>8, <3>1, <3>5, RoundGrants
  <2> QED  BY <2>2, <2>3
<1> QED  BY <1>1, <1>6, <1>7, <1>8

(* OpenChannel returns to init_packet, or to askForCredit.                 *)
LEMMA ReturnGrants ==
  ASSUME CInv, dev.punctual, NEW c \in Commands, Receive(c),
         NEW ok \in BOOLEAN, OpenReturns(ok), pc \in {"open", "reopen"},
         ~dev.gone => Good \/ Spare
  PROVE  Granted'
<1>1. loc.socket = Socket
  BY DEF CInv, Granted, Found
<1>2. CASE loc.from = "ask"
  <2>1. NextRound(loc.retries) /\ loc.retries \in Int
    BY <1>2, CreditTypes DEF OpenReturns, CInv
  <2>2. ~dev.gone => Spent >= 10
    BY <1>2 DEF CInv, Granted, Plan, Opens
  <2>3. ~dev.gone => (~Good => Spent >= 11)
    BY <1>2 DEF Spare
  <2> QED  BY <2>1, <2>2, <2>3, RoundGrants DEF Spent
<1>3. CASE loc.from # "ask"
  <2>1. /\ pc' = (IF ok THEN "drain" ELSE "over")
        /\ loc' = [loc EXCEPT !.opens = 0]
    BY <1>3 DEF OpenReturns
  <2>2. loc'.opens = 0 /\ loc'.from = "init" /\ loc'.socket = Socket
    BY <1>1, <1>3, <2>1, CreditTypes DEF CInv
  <2>3. Found'
    BY <2>1, <2>2 DEF Found
  <2>4. dev' = dev
    BY ReceiveSees
  <2>5. ~dev.gone => dev.open \/ dev.troubles >= 1
    BY <1>3 DEF Good, Spare
  <2>6. ~dev.gone => Gives'
    BY <2>1, <2>4, <2>5 DEF Gives
  <2>7. Asks' /\ Renews' /\ Opens'
    BY <2>1, <2>2 DEF Asks, Renews, Opens
  <2> QED  BY <2>3, <2>6, <2>7, ReceiveGrants
<1> QED  BY <1>2, <1>3

LEMMA OpenGrants ==
  ASSUME CInv, dev.punctual, OpenChannel, Receive("open")
  PROVE  Granted'
<1>1. pc = "open" /\ "open" \in Commands /\ cmd = "open" /\ "open" # "enter"
      /\ AnswerLength["open"] = 16
  BY DEF OpenChannel, Commands, AnswerLength, Receive
<1>2. /\ dev' = dev /\ cmd' = "none" /\ (~Open \/ dev.gone)
  BY <1>1, ReceiveSees
<1>3. loc.socket = Socket
  BY <1>1 DEF CInv, Granted, Found
<1>4. ~dev.gone => Opens
  BY DEF CInv, Granted, Plan
<1>5. /\ Result.rd = 16 => OpenReturns(TRUE)
      /\ Result.rd # 16 /\ Result.errno = 6 => Goto("reopen")
      /\ Result.rd # 16 /\ Result.errno # 6 => OpenReturns(FALSE)
  <2>1. ~Send("open", loc.asked)
    BY <1>1 DEF Send
  <2> QED  BY <2>1 DEF OpenChannel
<1>6. CASE in = << >>
  <2>1. Result.rd = -1 /\ Result.errno = 0 /\ (dev.gone \/ Lost)
    BY <1>1, <1>6, ReceiveSees DEF Told
  <2>2. OpenReturns(FALSE)
    <3>1. Result.rd # 16 /\ Result.errno # 6
      BY <2>1
    <3> QED  BY <1>5, <3>1
  <2>3. ~dev.gone => Spare
    BY <1>1, <1>4, <2>1 DEF Opens
  <2> QED  BY <1>1, <2>2, <2>3, ReturnGrants
<1>7. CASE in # << >>
  <2>1. /\ Told
        /\ in[1].result = 0 /\ in[1].kind = "answer" => Result.rd = 16
        /\ in[1].result # 0 =>
             /\ Result.rd = IF in[1].result \in Fatal THEN -1 ELSE 0
             /\ Result.errno = in[1].result
    BY <1>1, <1>7, ReceiveSees
  <2>2. in[1].kind = "answer" /\ in[1].result \in {0, 4, 6, 9}
    BY <1>1, <2>1 DEF CInv, Granted, Meant
  <2>3. ~dev.gone =>
          \/ in[1].result = 0 /\ Good
          \/ in[1].result = 6 /\ loc.asked = Socket /\ (loc.opens > 0 => Spare)
          \/ in[1].result \notin {0, 6} /\ Spare
    BY <1>1, <1>4, <2>1 DEF Opens
  <2>4. CASE in[1].result = 0
    <3>1. OpenReturns(TRUE)
      <4>1. Result.rd = 16
        BY <2>1, <2>2, <2>4
      <4> QED  BY <1>5, <4>1
    <3>2. ~dev.gone => Good
      BY <2>3, <2>4
    <3>3. TRUE \in BOOLEAN
      OBVIOUS
    <3> QED  BY <1>1, <3>1, <3>2, <3>3, ReturnGrants
  <2>5. CASE in[1].result = 6
    <3>1. pc' = "reopen" /\ loc' = loc
      <4>1. Result.rd # 16 /\ Result.errno = 6
        BY <2>1, <2>5
      <4> QED  BY <1>5, <4>1 DEF Goto
    <3>2. Found'
      BY <1>3, <3>1 DEF Found
    <3>3. Spent' = Spent /\ Spare' = Spare
      BY <1>2, <3>1 DEF Spent, Spare
    <3>4. ~dev.gone => Opens'
      BY <1>2, <1>4, <2>3, <2>5, <3>1, <3>3 DEF Opens, Open
    <3>5. Asks' /\ Renews' /\ Gives'
      BY <3>1 DEF Asks, Renews, Gives
    <3> QED  BY <1>1, <3>2, <3>4, <3>5, ReceiveGrants
  <2>6. CASE in[1].result \in {4, 9}
    <3>1. OpenReturns(FALSE)
      <4>1. Result.rd # 16 /\ Result.errno # 6
        BY <2>1, <2>6
      <4> QED  BY <1>5, <4>1
    <3>2. ~dev.gone => Spare
      BY <2>3, <2>6
    <3> QED  BY <1>1, <3>1, <3>2, ReturnGrants
  <2> QED  BY <2>2, <2>4, <2>5, <2>6
<1> QED  BY <1>6, <1>7

LEMMA ReopenGrants ==
  ASSUME CInv, dev.punctual, Reopen, Receive("close")
  PROVE  Granted'
<1>1. pc = "reopen" /\ "close" \in Commands /\ cmd = "close"
  BY DEF Reopen, Commands, AnswerLength, Receive
<1>2. /\ dev' = dev /\ cmd' = "none" /\ (~Open \/ dev.gone)
  BY <1>1, ReceiveSees
<1>3. loc.socket = Socket
  BY <1>1 DEF CInv, Granted, Found
<1>4. ~dev.gone => Opens
  BY DEF CInv, Granted, Plan
<1>5. OpenAgain
  <2>1. ~Send("close", loc.asked)
    BY <1>1 DEF Send
  <2> QED  BY <2>1 DEF Reopen
<1>6. ~dev.gone => /\ loc.asked = Socket /\ (loc.opens > 0 => Spare)
                   /\ ~dev.open \/ Spare
                   /\ loc.from = "ask" => Spent >= 10
  BY <1>1, <1>2, <1>4 DEF Opens
<1>7. loc.opens \in 0 .. 4
  BY CreditTypes DEF CInv
<1>8. CASE loc.opens < 4
  <2>1. pc' = "open" /\ loc' = [loc EXCEPT !.opens = @ + 1]
    BY <1>5, <1>8 DEF OpenAgain
  <2>2. /\ loc'.asked = loc.asked /\ loc'.from = loc.from
        /\ loc'.socket = Socket /\ loc'.retries = loc.retries
    BY <1>3, <2>1, CreditTypes DEF CInv
  <2>3. Found'
    BY <2>1, <2>2 DEF Found
  <2>4. Spent' = Spent /\ Spare' = Spare
    BY <1>2, <2>2 DEF Spent, Spare
  <2>5. ~dev.gone => Opens'
    BY <1>2, <1>6, <2>1, <2>2, <2>4 DEF Opens, Told, Lost
  <2>6. Asks' /\ Renews' /\ Gives'
    BY <2>1 DEF Asks, Renews, Gives
  <2> QED  BY <1>1, <2>3, <2>5, <2>6, ReceiveGrants
<1>9. CASE ~(loc.opens < 4)
  <2>1. OpenReturns(TRUE)
    BY <1>5, <1>9 DEF OpenAgain
  <2>2. ~dev.gone => Spare
    BY <1>6, <1>7, <1>9
  <2> QED  BY <1>1, <2>1, <2>2, ReturnGrants
<1> QED  BY <1>8, <1>9

-----------------------------------------------------------------------------
(* The other steps of the session.                                         *)
LEMMA FlushGrants ==
  ASSUME CInv, dev.punctual, Flush
  PROVE  Granted'
<1>1. /\ pc \in {"flush", "drained"}
      /\ pc' = IF pc = "flush" THEN "enter" ELSE "start"
      /\ loc' = loc /\ cmd' = cmd /\ out' = out /\ dev' = dev /\ in' = << >>
  BY DEF Flush, Goto
<1>2. loc.from = "init" /\ Found /\ Credited /\ (~dev.gone => Gives)
  BY <1>1, CreditTypes DEF CInv, Granted, Plan
<1>3. Found' /\ Credited'
  BY <1>1, <1>2 DEF Found, Credited, Knows
<1>4. Meant' /\ Sent'
  BY <1>1 DEF Meant, Sent, Told
<1>5. Asks' /\ Renews' /\ Opens'
  BY <1>1, <1>2 DEF Asks, Renews, Opens
<1>6. ~dev.gone => Gives'
  BY <1>1, <1>2 DEF Gives
<1> QED  BY <1>1, <1>3, <1>4, <1>5, <1>6 DEF Granted, Plan

LEMMA StartGrants ==
  ASSUME CInv, dev.punctual, StartExchange
  PROVE  Granted'
<1>1. /\ pc = "start" /\ pc' = "ask"
      /\ loc' = [loc EXCEPT !.asked = loc.socket, !.count = 0, !.retries = 9]
      /\ cmd' = cmd /\ out' = out /\ dev' = dev /\ in' = in
  BY DEF StartExchange
<1>2. /\ loc.from = "init" /\ Found /\ Credited /\ (~dev.gone => Gives)
      /\ cmd = "none"
  BY <1>1, CreditTypes DEF CInv, Granted, Plan, DInv, Shape, Waits, Awaits
<1>3. /\ loc'.asked = loc.socket /\ loc'.retries = 9 /\ loc'.from = "init"
      /\ loc'.socket = loc.socket /\ loc'.opens = loc.opens
  BY <1>1, <1>2, CreditTypes DEF CInv
<1>4. Found' /\ Credited'
  BY <1>1, <1>2, <1>3 DEF Found, Credited, Knows
<1>5. Meant' /\ Sent'
  BY <1>1, <1>2 DEF Meant, Sent, Told
<1>6. ~dev.gone => Asks'
  <2>1. loc.socket = Socket
    BY <1>1, <1>2 DEF Found
  <2>2. Good' <=> dev.open
    <3>1. loc'.asked = Socket
      BY <1>3, <2>1
    <3> QED  BY <1>1, <3>1, Zenon DEF Good
  <2>3. Spent' = 9 + dev.troubles /\ dev.troubles \in Nat
    BY <1>1, <1>3, CreditTypes DEF Spent, CInv
  <2>4. ~dev.gone => dev.open \/ dev.troubles >= 1
    BY <1>1, <1>2 DEF Gives
  <2> QED  BY <1>1, <1>2, <2>2, <2>3, <2>4 DEF Asks, Told, Lost
<1>7. Renews' /\ Opens' /\ Gives'
  BY <1>1, <1>3 DEF Renews, Opens, Gives
<1> QED  BY <1>1, <1>4, <1>5, <1>6, <1>7 DEF Granted, Plan

(* The command goes out on the credit that was asked for.                  *)
LEMMA WriteGrants ==
  ASSUME CInv, dev.punctual, WriteData
  PROVE  Granted'
<1> DEFINE p == [kind |-> "data", to |-> loc.answered + 1, socket |-> loc.socket,
                 fresh |-> FALSE]
<1>1. /\ pc = "write" /\ pc' = (IF dev.gone THEN "close" ELSE "read")
      /\ loc' = [loc EXCEPT !.reads = 5]
      /\ cmd' = cmd /\ dev' = dev /\ in' = in
      /\ out' = IF dev.gone THEN out ELSE Append(out, p)
  BY DEF WriteData, After
<1>2. /\ loc.from = "init" /\ Found /\ Credited /\ (~dev.gone => Gives)
      /\ cmd = "none" /\ (dev.gone \/ out = << >>)
  BY <1>1, CreditTypes DEF CInv, Granted, Plan, DInv, Shape, Waits, Awaits, Tidy, Still
<1>3. /\ loc'.from = "init" /\ loc'.socket = loc.socket /\ loc'.opens = loc.opens
  BY <1>1, <1>2, CreditTypes DEF CInv
<1>4. p.socket = loc.socket
  OBVIOUS
<1> HIDE DEF p
<1>5. Found'
  BY <1>1, <1>2, <1>3 DEF Found
<1>6. Credited'
  <2>1. CASE dev.gone
    BY <1>1, <1>2, <2>1 DEF Credited, Knows
  <2>2. CASE ~dev.gone
    <3>1. Head(out') = p
      BY <1>1, <1>2, <2>2
    <3>2. Knows(p) /\ dev.credit > 0
      BY <1>1, <1>2, <1>4, <2>2 DEF Found, Gives, Knows
    <3> QED  BY <1>1, <3>1, <3>2 DEF Credited, Knows
  <2> QED  BY <2>1, <2>2
<1>7. Meant' /\ Sent'
  BY <1>1, <1>2 DEF Meant, Sent, Told
<1>8. Asks' /\ Renews' /\ Opens'
  BY <1>1, <1>3 DEF Asks, Renews, Opens
<1>9. ~dev.gone => Gives'
  BY <1>1, <1>2 DEF Gives
<1> QED  BY <1>1, <1>5, <1>6, <1>7, <1>8, <1>9 DEF Granted, Plan

LEMMA ReadGrants ==
  ASSUME CInv, dev.punctual, ReadData
  PROVE  Granted'
<1>1. pc = "read" /\ cmd' = cmd /\ out' = out
  BY DEF ReadData
<1>2. /\ loc.from = "init" /\ Found /\ Credited /\ (~dev.gone => Gives)
      /\ cmd = "none"
  BY <1>1, CreditTypes DEF CInv, Granted, Plan, DInv, Shape, Waits, Awaits
<1>3. dev' = dev
  BY DEF ReadData, TimesOut
<1>4. /\ pc' \in {"read", "start", "close"} /\ loc'.from = "init"
      /\ loc'.socket = loc.socket /\ loc'.opens = loc.opens
  <2>1. CASE Goto("close")
    BY <1>2, <2>1 DEF Goto
  <2>2. CASE Answered(Head(in))
    BY <1>2, <2>2, CreditTypes DEF Answered, CInv
  <2>3. CASE pc' = pc /\ loc' = [loc EXCEPT !.reads = @ - 1]
    BY <1>1, <1>2, <2>3, CreditTypes DEF CInv
  <2> QED  BY <2>1, <2>2, <2>3 DEF ReadData
<1>5. Found' /\ Credited'
  BY <1>1, <1>2, <1>3, <1>4 DEF Found, Credited, Knows
<1>6. Meant' /\ Sent'
  BY <1>1, <1>2 DEF Meant, Sent, Told
<1>7. Asks' /\ Renews' /\ Opens'
  BY <1>4 DEF Asks, Renews, Opens
<1>8. ~dev.gone => Gives'
  BY <1>1, <1>2, <1>3, <1>4 DEF Gives
<1> QED  BY <1>3, <1>5, <1>6, <1>7, <1>8 DEF Granted, Plan

-----------------------------------------------------------------------------
(* The printer.                                                            *)
LEMMA ReplySays ==
  ASSUME NEW p \in CommandPackets, NEW a, a = FreshIf(p, Reply(p))
  PROVE  /\ a.to = p.to /\ a.kind = "answer"
         /\ p.to = "init" => a.result = 0
         /\ p.to = "socket" => a.result = 0 /\ a.value = Socket
         /\ p.to = "request" => a.result = (IF Knows(p) THEN 0 ELSE 8) /\ a.value = 1
         /\ p.to = "open" => a.result = (IF p.socket # Socket THEN 9
                                         ELSE IF dev.open THEN 6 ELSE 0)
<1>1. p.to \in {"enter", "init", "socket", "open", "close", "request", "credit"}
  BY DEF CommandPackets, Commands, AnswerLength
<1>2. ASSUME NEW c, NEW r, NEW v, Reply(p) = Answer(c, r, v)
      PROVE  a.to = c /\ a.kind = "answer" /\ a.result = r /\ a.value = v
  BY <1>2 DEF Answer, FreshIf
<1>3. CASE p.to = "init"
  <2>1. Reply(p) = Answer(p.to, 0, Other)
    BY <1>3 DEF Reply
  <2> QED  BY <1>2, <1>3, <2>1
<1>4. CASE p.to = "socket"
  <2>1. Reply(p) = Answer(p.to, 0, Socket)
    BY <1>4 DEF Reply
  <2> QED  BY <1>2, <1>4, <2>1
<1>5. CASE p.to = "open"
  <2> DEFINE r == IF p.socket # Socket THEN 9 ELSE IF dev.open THEN 6 ELSE 0
  <2>1. Reply(p) = Answer(p.to, r, Other)
    BY <1>5 DEF Reply
  <2> HIDE DEF r
  <2>2. a.to = p.to /\ a.kind = "answer" /\ a.result = r
    BY <1>2, <2>1
  <2> QED  BY <1>5, <2>2 DEF r
<1>6. CASE p.to = "request"
  <2> DEFINE r == IF Knows(p) THEN 0 ELSE 8
  <2>1. Reply(p) = Answer(p.to, r, 1)
    BY <1>6 DEF Reply
  <2> HIDE DEF r
  <2>2. a.to = p.to /\ a.kind = "answer" /\ a.result = r /\ a.value = 1
    BY <1>2, <2>1
  <2> QED  BY <1>6, <2>2 DEF r
<1>7. CASE p.to \in {"enter", "close", "credit"}
  <2>1. \E r, v : Reply(p) = Answer(p.to, r, v)
    BY <1>7 DEF Reply
  <2> QED  BY <1>2, <1>7, <2>1
<1> QED  BY <1>1, <1>3, <1>4, <1>5, <1>6, <1>7

LEMMA RefusalSays ==
  ASSUME NEW p \in CommandPackets, NEW a, a = FreshIf(p, Refusal(p))
  PROVE  /\ a.to = p.to /\ a.kind \in {"answer", "zeros"}
         /\ p.to # "enter" => a.kind = "answer"
         /\ p.to = "init" => a.result = 1
         /\ p.to = "socket" => a.result = 10
         /\ p.to = "open" => a.result = 4
         /\ p.to = "request" => a.result = (IF Knows(p) THEN 0 ELSE 8) /\ a.value = 0
<1>1. p.to \in {"enter", "init", "socket", "open", "close", "request", "credit"}
  BY DEF CommandPackets, Commands, AnswerLength
<1>2. ASSUME NEW c, NEW r, NEW v, Refusal(p) = Answer(c, r, v)
      PROVE  a.to = c /\ a.kind = "answer" /\ a.result = r /\ a.value = v
  BY <1>2 DEF Answer, FreshIf
<1>3. CASE p.to = "enter"
  <2>1. Refusal(p) = [Answer(p.to, 0, Other) EXCEPT !.kind = "zeros"]
    BY <1>3 DEF Refusal
  <2> QED  BY <1>3, <2>1 DEF Answer, FreshIf
<1>4. CASE p.to = "init"
  <2>1. Refusal(p) = Answer(p.to, 1, Other)
    BY <1>4 DEF Refusal
  <2> QED  BY <1>2, <1>4, <2>1
<1>5. CASE p.to = "socket"
  <2>1. Refusal(p) = Answer(p.to, 10, Other)
    BY <1>5 DEF Refusal
  <2> QED  BY <1>2, <1>5, <2>1
<1>6. CASE p.to = "open"
  <2>1. Refusal(p) = Answer(p.to, 4, Other)
    BY <1>6 DEF Refusal
  <2> QED  BY <1>2, <1>6, <2>1
<1>7. CASE p.to = "request"
  <2>1. Refusal(p) = Answer(p.to, IF Knows(p) THEN 0 ELSE 8, 0)
    BY <1>7 DEF Refusal
  <2> QED  BY <1>2, <1>7, <2>1
<1>8. CASE p.to \in {"close", "credit"}
  <2>1. \E r, v : Refusal(p) = Answer(p.to, r, v)
    BY <1>8 DEF Refusal
  <2> QED  BY <1>2, <1>8, <2>1
<1> QED  BY <1>1, <1>3, <1>4, <1>5, <1>6, <1>7, <1>8

LEMMA DoneOpens ==
  ASSUME DInv, NEW p \in CommandPackets
  PROVE  /\ p.to = "request" =>
              /\ Done(p).open = dev.open
              /\ Knows(p) => Done(p).credit = dev.credit + 1
              /\ ~Knows(p) => Done(p) = dev
         /\ p.to = "credit" => Done(p).open = dev.open /\ Done(p).credit = dev.credit
         /\ p.to = "close" /\ p.socket = Socket => ~Done(p).open
         /\ p.to = "open" /\ p.socket = Socket => Done(p).open
<1>1. dev \in Printers
  BY OnceTypes
<1>2. \A open \in BOOLEAN : Opened(open).open = open
  BY <1>1 DEF Opened, Printers
<1>3. CASE p.to = "request"
  <2>1. Done(p) = IF Knows(p) THEN [dev EXCEPT !.credit = @ + 1] ELSE dev
    BY <1>3 DEF Done
  <2>2. /\ [dev EXCEPT !.credit = @ + 1].open = dev.open
        /\ [dev EXCEPT !.credit = @ + 1].credit = dev.credit + 1
    BY <1>1 DEF Printers
  <2> QED  BY <1>3, <2>1, <2>2
<1>4. CASE p.to = "credit"
  <2>1. Done(p) = IF Knows(p) THEN [dev EXCEPT !.given = @ + 1] ELSE dev
    BY <1>4 DEF Done
  <2>2. /\ [dev EXCEPT !.given = @ + 1].open = dev.open
        /\ [dev EXCEPT !.given = @ + 1].credit = dev.credit
    BY <1>1 DEF Printers
  <2> QED  BY <1>4, <2>1, <2>2
<1>5. CASE p.to = "close"
  <2>1. Done(p) = IF Knows(p) THEN Opened(FALSE) ELSE dev
    BY <1>5 DEF Done
  <2>2. p.socket = Socket => (Knows(p) <=> dev.open)
    BY <1>1 DEF Knows, Printers
  <2>3. ~Opened(FALSE).open
    BY <1>2
  <2> QED  BY <1>5, <2>1, <2>2, <2>3
<1>6. CASE p.to = "open"
  <2>1. p.socket = Socket => Done(p) = IF dev.open THEN dev ELSE Opened(TRUE)
    BY <1>6 DEF Done
  <2>2. Opened(TRUE).open
    BY <1>2
  <2> QED  BY <1>6, <2>1, <2>2
<1>7. CASE p.to \notin {"request", "credit", "close", "open"}
  BY <1>7
<1> QED  BY <1>3, <1>4, <1>5, <1>6, <1>7

(* A punctual printer answers what readAnswer waits for, or does not.      *)
LEMMA ObeysDoes ==
  ASSUME CInv, dev.punctual, Obeys
  PROVE  /\ ~dev.gone /\ dev'.gone = dev.gone /\ dev'.punctual
         /\ UNCHANGED <<pc, cmd, loc>> /\ out' = << >> /\ out # << >>
         /\ cmd # "none" /\ pc \in DOMAIN Awaits /\ cmd = Awaits[pc]
         /\ out[1] \in CommandPackets /\ out[1].to = cmd
         /\ \/ /\ in' = <<FreshIf(out[1], Reply(out[1]))>>
               /\ dev'.open = Done(out[1]).open /\ dev'.credit = Done(out[1]).credit
               /\ dev'.troubles = dev.troubles
            \/ /\ in' \in {<< >>, <<FreshIf(out[1], Refusal(out[1]))>>}
               /\ dev'.open = dev.open /\ dev'.credit = dev.credit
               /\ dev'.troubles = dev.troubles + 1
            \/ /\ in' = << >>
               /\ dev'.open = Done(out[1]).open /\ dev'.credit = Done(out[1]).credit
               /\ dev'.troubles = dev.troubles + 1
<1> DEFINE p == Head(out)
<1>1. /\ ~dev.gone /\ out # << >> /\ out' = Tail(out) /\ p.kind = "cmd"
      /\ UNCHANGED <<pc, cmd, loc>>
  BY DEF Obeys
<1>2. p \in CommandPackets /\ p = out[1]
  BY <1>1, FirstPacket DEF DataPackets, CInv
<1>3. /\ in = << >> /\ out' = << >>
      /\ cmd # "none" /\ p.to = cmd /\ pc \in DOMAIN Awaits /\ cmd = Awaits[pc]
  BY <1>1, ToldFacts, FirstPacket DEF CInv
<1>4. p.to = "credit" => dev.says = << >>
  BY <1>1, <1>3 DEF CInv, DInv, Tidy, Mute, Awaits
<1>6. \A first \in SaidFirst(p) : first = << >>
  BY <1>4 DEF SaidFirst
<1>7. /\ Done(p) \in Printers /\ Done(p).gone = dev.gone
      /\ Done(p).punctual = dev.punctual /\ Done(p).troubles = dev.troubles
  BY <1>2, DoneTypes DEF CInv
<1>8. /\ FreshIf(p, Reply(p)) \in Answers /\ FreshIf(p, Refusal(p)) \in Answers
  BY <1>2, ReplyTypes DEF CInv
<1>9. CASE in' = in \o << >> \o <<FreshIf(p, Reply(p))>> /\ dev' = Done(p)
  <2>1. in' = <<FreshIf(p, Reply(p))>>
    BY <1>3, <1>9
  <2> QED  BY <1>1, <1>2, <1>3, <1>7, <1>9, <2>1
<1>10. CASE /\ dev' = Troubled
            /\ in' = Append(in, FreshIf(p, Refusal(p))) \/ in' = in
  <2>1. in' \in {<< >>, <<FreshIf(p, Refusal(p))>>}
    BY <1>3, <1>10
  <2>2. /\ dev'.open = dev.open /\ dev'.credit = dev.credit
        /\ dev'.troubles = dev.troubles + 1 /\ dev'.gone = dev.gone
        /\ dev'.punctual = dev.punctual
    BY <1>10, CreditTypes DEF Troubled, CInv, Printers
  <2> QED  BY <1>1, <1>2, <1>3, <2>1, <2>2
<1>11. CASE dev' = [Done(p) EXCEPT !.troubles = @ + 1] /\ in' = in
  <2>1. /\ dev'.open = Done(p).open /\ dev'.credit = Done(p).credit
        /\ dev'.troubles = dev.troubles + 1 /\ dev'.gone = dev.gone
        /\ dev'.punctual = dev.punctual
    BY <1>7, <1>11 DEF Printers
  <2> QED  BY <1>1, <1>2, <1>3, <1>11, <2>1
<1>12. \/ in' = in \o << >> \o <<FreshIf(p, Reply(p))>> /\ dev' = Done(p)
       \/ /\ dev' = Troubled
          /\ in' = Append(in, FreshIf(p, Refusal(p))) \/ in' = in
       \/ dev' = [Done(p) EXCEPT !.troubles = @ + 1] /\ in' = in
  BY <1>6 DEF Obeys
<1> QED  BY <1>9, <1>10, <1>11, <1>12

(* A trouble makes up for what it spoils.                                  *)
LEMMA ObeysMeans ==
  ASSUME CInv, dev.punctual, Obeys
  PROVE  /\ ~Open' /\ (Told' <=> in' # << >>) /\ (Lost' <=> in' = << >>)
         /\ Meant'
<1> DEFINE p == out[1]
<1>1. /\ cmd' = cmd /\ cmd # "none" /\ out' = << >> /\ p \in CommandPackets
      /\ p.to = cmd
      /\ in' \in {<< >>, <<FreshIf(p, Reply(p))>>, <<FreshIf(p, Refusal(p))>>}
  BY ObeysDoes
<1>2. /\ ~Open' /\ (Told' <=> in' # << >>) /\ (Lost' <=> in' = << >>)
  BY <1>1 DEF Open, Told, Lost
<1> HIDE DEF p
<1>3. CASE in' = << >>
  BY <1>2, <1>3 DEF Meant
<1>4. CASE in' = <<FreshIf(p, Reply(p))>>
  <2> DEFINE a == FreshIf(p, Reply(p))
  <2>1. /\ a.to = p.to /\ a.kind = "answer"
        /\ p.to = "socket" => a.result = 0 /\ a.value = Socket
        /\ p.to = "request" => a.result \in {0, 8} /\ a.value = 1
        /\ p.to = "open" => a.result \in {0, 6, 9}
    BY <1>1, ReplySays
  <2> HIDE DEF a
  <2>2. in'[1] = a
    BY <1>4 DEF a
  <2> QED  BY <1>1, <1>2, <2>1, <2>2 DEF Meant
<1>5. CASE in' = <<FreshIf(p, Refusal(p))>>
  <2> DEFINE a == FreshIf(p, Refusal(p))
  <2>1. /\ a.to = p.to /\ a.kind \in {"answer", "zeros"}
        /\ p.to # "enter" => a.kind = "answer"
        /\ p.to = "socket" => a.result = 10
        /\ p.to = "open" => a.result = 4
        /\ p.to = "request" => a.result \in {0, 8} /\ a.value = 0
    BY <1>1, RefusalSays
  <2> HIDE DEF a
  <2>2. in'[1] = a
    BY <1>5 DEF a
  <2> QED  BY <1>1, <1>2, <2>1, <2>2 DEF Meant
<1> QED  BY <1>1, <1>2, <1>3, <1>4, <1>5

(* The three ways in which a punctual printer does what it is told.        *)
Replies ==
  /\ in' = <<FreshIf(out[1], Reply(out[1]))>>
  /\ dev'.open = Done(out[1]).open /\ dev'.credit = Done(out[1]).credit
  /\ dev'.troubles = dev.troubles

Refuses ==
  /\ in' \in {<< >>, <<FreshIf(out[1], Refusal(out[1]))>>}
  /\ dev'.open = dev.open /\ dev'.credit = dev.credit
  /\ dev'.troubles = dev.troubles + 1

StaysMute ==
  /\ in' = << >>
  /\ dev'.open = Done(out[1]).open /\ dev'.credit = Done(out[1]).credit
  /\ dev'.troubles = dev.troubles + 1

LEMMA ObeysFacts ==
  ASSUME CInv, dev.punctual, Obeys
  PROVE  /\ ~dev.gone /\ UNCHANGED <<pc, cmd, loc>> /\ out # << >>
         /\ cmd # "none" /\ pc \in DOMAIN Awaits /\ cmd = Awaits[pc]
         /\ out[1] \in CommandPackets /\ out[1].to = cmd
         /\ Plan /\ Open
         /\ Replies \/ Refuses \/ StaysMute
         /\ Spent \in Int /\ dev.troubles \in Nat
         /\ Replies => Spent' = Spent /\ Spare' = Spare
         /\ Refuses \/ StaysMute => Spent' = Spent + 1 /\ (pc \in {"open", "reopen"} => Spare')
         /\ Spare => Spare'
<1>1. /\ ~dev.gone /\ UNCHANGED <<pc, cmd, loc>> /\ out # << >>
      /\ cmd # "none" /\ pc \in DOMAIN Awaits /\ cmd = Awaits[pc]
      /\ out[1] \in CommandPackets /\ out[1].to = cmd
      /\ Replies \/ Refuses \/ StaysMute
  BY ObeysDoes DEF Replies, Refuses, StaysMute
<1>2. Plan /\ Open
  BY <1>1 DEF CInv, Granted, Open
<1>3. /\ Spent \in Int /\ dev.troubles \in Nat /\ loc.retries \in Int
      /\ loc.from \in {"init", "ask"}
  BY CreditTypes DEF CInv
<1>4. Replies => Spent' = Spent /\ Spare' = Spare
  BY <1>1 DEF Replies, Spent, Spare
<1>5. ASSUME Refuses \/ StaysMute
      PROVE  Spent' = Spent + 1 /\ (Spare => Spare')
             /\ (pc \in {"open", "reopen"} => Spare')
  <2>1. dev'.troubles = dev.troubles + 1 /\ loc' = loc
    BY <1>1, <1>5 DEF Refuses, StaysMute
  <2>2. Spent' = Spent + 1
    BY <1>3, <2>1 DEF Spent
  <2>3. CASE loc.from = "ask"
    <3>1. Spent >= 10
      BY <1>2, <2>3 DEF Plan, Opens
    <3>2. Spent' >= 11
      BY <1>3, <2>2, <3>1
    <3> QED  BY <2>1, <2>2, <2>3, <3>2 DEF Spare
  <2>4. CASE loc.from # "ask"
    <3>1. dev'.troubles >= 1
      BY <1>3, <2>1
    <3> QED  BY <2>1, <2>2, <2>4, <3>1 DEF Spare
  <2> QED  BY <2>3, <2>4
<1> QED  BY <1>1, <1>2, <1>3, <1>4, <1>5

LEMMA ObeysAsks ==
  ASSUME CInv, dev.punctual, Obeys
  PROVE  Asks'
<1> SUFFICES ASSUME pc = "ask" PROVE Asks'
  BY ObeysFacts DEF Asks
<1> DEFINE p == out[1]
<1>1. /\ UNCHANGED <<pc, cmd, loc>> /\ p \in CommandPackets /\ p.to = "request"
      /\ p.socket = loc.asked /\ Plan /\ Open
      /\ Replies \/ Refuses \/ StaysMute
  <2>1. /\ UNCHANGED <<pc, cmd, loc>> /\ p \in CommandPackets /\ p.to = cmd
        /\ cmd = Awaits[pc] /\ cmd # "none" /\ out # << >> /\ Plan /\ Open
        /\ Replies \/ Refuses \/ StaysMute
    BY ObeysFacts
  <2>2. p.to = "request"
    BY <2>1 DEF Awaits
  <2>3. p.socket = loc.asked
    BY <2>1 DEF Plan, Sent
  <2> QED  BY <2>1, <2>2, <2>3
<1>2. /\ Spent \in Int
      /\ Replies => Spent' = Spent
      /\ Refuses \/ StaysMute => Spent' = Spent + 1
  BY ObeysFacts
<1>3. Knows(p) <=> Good
  BY <1>1 DEF Knows, Good
<1>4. Spent >= 9 /\ (~Good => Spent >= 10)
  BY <1>1 DEF Plan, Asks
<1>5. ~Open' /\ (Told' <=> in' # << >>) /\ (Lost' <=> in' = << >>)
  BY ObeysMeans
<1>6. /\ dev.credit \in Nat /\ dev.open \in BOOLEAN
      /\ Done(p).open = dev.open
      /\ Knows(p) => Done(p).credit = dev.credit + 1
  BY <1>1, CreditTypes, DoneOpens DEF CInv
<1> HIDE DEF p
<1>7. CASE Replies
  <2> DEFINE a == FreshIf(p, Reply(p))
  <2>1. a.result = (IF Knows(p) THEN 0 ELSE 8) /\ a.value = 1
    BY <1>1, ReplySays
  <2>2. in' = <<a>>
    BY <1>7 DEF Replies, p
  <2> HIDE DEF a
  <2>3. in'[1] = a /\ in' # << >>
    BY <2>2
  <2>4. CASE Knows(p)
    <3>1. in'[1].result = 0 /\ in'[1].value = 1
      BY <2>1, <2>3, <2>4
    <3>2. dev'.open /\ dev'.credit > 0
      BY <1>6, <1>7, <2>4 DEF Replies, p, Knows
    <3> QED  BY <1>5, <2>3, <3>1, <3>2 DEF Asks
  <2>5. CASE ~Knows(p)
    <3>1. in'[1].result = 8
      BY <2>1, <2>3, <2>5
    <3>2. Spent' >= 10
      BY <1>2, <1>3, <1>4, <1>7, <2>5
    <3> QED  BY <1>5, <2>3, <3>1, <3>2 DEF Asks
  <2> QED  BY <2>4, <2>5
<1>8. CASE Refuses \/ StaysMute
  <2>1. Spent' >= 10 /\ (~Good => Spent' >= 11)
    BY <1>2, <1>4, <1>8
  <2>2. CASE in' = << >>
    BY <1>5, <2>1, <2>2 DEF Asks
  <2>3. CASE in' # << >>
    <3> DEFINE a == FreshIf(p, Refusal(p))
    <3>1. a.result \in {0, 8} /\ a.value = 0
      BY <1>1, RefusalSays
    <3>2. in' = <<a>> /\ dev'.open = dev.open
      BY <1>8, <2>3 DEF Refuses, StaysMute, p
    <3> HIDE DEF a
    <3>3. in'[1].result \in {0, 8} /\ in'[1].value = 0
      BY <3>1, <3>2
    <3>4. Good' <=> Good
      BY <1>1, <3>2 DEF Good
    <3>5. Told' /\ ~Lost' /\ ~Open'
      BY <1>5, <2>3
    <3> QED  BY <2>1, <3>3, <3>4, <3>5 DEF Asks
  <2> QED  BY <2>2, <2>3
<1> QED  BY <1>1, <1>7, <1>8

LEMMA ObeysRenews ==
  ASSUME CInv, dev.punctual, Obeys
  PROVE  Renews'
<1> SUFFICES ASSUME pc \in {"renew", "find", "again"} PROVE Renews'
  BY ObeysFacts DEF Renews
<1> DEFINE p == out[1]
<1>1. /\ UNCHANGED <<pc, cmd, loc>> /\ p \in CommandPackets /\ p.to = cmd
      /\ cmd = Awaits[pc] /\ Plan
      /\ Replies \/ Refuses \/ StaysMute
  BY ObeysFacts
<1>2. /\ Spent \in Int
      /\ Replies => Spent' = Spent
      /\ Refuses \/ StaysMute => Spent' = Spent + 1
  BY ObeysFacts
<1>3. Spent >= 10 /\ (pc = "again" /\ loc.asked # Socket => Spent >= 11)
  BY <1>1 DEF Plan, Renews
<1>4. ~Open' /\ (Told' <=> in' # << >>) /\ (Lost' <=> in' = << >>)
  BY ObeysMeans
<1> HIDE DEF p
<1>5. CASE Replies
  <2> DEFINE a == FreshIf(p, Reply(p))
  <2>1. pc \in {"find", "again"} => a.result = 0
    <3>1. pc \in {"find", "again"} => p.to \in {"socket", "init"}
      BY <1>1 DEF Awaits
    <3> QED  BY <1>1, <3>1, ReplySays
  <2>2. in' = <<a>>
    BY <1>5 DEF Replies, p
  <2> HIDE DEF a
  <2>3. in'[1] = a /\ ~Lost'
    BY <1>4, <2>2
  <2>4. Spent' = Spent
    BY <1>2, <1>5
  <2> QED  BY <1>1, <1>3, <2>1, <2>3, <2>4 DEF Renews
<1>6. CASE Refuses \/ StaysMute
  <2>1. Spent' >= 11
    BY <1>2, <1>3, <1>6
  <2>2. Spent' >= 10
    BY <1>2, <1>3, <1>6
  <2> QED  BY <1>1, <2>1, <2>2 DEF Renews
<1> QED  BY <1>1, <1>5, <1>6

LEMMA ObeysOpens ==
  ASSUME CInv, dev.punctual, Obeys
  PROVE  Opens'
<1> DEFINE p == out[1]
<1>1. /\ UNCHANGED <<pc, cmd, loc>> /\ p \in CommandPackets /\ p.to = cmd
      /\ cmd = Awaits[pc] /\ cmd # "none" /\ out # << >> /\ Plan /\ Open
      /\ Replies \/ Refuses \/ StaysMute
  BY ObeysFacts
<1>2. /\ Spent \in Int
      /\ Replies => Spent' = Spent /\ Spare' = Spare
      /\ Refuses \/ StaysMute => Spent' = Spent + 1 /\ (pc \in {"open", "reopen"} => Spare')
      /\ Spare => Spare'
  BY ObeysFacts
<1>3. ~Open' /\ (Told' <=> in' # << >>) /\ (Lost' <=> in' = << >>)
  BY ObeysMeans
<1>4. loc'.from = "ask" => Spent' >= 10
  <2>1. loc.from = "ask" => Spent >= 10
    BY <1>1 DEF Plan, Opens
  <2> QED  BY <1>1, <1>2, <2>1
<1>5. pc \in {"open", "reopen"} => p.socket = loc.asked
  BY <1>1 DEF Plan, Sent
<1> HIDE DEF p
<1>6. ASSUME pc = "open"
      PROVE  /\ Lost' => Spare'
             /\ Told' => \/ in'[1].result = 0 /\ Good'
                         \/ in'[1].result = 6 /\ loc'.asked = Socket
                            /\ (loc'.opens > 0 => Spare')
                         \/ in'[1].result \notin {0, 6} /\ Spare'
  <2>1. loc.asked # Socket \/ (loc.opens > 0 /\ dev.open) => Spare
    BY <1>1, <1>6 DEF Plan, Opens
  <2>2. p.to = "open"
    BY <1>1, <1>6 DEF Awaits
  <2>3. CASE Replies
    <3> DEFINE a == FreshIf(p, Reply(p))
    <3>1. a.result = (IF p.socket # Socket THEN 9 ELSE IF dev.open THEN 6 ELSE 0)
      BY <1>1, <2>2, ReplySays
    <3>2. in' = <<a>> /\ dev'.open = Done(p).open
      BY <2>3 DEF Replies, p
    <3> HIDE DEF a
    <3>3. in'[1] = a /\ ~Lost'
      BY <1>3, <3>2
    <3>4. CASE p.socket # Socket
      <4>1. in'[1].result = 9 /\ Spare'
        BY <1>2, <1>5, <1>6, <2>1, <3>1, <3>3, <3>4
      <4> QED  BY <3>3, <4>1
    <3>5. CASE p.socket = Socket /\ dev.open
      <4>1. in'[1].result = 6 /\ loc'.asked = Socket
        BY <1>1, <1>5, <1>6, <3>1, <3>3, <3>5
      <4>2. loc'.opens > 0 => Spare'
        BY <1>1, <1>2, <2>1, <3>5
      <4> QED  BY <3>3, <4>1, <4>2
    <3>6. CASE p.socket = Socket /\ ~dev.open
      <4>1. in'[1].result = 0 /\ loc'.asked = Socket
        BY <1>1, <1>5, <1>6, <3>1, <3>3, <3>6
      <4>2. dev'.open
        BY <1>1, <2>2, <3>2, <3>6, DoneOpens DEF CInv
      <4> QED  BY <3>3, <4>1, <4>2 DEF Good
    <3> QED  BY <3>4, <3>5, <3>6
  <2>4. CASE Refuses \/ StaysMute
    <3>1. Spare'
      BY <1>2, <1>6, <2>4
    <3>2. CASE in' = << >>
      BY <1>3, <3>1, <3>2
    <3>3. CASE in' # << >>
      <4> DEFINE a == FreshIf(p, Refusal(p))
      <4>1. a.result = 4
        BY <1>1, <2>2, RefusalSays
      <4>2. in' = <<a>>
        BY <2>4, <3>3 DEF Refuses, StaysMute, p
      <4> HIDE DEF a
      <4>3. in'[1].result = 4
        BY <4>1, <4>2
      <4> QED  BY <1>3, <3>1, <4>3
    <3> QED  BY <3>2, <3>3
  <2> QED  BY <1>1, <2>3, <2>4
<1>7. ASSUME pc = "reopen"
      PROVE  /\ loc'.asked = Socket /\ (loc'.opens > 0 => Spare')
             /\ ~dev'.open \/ Spare'
  <2>1. loc.asked = Socket /\ (loc.opens > 0 => Spare)
    BY <1>1, <1>7 DEF Plan, Opens
  <2>2. p.to = "close"
    BY <1>1, <1>7 DEF Awaits
  <2>3. Replies => ~dev'.open
    BY <1>1, <1>5, <1>7, <2>1, <2>2, DoneOpens DEF Replies, CInv, p
  <2> QED  BY <1>1, <1>2, <1>7, <2>1, <2>3
<1> QED  BY <1>1, <1>3, <1>4, <1>6, <1>7 DEF Opens

LEMMA ObeysGrants ==
  ASSUME CInv, dev.punctual, Obeys
  PROVE  Granted'
<1>1. /\ UNCHANGED <<pc, cmd, loc>> /\ out[1] \in CommandPackets
      /\ out[1].to = cmd /\ pc \in DOMAIN Awaits /\ cmd = Awaits[pc] /\ ~dev.gone
      /\ Plan /\ (Replies \/ Refuses \/ StaysMute)
  BY ObeysFacts
<1>2. out' = << >>
  BY ObeysDoes
<1>3. Found' /\ Credited' /\ Sent'
  BY <1>1, <1>2 DEF CInv, Granted, Found, Credited, Sent
<1>4. Meant' /\ Asks' /\ Renews' /\ Opens'
  BY ObeysMeans, ObeysAsks, ObeysRenews, ObeysOpens
<1>5. Gives'
  <2>1. pc \notin {"drained", "start", "write", "read"}
        /\ (pc \in {"drain", "give"} => out[1].to = "credit")
    BY <1>1 DEF Awaits
  <2>2. pc \in {"drain", "give"} => dev'.open = dev.open /\ dev'.credit = dev.credit
    BY <1>1, <2>1, DoneOpens DEF Replies, Refuses, StaysMute, CInv
  <2>3. dev.troubles \in Nat /\ dev'.troubles \in {dev.troubles, dev.troubles + 1}
    BY <1>1, ObeysFacts DEF Replies, Refuses, StaysMute
  <2>4. dev.troubles >= 1 => dev'.troubles >= 1
    BY <2>3
  <2> QED  BY <1>1, <2>1, <2>2, <2>4 DEF Plan, Gives
<1> QED  BY <1>3, <1>4, <1>5 DEF Granted, Plan

LEMMA ExecutesGrants ==
  ASSUME CInv, dev.punctual, Executes
  PROVE  Granted'
<1>1. /\ ~dev.gone /\ out # << >> /\ out' = Tail(out) /\ Head(out).kind = "data"
      /\ UNCHANGED <<pc, cmd, loc>>
  BY DEF Executes
<1>2. out' = << >> /\ cmd = "none" /\ pc = "read"
  BY <1>1, ToldFacts, FirstPacket DEF CInv
<1>3. dev'.open = dev.open
  <2> DEFINE n == Head(out).to
  <2>1. dev \in Printers /\ Troubled \in Printers /\ Troubled.open = dev.open
    BY TroubledFacts, CreditTypes DEF CInv, Troubled, Printers
  <2>2. \/ dev' = dev
        \/ dev' = [dev EXCEPT !.credit = @ - 1, !.executed = n,
                              !.says = Append(@, Data(n))]
        \/ dev' = [Troubled EXCEPT !.credit = @ - 1, !.executed = n,
                                   !.says = @ \o <<Data(0), Data(n)>>]
    BY DEF Executes
  <2> HIDE DEF n
  <2> QED  BY <2>1, <2>2 DEF Printers
<1>4. Found /\ Gives
  BY <1>1 DEF CInv, Granted, Plan
<1>5. Found' /\ Credited' /\ Meant' /\ Sent'
  BY <1>1, <1>2, <1>4 DEF Found, Credited, Meant, Sent, Told
<1>6. Asks' /\ Renews' /\ Opens' /\ Gives'
  <2>1. loc.from = "init"
    BY <1>2, CreditTypes DEF CInv
  <2> QED  BY <1>1, <1>2, <1>3, <1>4, <2>1 DEF Asks, Renews, Opens, Gives
<1> QED  BY <1>5, <1>6 DEF Granted, Plan

LEMMA SpeaksGrants ==
  ASSUME CInv, dev.punctual, Speaks
  PROVE  Granted'
<1>1. /\ ~dev.gone /\ dev.says # << >> /\ dev.given > 0
      /\ dev' = [dev EXCEPT !.says = Tail(@), !.given = @ - 1]
      /\ UNCHANGED <<pc, cmd, loc, out>>
  BY DEF Speaks
<1>2. dev.given \in Nat /\ dev \in Printers
  BY CreditTypes DEF CInv, Printers
<1>3. pc = "read"
  BY <1>1, <1>2 DEF CInv, DInv, Tidy, Mute
<1>4. cmd = "none" /\ loc.from = "init"
  BY <1>3, CreditTypes, ReadingFacts DEF CInv
<1>5. dev'.open = dev.open /\ dev'.credit = dev.credit
  BY <1>1, <1>2 DEF Printers
<1>6. Found /\ Credited /\ Gives
  BY <1>1 DEF CInv, Granted, Plan
<1>7. Found' /\ Credited' /\ Meant' /\ Sent'
  BY <1>1, <1>4, <1>5, <1>6 DEF Found, Credited, Knows, Meant, Sent, Told
<1>8. Asks' /\ Renews' /\ Opens' /\ Gives'
  BY <1>1, <1>3, <1>4, <1>5, <1>6 DEF Asks, Renews, Opens, Gives
<1> QED  BY <1>7, <1>8 DEF Granted, Plan

LEMMA UnpluggedGrants ==
  ASSUME CInv, dev.punctual, Unplugged
  PROVE  Granted'
<1>1. dev' = [Troubled EXCEPT !.gone = TRUE] /\ UNCHANGED <<pc, cmd, loc, out, in>>
  BY DEF Unplugged
<1>2. dev'.gone /\ dev'.open = dev.open /\ dev'.credit = dev.credit
  BY <1>1, CreditTypes DEF CInv, Troubled, Printers
<1>3. Found /\ Credited /\ Meant
  BY DEF CInv, Granted
<1>4. Found' /\ Credited' /\ Meant'
  BY <1>1, <1>2, <1>3 DEF Found, Credited, Knows, Meant, Told
<1> QED  BY <1>2, <1>4 DEF Granted

-----------------------------------------------------------------------------
LEMMA CInvInit == Init /\ MaxTroubles <= 10 => CInv
<1> SUFFICES ASSUME Init, MaxTroubles <= 10 PROVE CInv
  OBVIOUS
<1>1. /\ pc = "flush" /\ cmd = "none" /\ out = << >>
      /\ loc.opens = 0 /\ loc.from = "init"
  BY DEF Init
<1>2. dev.troubles = 0
  <2>1. dev \in [open : BOOLEAN, keeps : BOOLEAN, punctual : BOOLEAN,
                gone : {FALSE}, credit : {0}, given : {0}, says : {<< >>},
                executed : {0}, troubles : {0}]
    BY DEF Init
  <2> QED  BY <2>1
<1>3. Generous
  BY <1>2, TroublesAssumption DEF Generous
<1>4. Found /\ Credited /\ Meant /\ Sent
  BY <1>1 DEF Found, Credited, Meant, Sent, Told
<1>5. Asks /\ Renews /\ Opens /\ Gives
  BY <1>1 DEF Asks, Renews, Opens, Gives
<1> QED  BY <1>3, <1>4, <1>5, DInvInit DEF CInv, Granted, Plan

(* Every function of the session that sends or receives.                   *)
LEMMA SessionGrants ==
  ASSUME CInv, dev.punctual, Session
  PROVE  Granted'
<1>1. ASSUME NEW c \in Commands, Receive(c) PROVE Granted'
  <2>1. cmd = c /\ c # "none"
    BY <1>1 DEF Receive, Commands, AnswerLength
  <2>2. \A d, socket : ~Send(d, socket)
    BY <2>1 DEF Send
  <2>3. pc \in DOMAIN Awaits /\ c = Awaits[pc]
    BY <1>1, ReceiveSees
  <2>4. pc \in {"enter", "init", "again", "socket", "find", "open", "renew",
                "reopen", "close", "ask", "drain", "give"}
    BY <2>3 DEF Awaits
  <2>5. ~Flush /\ ~StartExchange /\ ~WriteData /\ ~ReadData
    BY <2>4 DEF Flush, StartExchange, WriteData, ReadData
  <2>6. CASE EnterIEEE
    BY <2>2, <2>6, EnterGrants DEF EnterIEEE
  <2>7. CASE InitPrinter
    BY <2>2, <2>7, InitGrants DEF InitPrinter
  <2>8. CASE GetSocketID
    BY <2>2, <2>8, SocketGrants DEF GetSocketID
  <2>9. CASE OpenChannel
    BY <2>2, <2>9, OpenGrants DEF OpenChannel
  <2>10. CASE Reopen
    BY <2>2, <2>10, ReopenGrants DEF Reopen
  <2>11. CASE Drain
    BY <2>2, <2>11, DrainGrants DEF Drain
  <2>12. CASE AskForCredit
    BY <2>2, <2>12, AskGrants DEF AskForCredit
  <2>13. CASE Renew
    BY <1>1, <2>13, RenewGrants
  <2>14. CASE GiveCredit
    BY <2>2, <2>14, GiveGrants DEF GiveCredit
  <2>15. CASE CloseChannel
    BY <2>2, <2>15, CloseGrants DEF CloseChannel
  <2> QED  BY <2>5, <2>6, <2>7, <2>8, <2>9, <2>10, <2>11, <2>12, <2>13, <2>14,
              <2>15 DEF Session
<1>2. CASE Flush
  BY <1>2, FlushGrants
<1>3. CASE StartExchange
  BY <1>3, StartGrants
<1>4. CASE WriteData
  BY <1>4, WriteGrants
<1>5. CASE ReadData
  BY <1>5, ReadGrants
<1>6. CASE \E c \in Commands, socket \in Nat :
             /\ Send(c, socket) /\ pc \in DOMAIN Awaits /\ c = Awaits[pc]
             /\ pc \in {"ask", "open", "reopen"} => socket = loc.asked
  BY <1>6, SendGrants
<1> QED  BY <1>1, <1>2, <1>3, <1>4, <1>5, <1>6, SessionMoves DEF CInv

LEMMA CInvStep == CInv /\ [Next]_vars => CInv'
<1> SUFFICES ASSUME CInv, [Next]_vars PROVE CInv'
  OBVIOUS
<1>1. DInv'
  BY DInvStep DEF CInv
<1>2. /\ dev'.punctual = dev.punctual
      /\ dev'.troubles = dev.troubles
           \/ (dev'.troubles = dev.troubles + 1 /\ dev.troubles < MaxTroubles)
  BY PrinterStays DEF CInv
<1>3. dev.troubles \in Nat
  BY CreditTypes DEF CInv
<1>4. Generous'
  BY <1>2, <1>3, TroublesAssumption DEF CInv, Generous
<1>5. ASSUME dev.punctual PROVE Granted'
  <2>1. CASE Session
    BY <1>5, <2>1, SessionGrants
  <2>2. CASE Obeys
    BY <1>5, <2>2, ObeysGrants
  <2>3. CASE Executes
    BY <1>5, <2>3, ExecutesGrants
  <2>4. CASE Speaks
    BY <1>5, <2>4, SpeaksGrants
  <2>5. CASE Unplugged
    BY <1>5, <2>5, UnpluggedGrants
  <2>6. CASE UNCHANGED vars
    <3>1. Found /\ Credited /\ Meant /\ (~dev.gone => Plan)
      BY <1>5 DEF CInv, Granted
    <3>2. /\ pc' = pc /\ cmd' = cmd /\ loc' = loc /\ out' = out /\ in' = in
          /\ dev' = dev
      BY <2>6 DEF vars
    <3>3. Found' /\ Credited' /\ Meant'
      BY <3>1, <3>2 DEF Found, Credited, Knows, Meant, Told
    <3>4. ~dev.gone => Plan'
      BY <3>1, <3>2 DEF Plan, Sent, Asks, Renews, Opens, Gives, Told, Open, Lost,
                        Spare, Spent, Good
    <3> QED  BY <3>2, <3>3, <3>4 DEF Granted
  <2>7. CASE Over
    BY <2>6, <2>7 DEF Over
  <2> QED  BY <2>1, <2>2, <2>3, <2>4, <2>5, <2>6, <2>7 DEF Next
<1>6. Granted'
  BY <1>2, <1>5 DEF Granted
<1> QED  BY <1>1, <1>4, <1>6 DEF CInv

(* A printer that is punctual gets a command only on an open channel and   *)
(* for credit it has given, for any number of commands, where it is mute,  *)
(* busy or wrong at most ten times: askForCredit tries an eleventh time.   *)
THEOREM CommandsOnCredit == MaxTroubles <= 10 /\ Spec => []OnCredit
<1>1. Init /\ MaxTroubles <= 10 => CInv
  BY CInvInit
<1>2. CInv /\ [Next]_vars => CInv'
  BY CInvStep
<1>3. CInv => OnCredit
  BY DEF CInv, Granted, Credited, OnCredit
<1> QED  BY <1>1, <1>2, <1>3, PTL DEF Spec
=============================================================================
