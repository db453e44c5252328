--------------------------------- MODULE D4 ---------------------------------
(***************************************************************************)
(* IEEE 1284.4 as escputil speaks it (d4lib.c): packets over one pair of   *)
(* wires, commands that are answered on the transaction channel, a data    *)
(* channel on which either side may send only as many packets as the other *)
(* has given it credit for, time-outs, and the retries of init_packet,     *)
(* OpenChannel, askForCredit and writeAndReadData.                         *)
(*                                                                         *)
(* A session puts the printer into packet mode, opens the channel of the   *)
(* service EPSON-CTRL, sends Exchanges commands on it, reads what each one *)
(* returns, and closes the channel.  Packets are read whole: readAnswer    *)
(* cuts what it waits for to the packet's length and drops what is more.   *)
(***************************************************************************)
EXTENDS Integers, Sequences, SequencesExt

CONSTANTS
  Exchanges,     (* how many commands are sent on the channel              *)
  MaxTroubles    (* how often the printer is mute, late, busy or wrong     *)

ASSUME ExchangesAssumption == Exchanges \in Nat \ {0}
ASSUME TroublesAssumption  == MaxTroubles \in Nat

VARIABLES
  pc,     (* where the session is                                          *)
  cmd,    (* the command whose answer readAnswer waits for, or "none"      *)
  loc,    (* the locals of the functions on the stack, and socket_id       *)
  out,    (* packets on their way to the printer                           *)
  in,     (* packets on their way from it                                  *)
  dev     (* the printer                                                   *)

vars == <<pc, cmd, loc, out, in, dev>>

(* The socket that the printer has for EPSON-CTRL, and what a wrong answer *)
(* holds in its place.                                                     *)
Socket == 2
Other  == 16

(* The answers' lengths, which sendReceiveCmd is told to expect.           *)
AnswerLength ==
  [enter |-> 8, init |-> 9, socket |-> 19, open |-> 16, close |-> 10,
   request |-> 12, credit |-> 10]

Commands == DOMAIN AnswerLength

Fatal == {5, 8, 9, 10, 132}

Answer(c, result, value) ==
  [kind |-> "answer", to |-> c, result |-> result, value |-> value,
   fresh |-> TRUE]

(* An error packet, which answers nothing that was asked.                  *)
ErrorPacket(code) ==
  [Answer("none", code, 0) EXCEPT !.kind = "error", !.fresh = FALSE]

(* What the printer has to say on the channel: the answer to command n, or *)
(* something else.                                                         *)
Data(n) == [Answer("none", 0, n) EXCEPT !.kind = "data", !.fresh = FALSE]

(* What was on the wires when a new command is sent answers an old one.    *)
Stale(s) == [i \in DOMAIN s |-> [s[i] EXCEPT !.fresh = FALSE]]

Troubled == [dev EXCEPT !.troubles = @ + 1]
MayTrouble == dev.troubles < MaxTroubles

Init ==
  /\ pc = "flush" /\ cmd = "none"
  /\ loc = [tries |-> 0, opens |-> 0, from |-> "init", count |-> 0,
            retries |-> 0, asked |-> 0, socket |-> 0, reads |-> 0,
            answered |-> 0, got |-> 0]
  /\ out = << >>
  /\ dev \in [open : BOOLEAN, keeps : BOOLEAN, punctual : BOOLEAN,
              gone : {FALSE}, credit : {0}, given : {0}, says : {<< >>}, executed : {0},
              troubles : {0}]
  /\ in \in {<< >>} \union (IF dev.open THEN {<<Data(0)>>} ELSE {})
-----------------------------------------------------------------------------
(* sendReceiveCmd sends.                                                   *)
Send(c, socket) ==
  /\ cmd = "none" /\ cmd' = c
  /\ out' = Append(Stale(out), [kind |-> "cmd", to |-> c, socket |-> socket,
                                fresh |-> TRUE])
  /\ in' = Stale(in)
  /\ UNCHANGED <<pc, loc, dev>>

NoAnswer == [rd |-> -1, errno |-> 0, value |-> 0]

(* What readAnswer and sendReceiveCmd make of a packet: nothing compares   *)
(* the answer's command with the one that was sent.  The first bytes of    *)
(* data are no code that printError knows.  Of an answer to some other     *)
(* command GetSocketID takes the byte that names the socket, if it does.   *)
SendReceive(p) ==
  CASE p.kind = "error" -> [rd |-> -1, errno |-> p.result, value |-> 0]
    [] p.kind = "data"  -> [rd |-> 0, errno |-> 115, value |-> 0]
    [] p.result # 0     -> [rd |-> IF p.result \in Fatal THEN -1 ELSE 0,
                            errno |-> p.result, value |-> 0]
    [] OTHER            ->
         [rd    |-> IF AnswerLength[p.to] < AnswerLength[cmd]
                    THEN AnswerLength[p.to] ELSE AnswerLength[cmd],
          errno |-> 0,
          value |-> IF p.to = cmd THEN p.value
                    ELSE IF cmd = "socket" /\ p.to \notin {"enter", "init"}
                    THEN Socket ELSE Other]

(* The printer has nothing to say and has been told nothing: a punctual    *)
(* printer is late for nothing else.                                       *)
Silent == \/ dev.gone
          \/ out = << >> /\ (dev.says = << >> \/ dev.given = 0)

(* A read times out, also one that the printer would still have answered.  *)
TimesOut ==
  /\ in = << >> /\ UNCHANGED in
  /\ \/ Silent /\ UNCHANGED dev
     \/ ~Silent /\ ~dev.punctual /\ MayTrouble /\ dev' = Troubled

(* sendReceiveCmd reads an answer, or none, and Result is what it returns. *)
Receive(c) ==
  /\ cmd = c /\ cmd' = "none" /\ UNCHANGED out
  /\ \/ in # << >> /\ in' = Tail(in) /\ UNCHANGED dev
     \/ TimesOut

Result == IF in = << >> THEN NoAnswer ELSE SendReceive(Head(in))

Goto(p) == pc' = p /\ UNCHANGED loc
-----------------------------------------------------------------------------
(* init_packet                                                             *)

(* _flushData: what the printer says later stays on the wire.              *)
Flush ==
  /\ pc \in {"flush", "drained"}
  /\ Goto(IF pc = "flush" THEN "enter" ELSE "start")
  /\ in' = << >> /\ UNCHANGED <<cmd, out, dev>>

(* Mutants of Retry: one try too many; tries that are not counted.         *)
RetryOnceMore ==
  IF loc.tries <= 5 THEN pc' = "flush" /\ loc' = [loc EXCEPT !.tries = @ + 1]
                    ELSE Goto("over")

RetryUncounted == Goto("flush")

(* "if (tries++ < 5)": nulls are sent, and what comes back is flushed.     *)
Retry ==
  IF loc.tries < 5 THEN pc' = "flush" /\ loc' = [loc EXCEPT !.tries = @ + 1]
                   ELSE Goto("over")

(* EnterIEEE starts over while it reads zeros only.                        *)
EnterIEEE ==
  /\ pc = "enter"
  /\ \/ Send("enter", 0)
     \/ /\ Receive("enter")
        /\ IF in = << >> THEN Retry
           ELSE Goto(IF Head(in).kind = "zeros" THEN "enter" ELSE "init")

InitPrinter ==
  /\ pc = "init"
  /\ \/ Send("init", 0)
     \/ Receive("init") /\ IF Result.rd = 9 THEN Goto("socket") ELSE Retry

SocketFound == IF Result.rd > 0 THEN Result.value ELSE 0

GetSocketID ==
  /\ pc = "socket"
  /\ \/ Send("socket", 0)
     \/ /\ Receive("socket")
        /\ pc' = IF SocketFound = 0 THEN "over" ELSE "open"
        /\ loc' = [loc EXCEPT !.socket = SocketFound, !.asked = SocketFound]

(* flushData(fd, socket_id) gives credit for one packet and drops it.      *)
Drain ==
  /\ pc = "drain"
  /\ \/ Send("credit", loc.socket)
     \/ Receive("credit") /\ Goto(IF Result.rd = 10 THEN "drained" ELSE "start")
-----------------------------------------------------------------------------
(* askForCredit                                                            *)

StartExchange ==
  /\ pc = "start" /\ pc' = "ask"
  /\ loc' = [loc EXCEPT !.asked = loc.socket, !.count = 0, !.retries = 9]
  /\ UNCHANGED <<cmd, out, in, dev>>

(* Mutant of After: credit is given behind the command.                    *)
AfterGiveLast(step) == CASE step = "ask" -> "write" [] step = "write" -> "give"
                         [] step = "give" -> "read"

(* writeAndReadData gives credit before the command is sent, as otherwise  *)
(* "the actual data" may "be sent as a reply to the credit command".       *)
After(step) == CASE step = "ask" -> "give" [] step = "give" -> "write"
                 [] step = "write" -> "read"

(* The outer loop comes to its condition with left retries and no credit.  *)
NextRound(left) ==
  /\ pc' = IF left >= 0 THEN "ask" ELSE After("ask")
  /\ loc' = [loc EXCEPT !.count = @ + 1, !.retries = left - 1,
                        !.opens = 0, !.from = "init"]

(* What CreditRequest returns.                                             *)
Credit == IF Result.rd = 12 THEN Result.value
          ELSE IF Result.rd > 0 THEN 0 ELSE Result.rd

(* Mutant of NoCredit: an answer without credit is taken for one with it.  *)
NoCreditNeeded == Goto(After("ask"))

NoCredit ==
  IF loc.count < 2 /\ loc.retries >= 0
  THEN pc' = pc /\ loc' = [loc EXCEPT !.retries = @ - 1]
  ELSE NextRound(IF loc.count < 2 THEN loc.retries - 1 ELSE loc.retries)

AskForCredit ==
  /\ pc = "ask"
  /\ \/ Send("request", loc.asked)
     \/ /\ Receive("request")
        /\ CASE Credit > 0 -> Goto(After("ask"))
             [] Credit = 0 -> NoCredit
             [] OTHER      -> Goto(IF dev.gone \/ loc.count = 2 THEN "close"
                                                                ELSE "renew")

(* "init printer and reopen the printer channel": what CloseChannel and    *)
(* OpenChannel return is not looked at, and the new socket stays local.    *)
Renew ==
  \/ pc = "renew" /\ Send("close", loc.asked)
  \/ pc = "renew" /\ Receive("close") /\ Goto("find")
  \/ pc = "find" /\ Send("socket", 0)
  \/ /\ pc = "find" /\ Receive("socket")
     /\ pc' = "again" /\ loc' = [loc EXCEPT !.asked = SocketFound]
  \/ pc = "again" /\ Send("init", 0)
  \/ /\ pc = "again" /\ Receive("init")
     /\ IF Result.rd = 9 THEN pc' = "open" /\ loc' = [loc EXCEPT !.from = "ask"]
                         ELSE NextRound(loc.retries)
-----------------------------------------------------------------------------
(* OpenChannel                                                             *)

OpenReturns(ok) ==
  IF loc.from = "ask" THEN NextRound(loc.retries)
  ELSE pc' = (IF ok THEN "drain" ELSE "over") /\ loc' = [loc EXCEPT !.opens = 0]

(* "continue": after five rounds the channel is taken to be open.          *)
OpenAgain ==
  IF loc.opens < 4 THEN pc' = "open" /\ loc' = [loc EXCEPT !.opens = @ + 1]
                   ELSE OpenReturns(TRUE)

(* A channel that is open already is closed and opened again; a printer    *)
(* without resources now is one that fails, as sendReceiveCmd returns 0    *)
(* for every error and the branch for this one wants 16.                   *)
OpenChannel ==
  /\ pc = "open"
  /\ \/ Send("open", loc.asked)
     \/ /\ Receive("open")
        /\ IF Result.rd = 16 THEN OpenReturns(TRUE)
           ELSE IF Result.errno = 6 THEN Goto("reopen")
           ELSE OpenReturns(FALSE)

Reopen ==
  /\ pc = "reopen"
  /\ Send("close", loc.asked) \/ (Receive("close") /\ OpenAgain)
-----------------------------------------------------------------------------
(* writeAndReadData, and the end of the session                            *)

GiveCredit ==
  /\ pc = "give"
  /\ \/ Send("credit", loc.socket)
     \/ Receive("credit") /\ Goto(IF Result.rd = 10 THEN After("give") ELSE "close")

(* writeData.                                                              *)
WriteData ==
  /\ pc = "write"
  /\ pc' = IF dev.gone THEN "close" ELSE After("write")
  /\ loc' = [loc EXCEPT !.reads = 5]
  /\ out' = IF dev.gone THEN out
            ELSE Append(out, [kind |-> "data", to |-> loc.answered + 1,
                              socket |-> loc.socket, fresh |-> FALSE])
  /\ UNCHANGED <<cmd, in, dev>>

(* Mutant of Passes: test is left out.                                     *)
PassesAnything(p) == TRUE

(* _readData takes any packet for data; test knows the kind of answer.     *)
Passes(p) == p.kind = "data" /\ p.value > 0

Answered(p) ==
  /\ loc' = [loc EXCEPT !.answered = @ + 1, !.got = p.value]
  /\ pc' = IF loc.answered + 1 < Exchanges THEN "start" ELSE "close"

ReadData ==
  /\ pc = "read" /\ UNCHANGED <<cmd, out>>
  /\ \/ /\ in # << >> /\ in' = Tail(in) /\ UNCHANGED dev
        /\ IF Passes(Head(in)) \/ loc.reads < 0 THEN Answered(Head(in))
           ELSE pc' = pc /\ loc' = [loc EXCEPT !.reads = @ - 1]
     \/ TimesOut /\ Goto("close")

CloseChannel ==
  /\ pc = "close"
  /\ Send("close", loc.socket) \/ (Receive("close") /\ Goto("over"))
-----------------------------------------------------------------------------
(* The printer                                                             *)

Opened(open) ==
  [dev EXCEPT !.open = open, !.credit = 0, !.given = 0, !.says = << >>]

Knows(p) == dev.open /\ p.socket = Socket

(* The printer does as it is told.                                         *)
Done(p) ==
  CASE p.to = "init" -> Opened(dev.open /\ dev.keeps)
    [] p.to = "open" /\ p.socket = Socket /\ ~dev.open -> Opened(TRUE)
    [] p.to = "close" /\ Knows(p)   -> Opened(FALSE)
    [] p.to = "request" /\ Knows(p) -> [dev EXCEPT !.credit = @ + 1]
    [] p.to = "credit" /\ Knows(p)  -> [dev EXCEPT !.given = @ + 1]
    [] OTHER -> dev

(* And says so.                                                            *)
Reply(p) ==
  CASE p.to \in {"enter", "init"} -> Answer(p.to, 0, Other)
    [] p.to = "socket"  -> Answer(p.to, 0, Socket)
    [] p.to = "open"    -> Answer(p.to, IF p.socket # Socket THEN 9
                                        ELSE IF dev.open THEN 6 ELSE 0, Other)
    [] p.to = "request" -> Answer(p.to, IF Knows(p) THEN 0 ELSE 8, 1)
    [] OTHER            -> Answer(p.to, IF Knows(p) THEN 0 ELSE 8, Socket)

(* Or it has nothing to give, or answers with zeros.                       *)
Refusal(p) ==
  CASE p.to = "enter"   -> [Answer(p.to, 0, Other) EXCEPT !.kind = "zeros"]
    [] p.to = "init"    -> Answer(p.to, 1, Other)
    [] p.to = "socket"  -> Answer(p.to, 10, Other)
    [] p.to = "open"    -> Answer(p.to, 4, Other)
    [] p.to = "close"   -> Answer(p.to, 3, Socket)
    [] p.to = "request" -> Answer(p.to, IF Knows(p) THEN 0 ELSE 8, 0)
    [] p.to = "credit"  -> Answer(p.to, 7, Socket)

FreshIf(p, a) == [a EXCEPT !.fresh = p.fresh]

(* What is said before the answer, where credit for it has just come.      *)
SaidFirst(p) ==
  {<< >>} \union IF p.to = "credit" /\ Knows(p) /\ dev.says # << >>
                 THEN {<<Head(dev.says)>>} ELSE {}

Obeys ==
  /\ ~dev.gone /\ out # << >> /\ out' = Tail(out)
  /\ UNCHANGED <<pc, cmd, loc>>
  /\ LET p == Head(out) IN
     /\ p.kind = "cmd"
     /\ \/ \E first \in SaidFirst(p) :
             /\ in' = in \o first \o <<FreshIf(p, Reply(p))>>
             /\ dev' = IF first = << >> THEN Done(p)
                       ELSE [Done(p) EXCEPT !.says = Tail(@), !.given = @ - 1]
        \/ /\ MayTrouble /\ dev' = Troubled
           /\ in' = Append(in, FreshIf(p, Refusal(p))) \/ in' = in
        \/ MayTrouble /\ dev' = [Done(p) EXCEPT !.troubles = @ + 1] /\ in' = in

(* A command on the channel is executed if there was credit for it.        *)
Executes ==
  /\ ~dev.gone /\ out # << >> /\ out' = Tail(out)
  /\ UNCHANGED <<pc, cmd, loc>>
  /\ LET p == Head(out)  n == Head(out).to IN
     /\ p.kind = "data"
     /\ \/ /\ ~Knows(p) \/ dev.credit = 0
           /\ in' = Append(in, ErrorPacket(IF Knows(p) THEN 129 ELSE 132))
           /\ UNCHANGED dev
        \/ /\ Knows(p) /\ dev.credit > 0 /\ UNCHANGED in
           /\ \/ dev' = [dev EXCEPT !.credit = @ - 1, !.executed = n,
                                    !.says = Append(@, Data(n))]
              \/ /\ MayTrouble
                 /\ dev' = [Troubled EXCEPT !.credit = @ - 1, !.executed = n,
                                            !.says = @ \o <<Data(0), Data(n)>>]

Speaks ==
  /\ ~dev.gone /\ dev.says # << >> /\ dev.given > 0
  /\ in' = Append(in, Head(dev.says))
  /\ dev' = [dev EXCEPT !.says = Tail(@), !.given = @ - 1]
  /\ UNCHANGED <<pc, cmd, loc, out>>

Unplugged ==
  /\ ~dev.gone /\ MayTrouble /\ pc # "over"
  /\ dev' = [Troubled EXCEPT !.gone = TRUE]
  /\ UNCHANGED <<pc, cmd, loc, out, in>>
-----------------------------------------------------------------------------
Session ==
  \/ Flush \/ EnterIEEE \/ InitPrinter \/ GetSocketID \/ OpenChannel \/ Reopen
  \/ Drain \/ StartExchange \/ AskForCredit \/ Renew \/ GiveCredit
  \/ WriteData \/ ReadData \/ CloseChannel

Over == pc = "over" /\ UNCHANGED vars

Next == Session \/ Obeys \/ Executes \/ Speaks \/ Unplugged \/ Over

Spec == Init /\ [][Next]_vars

FairSpec == Spec /\ WF_vars(Session) /\ WF_vars(Obeys \/ Executes \/ Speaks)
-----------------------------------------------------------------------------
(* Type correctness: every loop of retries keeps within its bound.         *)
TypeOK ==
  /\ cmd \in Commands \union {"none"}
  /\ loc.tries \in 0 .. 5 /\ loc.opens \in 0 .. 4
  /\ loc.count \in 0 .. 11 /\ loc.retries \in -3 .. 9 /\ loc.reads \in -1 .. 5
  /\ loc.answered \in 0 .. Exchanges
  /\ dev.credit \in Nat /\ dev.given \in Nat

(* d4lib.c never looks whether an answer is the one to its command.  With  *)
(* a printer that answers in time or never it always is: no answer of an   *)
(* earlier try, no error packet and no data are in front of it.            *)
InStep ==
  dev.punctual /\ cmd # "none" /\ in # << >> => Head(in).fresh

(* A command is sent only on an open channel, with credit, if the printer  *)
(* is punctual and grants it within eleven requests.                       *)
OnCredit ==
  dev.punctual /\ out # << >> /\ Head(out).kind = "data" =>
    Knows(Head(out)) /\ dev.credit > 0

(* The answer that a caller is given is the one to its own command, which  *)
(* the printer has executed once; commands come in order, and no command   *)
(* is sent before the one before it was answered.                          *)
Channel == INSTANCE D4Channel
             WITH executed <- dev.executed, confirmed <- loc.got
ExecutedOnce == Channel!Spec

(* Every session ends, whatever the printer does not answer.               *)
SessionEnds == <>(pc = "over")
=============================================================================
