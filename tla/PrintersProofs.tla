--------------------------- MODULE PrintersProofs ---------------------------
(***************************************************************************)
(* What TLAPS proves of the main loops of the dye-sublimation backends,    *)
(* for any number of copies and however often the printers fail, of all    *)
(* printers but those with a hitch that their loop does not deal with      *)
(* (Unhandled): every copy asked for is given once and completely, "ok" is *)
(* returned only then, after a SIGTERM no more than one batch is given, no *)
(* job gets the number of another, no printer gets what it is not ready    *)
(* for, and a loop that is to wait for the printer does.                   *)
(***************************************************************************)
EXTENDS Printers, SequenceTheorems, FiniteSetTheorems, TLAPS

(* Does the printer make the copies?                                       *)
AtOnce ==
  \/ job.model \in BankModels \union PrinterCopies \union {"hiti"}
  \/ Is("dnpds40") /\ ~job.manual

(* What the printers may not do that the copies are to come out.           *)
CopiesPlain ==
  Hitches \cap {<<"mitsu70x", "fail unwatched">>, <<"mitsu70x", "fail when done">>,
                <<"mitsud90", "side left over">>} = {}

(* A side of a sheet that is left alone is the only page of its job.       *)
JobOK ==
  /\ job.copies \in Nat \ {0}
  /\ job.batch = IF AtOnce THEN job.copies ELSE 1
  /\ job.model \in SpoolModels \ {"mitsud90"} => Starts
  /\ Is("mitsud90") /\ ~Starts /\ job.kind = "w5000" => Wanted = 1

(* The deck has lost the copy that main_loop waits for, and main_loop will *)
(* send it again.                                                          *)
CopyLost ==
  /\ Is("mitsu70x") /\ job.decks = AllDecks
  /\ dev.decks[state[2]].copy = "lost"

(* The page of this round has been given, and main_loop waits for it or is *)
(* about to count it.                                                      *)
PageGiven ==
  \/ state[1] \in {"asked", "clear2", "done"}
  \/ state[1] = "wait" /\ ~CopyLost
  \/ state[1] = "sent" /\ ~Is("hiti")

(* Each copy is still to be sent, was given in an earlier round, or in     *)
(* this one.  A copy given after SIGTERM is of the last round.             *)
CopiesAddUp ==
  Running =>
    /\ copies \in 1 .. Wanted
    /\ AtOnce => copies = Wanted
    /\ given = (Wanted - copies) + (IF PageGiven THEN job.batch ELSE 0)
    /\ late # 0 /\ Heeds => terminate /\ PageGiven

Counts ==
  /\ copies \in 0 .. Wanted
  /\ given \in 0 .. Wanted
  /\ late \in 0 .. given
  /\ terminate \in BOOLEAN
  /\ result \in Codes \union {"running"}
  /\ ~terminate => late = 0

DevOK == "stray" \in DOMAIN dev /\ dev.stray \in BOOLEAN

(* magicard has no state: it gives one page after the other.               *)
MagicardIdle == Is("magicard") => state = <<"idle">>

CInv == JobOK /\ Counts /\ CopiesAddUp /\ MagicardIdle /\ DevOK

-----------------------------------------------------------------------------
(* mitsu70x: what is read of the decks is what they print, or what they    *)
(* have printed.                                                           *)
DeckJobOK ==
  /\ job.decks \in {{1}, AllDecks}
  /\ job.ok \subseteq job.decks /\ job.exact \subseteq job.ok

Decks == [id : Nat, err : BOOLEAN, copy : {"none", "in", "lost"}]

DeckDevs ==
  [decks : [job.decks -> Decks],
   cool : SUBSET job.decks, troubles : Nat, full : BOOLEAN,
   abnormal : BOOLEAN, stray : {FALSE}, clash : {FALSE}]

DeckMems == [jobid : 0 .. MaxDeckJobId, current : Nat]

(* What was read of the decks is what is in them, or what was.             *)
DecksSeen ==
  sts # NotRead =>
    /\ sts.current \in Nat
    /\ \A d \in job.decks : dev.decks[d].id \in {0, sts.decks[d].id}
    /\ (\E d \in job.decks : sts.decks[d].id = 0) =>
         \A d \in job.decks : sts.decks[d].id \in {0, sts.current}

DeckPlace ==
  \/ state = <<"top">>
  \/ \E d \in job.decks :
       /\ state = <<"memory", d>>
       /\ Printed(d)
       /\ \A e \in job.decks : dev.decks[e].id \in {0, mem.current}
  \/ \E d \in job.decks : state = <<"wait", d>> /\ mem.jobid # 0

(* The deck main_loop waits for, and what was read of it.  Its copy is     *)
(* still printing, or printed, or main_loop will see that it is lost; and  *)
(* of two decks it reports an error just when the copy is lost, until it   *)
(* has been seen to be done.                                               *)
Waited(d) ==
  LET deck == dev.decks[d] IN
  /\ deck.copy = "in" => deck.id = mem.jobid
  /\ deck.copy = "lost" => deck.err \/ (deck.id = 0 /\ dev.abnormal)
  /\ sts = NotRead /\ job.decks = AllDecks /\ deck.err => deck.copy = "lost"
  /\ sts # NotRead =>
       LET seen == sts.decks[d] IN
       /\ deck.copy = "lost" /\ seen.id # mem.jobid => seen.err \/ sts.abnormal
       /\ job.decks = AllDecks =>
            /\ seen.err => deck.copy = "lost"
            /\ deck.copy = "lost" =>
                 seen.err \/ (seen.id # mem.jobid /\ sts.abnormal)
            /\ deck.err /\ deck.copy # "lost" => seen.id # mem.jobid

DeckTurn ==
  Is("mitsu70x") =>
    /\ DeckJobOK
    /\ dev \in DeckDevs /\ mem \in DeckMems
    /\ DecksSeen
    /\ Running => DeckPlace
    /\ Running /\ state[1] = "wait" => Waited(state[2])
    /\ result = "ok" /\ job.wait =>
         \/ dev.decks[state[2]].copy = "none"
         \/ terminate /\ job.decks = AllDecks

-----------------------------------------------------------------------------
(* What a step of a main loop may do to the copies.  It goes on, in the    *)
(* same round...                                                           *)
GoesOn ==
  /\ GiveNone
  /\ copies' = copies /\ result' = result
  /\ PageGiven' = PageGiven

(* ... it gives up...                                                      *)
GivesUp ==
  /\ GiveNone
  /\ copies' = copies /\ result' \in Codes \ {"ok"}

(* ... it gives the page...                                                *)
GivesPage ==
  /\ ~PageGiven /\ PageGiven'
  /\ Give(job.batch)
  /\ copies' = copies /\ result' = result

(* ... it is through with all copies, or with one...                       *)
AllDone ==
  /\ AtOnce /\ PageGiven
  /\ GiveNone
  /\ copies' = copies /\ result' = "ok"

NextRound(left) ==
  /\ copies' = left
  /\ IF left = 0 THEN result' = "ok" ELSE result' = result /\ ~PageGiven'

RoundDone ==
  /\ ~AtOnce /\ PageGiven
  /\ GiveNone
  /\ NextRound(CopiesLeft) \/ (~Heeds /\ NextRound(copies - 1))

(* ... it gives the page and counts it at once, or gives the only one...   *)
GivesAndCounts ==
  /\ ~AtOnce /\ ~PageGiven
  /\ Give(1)
  /\ \/ NextRound(CopiesLeft)
     \/ Wanted = 1 /\ copies' = copies /\ result' = "ok"

(* ... or the printer spoils the page, which has to be given again.        *)
PageSpoilt ==
  /\ ~AtOnce /\ Heeds /\ PageGiven /\ ~PageGiven'
  /\ given' = given - 1 /\ late' = 0
  /\ copies' = copies /\ result' = result

Move ==
  /\ Running
  /\ UNCHANGED <<job, terminate>>
  /\ \/ GoesOn \/ GivesUp \/ GivesPage \/ AllDone \/ RoundDone
     \/ GivesAndCounts \/ PageSpoilt

(* A step of the printer, a query or the signal.                           *)
Outside ==
  /\ UNCHANGED <<job, copies, state, result, given, late>>
  /\ PageGiven' = PageGiven

-----------------------------------------------------------------------------
(* Every job asks for copies, and for all at once if the printer makes     *)
(* them.                                                                   *)
LEMMA JobsAreOK == ASSUME CopiesPlain PROVE Init => JobOK
<1> SUFFICES ASSUME Init PROVE JobOK
  OBVIOUS
<1>1. Copies \subseteq Nat \ {0}
  BY CopiesAssumption
<1>2. CASE PlaneInit
  BY <1>1, <1>2 DEF PlaneInit, PlaneJobs, JobOK, AtOnce, Is, BankModels,
     Shinkos, PrinterCopies, SpoolModels
<1>3. CASE HitiInit
  BY <1>1, <1>3 DEF HitiInit, HitiJobs, JobOK, AtOnce, Is, SpoolModels, PrinterCopies
<1>4. CASE SpoolInit
  <2>1. /\ job.model \in SpoolModels /\ job.copies \in Copies
        /\ job.kind \in {"plain", "cp30d", "w5000"}
        /\ job.start \in BOOLEAN /\ job.held \in BOOLEAN
        /\ job.page \in {"alone", "panel", "side"}
        /\ job.batch = IF job.model \in PrinterCopies THEN job.copies ELSE 1
        /\ ~job.start => job.model = "mitsud90"
        /\ job.page = "panel" => job.kind = "plain"
    BY <1>4 DEF SpoolInit, SpoolJobs
  <2>2. job.batch = IF AtOnce THEN job.copies ELSE 1
    BY <2>1 DEF AtOnce, Is, BankModels, Shinkos, SpoolModels, PrinterCopies
  <2>3. job.model \in SpoolModels \ {"mitsud90"} => Starts
    BY <2>1 DEF Starts
  <2>4. ASSUME Is("mitsud90"), ~Starts, job.kind = "w5000" PROVE Wanted = 1
    <3>1. CASE job.page # "alone"
      BY <2>4, <3>1 DEF Wanted
    <3>2. CASE job.page = "alone"
      <4>1. job.held /\ ~job.start
        BY <2>1, <2>4, <3>2 DEF Starts
      <4>2. <<"mitsud90", "side left over">> \notin Hitches
        BY DEF CopiesPlain
      <4>3. ~(job.copies > 1)
        BY <1>4, <3>2, <4>1, <4>2 DEF SpoolInit, SpoolJobs
      <4>4. job.copies \in Nat \ {0}
        BY <1>1, <2>1
      <4>5. job.copies = 1
        BY <4>3, <4>4
      <4> QED  BY <3>2, <4>5 DEF Wanted
    <3> QED  BY <3>1, <3>2
  <2> QED  BY <1>1, <2>1, <2>2, <2>3, <2>4 DEF JobOK
<1>5. CASE BankInit
  BY <1>1, <1>5 DEF BankInit, BankJobs, JobOK, AtOnce, Is, BankModels, Shinkos,
     SpoolModels, PrinterCopies
<1>6. CASE DeckInit
  BY <1>1, <1>6 DEF DeckInit, DeckJobs, JobOK, AtOnce, Is, BankModels,
     Shinkos, PrinterCopies, SpoolModels
<1>7. CASE DnpInit
  BY <1>1, <1>7 DEF DnpInit, DnpJobs, JobOK, AtOnce, Is, BankModels,
     Shinkos, PrinterCopies, SpoolModels
<1> QED  BY <1>2, <1>3, <1>4, <1>5, <1>6, <1>7 DEF Init

(* How many copies are wanted stays the same.                              *)
LEMMA WantedFacts ==
  ASSUME JobOK
  PROVE  /\ Wanted \in Nat \ {0} /\ (AtOnce => Wanted = job.copies)
         /\ ~Is("mitsud90") => Wanted = job.copies
         /\ job' = job => Wanted' = Wanted /\ JobOK' /\ AtOnce' = AtOnce
                          /\ Heeds' = Heeds
<1>1. Wanted \in Nat \ {0} /\ (~Is("mitsud90") => Wanted = job.copies)
  BY DEF JobOK, Wanted
<1>2. AtOnce => Wanted = job.copies
  BY DEF AtOnce, Wanted, Is, BankModels, Shinkos, PrinterCopies
<1>3. job' = job => /\ Wanted' = Wanted /\ AtOnce' = AtOnce /\ Heeds' = Heeds
                    /\ Starts' = Starts
  BY DEF AtOnce, Wanted, Is, Heeds, Starts
<1>4. job' = job => JobOK'
  BY <1>3 DEF JobOK, Is, SpoolModels, PrinterCopies
<1> QED  BY <1>1, <1>2, <1>3, <1>4

(* At first no copy is given.                                              *)
LEMMA CInvInit == ASSUME CopiesPlain PROVE Init => CInv
<1> SUFFICES ASSUME Init PROVE CInv
  OBVIOUS
<1>1. JobOK
  BY JobsAreOK
<1>2. state[1] \in {"clear", "await", "send", "idle", "top"} /\ DevOK
  <2>1. CASE PlaneInit
    BY <2>1 DEF PlaneInit, Before, DevOK
  <2>2. CASE HitiInit
    BY <2>2 DEF HitiInit, DevOK
  <2>3. CASE SpoolInit
    BY <2>3 DEF SpoolInit, DevOK
  <2>4. CASE BankInit
    BY <2>4 DEF BankInit, DevOK
  <2>5. CASE DeckInit
    BY <2>5 DEF DeckInit, DevOK
  <2>6. CASE DnpInit
    BY <2>6 DEF DnpInit, DevOK
  <2> QED  BY <2>1, <2>2, <2>3, <2>4, <2>5, <2>6 DEF Init
<1>3. ~PageGiven
  BY <1>2 DEF PageGiven
<1>4. /\ copies = Wanted /\ terminate = FALSE /\ result = "running"
      /\ given = 0 /\ late = 0
  BY DEF Init
<1>5. Wanted \in Nat \ {0}
  BY <1>1, WantedFacts
<1>6. Counts
  <2>1. /\ copies \in 0 .. Wanted /\ given \in 0 .. Wanted
        /\ late \in 0 .. given
    BY <1>4, <1>5
  <2> QED  BY <1>4, <2>1, Zenon DEF Counts
<1>7. CopiesAddUp
  BY <1>3, <1>4, <1>5 DEF CopiesAddUp
<1>8. MagicardIdle
  BY DEF Init, PlaneInit, PlaneJobs, HitiInit, HitiJobs, SpoolInit, BankInit,
     BankJobs, BankModels, Shinkos, DeckInit, DeckJobs, DnpInit, DnpJobs,
     MagicardIdle, Is
<1> QED  BY <1>1, <1>2, <1>6, <1>7, <1>8 DEF CInv

-----------------------------------------------------------------------------
(* A step of a main loop keeps the count of the copies...                  *)
LEMMA MoveKeepsCount ==
  ASSUME JobOK, Counts, CopiesAddUp, Move
  PROVE  JobOK' /\ Counts' /\ CopiesAddUp'
<1> DEFINE b == job.batch
           n == Wanted
<1>1. /\ n \in Nat \ {0} /\ b \in Nat \ {0}
      /\ AtOnce => b = n /\ copies = n
      /\ ~AtOnce => b = 1
      /\ copies \in 1 .. n
      /\ given = (n - copies) + (IF PageGiven THEN b ELSE 0)
      /\ late # 0 /\ Heeds => terminate /\ PageGiven
      /\ late \in 0 .. given /\ given \in 0 .. n
      /\ terminate \in BOOLEAN /\ (~terminate => late = 0)
      /\ Running
  BY WantedFacts DEF JobOK, CopiesAddUp, Counts, Move
<1>2. /\ job' = job /\ b' = b /\ n' = n /\ terminate' = terminate
      /\ AtOnce' = AtOnce /\ Heeds' = Heeds
  BY WantedFacts DEF Move
<1>3. JobOK'
  BY <1>2, WantedFacts
<1>4. result = "running" /\ "running" \notin Codes /\ "ok" \in Codes
  BY <1>1 DEF Running, Codes
<1>5. Counts' /\ CopiesAddUp'
  <2>1. CASE GoesOn
    BY <1>1, <1>2, <1>4, <2>1 DEF GoesOn, GiveNone, Counts, CopiesAddUp, Running
  <2>2. CASE GivesUp
    BY <1>1, <1>2, <1>4, <2>2 DEF GivesUp, GiveNone, Counts, CopiesAddUp, Running
  <2>3. CASE GivesPage
    <3>1. /\ given' = given + b /\ given = n - copies
          /\ late' = IF terminate THEN late + b ELSE late
          /\ copies' = copies /\ result' = result /\ PageGiven'
      BY <1>1, <2>3 DEF GivesPage, Give
    <3>2. b <= copies
      BY <1>1
    <3>3. /\ given' \in 0 .. n /\ late' \in 0 .. given'
          /\ given' = (n - copies) + b
          /\ ~terminate => late' = 0
      BY <1>1, <3>1, <3>2
    <3> QED  BY <1>1, <1>2, <1>4, <3>1, <3>3 DEF Counts, CopiesAddUp, Running
  <2>4. CASE AllDone
    BY <1>1, <1>2, <1>4, <2>4 DEF AllDone, GiveNone, Counts, CopiesAddUp, Running
  <2>5. CASE RoundDone
    BY <1>1, <1>2, <1>4, <2>5 DEF RoundDone, NextRound, CopiesLeft, GiveNone,
       Counts, CopiesAddUp, Running
  <2>6. CASE GivesAndCounts
    <3>1. CASE NextRound(CopiesLeft)
      BY <1>1, <1>2, <1>4, <2>6, <3>1 DEF GivesAndCounts, NextRound, CopiesLeft,
         Give, Counts, CopiesAddUp, Running
    <3>2. CASE n = 1 /\ copies' = copies /\ result' = "ok"
      BY <1>1, <1>2, <1>4, <2>6, <3>2 DEF GivesAndCounts, Give, Counts,
         CopiesAddUp, Running
    <3> QED  BY <2>6, <3>1, <3>2 DEF GivesAndCounts
  <2>7. CASE PageSpoilt
    BY <1>1, <1>2, <1>4, <2>7 DEF PageSpoilt, Counts, CopiesAddUp, Running
  <2> QED  BY <2>1, <2>2, <2>3, <2>4, <2>5, <2>6, <2>7 DEF Move
<1> QED  BY <1>3, <1>5

(* ... and is one that CopyService allows, or none.                        *)
LEMMA MoveIsService ==
  ASSUME JobOK, Counts, CopiesAddUp, Move
  PROVE  [Service!Next]_(Service!vars)
<1> DEFINE b == job.batch
           n == Wanted
<1>1. /\ n \in Nat \ {0} /\ b \in Nat \ {0}
      /\ AtOnce => b = n /\ copies = n
      /\ ~AtOnce => b = 1
      /\ copies \in 1 .. n
      /\ given = (n - copies) + (IF PageGiven THEN b ELSE 0)
      /\ late # 0 /\ Heeds => terminate /\ PageGiven
      /\ late \in 0 .. given /\ given \in 0 .. n
      /\ terminate \in BOOLEAN /\ (~terminate => late = 0)
      /\ result = "running"
  BY WantedFacts DEF JobOK, CopiesAddUp, Counts, Move, Running
<1>2. /\ job' = job /\ b' = b /\ n' = n /\ terminate' = terminate
      /\ AtOnce' = AtOnce /\ Heeds' = Heeds
  BY WantedFacts DEF Move
<1> DEFINE shown == IF Heeds THEN late ELSE 0
<1>3. ASSUME GiveNone PROVE shown' = shown /\ given' = given
  BY <1>2, <1>3 DEF GiveNone
<1>4. Service!Next
  <2>1. CASE GoesOn
    BY <1>1, <1>2, <1>3, <2>1 DEF GoesOn, Service!Next, Service!Ends
  <2>2. CASE GivesUp
    BY <1>1, <1>2, <1>3, <2>2 DEF GivesUp, Service!Next, Service!Ends, Codes
  <2>3. CASE GivesPage
    BY <1>1, <1>2, <2>3 DEF GivesPage, Give, Service!Next, Service!GiveCopies,
       Service!Ends
  <2>4. CASE AllDone
    BY <1>1, <1>2, <1>3, <2>4 DEF AllDone, Service!Next, Service!Ends
  <2>5. CASE RoundDone
    <3>1. given = (n - copies) + 1
      BY <1>1, <2>5 DEF RoundDone
    <3>2. result' = result
          \/ (result' = "ok" /\ (given = n \/ (terminate /\ given > 0)))
      BY <1>1, <2>5, <3>1 DEF RoundDone, NextRound, CopiesLeft
    <3> QED  BY <1>1, <1>2, <1>3, <2>5, <3>2 DEF RoundDone, Service!Next, Service!Ends
  <2>6. CASE GivesAndCounts
    <3>1. given = n - copies /\ given' = (n - copies) + 1 /\ b = 1
      BY <1>1, <2>6 DEF GivesAndCounts, Give
    <3>2. result' = result
          \/ (result' = "ok" /\ (given' = n \/ (terminate /\ given' > 0)))
      <4>1. CASE NextRound(CopiesLeft)
        BY <1>1, <3>1, <4>1 DEF NextRound, CopiesLeft
      <4>2. CASE n = 1 /\ copies' = copies /\ result' = "ok"
        BY <1>1, <3>1, <4>2
      <4> QED  BY <2>6, <4>1, <4>2 DEF GivesAndCounts
    <3>3. Service!GiveCopies
      BY <1>1, <1>2, <2>6, <3>1 DEF GivesAndCounts, Give, Service!GiveCopies
    <3> QED  BY <1>1, <1>2, <3>2, <3>3 DEF Service!Next, Service!Ends
  <2>7. CASE PageSpoilt
    BY <1>1, <1>2, <2>7 DEF PageSpoilt, Service!Next, Service!TakeBack
  <2> QED  BY <2>1, <2>2, <2>3, <2>4, <2>5, <2>6, <2>7 DEF Move
<1> QED  BY <1>4
-----------------------------------------------------------------------------
(* The steps of canonselphy and kodak1400 ...                              *)
LEMMA PlaneMoves ==
  ASSUME PlaneAct PROVE Move
<1>1. ~AtOnce /\ Running /\ UNCHANGED <<job, terminate>> /\ ~Is("hiti")
  BY DEF PlaneAct, AtOnce, Is, BankModels, Shinkos, PrinterCopies
<1>2. \A k : Before(k)[1] \in {"await", "send"}
  BY DEF Before
<1>3. CASE state = <<"clear">>
  <2>1. Goto(Before(1)) /\ GiveNone
    BY <1>3 DEF PlaneAct
  <2> QED  BY <1>1, <1>2, <1>3, <2>1 DEF Goto, Move, GoesOn, PageGiven, Is
<1>4. CASE state # <<"clear">>
  <2>1. CASE Return("stop") /\ GiveNone
    BY <1>1, <2>1 DEF Return, Move, GivesUp, Codes
  <2>2. CASE PlaneSend
    <3>1. ~PageGiven
      BY <1>1, <2>2 DEF PlaneSend, PageGiven
    <3>2. CASE Items[state[2]] = "end"
      <4>1. NextCopy(CopiesLeft, Before(1)) /\ Give(1)
        BY <2>2, <3>2 DEF PlaneSend
      <4> QED  BY <1>1, <1>2, <3>1, <4>1
               DEF NextCopy, Move, GivesAndCounts, NextRound, PageGiven, Is
    <3>3. CASE Items[state[2]] # "end"
      <4>1. Goto(Before(state[2] + 1)) /\ GiveNone
        BY <2>2, <3>3 DEF PlaneSend
      <4> QED  BY <1>1, <1>2, <3>1, <4>1 DEF Goto, Move, GoesOn, PageGiven, Is
    <3> QED  BY <3>2, <3>3
  <2>3. CASE PlaneAwait
    <3>1. ~PageGiven /\ state[1] = "await" /\ GiveNone
      BY <1>1, <2>3 DEF PlaneAwait, PageGiven
    <3>2. \/ Goto(state) \/ Return("stop") \/ Return("hold")
          \/ Goto(<<"send", state[2]>>)
      BY <2>3 DEF PlaneAwait
    <3> QED  BY <1>1, <3>1, <3>2
             DEF Goto, Return, Move, GoesOn, GivesUp, PageGiven, Is, Codes
  <2> QED  BY <1>4, <2>1, <2>2, <2>3 DEF PlaneAct
<1> QED  BY <1>3, <1>4

(* ... of hiti ...                                                         *)
LEMMA HitiMoves ==
  ASSUME JobOK, HitiAct PROVE Move
<1>1. /\ AtOnce /\ Running /\ UNCHANGED <<job, terminate>> /\ Is("hiti")
      /\ job.batch = job.copies
  BY DEF HitiAct, AtOnce, Is, JobOK
<1>2. Is("hiti")' = Is("hiti") /\ ~CopyLost /\ ~CopyLost'
  BY <1>1 DEF Is, CopyLost
<1>3. CASE HitiIdle
  <2>1. ~PageGiven /\ GiveNone
        /\ (Return("stop") \/ Goto(state) \/ Goto(<<"sent", 1>>))
    BY <1>1, <1>3 DEF HitiIdle, PageGiven
  <2> QED  BY <1>1, <1>2, <2>1
           DEF Goto, Return, Move, GoesOn, GivesUp, PageGiven, Codes
<1>4. CASE HitiSent
  <2>1. ~PageGiven
    BY <1>1, <1>4 DEF HitiSent, PageGiven
  <2>2. \/ GiveNone /\ \/ Return("failed") \/ Goto(state)
                       \/ Goto(<<"sent", state[2] + 1>>)
        \/ Goto(<<"wait">>) /\ Give(job.copies)
    BY <1>4 DEF HitiSent
  <2> QED  BY <1>1, <1>2, <2>1, <2>2
           DEF Goto, Return, Move, GoesOn, GivesUp, GivesPage, PageGiven, Codes
<1>5. CASE HitiWait \/ HitiAsked
  <2>1. PageGiven /\ GiveNone
    BY <1>1, <1>2, <1>5 DEF HitiWait, HitiAsked, PageGiven
  <2>2. \/ Return("failed") \/ Return("ok") \/ Goto(<<"asked">>)
        \/ Goto(<<"wait">>)
    BY <1>5 DEF HitiWait, HitiAsked
  <2> QED  BY <1>1, <1>2, <2>1, <2>2
           DEF Goto, Return, Move, GoesOn, GivesUp, AllDone, PageGiven, Codes
<1> QED  BY <1>3, <1>4, <1>5 DEF HitiAct

(* ... of the backends that wait for an idle printer ...                   *)
LEMMA SpoolMoves ==
  ASSUME JobOK, MagicardIdle, SpoolAct \/ MagicardPage PROVE Move
<1>1. /\ Running /\ UNCHANGED <<job, terminate>> /\ ~Is("hiti")
      /\ ~Is("hiti")' /\ job.model \in SpoolModels
      /\ AtOnce <=> job.model \in PrinterCopies
      /\ ~AtOnce => job.batch = 1
      /\ ~CopyLost /\ ~CopyLost'
  BY DEF SpoolAct, MagicardPage, AtOnce, Is, BankModels, Shinkos, SpoolModels,
     PrinterCopies, JobOK, CopyLost
<1>2. ASSUME NEW code \in Codes \ {"ok"}, Fails(code) PROVE Move
  BY <1>1, <1>2 DEF Fails, Return, Move, GivesUp
<1>3. ASSUME Again(state) PROVE Move
  BY <1>1, <1>3 DEF Again, Goto, Move, GoesOn, PageGiven
<1>4. ErrorCode \in Codes \ {"ok"}
  BY DEF ErrorCode, Codes
<1>5. CASE SpoolIdle
  <2>1. ~PageGiven
    BY <1>1, <1>5 DEF SpoolIdle, PageGiven
  <2>2. CASE SendImage
    BY <1>1, <2>1, <2>2 DEF SendImage, Goto, Move, GoesOn, PageGiven
  <2>3. CASE SendPage /\ Goto(Afterwards)
    BY <1>1, <2>1, <2>3
       DEF SendPage, Goto, Afterwards, Move, GivesPage, PageGiven
  <2>4. CASE SendPage /\ ~Starts /\ job.kind = "w5000" /\ Return("ok")
    <3>1. Is("mitsud90") /\ Wanted = 1
      BY <1>1, <2>4 DEF JobOK, Is
    <3>2. ~AtOnce /\ job.batch = 1
      BY <1>1, <3>1 DEF PrinterCopies, Is
    <3>3. Give(1) /\ copies' = copies /\ result' = "ok"
      BY <2>4, <3>2 DEF SendPage, Return
    <3> QED  BY <1>1, <2>1, <3>1, <3>2, <3>3 DEF Move, GivesAndCounts
  <2>5. {"cancel", "hold"} \subseteq Codes \ {"ok"}
    BY DEF Codes
  <2>6. \/ Fails("cancel") \/ Fails("hold") \/ Fails(ErrorCode)
        \/ Again(state) \/ SendImage
        \/ SendPage /\ Goto(Afterwards)
        \/ SendPage /\ ~Starts /\ job.kind = "w5000" /\ Return("ok")
    BY <1>5 DEF SpoolIdle
  <2> QED  BY <1>2, <1>3, <1>4, <2>2, <2>3, <2>4, <2>5, <2>6
<1>6. CASE SpoolCheck
  <2>1. ~PageGiven
    BY <1>1, <1>6 DEF SpoolCheck, PageGiven
  <2>2. CASE Again(<<"idle">>)
    BY <1>1, <2>1, <2>2 DEF Again, Goto, Move, GoesOn, PageGiven
  <2>3. CASE Give(job.batch) /\ Goto(<<"wait">>)
    BY <1>1, <2>1, <2>3 DEF Goto, Move, GivesPage, PageGiven
  <2>4. \/ Fails("cancel") \/ Fails(ErrorCode) \/ Again(<<"idle">>)
        \/ Give(job.batch) /\ Goto(<<"wait">>)
    BY <1>6 DEF SpoolCheck
  <2>5. "cancel" \in Codes \ {"ok"}
    BY DEF Codes
  <2> QED  BY <1>2, <1>4, <2>2, <2>3, <2>4, <2>5
<1>7. CASE SpoolWait
  <2>1. PageGiven
    BY <1>1, <1>7 DEF SpoolWait, PageGiven
  <2>2. CASE PageDone
    <3>1. CASE AtOnce
      BY <1>1, <2>1, <2>2, <3>1 DEF PageDone, Return, Move, AllDone
    <3>2. CASE ~AtOnce
      <4>1. NextCopy(Left, <<"idle">>) /\ GiveNone
        BY <1>1, <2>2, <3>2 DEF PageDone
      <4>2. Left = CopiesLeft \/ (~Heeds /\ Left = copies - 1)
        BY DEF Left, Heeds, Is
      <4>3. NextRound(CopiesLeft) \/ (~Heeds /\ NextRound(copies - 1))
        <5>1. state' = <<"idle">> => ~PageGiven'
          BY <1>1 DEF PageGiven
        <5>2. NextRound(Left)
          BY <4>1, <5>1, Zenon DEF NextCopy, NextRound
        <5> QED  BY <4>2, <5>2, Zenon
      <4> QED  BY <1>1, <2>1, <3>2, <4>1, <4>3 DEF Move, RoundDone
    <3> QED  BY <3>1, <3>2
  <2>3. PageDone \/ Fails(ErrorCode) \/ Again(state)
    BY <1>7 DEF SpoolWait
  <2> QED  BY <1>2, <1>3, <1>4, <2>2, <2>3
<1>8. CASE SpoolClear
  BY <1>1, <1>8 DEF SpoolClear, Again, Goto, Move, GoesOn, PageGiven
<1>9. CASE MagicardPage
  <2>1. ~AtOnce /\ ~PageGiven /\ Give(1) /\ NextCopy(CopiesLeft, state)
    BY <1>1, <1>9
       DEF MagicardPage, MagicardIdle, SendPage, Is, PrinterCopies, PageGiven
  <2>2. state' = state => ~PageGiven'
    BY <1>1, <1>9 DEF MagicardPage, MagicardIdle, PageGiven
  <2> QED  BY <1>1, <2>1, <2>2 DEF NextCopy, NextRound, Move, GivesAndCounts
<1> QED  BY <1>5, <1>6, <1>7, <1>8, <1>9 DEF SpoolAct
(* ... of those whose printer has banks ...                                *)
LEMMA BankMoves ==
  ASSUME JobOK, BankAct PROVE Move
<1>1. /\ AtOnce /\ Running /\ UNCHANGED <<job, terminate>>
      /\ ~Is("hiti") /\ ~Is("hiti")' /\ job.batch = job.copies
      /\ ~CopyLost /\ ~CopyLost'
  BY DEF BankAct, AtOnce, Is, BankModels, Shinkos, JobOK, CopyLost
<1>2. ASSUME NEW code \in Codes \ {"ok"}, Leaves(code) PROVE Move
  BY <1>1, <1>2 DEF Leaves, Return, Move, GivesUp
<1>3. ASSUME Stays(state) PROVE Move
  BY <1>1, <1>3 DEF Stays, Goto, Move, GoesOn, PageGiven
<1>4. ASSUME ~PageGiven, NEW s \in {"idle", "ready", "print"}, Stays(<<s>>)
      PROVE  Move
  BY <1>1, <1>4 DEF Stays, Goto, Move, GoesOn, PageGiven
<1>5. ASSUME ~PageGiven, NEW s \in {"wait", "sent"}, Goto(<<s>>),
             NEW n, Takes(n)
      PROVE  Move
  BY <1>1, <1>5 DEF Takes, Goto, Move, GivesPage, PageGiven
<1>6. ASSUME PageGiven, Return("ok"), GiveNone PROVE Move
  BY <1>1, <1>6 DEF Return, Move, AllDone
<1>7. {"hold", "failed", "stop"} \subseteq Codes \ {"ok"}
  BY DEF Codes
<1>8. CASE KodakIdle
  <2>1. ~PageGiven
    BY <1>1, <1>8 DEF KodakIdle, PageGiven
  <2>2. \/ Leaves("hold") \/ Leaves("failed")
        \/ Stays(<<"print">>) \/ Stays(state)
    BY <1>8 DEF KodakIdle
  <2> QED  BY <1>2, <1>3, <1>4, <1>7, <2>1, <2>2
<1>9. CASE KodakPrint
  <2>1. ~PageGiven
    BY <1>1, <1>9 DEF KodakPrint, PageGiven
  <2>2. CASE Return("failed") /\ GiveNone
    BY <1>1, <1>7, <2>2 DEF Return, Move, GivesUp
  <2>3. \/ Return("failed") /\ GiveNone
        \/ Goto(<<"wait">>) /\ Takes(mem.jobid)
    BY <1>9 DEF KodakPrint
  <2> QED  BY <1>5, <2>1, <2>2, <2>3
<1>10. CASE KodakWait
  <2>1. PageGiven
    BY <1>1, <1>10 DEF KodakWait, PageGiven
  <2>2. CASE Leaves("ok")
    BY <1>6, <2>1, <2>2 DEF Leaves
  <2>3. \/ Leaves("stop") \/ Leaves("failed") \/ Leaves("ok")
        \/ Stays(state)
    BY <1>10 DEF KodakWait
  <2> QED  BY <1>2, <1>3, <1>7, <2>2, <2>3
<1>11. CASE ShinkoIdle
  <2>1. ~PageGiven
    BY <1>1, <1>11 DEF ShinkoIdle, PageGiven
  <2>2. Stays(<<"ready">>) \/ Stays(state)
    BY <1>11 DEF ShinkoIdle
  <2> QED  BY <1>3, <1>4, <2>1, <2>2
<1>12. CASE ShinkoReady
  <2>1. ~PageGiven
    BY <1>1, <1>12 DEF ShinkoReady, PageGiven
  <2>2. CASE Return("failed") /\ GiveNone
    BY <1>1, <1>7, <2>2 DEF Return, Move, GivesUp
  <2>3. \/ Stays(<<"idle">>) \/ Stays(state)
        \/ Return("failed") /\ GiveNone
        \/ Goto(<<"sent">>) /\ Takes(mem.jobid)
    BY <1>12 DEF ShinkoReady
  <2> QED  BY <1>3, <1>4, <1>5, <2>1, <2>2, <2>3
<1>13. CASE ShinkoSent
  <2>1. PageGiven /\ GiveNone
    BY <1>1, <1>13 DEF ShinkoSent, PageGiven
  <2>2. CASE Goto(state)
    BY <1>1, <2>1, <2>2 DEF Goto, Move, GoesOn, PageGiven
  <2>3. Return("ok") \/ Goto(state)
    BY <1>13 DEF ShinkoSent
  <2> QED  BY <1>6, <2>1, <2>2, <2>3
<1>14. CASE ShinkoAct
  <2>1. \/ Leaves("hold") \/ Stays(state) \/ Leaves("failed")
        \/ ShinkoIdle \/ ShinkoReady \/ ShinkoSent
    BY <1>14 DEF ShinkoAct
  <2> QED  BY <1>2, <1>3, <1>7, <1>11, <1>12, <1>13, <2>1
<1> QED  BY <1>8, <1>9, <1>10, <1>14 DEF BankAct

(* ... of mitsu70x ...                                                     *)
LEMMA DeckMoves ==
  ASSUME JobOK, DeckTurn, DeckAct PROVE Move
<1>1. /\ ~AtOnce /\ Running /\ UNCHANGED <<job, terminate>> /\ Heeds
      /\ ~Is("hiti") /\ ~Is("hiti")' /\ job.batch = 1
      /\ Is("mitsu70x") /\ Is("mitsu70x")' /\ sts # NotRead
  BY DEF DeckAct, AtOnce, Is, BankModels, Shinkos, PrinterCopies, Heeds, JobOK
<1>2. ASSUME NEW code \in Codes \ {"ok"}, Return(code), GiveNone PROVE Move
  BY <1>1, <1>2 DEF Return, Move, GivesUp
<1>3. ASSUME Goto(state), GiveNone, dev' = dev PROVE Move
  BY <1>1, <1>3 DEF Goto, Move, GoesOn, PageGiven, CopyLost
<1>4. {"cancel", "hold", "stop"} \subseteq Codes \ {"ok"}
  BY DEF Codes
<1>5. DeckPlace /\ DeckJobOK /\ dev \in DeckDevs
  BY <1>1 DEF DeckTurn
<1>6. CASE DeckTop
  <2>1. ~PageGiven /\ GiveNone /\ dev' = dev
    BY <1>1, <1>6 DEF DeckTop, PageGiven
  <2>2. ASSUME NEW d, Goto(<<"memory", d>>) PROVE Move
    BY <1>1, <2>1, <2>2 DEF Goto, Move, GoesOn, PageGiven
  <2>3. \/ Return("cancel") \/ Return("stop") \/ Return("hold")
        \/ Goto(state)
        \/ \E d \in Usable : Goto(<<"memory", d>>)
    BY <1>6 DEF DeckTop, DeckLeaves
  <2> QED  BY <1>2, <1>3, <1>4, <2>1, <2>2, <2>3
<1>7. CASE DeckMemory
  <2>1. ~PageGiven
    BY <1>1, <1>7 DEF DeckMemory, PageGiven
  <2>2. CASE Goto(<<"top">>) /\ GiveNone
    BY <1>1, <2>1, <2>2 DEF Goto, Move, GoesOn, PageGiven
  <2>3. CASE Goto(<<"wait", state[2]>>) /\ SendCopy(state[2])
    <3> DEFINE d == state[2]
               lost == dev.decks[d].err /\ job.decks = AllDecks
    <3>1. d \in job.decks
      BY <1>5, <1>7 DEF DeckMemory, DeckPlace
    <3>2. dev'.decks[d].copy = IF lost THEN "lost" ELSE "in"
      BY <1>5, <2>3, <3>1 DEF SendCopy, DeckDevs
    <3>3. IF lost THEN GiveNone ELSE Give(1)
      BY <2>3 DEF SendCopy
    <3>4. state'[1] = "wait" /\ state'[2] = d /\ copies' = copies /\ result' = result
      BY <2>3 DEF Goto
    <3>5. PageGiven' <=> ~lost
      BY <1>1, <3>2, <3>4 DEF PageGiven, CopyLost
    <3>6. CASE lost
      <4>1. PageGiven' = PageGiven
        BY <2>1, <3>5, <3>6, Zenon DEF PageGiven
      <4> QED  BY <1>1, <3>3, <3>4, <3>6, <4>1 DEF Move, GoesOn
    <3>7. CASE ~lost
      <4>1. Give(job.batch)
        BY <1>1, <3>3, <3>7
      <4> QED  BY <1>1, <2>1, <3>4, <3>5, <3>7, <4>1 DEF Move, GivesPage
    <3> QED  BY <3>6, <3>7
  <2>4. \/ Return("cancel") /\ GiveNone
        \/ Goto(<<"top">>) /\ GiveNone
        \/ Goto(<<"wait", state[2]>>) /\ SendCopy(state[2])
    BY <1>7 DEF DeckMemory, DeckLeaves
  <2> QED  BY <1>2, <1>4, <2>2, <2>3, <2>4
<1>8. CASE DeckWait
  <2> DEFINE d == state[2]
  <2>1. d \in job.decks /\ state = <<"wait", d>> /\ Waited(d)
    BY <1>1, <1>5, <1>8 DEF DeckWait, DeckPlace, DeckTurn
  <2>2. GiveNone /\ dev' = dev
    BY <1>8 DEF DeckWait
  <2>3. CASE sts.decks[d].err /\ job.decks = AllDecks /\ Goto(<<"top">>)
    <3>1. ~PageGiven
      BY <1>1, <2>1, <2>3 DEF PageGiven, CopyLost, Waited
    <3> QED  BY <1>1, <2>2, <2>3, <3>1 DEF Goto, Move, GoesOn, PageGiven
  <2>4. CASE /\ ~sts.decks[d].err
             /\ ~(sts.decks[d].id # mem.jobid /\ sts.abnormal)
             /\ NextCopy(CopiesLeft, <<"top">>)
    <3>1. PageGiven
      BY <1>1, <2>1, <2>4 DEF PageGiven, CopyLost, Waited
    <3> QED  BY <1>1, <2>2, <2>4, <3>1 DEF NextCopy, NextRound, Move, RoundDone, PageGiven
  <2>5. Cardinality(job.decks) # 1 => job.decks = AllDecks
    <3>1. Cardinality({1}) = 1
      BY FS_Singleton
    <3> QED  BY <1>5, <3>1 DEF DeckJobOK
  <2>6. \/ Return("stop")
        \/ sts.decks[d].err /\ job.decks = AllDecks /\ Goto(<<"top">>)
        \/ /\ ~sts.decks[d].err
           /\ ~(sts.decks[d].id # mem.jobid /\ sts.abnormal)
           /\ NextCopy(CopiesLeft, <<"top">>)
        \/ Goto(state)
    BY <1>8, <2>5, Zenon DEF DeckWait
  <2> QED  BY <1>2, <1>3, <1>4, <2>2, <2>3, <2>4, <2>6
<1> QED  BY <1>6, <1>7, <1>8 DEF DeckAct

(* ... and of dnpds40.                                                     *)
LEMMA DnpMoves ==
  ASSUME JobOK, DnpAct PROVE Move
<1>1. /\ AtOnce <=> ~job.manual
      /\ Running /\ UNCHANGED <<job, terminate>>
      /\ ~Is("hiti") /\ ~Is("hiti")'
      /\ ~AtOnce => job.batch = 1
      /\ ~CopyLost /\ ~CopyLost'
  BY DEF DnpAct, AtOnce, Is, BankModels, Shinkos, PrinterCopies, JobOK, CopyLost
<1>2. ASSUME NEW code \in Codes \ {"ok"}, DnpFails(code) PROVE Move
  BY <1>1, <1>2 DEF DnpFails, Return, Move, GivesUp
<1>3. ASSUME ~PageGiven, NEW s \in {"top", "buffers", "panorama"},
             DnpStays(<<s>>)
      PROVE  Move
  BY <1>1, <1>3 DEF DnpStays, Goto, Move, GoesOn, PageGiven
<1>4. ASSUME ~PageGiven, NEW m, SendSheet(m) PROVE Move
  <2>1. Give(job.batch) /\ (Goto(<<"done">>) \/ Goto(<<"wait">>))
    BY <1>4 DEF SendSheet
  <2> QED  BY <1>1, <1>4, <2>1 DEF Goto, Move, GivesPage, PageGiven
<1>5. {"cancel", "stop"} \subseteq Codes \ {"ok"}
  BY DEF Codes
<1>6. ASSUME ~PageGiven, Proceed PROVE Move
  <2>1. \/ DnpFails("cancel") \/ DnpStays(<<"panorama">>)
        \/ SendSheet(Rewinding)
    BY <1>6 DEF Proceed
  <2> QED  BY <1>2, <1>3, <1>4, <1>5, <1>6, <2>1
<1>7. CASE DnpTop \/ DnpBuffers \/ DnpPanorama
  <2>1. ~PageGiven
    BY <1>1, <1>7 DEF DnpTop, DnpBuffers, DnpPanorama, PageGiven
  <2>2. DnpTop => \/ DnpFails("stop") \/ DnpFails("cancel")
                  \/ DnpStays(<<"top">>) \/ Proceed \/ DnpStays(<<"buffers">>)
    BY DEF DnpTop
  <2>3. DnpBuffers => DnpStays(<<"top">>) \/ Proceed
    BY DEF DnpBuffers
  <2>4. DnpPanorama => DnpStays(<<"top">>) \/ SendSheet(mem)
    BY DEF DnpPanorama
  <2> QED  BY <1>2, <1>3, <1>4, <1>5, <1>6, <1>7, <2>1, <2>2, <2>3, <2>4
<1>8. CASE DnpWait
  <2>1. PageGiven
    BY <1>1, <1>8 DEF DnpWait, PageGiven
  <2>2. DnpStays(<<"done">>) \/ DnpStays(<<"wait">>)
    BY <1>8 DEF DnpWait
  <2> QED  BY <1>1, <2>1, <2>2 DEF DnpStays, Goto, Move, GoesOn, PageGiven
<1>9. CASE DnpNext
  <2>1. PageGiven /\ GiveNone
    BY <1>9 DEF DnpNext, PageGiven
  <2>2. CASE job.manual
    <3>1. NextCopy(CopiesLeft, <<"top">>)
      BY <1>9, <2>2 DEF DnpNext
    <3> QED  BY <1>1, <2>1, <2>2, <3>1
             DEF NextCopy, NextRound, Move, RoundDone, PageGiven
  <2>3. CASE ~job.manual
    <3>1. Return("ok")
      BY <1>9, <2>3 DEF DnpNext
    <3> QED  BY <1>1, <2>1, <2>3, <3>1 DEF Return, Move, AllDone
  <2> QED  BY <2>2, <2>3
<1> QED  BY <1>7, <1>8, <1>9 DEF DnpAct
-----------------------------------------------------------------------------
(* A deck prints a copy, or it spoils the one that is waited for.          *)
LEMMA DecksAreOutside ==
  ASSUME CopiesPlain, JobOK, DeckTurn, Is("mitsu70x"), DeckWorks \/ DeckBreaks
  PROVE  (Outside /\ terminate' = terminate) \/ Move
<1> DEFINE goal == (Outside /\ terminate' = terminate) \/ Move
<1>1. /\ Running /\ DeckPlace /\ DeckJobOK /\ dev \in DeckDevs
      /\ state[1] = "wait" => /\ state[2] \in job.decks /\ Waited(state[2])
                              /\ state = <<"wait", state[2]>>
      /\ UNCHANGED <<job, copies, state, sts, mem, terminate, result>>
      /\ dev.decks \in [job.decks -> Decks]
      /\ \A d \in job.decks : dev.decks[d].copy \in {"none", "in", "lost"}
  <2>1. /\ Running
        /\ UNCHANGED <<job, copies, state, sts, mem, terminate, result>>
    BY DEF DeckWorks, DeckBreaks, Printer, Spoils
  <2>2. /\ DeckPlace /\ DeckJobOK /\ dev \in DeckDevs
        /\ state[1] = "wait" => Waited(state[2])
    BY <2>1 DEF DeckTurn
  <2>3. state[1] = "wait" =>
          state[2] \in job.decks /\ state = <<"wait", state[2]>>
    BY <2>2 DEF DeckPlace
  <2>4. dev.decks \in [job.decks -> Decks]
    BY <2>2 DEF DeckDevs
  <2>5. \A d \in job.decks : dev.decks[d] \in Decks
    BY <2>4
  <2> QED  BY <2>1, <2>2, <2>3, <2>4, <2>5 DEF Decks
<1>2. Is("mitsu70x")' /\ ~AtOnce /\ Heeds /\ ~Is("hiti") /\ ~Is("hiti")'
  BY <1>1 DEF Is, AtOnce, Heeds, BankModels, Shinkos, PrinterCopies
<1>3. ASSUME NEW d, Printer(d),
             state[1] = "wait" =>
               (dev'.decks[state[2]].copy = "lost" <=> dev.decks[state[2]].copy = "lost")
      PROVE  goal
  BY <1>1, <1>2, <1>3 DEF Printer, Outside, PageGiven, CopyLost
<1>4. ASSUME NEW new, NEW spoilt, Spoils(new, spoilt),
             spoilt = {} \/ job.decks # AllDecks,
             state[1] = "wait" /\ job.decks = AllDecks =>
               (dev'.decks[state[2]].copy = "lost" <=> dev.decks[state[2]].copy = "lost")
      PROVE  goal
  BY <1>1, <1>2, <1>4 DEF Spoils, Outside, PageGiven, CopyLost, GiveNone
<1>5. ASSUME NEW new, Spoils(new, {state[2]}), job.decks = AllDecks,
             state[1] = "wait", dev.decks[state[2]].copy = "in",
             dev'.decks[state[2]].copy = "lost"
      PROVE  goal
  <2>1. Cardinality({state[2]}) = 1
    BY FS_Singleton
  <2>2. PageGiven /\ ~PageGiven'
    BY <1>1, <1>2, <1>5 DEF PageGiven, CopyLost
  <2>3. given' = given - 1 /\ late' = 0
    BY <1>5, <2>1 DEF Spoils
  <2> QED  BY <1>1, <1>2, <2>2, <2>3 DEF Move, PageSpoilt
<1>6. CASE DeckWorks
  <2>1. ASSUME NEW d \in job.decks, ~Printed(d), ~dev.decks[d].err,
               Printer([dev EXCEPT !.decks[d].id = 0, !.decks[d].copy = "none"])
        PROVE  goal
    <3>1. ASSUME state[1] = "wait"
          PROVE  dev'.decks[state[2]].copy = "lost" <=> dev.decks[state[2]].copy = "lost"
      <4>1. CASE state[2] = d
        <5>1. dev'.decks[d].copy = "none"
          BY <1>1, <2>1 DEF Printer, DeckDevs, Decks
        <5>2. dev.decks[d].copy # "lost"
          BY <1>1, <2>1, <3>1, <4>1 DEF Waited, Printed
        <5> QED  BY <4>1, <5>1, <5>2
      <4>2. CASE state[2] # d
        <5>1. dev'.decks[state[2]] = dev.decks[state[2]]
          BY <1>1, <2>1, <3>1, <4>2 DEF Printer, DeckDevs
        <5> QED  BY <5>1
      <4> QED  BY <4>1, <4>2
    <3> QED  BY <1>3, <2>1, <3>1
  <2>2. CASE Printer([dev EXCEPT !.cool = {}]) \/ Printer([dev EXCEPT !.full = FALSE])
    <3>1. dev'.decks = dev.decks
      BY <1>1, <2>2 DEF Printer, DeckDevs
    <3> QED  BY <1>3, <2>2, <3>1
  <2> QED  BY <1>6, <2>1, <2>2 DEF DeckWorks
<1>7. CASE DeckBreaks
  <2>1. ASSUME NEW ds \in SUBSET job.decks, \A d \in ds : MayFail(d),
               Spoils([dev EXCEPT
                 !.decks = [d \in job.decks |-> IF d \in ds THEN Failed(d) ELSE @[d]],
                 !.troubles = @ + 1],
                 {d \in ds : dev.decks[d].copy = "in"})
        PROVE  goal
    <3> DEFINE spoilt == {d \in ds : dev.decks[d].copy = "in"}
    <3>1. \A d \in job.decks :
            dev'.decks[d] = IF d \in ds THEN Failed(d) ELSE dev.decks[d]
      BY <1>1, <2>1 DEF Spoils, DeckDevs
    <3>2. \A d \in job.decks :
            dev'.decks[d].copy = IF d \in ds /\ dev.decks[d].copy = "in"
                                 THEN "lost" ELSE dev.decks[d].copy
      <4>1. ASSUME NEW d \in ds
            PROVE  dev'.decks[d].copy = IF dev.decks[d].copy = "in"
                                        THEN "lost" ELSE dev.decks[d].copy
        <5>1. dev'.decks[d] = Failed(d) /\ dev.decks[d].copy \in {"none", "in", "lost"}
          BY <1>1, <3>1, <4>1
        <5> QED  BY <5>1 DEF Failed
      <4> QED  BY <3>1, <4>1
    <3>3. CASE job.decks # AllDecks
      BY <1>4, <2>1, <3>3
    <3>4. CASE job.decks = AllDecks
      <4>1. \A d \in spoilt : Watched(d)
        BY <2>1, <3>4 DEF MayFail, May, CopiesPlain, Is
      <4>2. CASE spoilt = {}
        <5>1. state[1] = "wait" => dev'.decks[state[2]].copy = dev.decks[state[2]].copy
          BY <1>1, <3>2, <4>2
        <5> QED  BY <1>4, <2>1, <4>2, <5>1
      <4>3. CASE spoilt # {}
        <5>1. PICK d \in spoilt : state = <<"wait", d>>
          BY <4>1, <4>3 DEF Watched
        <5>2. spoilt = {state[2]} /\ state[1] = "wait" /\ state[2] = d
          BY <4>1, <5>1 DEF Watched
        <5>3. dev.decks[d].copy = "in" /\ dev'.decks[d].copy = "lost"
          BY <3>2, <5>1
        <5> HIDE DEF spoilt
        <5>4. Spoils([dev EXCEPT
                 !.decks = [e \in job.decks |-> IF e \in ds THEN Failed(e) ELSE @[e]],
                 !.troubles = @ + 1], {state[2]})
          BY <2>1, <5>2 DEF spoilt
        <5> QED  BY <1>5, <3>4, <5>2, <5>3, <5>4
      <4> QED  BY <4>2, <4>3
    <3> QED  BY <3>3, <3>4
  <2>2. ASSUME NEW d \in job.decks,
               Printer([dev EXCEPT !.cool = @ \union {d}, !.troubles = @ + 1])
        PROVE  goal
    <3>1. dev'.decks = dev.decks
      BY <1>1, <2>2 DEF Printer, DeckDevs
    <3> QED  BY <1>3, <2>2, <3>1
  <2>3. ASSUME state[1] = "wait", dev.decks[state[2]].copy = "in",
               job.decks # AllDecks \/ Watched(state[2]) \/ May("fail unwatched"),
               Spoils([dev EXCEPT !.abnormal = TRUE, !.troubles = @ + 1,
                  !.decks[state[2]].id = 0, !.decks[state[2]].copy = "lost"],
                  {state[2]})
        PROVE  goal
    <3>1. dev'.decks[state[2]].copy = "lost"
      <4> DEFINE d == state[2]
      <4>1. d \in job.decks /\ dev.decks[d] \in Decks /\ dev \in DeckDevs
        BY <1>1, <2>3
      <4>2. dev' = [dev EXCEPT !.abnormal = TRUE, !.troubles = @ + 1,
                      !.decks[d].id = 0, !.decks[d].copy = "lost"]
        BY <2>3 DEF Spoils
      <4> QED  BY <4>1, <4>2 DEF DeckDevs, Decks
    <3>2. CASE job.decks # AllDecks
      BY <1>4, <2>3, <3>2
    <3>3. CASE job.decks = AllDecks
      BY <1>5, <2>3, <3>1, <3>3
    <3> QED  BY <3>2, <3>3
  <2>4. \/ \E ds \in SUBSET job.decks :
            /\ \A d \in ds : MayFail(d)
            /\ Spoils([dev EXCEPT
                 !.decks = [d \in job.decks |-> IF d \in ds THEN Failed(d) ELSE @[d]],
                 !.troubles = @ + 1],
                 {d \in ds : dev.decks[d].copy = "in"})
        \/ \E d \in job.decks :
             Printer([dev EXCEPT !.cool = @ \union {d}, !.troubles = @ + 1])
        \/ /\ state[1] = "wait" /\ dev.decks[state[2]].copy = "in"
           /\ job.decks # AllDecks \/ Watched(state[2]) \/ May("fail unwatched")
           /\ Spoils([dev EXCEPT !.abnormal = TRUE, !.troubles = @ + 1,
                !.decks[state[2]].id = 0, !.decks[state[2]].copy = "lost"],
                {state[2]})
    BY <1>7, Zenon DEF DeckBreaks
  <2> QED  BY <2>1, <2>2, <2>3, <2>4
<1> QED  BY <1>6, <1>7

(* Queries and the printer's own steps are none of the main loop's, but    *)
(* that a deck spoils a copy; the signal is only noticed.                  *)
LEMMA PrinterIsOutside ==
  ASSUME CopiesPlain, JobOK, DeckTurn, Query \/ Works \/ Breaks
  PROVE  (Outside /\ terminate' = terminate) \/ Move
<1> DEFINE goal == (Outside /\ terminate' = terminate) \/ Move
<1>1. ASSUME NEW s, Read(s), dev' = dev \/ ~Is("mitsu70x") PROVE goal
  BY <1>1 DEF Read, Outside, PageGiven, CopyLost, Is
<1>2. ASSUME NEW d, Printer(d), ~Is("mitsu70x") PROVE goal
  BY <1>2 DEF Printer, Outside, PageGiven, CopyLost, Is
<1>3. ASSUME Query PROVE goal
  <2>1. CASE PlaneQuery \/ HitiQuery \/ SpoolQuery \/ BankQuery
    <3>1. PlaneQuery => goal
      BY <1>1 DEF PlaneQuery, Is
    <3>2. HitiQuery => goal
      BY <1>1 DEF HitiQuery
    <3>3. SpoolQuery => goal
      BY <1>1 DEF SpoolQuery
    <3>4. BankQuery => goal
      BY <1>1, Zenon DEF BankQuery
    <3> QED  BY <2>1, <3>1, <3>2, <3>3, <3>4
  <2>2. CASE DeckQuery
    BY <1>1, <2>2, Zenon DEF DeckQuery
  <2>3. CASE DnpQuery
    BY <1>1, <2>3, Zenon DEF DnpQuery
  <2> QED  BY <1>3, <2>1, <2>2, <2>3 DEF Query
<1>4. ASSUME Works, ~Is("mitsu70x") PROVE goal
  BY <1>2, <1>4 DEF Works, PlaneWorks, HitiWorks, SpoolWorks, SpoolMended,
     BankWorks, BankMended, DeckWorks, DnpWorks
<1>5. ASSUME Breaks, ~Is("mitsu70x") PROVE goal
  BY <1>2, <1>5 DEF Breaks, PlaneBreaks, HitiBreaks, SpoolBreaks, BankBreaks,
     DeckBreaks, DnpBreaks
<1>6. ASSUME Works \/ Breaks, Is("mitsu70x") PROVE goal
  <2>1. /\ job.model \notin {"canonselphy", "kodak1400"} \union SpoolModels
                            \union BankModels
        /\ ~Is("hiti") /\ ~Is("magicard") /\ ~Is("dnpds40") /\ ~Is("mitsu9550")
    BY <1>6 DEF SpoolModels, PrinterCopies, BankModels, Shinkos, Is
  <2>2. Works => DeckWorks
    BY <2>1 DEF Works, PlaneWorks, HitiWorks, SpoolWorks, SpoolMended, BankWorks,
       BankMended, DnpWorks
  <2>3. Breaks => DeckBreaks
    BY <2>1 DEF Breaks, PlaneBreaks, HitiBreaks, SpoolBreaks, BankBreaks, DnpBreaks
  <2> QED  BY <1>6, <2>2, <2>3, DecksAreOutside
<1> QED  BY <1>3, <1>4, <1>5, <1>6

(* Nor do the counts change when the printer moves.                        *)
LEMMA OutsideKeepsCount ==
  ASSUME JobOK, Counts, CopiesAddUp, Outside, terminate' \in {terminate, TRUE}
  PROVE  JobOK' /\ Counts' /\ CopiesAddUp'
<1>1. /\ JobOK' /\ AtOnce' = AtOnce /\ PageGiven' = PageGiven
      /\ Running' = Running /\ Heeds' = Heeds /\ Wanted' = Wanted
  BY WantedFacts DEF Outside, Running
<1>2. terminate' \in BOOLEAN /\ (~terminate' => late' = 0)
  BY DEF Outside, Counts
<1>3. Counts'
  BY <1>1, <1>2 DEF Outside, Counts
<1>4. late # 0 => terminate'
  BY DEF Counts
<1>5. CopiesAddUp'
  BY <1>1, <1>4 DEF Outside, CopiesAddUp
<1> QED  BY <1>1, <1>3, <1>5

(* Every step of a main loop is a move, and so is its end when a transfer  *)
(* fails.                                                                  *)
LEMMA LoopMoves ==
  ASSUME JobOK, DeckTurn, MagicardIdle, Act \/ LinkFails
  PROVE  Move
<1>1. LinkFails => Move
  BY DEF LinkFails, Return, Move, GivesUp, Codes
<1> QED  BY <1>1, PlaneMoves, HitiMoves, SpoolMoves, BankMoves, DeckMoves,
         DnpMoves DEF Act

(* The printer's record of what it was given out of turn stays one.        *)
LEMMA DevStep ==
  ASSUME DevOK, [Next]_vars PROVE DevOK'
<1>1. CASE Query \/ SigTerm \/ LinkFails \/ UNCHANGED vars
  BY <1>1 DEF Query, PlaneQuery, HitiQuery, SpoolQuery, BankQuery, DeckQuery,
     DnpQuery, SigTerm, LinkFails, DevOK, vars
<1>2. CASE Works
  BY <1>2 DEF Works, PlaneWorks, HitiWorks, SpoolWorks, SpoolMended,
     BankWorks, BankMended, DeckWorks, DnpWorks, Printer, DevOK
<1>3. CASE Breaks
  BY <1>3 DEF Breaks, PlaneBreaks, HitiBreaks, SpoolBreaks, BankBreaks,
     DeckBreaks, DnpBreaks, Printer, Spoils, DevOK
<1>4. CASE PlaneAct
  BY <1>4 DEF PlaneAct, PlaneSend, PlaneAwait, SendItem, DevOK
<1>5. CASE HitiAct
  BY <1>5 DEF HitiAct, HitiIdle, HitiSent, HitiWait, HitiAsked, SendPlane,
     DevOK
<1>6. CASE SpoolAct \/ MagicardPage
  BY <1>6 DEF SpoolAct, MagicardPage, SpoolIdle, SpoolCheck, SpoolWait,
     SpoolClear, PageDone, Fails, Again, SendPage, SendImage, DevOK
<1>7. CASE BankAct
  <2>1. ASSUME NEW n, Takes(n) PROVE DevOK'
    BY <2>1 DEF Takes, Accept, Overrun, DevOK
  <2>2. \/ dev' = dev
        \/ \E n : Takes(n)
    BY <1>7 DEF BankAct, ShinkoAct, ShinkoIdle, ShinkoReady, ShinkoSent,
       KodakIdle, KodakPrint, KodakWait, Leaves, Stays
  <2> QED  BY <2>1, <2>2 DEF DevOK
<1>8. CASE DeckAct
  BY <1>8 DEF DeckAct, DeckTop, DeckMemory, DeckWait, SendCopy, DevOK
<1>9. CASE DnpAct
  <2>1. ASSUME NEW m, SendSheet(m) PROVE DevOK'
    BY <2>1 DEF SendSheet, DevOK
  <2>2. dev' = dev \/ \E m : SendSheet(m)
    BY <1>9 DEF DnpAct, DnpTop, DnpBuffers, DnpPanorama, DnpWait, DnpNext,
       Proceed, DnpFails, DnpStays
  <2> QED  BY <2>1, <2>2 DEF DevOK
<1> QED  BY <1>1, <1>2, <1>3, <1>4, <1>5, <1>6, <1>7, <1>8, <1>9
         DEF Next, Act, Ended

(* A step of the printer, or a query, is none of the job's.                *)
LEMMA PrinterMoves ==
  ASSUME Query \/ Works \/ Breaks PROVE UNCHANGED <<job, state>>
<1>1. ASSUME NEW s, Read(s) PROVE UNCHANGED <<job, state>>
  BY <1>1 DEF Read
<1>2. ASSUME NEW d, Printer(d) PROVE UNCHANGED <<job, state>>
  BY <1>2 DEF Printer
<1>3. ASSUME NEW d, NEW spoilt, Spoils(d, spoilt) PROVE UNCHANGED <<job, state>>
  BY <1>3 DEF Spoils
<1>4. ASSUME Query PROVE UNCHANGED <<job, state>>
  BY <1>1, <1>4 DEF Query, PlaneQuery, HitiQuery, SpoolQuery, BankQuery,
     DeckQuery, DnpQuery
<1>5. ASSUME Works PROVE UNCHANGED <<job, state>>
  BY <1>2, <1>5 DEF Works, PlaneWorks, HitiWorks, SpoolWorks, SpoolMended,
     BankWorks, BankMended, DeckWorks, DnpWorks
<1>6. ASSUME Breaks PROVE UNCHANGED <<job, state>>
  BY <1>2, <1>3, <1>6 DEF Breaks, PlaneBreaks, HitiBreaks, SpoolBreaks,
     BankBreaks, DeckBreaks, DnpBreaks
<1> QED  BY <1>4, <1>5, <1>6

(* magicard goes from page to page.                                        *)
LEMMA MagicardStep ==
  ASSUME MagicardIdle, [Next]_vars PROVE MagicardIdle'
<1>1. CASE Query \/ Works \/ Breaks
  <2>1. UNCHANGED <<job, state>>
    BY <1>1, PrinterMoves
  <2> QED  BY <2>1 DEF MagicardIdle, Is
<1>2. CASE SigTerm \/ LinkFails \/ UNCHANGED vars
  BY <1>2 DEF SigTerm, LinkFails, Return, vars, MagicardIdle, Is
<1>3. CASE MagicardPage
  BY <1>3 DEF MagicardPage, NextCopy, MagicardIdle, Is
<1>4. CASE Act /\ ~MagicardPage
  BY <1>4 DEF Act, PlaneAct, HitiAct, SpoolAct, BankAct, BankModels, Shinkos,
     DeckAct, DnpAct, MagicardIdle, Is
<1> QED  BY <1>1, <1>2, <1>3, <1>4 DEF Next, Ended

(* The invariant of the counts is inductive.                               *)
LEMMA CInvStep ==
  ASSUME CopiesPlain, CInv, DeckTurn, [Next]_vars PROVE CInv'
<1>1. JobOK /\ Counts /\ CopiesAddUp /\ MagicardIdle /\ DevOK
  BY DEF CInv
<1>2. JobOK' /\ Counts' /\ CopiesAddUp'
  <2>1. CASE Move
    BY <1>1, <2>1, MoveKeepsCount
  <2>2. CASE Act \/ LinkFails
    BY <1>1, <2>1, <2>2, LoopMoves
  <2>3. CASE Query \/ Works \/ Breaks
    BY <1>1, <2>1, <2>3, PrinterIsOutside, OutsideKeepsCount
  <2>4. CASE SigTerm
    BY <1>1, <2>4, OutsideKeepsCount DEF SigTerm, Outside, PageGiven, CopyLost, Is
  <2>5. CASE UNCHANGED vars
    BY <1>1, <2>5, OutsideKeepsCount DEF vars, Outside, PageGiven, CopyLost, Is
  <2> QED  BY <2>2, <2>3, <2>4, <2>5 DEF Next, Ended
<1>3. MagicardIdle' /\ DevOK'
  BY <1>1, DevStep, MagicardStep
<1> QED  BY <1>2, <1>3 DEF CInv

-----------------------------------------------------------------------------
(* Where the printer stands to its host.  canonselphy and kodak1400: what   *)
(* is sent is what the printer waits for, or it is at work on it.          *)
PlaneModels == {"canonselphy", "kodak1400"}

Ends == Len(Items)

(* Whose status is to be read before it begins anew.                       *)
Lingers == Canon /\ ~job.foot

PlaneDevs ==
  [at : 1 .. Ends, busy : BOOLEAN, err : BOOLEAN, stray : {FALSE}, printed : Nat]

PlanePlace ==
  \/ /\ state = <<"clear">> /\ Canon /\ ~dev.busy
     /\ dev.at = 1 \/ (Lingers /\ dev.at = Ends)
     /\ dev.printed = given
  \/ \E k \in 1 .. Ends :
       /\ state \in {<<"await", k>>, <<"send", k>>}
       /\ \/ dev.at = k
          \/ k = 1 /\ state = <<"await", k>> /\ Lingers /\ dev.at = Ends
          \/ k = Ends /\ Lingers /\ dev.at = 1 /\ ~dev.busy
       /\ state = <<"send", k>> \/ k = 1 \/ dev.at # k => ~dev.busy
       /\ state = <<"await", k>> => Waits(k)
       /\ sts # NotRead /\ state = <<"await", k>> =>
            /\ ~sts.busy => ~dev.busy
            /\ k = 1 /\ sts.at = 1 => dev.at = 1
       /\ dev.printed = given + IF k <= LastPlane \/ (dev.busy /\ dev.at = LastPlane + 1)
                                THEN 0 ELSE 1

PlaneTurn ==
  job.model \in PlaneModels =>
    /\ dev \in PlaneDevs
    /\ Running => PlanePlace
    /\ result = "ok" => dev.printed = given

(* A sequence of four items or of more that begins with them.              *)
LEMMA FourAndMore ==
  ASSUME NEW S, NEW s \in Seq(S), NEW t \in Seq(S), Len(s) = 4
  PROVE  /\ Len(s \o t) = 4 + Len(t)
         /\ \A i \in 1 .. 4 : (s \o t)[i] = s[i]
         /\ \A i \in 1 .. Len(t) : (s \o t)[4 + i] = t[i]
<1>1. Len(t) \in Nat /\ Len(s \o t) = 4 + Len(t)
      /\ \A i \in 1 .. 4 + Len(t) :
           (s \o t)[i] = IF i <= 4 THEN s[i] ELSE t[i - 4]
  <2>1. /\ Len(s \o t) = Len(s) + Len(t)
        /\ \A i \in 1 .. Len(s) + Len(t) :
             (s \o t)[i] = IF i <= Len(s) THEN s[i] ELSE t[i - Len(s)]
    BY ConcatProperties, Zenon
  <2> QED  BY <2>1
<1>2. \A i \in 1 .. 4 : (s \o t)[i] = s[i]
  BY <1>1
<1>3. ASSUME NEW i \in 1 .. Len(t) PROVE (s \o t)[4 + i] = t[i]
  <2>1. 4 + i \in 1 .. 4 + Len(t) /\ ~(4 + i <= 4) /\ (4 + i) - 4 = i
    BY <1>1
  <2> QED  BY <1>1, <2>1, Zenon
<1> QED  BY <1>1, <1>2, <1>3

(* What a page can consist of.                                             *)
ItemNames == {"init", "setup", "y", "m", "c", "laminate", "cp900", "end"}

(* Which items there are, which of them are the planes, and for which the  *)
(* host waits.                                                             *)
LEMMA PlaneItems ==
  ASSUME job.model \in PlaneModels
  PROVE  /\ Ends \in {3, 5, 6} /\ LastPlane \in 2 .. Ends - 1
         /\ \A k \in 1 .. Ends :
              /\ Items[k] = "end" <=> k = Ends
              /\ Items[k] \notin {"setup", "cp900", "end"}
                   <=> k <= LastPlane /\ (k # 1 \/ Canon)
              /\ Waits(k) <=> IF Canon THEN k # Ends \/ LastPlane = Ends - 1
                                       ELSE k > 2
<1>1. CASE Canon /\ job.bw
  <2>1. Items = <<"init", "y", "end">> /\ Ends = 3 /\ LastPlane = 2
    BY <1>1 DEF Items, Ends, LastPlane
  <2> QED  BY <1>1, <2>1 DEF Waits
<1>2. CASE Canon /\ ~job.bw /\ job.cp900
  <2>1. Items = <<"init", "y", "m", "c">> \o <<"cp900", "end">>
    BY <1>2 DEF Items
  <2>2. <<"init", "y", "m", "c">> \in Seq(ItemNames) /\ <<"cp900", "end">> \in Seq(ItemNames)
        /\ Len(<<"init", "y", "m", "c">>) = 4 /\ Len(<<"cp900", "end">>) = 2
    BY DEF ItemNames
  <2>3. Len(Items) = 6
        /\ Items[1] = "init" /\ Items[2] = "y" /\ Items[3] = "m"
        /\ Items[4] = "c" /\ Items[5] = "cp900" /\ Items[6] = "end"
    BY <2>1, <2>2, FourAndMore
  <2>4. Ends = 6 /\ LastPlane = 4
    BY <1>2, <2>3 DEF Ends, LastPlane
  <2> QED  BY <1>2, <2>3, <2>4 DEF Waits
<1>3. CASE Canon /\ ~job.bw /\ ~job.cp900
  <2>1. Items = <<"init", "y", "m", "c">> \o <<"end">>
    BY <1>3 DEF Items
  <2>2. <<"init", "y", "m", "c">> \in Seq(ItemNames) /\ <<"end">> \in Seq(ItemNames)
        /\ Len(<<"init", "y", "m", "c">>) = 4 /\ Len(<<"end">>) = 1
    BY DEF ItemNames
  <2>3. Len(Items) = 5
        /\ Items[1] = "init" /\ Items[2] = "y" /\ Items[3] = "m"
        /\ Items[4] = "c" /\ Items[5] = "end"
    BY <2>1, <2>2, FourAndMore
  <2>4. Ends = 5 /\ LastPlane = 4
    BY <1>3, <2>3 DEF Ends, LastPlane
  <2> QED  BY <1>3, <2>3, <2>4 DEF Waits
<1>4. CASE ~Canon /\ job.laminate
  <2>1. Items = <<"setup", "y", "m", "c">> \o <<"laminate", "end">>
    BY <1>4 DEF Items
  <2>2. <<"setup", "y", "m", "c">> \in Seq(ItemNames) /\ <<"laminate", "end">> \in Seq(ItemNames)
        /\ Len(<<"setup", "y", "m", "c">>) = 4 /\ Len(<<"laminate", "end">>) = 2
    BY DEF ItemNames
  <2>3. Len(Items) = 6
        /\ Items[1] = "setup" /\ Items[2] = "y" /\ Items[3] = "m"
        /\ Items[4] = "c" /\ Items[5] = "laminate" /\ Items[6] = "end"
    BY <2>1, <2>2, FourAndMore
  <2>4. Ends = 6 /\ LastPlane = 5
    BY <1>4, <2>3 DEF Ends, LastPlane
  <2> QED  BY <1>4, <2>3, <2>4 DEF Waits
<1>5. CASE ~Canon /\ ~job.laminate
  <2>1. Items = <<"setup", "y", "m", "c">> \o <<"end">>
    BY <1>5 DEF Items
  <2>2. <<"setup", "y", "m", "c">> \in Seq(ItemNames) /\ <<"end">> \in Seq(ItemNames)
        /\ Len(<<"setup", "y", "m", "c">>) = 4 /\ Len(<<"end">>) = 1
    BY DEF ItemNames
  <2>3. Len(Items) = 5
        /\ Items[1] = "setup" /\ Items[2] = "y" /\ Items[3] = "m"
        /\ Items[4] = "c" /\ Items[5] = "end"
    BY <2>1, <2>2, FourAndMore
  <2>4. Ends = 5 /\ LastPlane = 4
    BY <1>5, <2>3 DEF Ends, LastPlane
  <2> QED  BY <1>5, <2>3, <2>4 DEF Waits
<1> QED  BY <1>1, <1>2, <1>3, <1>4, <1>5

(* A printer that has been given nothing waits for the first item.         *)
LEMMA PlaneTurnInit == Init => PlaneTurn
<1> SUFFICES ASSUME Init, job.model \in PlaneModels PROVE PlaneTurn
  BY DEF PlaneTurn
<1>1. PlaneInit
  BY DEF Init, PlaneModels, HitiInit, HitiJobs, SpoolInit, SpoolJobs,
     SpoolModels, PrinterCopies, BankInit, BankJobs, BankModels, Shinkos,
     DeckInit, DeckJobs, DnpInit, DnpJobs
<1>2. /\ dev \in PlaneDevs /\ dev.at \in {1, Ends} /\ ~dev.busy
      /\ dev.at # 1 => Lingers
      /\ dev.printed = 0 /\ given = 0 /\ sts = NotRead /\ result = "running"
  <2>1. Ends \in Nat \ {0} /\ 1 \in 1 .. Ends
    BY PlaneItems
  <2>2. dev \in [at : {1} \union (IF Canon /\ ~job.foot /\ ~job.cp900
                                  THEN {Ends} ELSE {}),
                 busy : {FALSE}, err : {FALSE}, stray : {FALSE}, printed : {0}]
    BY <1>1 DEF PlaneInit, Ends
  <2>3. dev.at \in {1, Ends} /\ (dev.at # 1 => Lingers)
    BY <2>2 DEF Lingers
  <2>4. given = 0 /\ sts = NotRead /\ result = "running"
    BY DEF Init
  <2>5. /\ dev \in [at : 1 .. Ends, busy : BOOLEAN, err : BOOLEAN,
                    stray : {FALSE}, printed : Nat]
        /\ ~dev.busy /\ dev.printed = 0
    <3> DEFINE ats == {1} \union (IF Canon /\ ~job.foot /\ ~job.cp900
                                   THEN {Ends} ELSE {})
    <3>1. ats \subseteq 1 .. Ends /\ 0 \in Nat
      BY <2>1
    <3>2. dev \in [at : ats, busy : {FALSE}, err : {FALSE}, stray : {FALSE},
                   printed : {0}]
      BY <2>2
    <3> HIDE DEF ats
    <3> QED  BY <3>1, <3>2
  <2>6. dev \in PlaneDevs
    BY <2>5, Zenon DEF PlaneDevs
  <2> QED  BY <2>3, <2>4, <2>5, <2>6
<1>3. PlanePlace
  <2>1. CASE Canon
    BY <1>1, <1>2, <2>1 DEF PlaneInit, PlanePlace
  <2>2. CASE ~Canon
    <3>1. state = <<"send", 1>> /\ ~Waits(1) /\ 1 \in 1 .. Ends /\ 1 <= LastPlane
      BY <1>1, <2>2, PlaneItems DEF PlaneInit, Before
    <3>2. dev.at = 1
      BY <1>2, <2>2 DEF Lingers
    <3> QED  BY <1>2, <3>1, <3>2 DEF PlanePlace
  <2> QED  BY <2>1, <2>2
<1> QED  BY <1>2, <1>3 DEF PlaneTurn
-----------------------------------------------------------------------------
(* The job is the same for ever.                                           *)
LEMMA JobStays ==
  ASSUME [Next]_vars PROVE job' = job
<1>1. CASE Query \/ Works \/ Breaks
  BY <1>1, PrinterMoves
<1>2. CASE Act \/ LinkFails
  BY <1>2 DEF Act, PlaneAct, HitiAct, SpoolAct, MagicardPage, BankAct, DeckAct,
     DnpAct, LinkFails, Return
<1> QED  BY <1>1, <1>2 DEF Next, Ended, SigTerm, vars

(* What is not a step of the printer or of its loop.                       *)
Aside ==
  /\ UNCHANGED <<job, state, mem, dev, given>>
  /\ \/ sts' = sts /\ result' = result
     \/ sts' = NotRead /\ result' = "failed"
  /\ terminate' # terminate => Running

(* Steps that neither the loop nor the printer takes.                      *)
LEMMA AsideSteps ==
  ASSUME SigTerm \/ LinkFails \/ UNCHANGED vars PROVE Aside
BY DEF SigTerm, LinkFails, Return, GiveNone, Aside, vars

(* The steps of canonselphy and kodak1400.                                 *)
LEMMA PlaneSteps ==
  ASSUME job.model \in PlaneModels, [Next]_vars
  PROVE  PlaneQuery \/ PlaneAct \/ PlaneWorks \/ PlaneBreaks \/ Aside
<1>1. /\ job.model \notin SpoolModels \union BankModels
      /\ ~Is("hiti") /\ ~Is("magicard") /\ ~Is("mitsu70x") /\ ~Is("dnpds40")
      /\ ~Is("mitsu9550")
  BY DEF PlaneModels, SpoolModels, PrinterCopies, BankModels, Shinkos, Is
<1>2. Query => PlaneQuery
  BY <1>1 DEF Query, HitiQuery, SpoolQuery, BankQuery, DeckQuery, DnpQuery
<1>3. Act => PlaneAct
  BY <1>1 DEF Act, HitiAct, SpoolAct, MagicardPage, BankAct, DeckAct, DnpAct
<1>4. Works => PlaneWorks
  BY <1>1 DEF Works, HitiWorks, SpoolWorks, SpoolMended, BankWorks, BankMended,
     DeckWorks, DnpWorks
<1>5. Breaks => PlaneBreaks
  BY <1>1 DEF Breaks, HitiBreaks, SpoolBreaks, BankBreaks, DeckBreaks, DnpBreaks
<1> QED  BY <1>2, <1>3, <1>4, <1>5, AsideSteps DEF Next, Ended

(* The page is the same for ever, too.                                     *)
LEMMA PlanePageStays ==
  ASSUME job' = job
  PROVE  /\ Ends' = Ends /\ LastPlane' = LastPlane /\ Items' = Items
         /\ Canon' = Canon /\ Lingers' = Lingers
         /\ \A k : Waits(k)' = Waits(k)
BY DEF Ends, LastPlane, Items, Canon, Lingers, Waits, Is

(* What neither the loop nor the printer does leaves them where they are.  *)
LEMMA PlaneTurnAside ==
  ASSUME PlaneTurn, Aside PROVE PlaneTurn'
<1>1. PlaneDevs' = PlaneDevs
  BY PlanePageStays DEF Aside, PlaneDevs
<1>2. result' = result \/ result' = "failed"
  BY DEF Aside
<1>3. PlanePlace /\ result' = result => PlanePlace'
  <2> SUFFICES ASSUME PlanePlace, result' = result PROVE PlanePlace'
    OBVIOUS
  <2>1. /\ UNCHANGED <<job, state, dev, given>>
        /\ sts' = sts \/ sts' = NotRead
    BY DEF Aside
  <2> QED  BY <2>1, PlanePageStays DEF PlanePlace
<1> QED  BY <1>1, <1>2, <1>3 DEF Aside, PlaneTurn, Running

(* The printer goes on, or fails, or is asked: the item it waits for is    *)
(* the one the host is at.                                                 *)
LEMMA PlaneTurnPrinter ==
  ASSUME PlaneTurn, job.model \in PlaneModels, given \in Nat,
         PlaneQuery \/ PlaneWorks \/ PlaneBreaks
  PROVE  PlaneTurn'
<1>1. /\ UNCHANGED <<job, state, given, result>> /\ Running /\ Running'
  BY DEF PlaneQuery, PlaneWorks, PlaneBreaks, Read, Printer, Running
<1>2. /\ Ends' = Ends /\ LastPlane' = LastPlane /\ Canon' = Canon
      /\ Lingers' = Lingers /\ \A k : Waits(k)' = Waits(k)
      /\ PlaneDevs' = PlaneDevs
  BY <1>1, PlanePageStays DEF PlaneDevs
<1>3. dev \in PlaneDevs /\ PlanePlace
  BY <1>1 DEF PlaneTurn
<1>4. Ends \in {3, 5, 6} /\ LastPlane \in 2 .. Ends - 1
  BY PlaneItems
<1>5. result # "ok"
  BY <1>1 DEF Running
<1>6. dev' \in PlaneDevs /\ PlanePlace'
  <2>1. CASE PlaneQuery
    <3>1. /\ sts' = [err |-> dev.err, busy |-> dev.busy, at |-> dev.at]
          /\ dev' = IF Canon /\ ~dev.busy /\ dev.at = Ends /\ ~job.foot
                    THEN [dev EXCEPT !.at = 1] ELSE dev
      BY <2>1 DEF PlaneQuery, Read, Ends
    <3>2. CASE Lingers /\ ~dev.busy /\ dev.at = Ends
      <4>1. dev' = [dev EXCEPT !.at = 1]
        BY <3>1, <3>2 DEF Lingers
      <4>2. /\ dev' \in PlaneDevs /\ dev'.at = 1 /\ dev'.busy = dev.busy
            /\ dev'.printed = dev.printed
        <5>1. 1 \in 1 .. Ends
          BY <1>4
        <5> QED  BY <1>3, <4>1, <5>1 DEF PlaneDevs
      <4>3. CASE state = <<"clear">>
        BY <1>1, <1>2, <1>3, <3>2, <4>2, <4>3 DEF PlanePlace
      <4>4. ASSUME NEW k \in 1 .. Ends, state \in {<<"await", k>>, <<"send", k>>}
            PROVE  PlanePlace'
        <5>1. /\ k = 1 \/ k = Ends
              /\ dev.printed = given + IF k <= LastPlane THEN 0 ELSE 1
              /\ state = <<"await", k>> => Waits(k)
          BY <1>3, <1>4, <3>2, <4>4 DEF PlanePlace, PlaneDevs
        <5> QED  BY <1>1, <1>2, <1>4, <3>1, <3>2, <4>2, <4>4, <5>1 DEF PlanePlace
      <4> QED  BY <1>3, <4>2, <4>3, <4>4 DEF PlanePlace
    <3>3. CASE ~(Lingers /\ ~dev.busy /\ dev.at = Ends)
      <4>1. dev' = dev /\ sts'.busy = dev.busy /\ sts'.at = dev.at
        BY <3>1, <3>3 DEF Lingers
      <4> QED  BY <1>1, <1>2, <1>3, <4>1 DEF PlanePlace
    <3> QED  BY <3>2, <3>3
  <2>2. CASE PlaneWorks
    <3>1. /\ sts' = sts /\ dev.busy
          /\ dev' = [dev EXCEPT !.busy = FALSE,
                !.printed = IF dev.at = LastPlane + 1 THEN @ + 1 ELSE @]
      BY <2>2 DEF PlaneWorks, Printer
    <3>2. /\ dev' \in PlaneDevs /\ dev'.at = dev.at /\ ~dev'.busy
          /\ dev'.printed = IF dev.at = LastPlane + 1 THEN dev.printed + 1
                                                      ELSE dev.printed
      <4>1. dev.printed + 1 \in Nat
        BY <1>3 DEF PlaneDevs
      <4>2. CASE dev.at = LastPlane + 1
        <5>1. dev' = [dev EXCEPT !.busy = FALSE, !.printed = @ + 1]
          BY <3>1, <4>2
        <5> QED  BY <1>3, <4>1, <4>2, <5>1 DEF PlaneDevs
      <4>3. CASE dev.at # LastPlane + 1
        <5>1. dev' = [dev EXCEPT !.busy = FALSE, !.printed = @]
          BY <3>1, <4>3
        <5> QED  BY <1>3, <4>3, <5>1 DEF PlaneDevs
      <4> QED  BY <4>2, <4>3
    <3>3. PICK k \in 1 .. Ends :
            /\ state \in {<<"await", k>>, <<"send", k>>} /\ dev.at = k
            /\ state = <<"send", k>> \/ k = 1 \/ dev.at # k => ~dev.busy
            /\ state = <<"await", k>> => Waits(k)
            /\ sts # NotRead /\ state = <<"await", k>> => (~sts.busy => ~dev.busy)
            /\ dev.printed = given + IF k <= LastPlane \/ dev.at = LastPlane + 1
                                     THEN 0 ELSE 1
      BY <1>3, <1>4, <3>1 DEF PlanePlace
    <3>4. /\ state # <<"send", k>> /\ k # 1
          /\ dev'.printed = given + IF k <= LastPlane THEN 0 ELSE 1
      BY <1>3, <1>4, <3>1, <3>2, <3>3 DEF PlaneDevs
    <3> QED  BY <1>1, <1>2, <3>1, <3>2, <3>3, <3>4 DEF PlanePlace
  <2>3. CASE PlaneBreaks
    <3>1. sts' = sts /\ dev' = [dev EXCEPT !.err = TRUE]
      BY <2>3 DEF PlaneBreaks, Printer
    <3>2. /\ dev' \in PlaneDevs /\ dev'.at = dev.at /\ dev'.busy = dev.busy
          /\ dev'.printed = dev.printed
      BY <1>3, <3>1 DEF PlaneDevs
    <3> QED  BY <1>1, <1>2, <1>3, <3>1, <3>2 DEF PlanePlace
  <2> QED  BY <2>1, <2>2, <2>3
<1> QED  BY <1>1, <1>2, <1>5, <1>6 DEF PlaneTurn

(* An item is sent.                                                        *)
LEMMA PlaneItemSent ==
  ASSUME job.model \in PlaneModels, job' = job, dev \in PlaneDevs, given \in Nat,
         NEW k \in 1 .. Ends, SendItem(k),
         \/ dev.at = k /\ ~dev.busy
         \/ k = Ends /\ Lingers /\ dev.at \in {1, Ends} /\ ~dev.busy,
         dev.printed = given + IF k <= LastPlane THEN 0 ELSE 1
  PROVE  /\ dev' \in PlaneDevs
         /\ dev'.printed = dev.printed
         /\ k = Ends => /\ ~dev'.busy
                        /\ dev'.at = 1 \/ (Lingers /\ dev'.at = Ends)
         /\ k # Ends => /\ dev'.at = k + 1
                        /\ dev'.busy <=> k <= LastPlane /\ (k # 1 \/ Canon)
<1>1. /\ Ends \in {3, 5, 6} /\ LastPlane \in 2 .. Ends - 1
      /\ Items[k] = "end" <=> k = Ends
      /\ Items[k] \notin {"setup", "cp900", "end"}
            <=> k <= LastPlane /\ (k # 1 \/ Canon)
  BY PlaneItems
<1>2. CASE k = Ends /\ Lingers
  <2>1. dev' = dev
    BY <1>1, <1>2 DEF SendItem, Lingers
  <2> QED  BY <1>1, <1>2, <2>1
<1>3. CASE ~(k = Ends /\ Lingers)
  <2> DEFINE at == (k % Ends) + 1
             busy == Items[k] \notin {"setup", "cp900", "end"}
  <2>1. at = (IF k = Ends THEN 1 ELSE k + 1) /\ at \in 1 .. Ends
    <3>1. k \in {1, 2, 3, 4, 5, 6}
      BY <1>1
    <3>2. k % Ends = IF k = Ends THEN 0 ELSE k
      BY <1>1, <3>1
    <3> QED  BY <1>1, <3>2
  <2>2. dev' = [dev EXCEPT !.busy = busy, !.at = at,
                           !.stray = @ \/ dev.busy \/ (dev.at # k)]
    BY <1>1, <1>3, Zenon DEF SendItem, Lingers, Ends
  <2>3. dev.at = k /\ ~dev.busy
    BY <1>3
  <2>4. (dev.stray \/ dev.busy \/ (dev.at # k)) = FALSE
    BY <2>3 DEF PlaneDevs
  <2>5. busy \in BOOLEAN
    OBVIOUS
  <2> HIDE DEF at, busy
  <2>6. dev' = [dev EXCEPT !.busy = busy, !.at = at, !.stray = FALSE]
    BY <2>2, <2>4, Zenon
  <2>7. dev' \in [at : 1 .. Ends, busy : BOOLEAN, err : BOOLEAN,
                  stray : {FALSE}, printed : Nat]
        /\ dev'.at = at /\ dev'.busy = busy /\ dev'.printed = dev.printed
    BY <2>1, <2>5, <2>6 DEF PlaneDevs
  <2>8. PlaneDevs' = [at : 1 .. Ends, busy : BOOLEAN, err : BOOLEAN,
                      stray : {FALSE}, printed : Nat]
    BY PlanePageStays DEF PlaneDevs
  <2>9. dev' \in PlaneDevs
    BY <2>7, Zenon DEF PlaneDevs
  <2> QED  BY <1>1, <2>1, <2>7, <2>9 DEF busy
<1> QED  BY <1>2, <1>3

(* The loop acts on a status: it sends only what it has seen to be waited  *)
(* for.                                                                    *)
LEMMA PlaneTurnAct ==
  ASSUME PlaneTurn, given \in Nat, PlaneAct
  PROVE  PlaneTurn'
<1>1. /\ job.model \in PlaneModels /\ Running /\ sts # NotRead
      /\ job' = job
  BY DEF PlaneAct, PlaneModels
<1>2. /\ Ends' = Ends /\ LastPlane' = LastPlane /\ Canon' = Canon
      /\ Lingers' = Lingers /\ (\A k : Waits(k)' = Waits(k))
      /\ PlaneDevs' = PlaneDevs
  BY <1>1, PlanePageStays DEF PlaneDevs
<1>3. dev \in PlaneDevs /\ PlanePlace
  BY <1>1 DEF PlaneTurn
<1>4. /\ Ends \in {3, 5, 6} /\ LastPlane \in 2 .. Ends - 1
      /\ \A k \in 1 .. Ends :
           Waits(k) <=> IF Canon THEN k # Ends \/ LastPlane = Ends - 1
                                 ELSE k > 2
  BY <1>1, PlaneItems
<1>5. \A k : Before(k) = IF Waits(k) THEN <<"await", k>> ELSE <<"send", k>>
  BY DEF Before
<1>6. result = "running" /\ "running" # "ok"
  BY <1>1 DEF Running
<1>7. ASSUME NEW code \in {"stop", "hold"}, Return(code), dev' = dev
      PROVE  PlaneTurn'
  BY <1>2, <1>3, <1>7 DEF Return, PlaneTurn, Running
<1>8. CASE state = <<"clear">>
  <2>1. /\ state' = Before(1) /\ sts' = NotRead /\ result' = result
        /\ given' = given /\ dev' = dev
    BY <1>8 DEF PlaneAct, Goto, GiveNone
  <2>2. /\ Canon /\ ~dev.busy /\ (dev.at = 1 \/ (Lingers /\ dev.at = Ends))
        /\ dev.printed = given
    BY <1>3, <1>8 DEF PlanePlace
  <2>3. state' = <<"await", 1>> /\ Waits(1) /\ 1 \in 1 .. Ends /\ 1 <= LastPlane
    BY <1>4, <1>5, <2>1, <2>2
  <2>4. PlanePlace'
    BY <1>2, <2>1, <2>2, <2>3 DEF PlanePlace
  <2> QED  BY <1>2, <1>3, <1>6, <2>1, <2>4 DEF PlaneTurn
<1>9. CASE state # <<"clear">> /\ PlaneAwait
  <2>1. PICK k \in 1 .. Ends :
          /\ state \in {<<"await", k>>, <<"send", k>>}
          /\ \/ dev.at = k
             \/ k = 1 /\ state = <<"await", k>> /\ Lingers /\ dev.at = Ends
             \/ k = Ends /\ Lingers /\ dev.at = 1 /\ ~dev.busy
          /\ state = <<"send", k>> \/ k = 1 \/ dev.at # k => ~dev.busy
          /\ state = <<"await", k>> => Waits(k)
          /\ sts # NotRead /\ state = <<"await", k>> =>
               /\ ~sts.busy => ~dev.busy
               /\ k = 1 /\ sts.at = 1 => dev.at = 1
          /\ dev.printed = given + IF k <= LastPlane
                                      \/ (dev.busy /\ dev.at = LastPlane + 1)
                                   THEN 0 ELSE 1
    BY <1>3, <1>9 DEF PlanePlace
  <2>2. state = <<"await", k>> /\ state[2] = k
    BY <1>9, <2>1 DEF PlaneAwait
  <2>3. given' = given /\ dev' = dev
    BY <1>9 DEF PlaneAwait, GiveNone
  <2>4. \/ Goto(state) \/ Return("stop") \/ Return("hold")
        \/ Asked(k) /\ Goto(<<"send", k>>)
    BY <1>9, <2>2 DEF PlaneAwait
  <2>5. CASE Goto(state)
    <3>1. state' = state /\ sts' = NotRead /\ result' = result
      BY <2>5 DEF Goto
    <3>2. PlanePlace'
      BY <1>2, <2>1, <2>3, <3>1 DEF PlanePlace
    <3> QED  BY <1>2, <1>3, <1>6, <2>3, <3>1, <3>2 DEF PlaneTurn
  <2>6. CASE Asked(k) /\ Goto(<<"send", k>>)
    <3>1. state' = <<"send", k>> /\ sts' = NotRead /\ result' = result
      BY <2>6 DEF Goto
    <3>2. ~dev.busy
      BY <1>1, <2>1, <2>2, <2>6 DEF Asked
    <3>3. \/ dev.at = k
          \/ k = Ends /\ Lingers /\ dev.at = 1
      <4>1. k = 1 /\ Lingers => sts.at = 1
        BY <2>6 DEF Asked, Lingers
      <4> QED  BY <1>1, <2>1, <2>2, <4>1
    <3>4. PlanePlace'
      BY <1>2, <2>1, <2>3, <3>1, <3>2, <3>3 DEF PlanePlace
    <3> QED  BY <1>2, <1>3, <1>6, <2>3, <3>1, <3>4 DEF PlaneTurn
  <2> QED  BY <1>7, <2>3, <2>4, <2>5, <2>6
<1>10. CASE state # <<"clear">> /\ PlaneSend
  <2>1. PICK k \in 1 .. Ends :
          /\ state \in {<<"await", k>>, <<"send", k>>}
          /\ \/ dev.at = k
             \/ k = 1 /\ state = <<"await", k>> /\ Lingers /\ dev.at = Ends
             \/ k = Ends /\ Lingers /\ dev.at = 1 /\ ~dev.busy
          /\ state = <<"send", k>> \/ k = 1 \/ dev.at # k => ~dev.busy
          /\ dev.printed = given + IF k <= LastPlane
                                      \/ (dev.busy /\ dev.at = LastPlane + 1)
                                   THEN 0 ELSE 1
    BY <1>3, <1>10 DEF PlanePlace
  <2>2. state = <<"send", k>> /\ state # <<"await", k>> /\ state[2] = k
    BY <1>10, <2>1 DEF PlaneSend
  <2>3. /\ SendItem(k)
        /\ k = Ends => NextCopy(CopiesLeft, Before(1)) /\ Give(1)
        /\ k # Ends => Goto(Before(k + 1)) /\ GiveNone
    BY <1>1, <1>10, <2>2, PlaneItems DEF PlaneSend
  <2>4. /\ ~dev.busy
        /\ dev.at = k \/ (k = Ends /\ Lingers /\ dev.at \in {1, Ends})
        /\ dev.printed = given + IF k <= LastPlane THEN 0 ELSE 1
    BY <2>1, <2>2
  <2>5. /\ dev' \in PlaneDevs
        /\ dev'.printed = dev.printed
        /\ k = Ends => /\ ~dev'.busy
                       /\ dev'.at = 1 \/ (Lingers /\ dev'.at = Ends)
        /\ k # Ends => /\ dev'.at = k + 1
                       /\ dev'.busy <=> k <= LastPlane /\ (k # 1 \/ Canon)
    BY <1>1, <1>3, <2>3, <2>4, PlaneItemSent
  <2>6. CASE k = Ends
    <3>1. given' = given + 1 /\ dev'.printed = given'
      BY <1>4, <2>3, <2>4, <2>5, <2>6 DEF Give
    <3>2. CASE result' = "ok"
      BY <1>2, <2>5, <3>1, <3>2 DEF PlaneTurn, Running
    <3>3. CASE result' # "ok"
      <4>1. state' = Before(1) /\ sts' = NotRead /\ result' = result
        BY <2>3, <2>6, <3>3 DEF NextCopy
      <4>2. /\ Canon => state' = <<"await", 1>> /\ Waits(1)
            /\ ~Canon => state' = <<"send", 1>> /\ dev'.at = 1
            /\ 1 \in 1 .. Ends /\ 1 <= LastPlane
        BY <1>4, <1>5, <2>5, <2>6, <4>1 DEF Lingers
      <4>3. PlanePlace'
        BY <1>2, <2>5, <2>6, <3>1, <4>1, <4>2 DEF PlanePlace
      <4> QED  BY <1>2, <2>5, <3>3, <4>3 DEF PlaneTurn
    <3> QED  BY <3>2, <3>3
  <2>7. CASE k # Ends
    <3>1. /\ state' = Before(k + 1) /\ sts' = NotRead /\ result' = result
          /\ given' = given
      BY <2>3, <2>7 DEF Goto, GiveNone
    <3>2. k + 1 \in 1 .. Ends /\ k + 1 # 1
      BY <1>4, <2>7
    <3>3. \/ state' = <<"await", k + 1>> /\ Waits(k + 1)
          \/ state' = <<"send", k + 1>> /\ ~Waits(k + 1)
      BY <1>5, <3>1
    <3>4. ~Waits(k + 1) => ~dev'.busy
      BY <1>4, <2>5, <2>7, <3>2
    <3>5. dev'.printed = given + IF k + 1 <= LastPlane
                                   \/ (dev'.busy /\ dev'.at = LastPlane + 1)
                                 THEN 0 ELSE 1
      BY <1>4, <2>4, <2>5, <2>7
    <3>6. PlanePlace'
      <4> DEFINE n == k + 1
      <4>1. n \in 1 .. Ends /\ n # 1
        BY <3>2
      <4>2. /\ state' \in {<<"await", n>>, <<"send", n>>}
            /\ dev'.at = n
            /\ state' = <<"send", n>> => ~dev'.busy
            /\ state' = <<"await", n>> => Waits(n)
        BY <2>5, <2>7, <3>3, <3>4
      <4>3. dev'.printed = given' + IF n <= LastPlane
                                      \/ (dev'.busy /\ dev'.at = LastPlane + 1)
                                    THEN 0 ELSE 1
        BY <3>1, <3>5
      <4> HIDE DEF n
      <4> QED  BY <1>2, <3>1, <4>1, <4>2, <4>3 DEF PlanePlace
    <3> QED  BY <1>2, <1>6, <2>5, <3>1, <3>6 DEF PlaneTurn
  <2> QED  BY <2>6, <2>7
<1> QED
  <2>1. \/ state = <<"clear">>
        \/ state # <<"clear">> /\ Return("stop") /\ dev' = dev
        \/ state # <<"clear">> /\ PlaneSend
        \/ state # <<"clear">> /\ PlaneAwait
    BY DEF PlaneAct
  <2> QED  BY <1>7, <1>8, <1>9, <1>10, <2>1

(* Every step keeps planes and printer in turn.                            *)
LEMMA PlaneTurnStep ==
  ASSUME PlaneTurn, CInv, [Next]_vars PROVE PlaneTurn'
<1>1. job' = job /\ given \in Nat
  BY JobStays DEF CInv, Counts, JobOK
<1>2. CASE job.model \in PlaneModels
  BY <1>1, <1>2, PlaneSteps, PlaneTurnAct, PlaneTurnPrinter, PlaneTurnAside
<1>3. CASE job.model \notin PlaneModels
  BY <1>1, <1>3 DEF PlaneTurn
<1> QED  BY <1>2, <1>3

-----------------------------------------------------------------------------
(* hiti: the plane to send is the one the host is at, until all are sent   *)
(* and the job is in the queue.                                            *)
HitiQueues == {<< >>, <<"other">>, <<"ours">>, <<"other", "ours">>}

HitiDevs ==
  [next : 1 .. 4, resend : BOOLEAN, resent : Nat, err : BOOLEAN,
   queue : HitiQueues, abnormal : BOOLEAN, stray : {FALSE}, printed : Nat]

HitiPlace ==
  \/ /\ state = <<"idle">> /\ dev.next = 1 /\ ~dev.resend
     /\ dev.queue \in {<< >>, <<"other">>}
     /\ dev.printed = 0
  \/ \E n \in 1 .. 3 :
       /\ state = <<"sent", n>> /\ dev.next = IF dev.resend THEN n ELSE n + 1
       /\ sts # NotRead => sts.resend = dev.resend
       /\ dev.queue \in {<< >>, <<"other">>}
       /\ dev.printed = 0
  \/ /\ state \in {<<"wait">>, <<"asked">>}
     /\ dev.printed = IF dev.queue = << >> THEN job.copies ELSE 0
     /\ dev.queue \in {<< >>, <<"ours">>, <<"other", "ours">>}
     /\ sts # NotRead /\ sts.queue = << >> => dev.queue = << >>

HitiTurn ==
  Is("hiti") =>
    /\ dev \in HitiDevs
    /\ Running => HitiPlace
    /\ result = "ok" /\ job.wait => dev.printed = given


(* The queue of hiti, printed or added to.                                 *)
LEMMA HitiQueueSteps ==
  /\ Append(<< >>, "ours") = <<"ours">>
  /\ Append(<<"other">>, "ours") = <<"other", "ours">>
  /\ Tail(<<"other">>) = << >> /\ Head(<<"other">>) = "other"
  /\ Tail(<<"ours">>) = << >> /\ Head(<<"ours">>) = "ours"
  /\ Tail(<<"other", "ours">>) = <<"ours">> /\ Head(<<"other", "ours">>) = "other"
  /\ << >> # <<"other">> /\ << >> # <<"ours">> /\ << >> # <<"other", "ours">>
  /\ <<"other">> # <<"ours">> /\ <<"other">> # <<"other", "ours">>
  /\ <<"ours">> # <<"other", "ours">>
<1>1. /\ Append(<< >>, "ours") = <<"ours">>
      /\ Append(<<"other">>, "ours") = <<"other", "ours">>
  <2>1. Append(<< >>, "ours") = <<"ours">>
    OBVIOUS
  <2> DEFINE S == {"other", "ours"}
             q == Append(<<"other">>, "ours")
  <2>2. <<"other">> \in Seq(S) /\ "ours" \in S /\ <<"other", "ours">> \in Seq(S)
        /\ Len(<<"other">>) = 1
    OBVIOUS
  <2>3. q \in Seq(S) /\ Len(q) = 2 /\ q[1] = "other" /\ q[2] = "ours"
    BY <2>2, AppendProperties
  <2> HIDE DEF q
  <2>4. q = <<"other", "ours">>
    BY <2>3
  <2> QED  BY <2>1, <2>4 DEF q
<1>2. /\ Tail(<<"other">>) = << >> /\ Head(<<"other">>) = "other"
      /\ Tail(<<"ours">>) = << >> /\ Head(<<"ours">>) = "ours"
  OBVIOUS
<1>3. Head(<<"other", "ours">>) = "other"
  OBVIOUS
<1>4. Tail(<<"other", "ours">>) = <<"ours">>
  OBVIOUS
<1>5. /\ Len(<< >>) = 0 /\ Len(<<"other">>) = 1 /\ Len(<<"ours">>) = 1
      /\ Len(<<"other", "ours">>) = 2
  OBVIOUS
<1>6. <<"other">>[1] = "other" /\ <<"ours">>[1] = "ours" /\ "other" # "ours"
  OBVIOUS
<1>7. /\ << >> # <<"other">> /\ << >> # <<"ours">> /\ << >> # <<"other", "ours">>
      /\ <<"other">> # <<"other", "ours">> /\ <<"ours">> # <<"other", "ours">>
  BY <1>5
<1>8. <<"other">> # <<"ours">>
  BY <1>6
<1> QED  BY <1>1, <1>2, <1>3, <1>4, <1>7, <1>8

(* hiti begins with the first plane.                                       *)
LEMMA HitiTurnInit == Init => HitiTurn
<1> SUFFICES ASSUME Init, Is("hiti") PROVE HitiTurn
  BY DEF HitiTurn
<1>1. HitiInit
  BY DEF Is, Init, PlaneInit, PlaneJobs, SpoolInit, SpoolJobs,
     SpoolModels, PrinterCopies, BankInit, BankJobs, BankModels, Shinkos,
     DeckInit, DeckJobs, DnpInit, DnpJobs
<1>2. /\ dev \in HitiDevs /\ dev.next = 1 /\ ~dev.resend
      /\ dev.queue \in {<< >>, <<"other">>} /\ dev.printed = 0
      /\ state = <<"idle">>
  <2>1. dev \in [next : {1}, resend : {FALSE}, resent : {0}, err : {FALSE},
                 queue : {<< >>, <<"other">>}, abnormal : {FALSE},
                 stray : {FALSE}, printed : {0}]
        /\ state = <<"idle">>
    BY <1>1 DEF HitiInit
  <2>2. {<< >>, <<"other">>} \subseteq HitiQueues /\ 1 \in 1 .. 4 /\ 0 \in Nat
    BY DEF HitiQueues
  <2> QED  BY <2>1, <2>2 DEF HitiDevs
<1> QED  BY <1>2 DEF Init, HitiPlace, HitiTurn

(* The steps of hiti.                                                      *)
LEMMA HitiSteps ==
  ASSUME Is("hiti"), [Next]_vars
  PROVE  HitiQuery \/ HitiAct \/ HitiWorks \/ HitiBreaks \/ Aside
<1>1. /\ job.model \notin SpoolModels \union BankModels
      /\ job.model \notin {"canonselphy", "kodak1400"}
      /\ ~Is("magicard") /\ ~Is("mitsu70x") /\ ~Is("dnpds40") /\ ~Is("mitsu9550")
  BY DEF SpoolModels, PrinterCopies, BankModels, Shinkos, Is
<1>2. Query => HitiQuery
  BY <1>1 DEF Query, PlaneQuery, SpoolQuery, BankQuery, DeckQuery, DnpQuery
<1>3. Act => HitiAct
  BY <1>1 DEF Act, PlaneAct, SpoolAct, MagicardPage, BankAct, DeckAct, DnpAct
<1>4. Works => HitiWorks
  BY <1>1 DEF Works, PlaneWorks, SpoolWorks, SpoolMended, BankWorks, BankMended,
     DeckWorks, DnpWorks
<1>5. Breaks => HitiBreaks
  BY <1>1 DEF Breaks, PlaneBreaks, SpoolBreaks, BankBreaks, DeckBreaks, DnpBreaks
<1> QED  BY <1>2, <1>3, <1>4, <1>5, AsideSteps DEF Next, Ended

(* What neither the loop nor the printer does leaves them where they are.  *)
LEMMA HitiTurnAside ==
  ASSUME HitiTurn, Aside PROVE HitiTurn'
<1>1. UNCHANGED <<job, state, dev, given>>
      /\ (sts' = sts \/ sts' = NotRead) /\ (result' = result \/ result' = "failed")
  BY DEF Aside
<1>2. HitiPlace => HitiPlace'
  BY <1>1 DEF HitiPlace
<1> QED  BY <1>1, <1>2 DEF HitiTurn, Running, HitiDevs, Is

(* The printer works off its queue, or fails, or is asked.                 *)
LEMMA HitiTurnPrinter ==
  ASSUME HitiTurn, job.copies \in Nat \ {0}, HitiQuery \/ HitiWorks \/ HitiBreaks
  PROVE  HitiTurn'
<1>1. /\ UNCHANGED <<job, state, given, result>> /\ Running /\ Running'
      /\ result # "ok" /\ Is("hiti") /\ Is("hiti")'
  BY DEF HitiQuery, HitiWorks, HitiBreaks, Read, Printer, Running, Is
<1>2. dev \in HitiDevs /\ HitiPlace
  BY <1>1 DEF HitiTurn
<1>3. dev' \in HitiDevs /\ HitiPlace'
  <2>1. CASE HitiQuery
    <3>1. sts'.resend = dev.resend /\ sts'.queue = dev.queue /\ dev' = dev
      BY <2>1 DEF HitiQuery, Read
    <3> QED  BY <1>1, <1>2, <3>1 DEF HitiPlace, HitiDevs
  <2>2. CASE HitiWorks
    <3>1. /\ sts' = sts /\ dev.queue # << >>
          /\ dev' = [dev EXCEPT !.queue = Tail(@),
               !.printed = IF Head(dev.queue) = "ours" THEN @ + job.copies ELSE @]
      BY <2>2 DEF HitiWorks, Printer
    <3>2. CASE dev.queue \in {<<"other">>, <<"other", "ours">>}
      <4>1. dev' = [dev EXCEPT !.queue = Tail(@), !.printed = @]
        BY <3>1, <3>2, HitiQueueSteps
      <4>2. /\ dev' \in HitiDevs /\ dev'.printed = dev.printed
            /\ dev'.next = dev.next /\ dev'.resend = dev.resend
            /\ dev.queue = <<"other">> => dev'.queue = << >>
            /\ dev.queue # <<"other">> => dev'.queue = <<"ours">>
        BY <1>2, <3>2, <4>1, HitiQueueSteps DEF HitiDevs, HitiQueues
      <4> QED  BY <1>1, <1>2, <3>1, <3>2, <4>2, HitiQueueSteps DEF HitiPlace
    <3>3. CASE dev.queue = <<"ours">>
      <4>1. state \in {<<"wait">>, <<"asked">>} /\ dev.printed = 0
        BY <1>2, <3>3, HitiQueueSteps DEF HitiPlace
      <4>2. dev' = [dev EXCEPT !.queue = << >>, !.printed = job.copies]
        <5>1. dev.printed + job.copies = job.copies
          BY <4>1
        <5>2. dev' = [dev EXCEPT !.queue = << >>, !.printed = @ + job.copies]
          BY <3>1, <3>3, HitiQueueSteps
        <5> QED  BY <5>1, <5>2
      <4>3. /\ dev' \in HitiDevs /\ dev'.printed = job.copies
            /\ dev'.queue = << >>
        BY <1>2, <4>2 DEF HitiDevs, HitiQueues
      <4> QED  BY <1>1, <3>1, <4>1, <4>3 DEF HitiPlace
    <3> QED  BY <1>2, <3>1, <3>2, <3>3 DEF HitiDevs, HitiQueues
  <2>3. CASE HitiBreaks
    <3>1. /\ sts' = sts
          /\ dev' \in HitiDevs /\ dev'.printed = dev.printed
          /\ dev'.next = dev.next /\ dev'.resend = dev.resend
          /\ dev'.queue = dev.queue
      BY <1>2, <2>3 DEF HitiBreaks, Printer, HitiDevs
    <3> QED  BY <1>1, <1>2, <3>1 DEF HitiPlace
  <2> QED  BY <2>1, <2>2, <2>3
<1> QED  BY <1>1, <1>3 DEF HitiTurn, HitiDevs

(* A plane is sent when it is its turn.                                    *)
LEMMA HitiPlaneSent ==
  ASSUME dev \in HitiDevs, dev.queue \in {<< >>, <<"other">>}, dev.printed = 0,
         NEW n \in 1 .. 3, dev.next = n, SendPlane(n), Goto(<<"sent", n>>),
         job' = job
  PROVE  dev' \in HitiDevs /\ HitiPlace'
<1>1. PICK again \in BOOLEAN :
        dev' = [dev EXCEPT
          !.next = IF again THEN n ELSE n + 1, !.resend = again,
          !.resent = IF again THEN @ + 1 ELSE @,
          !.stray = @ \/ dev.next # n]
  BY DEF SendPlane
<1>2. (dev.stray \/ dev.next # n) = FALSE
  BY DEF HitiDevs
<1>3. dev.resent + 1 \in Nat /\ n + 1 \in 1 .. 4 /\ n \in 1 .. 4
  BY DEF HitiDevs
<1>4. CASE again
  <2>1. dev' = [dev EXCEPT !.next = n, !.resend = TRUE, !.resent = @ + 1,
                           !.stray = FALSE]
    BY <1>1, <1>2, <1>4
  <2> QED  BY <1>3, <2>1 DEF HitiDevs, Goto, HitiPlace
<1>5. CASE ~again
  <2>1. dev' = [dev EXCEPT !.next = n + 1, !.resend = FALSE, !.resent = @,
                           !.stray = FALSE]
    BY <1>1, <1>2, <1>5
  <2> QED  BY <1>3, <2>1 DEF HitiDevs, Goto, HitiPlace
<1> QED  BY <1>4, <1>5

(* The loop sends the planes in their order, again when asked to, and      *)
(* waits for an empty queue.                                               *)
LEMMA HitiTurnAct ==
  ASSUME HitiTurn, CInv, HitiAct
  PROVE  HitiTurn'
<1>1. /\ Is("hiti") /\ Is("hiti")' /\ Running /\ sts # NotRead /\ job' = job
  BY DEF HitiAct, Is
<1>2. dev \in HitiDevs /\ HitiPlace
  BY <1>1 DEF HitiTurn
<1>3. /\ job.copies \in Nat \ {0} /\ result # "ok"
      /\ state[1] \in {"wait", "asked"} => given = job.copies
  <2>1. /\ AtOnce /\ job.copies \in Nat \ {0} /\ job.batch = job.copies
    <3>1. AtOnce
      BY <1>1 DEF AtOnce, Is
    <3>2. JobOK
      BY DEF CInv
    <3> QED  BY <3>1, <3>2, Zenon DEF JobOK
  <2>2. Wanted = job.copies
    BY <2>1, WantedFacts DEF CInv
  <2>3. /\ copies = job.copies
        /\ PageGiven => given = (job.copies - copies) + job.batch
    BY <1>1, <2>1, <2>2 DEF CInv, CopiesAddUp
  <2>4. state[1] \in {"wait", "asked"} => PageGiven
    BY <1>1 DEF PageGiven, CopyLost, Is
  <2> QED  BY <1>1, <2>1, <2>3, <2>4 DEF Running
<1>4. ASSUME NEW code \in {"stop", "failed"}, Return(code), dev' = dev
      PROVE  HitiTurn'
  BY <1>1, <1>2, <1>4 DEF Return, HitiTurn, Running, HitiDevs
<1>5. ASSUME Goto(state), dev' = dev PROVE HitiTurn'
  <2>1. HitiPlace'
    BY <1>1, <1>2, <1>5 DEF Goto, HitiPlace
  <2> QED  BY <1>1, <1>2, <1>3, <1>5, <2>1 DEF Goto, HitiTurn, HitiDevs
<1>6. ASSUME NEW n \in 1 .. 3, dev.queue \in {<< >>, <<"other">>},
             dev.printed = 0, dev.next = n, SendPlane(n), Goto(<<"sent", n>>)
      PROVE  HitiTurn'
  <2>1. dev' \in HitiDevs /\ HitiPlace'
    BY <1>1, <1>2, <1>6, HitiPlaneSent
  <2> QED  BY <1>1, <1>3, <1>6, <2>1 DEF Goto, HitiTurn, HitiDevs
<1>7. CASE HitiIdle
  <2>1. dev.queue \in {<< >>, <<"other">>} /\ dev.printed = 0 /\ dev.next = 1
    BY <1>2, <1>7 DEF HitiIdle, HitiPlace
  <2>2. \/ Return("stop") /\ dev' = dev
        \/ Goto(state) /\ dev' = dev
        \/ Goto(<<"sent", 1>>) /\ SendPlane(1)
    BY <1>7 DEF HitiIdle
  <2> QED  BY <1>4, <1>5, <1>6, <2>1, <2>2
<1>8. CASE HitiSent
  <2>1. PICK n \in 1 .. 3 :
          /\ state = <<"sent", n>> /\ dev.next = IF dev.resend THEN n ELSE n + 1
          /\ sts.resend = dev.resend
          /\ dev.queue \in {<< >>, <<"other">>} /\ dev.printed = 0
    BY <1>1, <1>2, <1>8 DEF HitiSent, HitiPlace
  <2>2. state[2] = n /\ Len(HitiPlanes) = 3
    BY <2>1 DEF HitiPlanes
  <2>3. \/ Return("failed") /\ dev' = dev
        \/ dev.resend /\ Goto(state) /\ SendPlane(n)
        \/ ~dev.resend /\ n < 3 /\ Goto(<<"sent", n + 1>>) /\ SendPlane(n + 1)
        \/ /\ ~dev.resend /\ ~(n < 3) /\ Goto(<<"wait">>) /\ Give(job.copies)
           /\ dev' = [dev EXCEPT !.queue = Append(@, "ours"),
                                 !.stray = @ \/ dev.next # 4]
    BY <1>8, <2>1, <2>2 DEF HitiSent
  <2>4. CASE dev.resend /\ Goto(state) /\ SendPlane(n)
    BY <1>6, <2>1, <2>4
  <2>5. CASE ~dev.resend /\ n < 3 /\ Goto(<<"sent", n + 1>>) /\ SendPlane(n + 1)
    <3>1. n + 1 \in 1 .. 3
      BY <2>5
    <3> QED  BY <1>6, <2>1, <2>5, <3>1
  <2>6. CASE /\ ~dev.resend /\ ~(n < 3) /\ Goto(<<"wait">>)
             /\ dev' = [dev EXCEPT !.queue = Append(@, "ours"),
                                   !.stray = @ \/ dev.next # 4]
    <3>1. (dev.stray \/ dev.next # 4) = FALSE
      <4>1. dev.next = n + 1
        BY <2>1, <2>6
      <4>2. dev.next = 4
        BY <2>6, <4>1
      <4>3. dev.stray = FALSE
        BY <1>2 DEF HitiDevs
      <4> QED  BY <4>2, <4>3
    <3>2. dev' = [dev EXCEPT !.queue = Append(@, "ours"), !.stray = FALSE]
      BY <2>6, <3>1
    <3>3. /\ dev' \in HitiDevs /\ dev'.printed = 0
          /\ dev'.queue \in {<<"ours">>, <<"other", "ours">>}
      BY <1>2, <2>1, <3>2, HitiQueueSteps DEF HitiDevs, HitiQueues
    <3>4. state' = <<"wait">> /\ sts' = NotRead /\ result' = result
      BY <2>6 DEF Goto
    <3>5. HitiPlace'
      BY <3>3, <3>4, HitiQueueSteps DEF HitiPlace
    <3> QED  BY <1>1, <1>3, <3>3, <3>4, <3>5 DEF HitiTurn, HitiDevs
  <2> QED  BY <1>4, <2>3, <2>4, <2>5, <2>6
<1>9. CASE HitiWait \/ HitiAsked
  <2>1. /\ state \in {<<"wait">>, <<"asked">>} /\ dev' = dev /\ given' = given
        /\ given = job.copies
    BY <1>3, <1>9 DEF HitiWait, HitiAsked, GiveNone
  <2>2. /\ dev.printed = IF dev.queue = << >> THEN job.copies ELSE 0
        /\ dev.queue \in {<< >>, <<"ours">>, <<"other", "ours">>}
        /\ sts.queue = << >> => dev.queue = << >>
    BY <1>1, <1>2, <2>1 DEF HitiPlace
  <2>3. \/ Return("failed")
        \/ Goto(<<"wait">>) \/ Goto(<<"asked">>)
        \/ Return("ok") /\ (~job.wait \/ sts.queue = << >>)
    BY <1>9 DEF HitiWait, HitiAsked
  <2>4. CASE Goto(<<"wait">>) \/ Goto(<<"asked">>)
    <3>1. /\ state' \in {<<"wait">>, <<"asked">>} /\ sts' = NotRead
          /\ result' = result
      BY <2>4 DEF Goto
    <3>2. HitiPlace'
      BY <1>1, <2>1, <2>2, <3>1 DEF HitiPlace
    <3> QED  BY <1>1, <1>2, <1>3, <2>1, <3>1, <3>2 DEF HitiTurn, HitiDevs
  <2>5. CASE Return("ok") /\ (~job.wait \/ sts.queue = << >>)
    BY <1>1, <1>2, <2>1, <2>2, <2>5 DEF Return, HitiTurn, HitiDevs, Running
  <2> QED  BY <1>4, <2>1, <2>3, <2>4, <2>5
<1> QED  BY <1>7, <1>8, <1>9 DEF HitiAct

(* Every step of hiti keeps planes and printer in turn.                    *)
LEMMA HitiTurnStep ==
  ASSUME HitiTurn, CInv, [Next]_vars PROVE HitiTurn'
<1>1. job' = job /\ job.copies \in Nat \ {0}
  BY JobStays DEF CInv, JobOK
<1>2. CASE Is("hiti")
  BY <1>1, <1>2, HitiSteps, HitiTurnAct, HitiTurnPrinter, HitiTurnAside
<1>3. CASE ~Is("hiti")
  BY <1>1, <1>3 DEF HitiTurn, Is
<1> QED  BY <1>2, <1>3

-----------------------------------------------------------------------------
(* The printers that take a page whole: what they have of ours is what was *)
(* given and not printed, but for pages that mitsud90 is not to print yet; *)
(* and an idle status is not out of date.                                  *)
RestsBetween == <<"mitsu9550", "rest within a page">> \notin Hitches

SpoolDevs ==
  [phase : {"idle", "got", "printing"}, mine : BOOLEAN, loaded : BOOLEAN,
   rests : BOOLEAN, troubles : Nat, full : BOOLEAN,
   err : {"none", "fault", "ribbon", "tray"}, stray : {FALSE}, printed : Nat]

Mitsu9550Rests ==
  /\ dev.rests => state = <<"idle">>
  /\ sts # NotRead =>
       /\ dev.rests => sts.rests
       /\ state = <<"check">> => ~sts.rests /\ sts.phase = "idle"

SpoolPlace ==
  /\ state \in {<<"clear">>, <<"idle">>, <<"clear2">>, <<"check">>, <<"wait">>}
  /\ dev.phase = "idle" => ~dev.mine
  /\ Starts => dev.printed + (IF dev.mine THEN job.batch ELSE 0) = given
  /\ ~Starts /\ state \in {<<"clear2">>, <<"wait">>} => dev.loaded
  /\ sts # NotRead /\ sts.phase = "idle" => dev.phase = "idle"
  /\ state \in {<<"clear">>, <<"idle">>} => ~mem.planes_sent
  /\ state = <<"check">> => Starts /\ dev.loaded /\ dev.phase = "idle"
  /\ Is("mitsu9550") => Mitsu9550Rests

SpoolTurn ==
  job.model \in SpoolModels \ {"magicard"} =>
    /\ dev \in SpoolDevs /\ mem \in [planes_sent : BOOLEAN]
    /\ mem.planes_sent => Is("mitsu9550")
    /\ Running => SpoolPlace
    /\ result = "ok" /\ job.wait =>
         (Is("mitsud90") /\ dev.loaded) \/ dev.printed = given

MagicardTurn == Is("magicard") => ~dev.stray /\ ~job.wait

(* Before the first page the printer has nothing of ours.                  *)
LEMMA SpoolTurnInit == Init => SpoolTurn /\ MagicardTurn
<1> SUFFICES ASSUME Init, job.model \in SpoolModels PROVE SpoolTurn /\ MagicardTurn
  BY DEF SpoolTurn, MagicardTurn, Is, SpoolModels
<1>1. SpoolInit
  BY DEF Init, PlaneInit, PlaneJobs, HitiInit, HitiJobs,
     SpoolModels, PrinterCopies, BankInit, BankJobs, BankModels, Shinkos,
     DeckInit, DeckJobs, DnpInit, DnpJobs
<1>2. /\ dev \in [phase : {"idle", "printing"}, mine : {FALSE}, loaded : {FALSE},
              rests : {FALSE}, troubles : {0}, full : BOOLEAN,
              err : {"none"}, stray : {FALSE}, printed : {0}]
      /\ mem = [planes_sent |-> FALSE]
      /\ state \in {<<"clear">>, <<"idle">>}
  BY <1>1 DEF SpoolInit
<1>3. /\ dev \in SpoolDevs /\ ~dev.mine /\ ~dev.rests /\ dev.printed = 0
      /\ ~dev.stray
  <2>1. {"idle", "printing"} \subseteq {"idle", "got", "printing"} /\ 0 \in Nat
        /\ {FALSE} \subseteq BOOLEAN /\ {"none"} \subseteq {"none", "fault", "ribbon", "tray"}
    OBVIOUS
  <2>2. dev \in SpoolDevs
    BY <1>2, <2>1 DEF SpoolDevs
  <2> QED  BY <1>2, <2>2
<1>4. given = 0 /\ sts = NotRead /\ result = "running"
  BY DEF Init
<1>5. Is("magicard") => ~job.wait
  BY <1>1 DEF SpoolInit, SpoolJobs, Is
<1>6. SpoolPlace
  BY <1>2, <1>3, <1>4 DEF SpoolPlace, Mitsu9550Rests
<1> QED  BY <1>2, <1>3, <1>4, <1>5, <1>6 DEF SpoolTurn, MagicardTurn

(* The steps of the printers that take a page whole.                       *)
LEMMA SpoolSteps ==
  ASSUME job.model \in SpoolModels \ {"magicard"}, [Next]_vars
  PROVE  SpoolQuery \/ SpoolAct \/ SpoolWorks \/ SpoolMended \/ SpoolBreaks \/ Aside
<1>1. /\ job.model \notin {"canonselphy", "kodak1400"} \union BankModels
      /\ ~Is("hiti") /\ ~Is("magicard") /\ ~Is("mitsu70x") /\ ~Is("dnpds40")
  BY DEF SpoolModels, PrinterCopies, BankModels, Shinkos, Is
<1>2. Query => SpoolQuery
  BY <1>1 DEF Query, PlaneQuery, HitiQuery, BankQuery, DeckQuery, DnpQuery
<1>3. Act => SpoolAct
  BY <1>1 DEF Act, PlaneAct, HitiAct, MagicardPage, BankAct, DeckAct, DnpAct
<1>4. Works => SpoolWorks \/ SpoolMended
  BY <1>1 DEF Works, PlaneWorks, HitiWorks, BankWorks, BankMended, DeckWorks, DnpWorks
<1>5. Breaks => SpoolBreaks
  BY <1>1 DEF Breaks, PlaneBreaks, HitiBreaks, BankBreaks, DeckBreaks, DnpBreaks
<1> QED  BY <1>2, <1>3, <1>4, <1>5, AsideSteps DEF Next, Ended

(* What neither the loop nor the printer does leaves them where they are.  *)
LEMMA SpoolTurnAside ==
  ASSUME SpoolTurn, Aside PROVE SpoolTurn'
<1>1. UNCHANGED <<job, state, mem, dev, given>>
      /\ (sts' = sts \/ sts' = NotRead) /\ (result' = result \/ result' = "failed")
  BY DEF Aside
<1>2. SpoolPlace => SpoolPlace'
  BY <1>1 DEF SpoolPlace, Mitsu9550Rests, Is, Starts
<1> QED  BY <1>1, <1>2 DEF SpoolTurn, Running, SpoolDevs, Is

(* The printer works on the page, or fails, or is asked.                   *)
LEMMA SpoolTurnPrinter ==
  ASSUME SpoolTurn, job.model \in SpoolModels \ {"magicard"}, RestsBetween,
         job.batch \in Nat \ {0}, given \in Nat,
         SpoolQuery \/ SpoolWorks \/ SpoolMended \/ SpoolBreaks
  PROVE  SpoolTurn'
<1>1. /\ UNCHANGED <<job, state, mem, given, result>> /\ Running /\ Running'
      /\ result # "ok" /\ Is("mitsu9550")' = Is("mitsu9550")
      /\ Starts' = Starts
  BY DEF SpoolQuery, SpoolWorks, SpoolMended, SpoolBreaks, Read, Printer,
     Running, Is, Starts
<1>2. dev \in SpoolDevs /\ SpoolPlace
  BY <1>1 DEF SpoolTurn
<1>3. dev' \in SpoolDevs /\ SpoolPlace'
  <2>1. CASE SpoolQuery
    <3>1. sts'.phase = dev.phase /\ sts'.rests = dev.rests /\ dev' = dev
      BY <2>1 DEF SpoolQuery, Read
    <3>2. Is("mitsu9550") => Mitsu9550Rests'
      BY <1>1, <1>2, <3>1 DEF SpoolPlace, Mitsu9550Rests
    <3> QED  BY <1>1, <1>2, <3>1, <3>2 DEF SpoolPlace, SpoolDevs
  <2>2. ASSUME sts' = sts, dev' \in SpoolDevs,
               dev'.mine = dev.mine, dev'.printed = dev.printed,
               dev'.phase = dev.phase, dev'.loaded = dev.loaded,
               Is("mitsu9550") /\ dev'.rests => dev.rests
        PROVE  dev' \in SpoolDevs /\ SpoolPlace'
    <3>1. Is("mitsu9550") => Mitsu9550Rests'
      BY <1>1, <1>2, <2>2 DEF SpoolPlace, Mitsu9550Rests
    <3> QED  BY <1>1, <1>2, <2>2, <3>1 DEF SpoolPlace
  <2>3. CASE SpoolWorks
    <3>1. CASE dev.phase = "got" /\ Printer([dev EXCEPT !.phase = "printing"])
      <4>1. /\ sts' = sts /\ dev' \in SpoolDevs /\ dev'.phase = "printing"
            /\ dev'.mine = dev.mine /\ dev'.printed = dev.printed
            /\ dev'.loaded = dev.loaded /\ dev'.rests = dev.rests
        BY <1>2, <3>1 DEF Printer, SpoolDevs
      <4>2. Is("mitsu9550") => Mitsu9550Rests'
        BY <1>1, <1>2, <4>1 DEF SpoolPlace, Mitsu9550Rests
      <4> QED  BY <1>1, <1>2, <3>1, <4>1, <4>2 DEF SpoolPlace
    <3>2. CASE /\ dev.phase = "printing"
               /\ Printer([dev EXCEPT !.phase = "idle", !.mine = FALSE,
                    !.printed = IF dev.mine THEN @ + job.batch ELSE @])
      <4> DEFINE p == IF dev.mine THEN dev.printed + job.batch ELSE dev.printed
      <4>1. sts' = sts /\ dev' = [dev EXCEPT !.phase = "idle", !.mine = FALSE,
                                             !.printed = p]
        BY <3>2 DEF Printer
      <4>2. p \in Nat /\ (Starts => p = given)
        BY <1>2 DEF SpoolDevs, SpoolPlace
      <4> HIDE DEF p
      <4>3. /\ dev' \in SpoolDevs /\ dev'.phase = "idle" /\ ~dev'.mine
            /\ dev'.printed = p /\ dev'.loaded = dev.loaded
            /\ dev'.rests = dev.rests
        BY <1>2, <4>1, <4>2 DEF SpoolDevs
      <4>4. Is("mitsu9550") => Mitsu9550Rests'
        BY <1>1, <1>2, <4>1, <4>3 DEF SpoolPlace, Mitsu9550Rests
      <4>5. Starts => dev'.printed + (IF dev'.mine THEN job.batch ELSE 0) = given
        BY <4>2, <4>3
      <4> QED  BY <1>1, <1>2, <3>2, <4>1, <4>3, <4>4, <4>5 DEF SpoolPlace
    <3>3. CASE \/ dev.rests /\ Printer([dev EXCEPT !.rests = FALSE])
               \/ dev.full  /\ Printer([dev EXCEPT !.full = FALSE])
      BY <1>2, <2>2, <3>3 DEF Printer, SpoolDevs
    <3> QED  BY <2>3, <3>1, <3>2, <3>3 DEF SpoolWorks
  <2>4. CASE SpoolMended
    BY <1>2, <2>2, <2>4 DEF SpoolMended, Printer, SpoolDevs
  <2>5. CASE SpoolBreaks
    <3>0. dev.troubles + 1 \in Nat
      BY <1>2 DEF SpoolDevs
    <3>1. ASSUME NEW e \in {"fault", "ribbon", "tray"},
                 Printer([dev EXCEPT !.err = e, !.troubles = @ + 1])
          PROVE  dev' \in SpoolDevs /\ SpoolPlace'
      BY <1>2, <2>2, <3>0, <3>1 DEF Printer, SpoolDevs
    <3>2. CASE /\ ~Is("mitsu9550") \/ (state = <<"idle">> /\ sts = NotRead)
               /\ Printer([dev EXCEPT !.rests = TRUE, !.troubles = @ + 1])
      <4>1. /\ sts' = sts /\ dev' \in SpoolDevs
            /\ dev'.mine = dev.mine /\ dev'.printed = dev.printed
            /\ dev'.phase = dev.phase /\ dev'.loaded = dev.loaded
        BY <1>2, <3>0, <3>2 DEF Printer, SpoolDevs
      <4>2. Is("mitsu9550") => Mitsu9550Rests'
        BY <1>1, <3>2, <4>1 DEF Mitsu9550Rests
      <4> QED  BY <1>1, <1>2, <4>1, <4>2 DEF SpoolPlace
    <3>3. Is("mitsu9550") => ~May("rest within a page")
      BY DEF RestsBetween, May, Is
    <3>4. \/ \E e \in {"fault", "ribbon", "tray"} :
               Printer([dev EXCEPT !.err = e, !.troubles = @ + 1])
          \/ /\ ~Is("mitsu9550") \/ May("rest within a page")
                \/ (state = <<"idle">> /\ sts = NotRead)
             /\ Printer([dev EXCEPT !.rests = TRUE, !.troubles = @ + 1])
      BY <2>5, Zenon DEF SpoolBreaks
    <3>5. CASE \E e \in {"fault", "ribbon", "tray"} :
                 Printer([dev EXCEPT !.err = e, !.troubles = @ + 1])
      BY <3>1, <3>5, Zenon
    <3> QED  BY <3>2, <3>3, <3>4, <3>5, Zenon
  <2> QED  BY <2>1, <2>3, <2>4, <2>5
<1> QED  BY <1>1, <1>3 DEF SpoolTurn, SpoolDevs

(* The loop sends a page to an idle printer, and waits until it is idle    *)
(* again.                                                                  *)
LEMMA SpoolTurnAct ==
  ASSUME SpoolTurn, RestsBetween, JobOK, job.batch \in Nat \ {0}, given \in Nat,
         SpoolAct
  PROVE  SpoolTurn'
<1>1. /\ job.model \in SpoolModels \ {"magicard"} /\ Running /\ sts # NotRead
      /\ job' = job /\ Is("mitsu9550")' = Is("mitsu9550") /\ result # "ok"
      /\ SpoolDevs' = SpoolDevs /\ Starts' = Starts
      /\ ~Starts => Is("mitsud90") /\ ~Is("mitsu9550")
  BY DEF SpoolAct, Is, Running, SpoolDevs, Starts, JobOK
<1>2. dev \in SpoolDevs /\ mem \in [planes_sent : BOOLEAN]
      /\ (mem.planes_sent => Is("mitsu9550")) /\ SpoolPlace
  BY <1>1 DEF SpoolTurn
<1>3. ASSUME NEW code, code # "ok", code # "running", Fails(code)
      PROVE  SpoolTurn'
  BY <1>1, <1>2, <1>3 DEF Fails, Return, GiveNone, SpoolTurn, Running
<1>4. ErrorCode \notin {"ok", "running"}
  BY DEF ErrorCode
<1>5. ASSUME NEW s \in {<<"idle">>, <<"wait">>}, Again(s),
             s = <<"idle">> => state \in {<<"clear">>, <<"idle">>},
             s = <<"wait">> => state \in {<<"clear2">>, <<"wait">>}
      PROVE  SpoolTurn'
  <2>1. /\ state' = s /\ sts' = NotRead /\ result' = result
        /\ given' = given /\ dev' = dev /\ mem' = mem
    BY <1>5 DEF Again, Goto, GiveNone
  <2>2. Is("mitsu9550") => Mitsu9550Rests'
    BY <1>2, <1>5, <2>1 DEF SpoolPlace, Mitsu9550Rests
  <2>3. SpoolPlace'
    BY <1>1, <1>2, <1>5, <2>1, <2>2 DEF SpoolPlace
  <2> QED  BY <1>1, <1>2, <2>1, <2>3 DEF SpoolTurn
<1>6. CASE SpoolIdle
  <2>1. state = <<"idle">> /\ ~mem.planes_sent
    BY <1>2, <1>6 DEF SpoolIdle, SpoolPlace
  <2>2. \/ Fails("cancel") \/ Fails("hold") \/ Fails(ErrorCode) \/ Again(state)
        \/ Ready /\ ~Is("mitsud90") /\ SendImage
        \/ /\ Ready /\ ~Is("mitsu9550") /\ SendPage
           /\ Goto(Afterwards) \/ (~Starts /\ Return("ok"))
    BY <1>6 DEF SpoolIdle, Is
  <2>3. Ready => /\ dev.phase = "idle" /\ ~dev.mine
                 /\ Starts => dev.printed = given
                 /\ Is("mitsu9550") => ~dev.rests
    BY <1>1, <1>2 DEF SpoolPlace, Mitsu9550Rests, Ready, SpoolDevs
  <2>4. CASE Ready /\ ~Is("mitsud90") /\ SendImage
    <3>1. dev' = [dev EXCEPT !.loaded = TRUE, !.stray = FALSE]
      <4>1. (dev.stray \/ dev.phase # "idle") = FALSE /\ (~mem.planes_sent) = TRUE
        BY <1>2, <2>1, <2>3, <2>4 DEF SpoolDevs
      <4> QED  BY <2>4, <4>1, Zenon DEF SendImage
    <3>2. /\ dev' \in SpoolDevs /\ dev'.loaded /\ dev'.phase = dev.phase
          /\ dev'.mine = dev.mine /\ dev'.printed = dev.printed
          /\ dev'.rests = dev.rests
      BY <1>2, <3>1 DEF SpoolDevs
    <3>3. /\ mem' = [planes_sent |-> Is("mitsu9550")] /\ state' = <<"check">>
          /\ sts' = NotRead /\ result' = result /\ given' = given
      BY <2>4 DEF SendImage, Goto, GiveNone
    <3>4. mem' \in [planes_sent : BOOLEAN] /\ (mem'.planes_sent => Is("mitsu9550"))
      BY <3>3 DEF Is
    <3>5. Is("mitsu9550") => Mitsu9550Rests'
      BY <2>3, <2>4, <3>2, <3>3 DEF Mitsu9550Rests
    <3>6. SpoolPlace'
      BY <1>1, <1>2, <2>3, <2>4, <3>2, <3>3, <3>5 DEF SpoolPlace
    <3> QED  BY <1>1, <3>2, <3>3, <3>4, <3>6 DEF SpoolTurn
  <2>5. CASE /\ Ready /\ ~Is("mitsu9550") /\ SendPage
             /\ Goto(Afterwards) \/ (~Starts /\ Return("ok"))
    <3>1. dev' = [dev EXCEPT !.phase = IF Starts THEN "got" ELSE @,
                    !.mine = Starts, !.loaded = ~Starts, !.stray = FALSE]
      <4>1. (dev.stray \/ (dev.phase # "idle" /\ ~Is("magicard"))) = FALSE
        BY <1>2, <2>3, <2>5 DEF SpoolDevs
      <4> QED  BY <2>5, <4>1, Zenon DEF SendPage
    <3>2. mem' = mem /\ sts' = NotRead /\ given' = given + job.batch
      BY <2>5 DEF SendPage, Goto, Return, Give
    <3>3. CASE Starts
      <4>1. dev' = [dev EXCEPT !.phase = "got", !.mine = TRUE,
                                !.loaded = FALSE, !.stray = FALSE]
        BY <3>1, <3>3
      <4>2. /\ dev' \in SpoolDevs /\ dev'.phase = "got"
            /\ dev'.mine = TRUE /\ dev'.printed = dev.printed
        BY <1>2, <4>1 DEF SpoolDevs
      <4>3. state' \in {<<"clear2">>, <<"wait">>} /\ result' = result
        BY <2>5, <3>3 DEF Goto, Afterwards
      <4>4. dev'.printed + job.batch = given'
        BY <2>3, <2>5, <3>2, <3>3, <4>2
      <4>5. SpoolPlace'
        BY <1>1, <2>5, <3>2, <3>3, <4>2, <4>3, <4>4 DEF SpoolPlace
      <4> QED  BY <1>1, <1>2, <3>2, <4>2, <4>3, <4>5 DEF SpoolTurn
    <3>4. CASE ~Starts
      <4>1. dev' = [dev EXCEPT !.phase = dev.phase, !.mine = FALSE,
                                !.loaded = TRUE, !.stray = FALSE]
        <5>1. Starts = FALSE /\ (~Starts) = TRUE
          BY <3>4, Zenon DEF Starts
        <5>2. (IF Starts THEN "got" ELSE dev.phase) = dev.phase
          BY <3>4
        <5> QED  BY <3>1, <5>1, <5>2, Zenon
      <4>2. /\ dev' \in SpoolDevs /\ dev'.phase = dev.phase
            /\ dev'.mine = FALSE /\ dev'.loaded = TRUE
        BY <1>2, <4>1 DEF SpoolDevs
      <4>3. CASE Return("ok")
        <5>1. result' = "ok"
          BY <4>3 DEF Return
        <5>2. Is("mitsud90")'
          BY <1>1, <3>4 DEF Is
        <5> QED  BY <1>1, <1>2, <3>2, <4>2, <5>1, <5>2 DEF SpoolTurn, Running
      <4>4. CASE Goto(Afterwards)
        <5>1. state' \in {<<"clear2">>, <<"wait">>} /\ result' = result
          BY <4>4 DEF Goto, Afterwards
        <5>2. SpoolPlace'
          BY <1>1, <2>5, <3>2, <3>4, <4>2, <5>1 DEF SpoolPlace
        <5> QED  BY <1>1, <1>2, <3>2, <4>2, <5>1, <5>2 DEF SpoolTurn
      <4> QED  BY <2>5, <4>3, <4>4
    <3> QED  BY <3>3, <3>4
  <2> QED  BY <1>3, <1>4, <1>5, <2>1, <2>2, <2>4, <2>5
<1>7. CASE SpoolCheck
  <2>1. /\ state = <<"check">> /\ dev.loaded /\ dev.phase = "idle" /\ ~dev.mine
        /\ Starts /\ dev.printed = given
        /\ Is("mitsu9550") => Ready /\ ~dev.rests
    BY <1>1, <1>2, <1>7 DEF SpoolCheck, SpoolPlace, Mitsu9550Rests, Ready, SpoolDevs
  <2>2. \/ Fails("cancel") \/ Fails(ErrorCode)
        \/ ~Is("mitsu9550") /\ Again(<<"idle">>)
        \/ /\ dev' = [dev EXCEPT !.phase = "got", !.mine = TRUE,
                        !.loaded = FALSE, !.stray = @ \/ ~dev.loaded]
           /\ Give(job.batch) /\ Goto(<<"wait">>) /\ UNCHANGED mem
    BY <1>7, <2>1 DEF SpoolCheck
  <2>3. CASE ~Is("mitsu9550") /\ Again(<<"idle">>)
    <3>1. /\ state' = <<"idle">> /\ sts' = NotRead /\ result' = result
          /\ given' = given /\ dev' = dev /\ mem' = mem
      BY <2>3 DEF Again, Goto, GiveNone
    <3>2. SpoolPlace'
      BY <1>1, <1>2, <2>3, <3>1 DEF SpoolPlace
    <3> QED  BY <1>1, <1>2, <3>1, <3>2 DEF SpoolTurn
  <2>4. CASE /\ dev' = [dev EXCEPT !.phase = "got", !.mine = TRUE,
                          !.loaded = FALSE, !.stray = @ \/ ~dev.loaded]
             /\ Give(job.batch) /\ Goto(<<"wait">>) /\ UNCHANGED mem
    <3>1. dev' = [dev EXCEPT !.phase = "got", !.mine = TRUE, !.loaded = FALSE,
                             !.stray = FALSE]
      <4>1. (dev.stray \/ ~dev.loaded) = FALSE
        BY <1>2, <2>1 DEF SpoolDevs
      <4> QED  BY <2>4, <4>1, Zenon
    <3>2. /\ dev' \in SpoolDevs /\ dev'.phase = "got"
          /\ dev'.mine = TRUE /\ dev'.printed = dev.printed
          /\ dev'.rests = dev.rests
      BY <1>2, <3>1 DEF SpoolDevs
    <3>3. /\ mem' = mem /\ state' = <<"wait">>
          /\ sts' = NotRead /\ result' = result /\ given' = given + job.batch
      BY <2>4 DEF Goto, Give
    <3>4. Starts' /\ dev'.printed + job.batch = given'
      BY <1>1, <1>2, <2>1, <3>2, <3>3
    <3>5. Is("mitsu9550") => Mitsu9550Rests'
      BY <2>1, <3>2, <3>3 DEF Mitsu9550Rests
    <3>6. SpoolPlace'
      BY <1>1, <3>2, <3>3, <3>4, <3>5 DEF SpoolPlace
    <3> QED  BY <1>1, <1>2, <3>2, <3>3, <3>6 DEF SpoolTurn
  <2> QED  BY <1>3, <1>4, <2>2, <2>3, <2>4
<1>8. CASE SpoolWait
  <2>1. state = <<"wait">>
    BY <1>8 DEF SpoolWait
  <2>2. \/ (sts.phase = "idle" \/ ~job.wait) /\ PageDone
        \/ Fails(ErrorCode) \/ Again(state)
    BY <1>8 DEF SpoolWait, FastReturn
  <2>3. CASE (sts.phase = "idle" \/ ~job.wait) /\ PageDone
    <3>1. /\ sts' = NotRead /\ given' = given /\ dev' = dev /\ mem' = mem
          /\ \/ result' = "ok"
             \/ /\ state' = <<"idle">> /\ result' = result
                /\ job.model \notin PrinterCopies
      BY <2>3 DEF PageDone, Return, NextCopy, GiveNone
    <3>2. CASE result' = "ok"
      <4>1. job.wait => (Is("mitsud90") /\ dev.loaded) \/ dev.printed = given
        BY <1>1, <1>2, <2>1, <2>3 DEF SpoolPlace, SpoolDevs
      <4> QED  BY <1>1, <1>2, <3>1, <3>2, <4>1 DEF SpoolTurn, Running, Is
    <3>3. CASE result' # "ok"
      <4>1. ~Is("mitsu9550") /\ state' = <<"idle">> /\ result' = result
        BY <3>1, <3>3 DEF Is, PrinterCopies
      <4>2. SpoolPlace'
        BY <1>1, <1>2, <3>1, <4>1 DEF SpoolPlace
      <4> QED  BY <1>1, <1>2, <3>1, <4>1, <4>2 DEF SpoolTurn
    <3> QED  BY <3>2, <3>3
  <2> QED  BY <1>3, <1>4, <1>5, <2>1, <2>2, <2>3
<1>9. CASE SpoolClear
  <2>1. \/ state = <<"clear">>  /\ Again(<<"idle">>)
        \/ state = <<"clear2">> /\ Again(<<"wait">>)
    BY <1>9 DEF SpoolClear
  <2> QED  BY <1>5, <2>1
<1> QED  BY <1>6, <1>7, <1>8, <1>9 DEF SpoolAct

(* Every step keeps page and printer in turn.                              *)
LEMMA SpoolTurnStep ==
  ASSUME SpoolTurn, RestsBetween, CInv, [Next]_vars PROVE SpoolTurn'
<1>1. job' = job /\ JobOK /\ job.batch \in Nat \ {0} /\ given \in Nat
  BY JobStays DEF CInv, JobOK, Counts
<1>2. CASE job.model \in SpoolModels \ {"magicard"}
  BY <1>1, <1>2, SpoolSteps, SpoolTurnAct, SpoolTurnPrinter, SpoolTurnAside
<1>3. CASE job.model \notin SpoolModels \ {"magicard"}
  BY <1>1, <1>3 DEF SpoolTurn
<1> QED  BY <1>2, <1>3

(* What magicard prints is never out of turn: it has no state.             *)
LEMMA MagicardTurnStep ==
  ASSUME MagicardTurn, CInv, [Next]_vars PROVE MagicardTurn'
<1>1. job' = job
  BY JobStays DEF CInv
<1> SUFFICES ASSUME Is("magicard") PROVE ~dev'.stray
  BY <1>1 DEF MagicardTurn, Is
<1>2. /\ job.model \notin {"canonselphy", "kodak1400"} \union BankModels
      /\ ~Is("hiti") /\ ~Is("mitsu70x") /\ ~Is("dnpds40") /\ ~Is("mitsu9550")
  BY DEF BankModels, Shinkos, Is
<1>3. DevOK /\ ~dev.stray
  BY DEF CInv, MagicardTurn
<1>4. Query => dev' = dev
  BY <1>2 DEF Query, PlaneQuery, HitiQuery, SpoolQuery, BankQuery, DeckQuery,
     DnpQuery
<1>5. CASE Works \/ Breaks
  <2>1. SpoolWorks \/ SpoolBreaks
    BY <1>2, <1>5 DEF Works, PlaneWorks, HitiWorks, BankWorks, BankMended,
       DeckWorks, DnpWorks, SpoolMended, Breaks, PlaneBreaks, HitiBreaks,
       BankBreaks, DeckBreaks, DnpBreaks
  <2> QED  BY <1>3, <2>1 DEF SpoolWorks, SpoolBreaks, Printer, DevOK
<1>6. CASE Act
  <2>1. SendPage
    BY <1>2, <1>6 DEF Act, PlaneAct, HitiAct, SpoolAct, MagicardPage, BankAct,
       DeckAct, DnpAct, Is
  <2> QED  BY <1>3, <2>1 DEF SendPage, DevOK, Is
<1> QED  BY <1>3, <1>4, <1>5, <1>6 DEF Next, Ended, SigTerm, LinkFails, vars

-----------------------------------------------------------------------------
(* The printers with banks: as many pages of ours are left in a bank as    *)
(* were given and not printed, and the number of the job is free.          *)
BankErrors == {"none", "flagged", "status"}

BankDevs ==
  [banks : [Banks -> [id : Nat, left : Nat, mine : BOOLEAN]],
   refuse : {"no", "full", "bad"}, troubles : Nat, err : BankErrors,
   finished : BOOLEAN, stray : {FALSE}, clash : BOOLEAN, printed : Nat]

(* A status with an error in the field for errors is never one of those    *)
(* that shinkos2145 has gone on after.                                     *)
BankMem ==
  /\ DOMAIN mem = {"jobid", "last", "last_state", "set"}
  /\ mem.jobid \in 1 .. MaxJobId
  /\ Is("shinkos2145") /\ mem.last # NotRead => mem.last.err # "flagged"

BankJobOK == job.needs \in {1, 2} /\ (job.needs = 2 => Is("kodak605"))

(* What was read of the banks is what they are, or what they were.         *)
BanksSeen ==
  sts # NotRead =>
    /\ sts.err \in BankErrors
    /\ DOMAIN sts.banks = Banks
    /\ \A b \in Banks : /\ sts.banks[b].id = dev.banks[b].id
                        /\ sts.banks[b].left \in Nat
                        /\ dev.banks[b].left <= sts.banks[b].left

(* No job that is printing has the number.                                 *)
NumberFree ==
  \A b \in Banks : dev.banks[b].left > 0 => dev.banks[b].id # mem.jobid

(* The banks of the job that is sent print its copies, the two of a large  *)
(* page together.                                                          *)
OwnBanks ==
  /\ \A b \in Banks : dev.banks[b].mine =>
       dev.banks[b].left + dev.printed = job.copies
  /\ job.needs # 2 =>
       \A b, c \in Banks : dev.banks[b].mine /\ dev.banks[c].mine => b = c

BankPlace ==
  /\ state \in {<<"idle">>, <<"ready">>, <<"print">>, <<"wait">>, <<"sent">>}
  /\ OwnBanks
  /\ state \in {<<"idle">>, <<"ready">>, <<"print">>} =>
       /\ dev.printed = 0 /\ \A b \in Banks : ~dev.banks[b].mine
  /\ state \in {<<"ready">>, <<"print">>} => ~NoRoom
  /\ state = <<"ready">> /\ ~Is("shinkos6145") => NumberFree
  /\ state = <<"ready">> => job.model \in Shinkos
  /\ state = <<"print">> => job.model \notin Shinkos
  /\ state = <<"print">> => \A b \in Banks : dev.banks[b].id # mem.jobid
  /\ state \in {<<"wait">>, <<"sent">>} =>
       \E b \in Banks : dev.banks[b].mine
  /\ state = <<"wait">> =>
       \A b \in Banks : dev.banks[b].id = mem.jobid => dev.banks[b].mine

(* shinkos2145 takes the page for done.                                    *)
TakenForDone ==
  Is("shinkos2145") /\ (mem.last.finished \/ mem.last.err = "status")

BankTurn ==
  job.model \in BankModels =>
    /\ BankJobOK
    /\ dev \in BankDevs /\ BankMem
    /\ ~Is("shinkos6145") => ~dev.clash
    /\ BanksSeen
    /\ Running => BankPlace
    /\ result = "ok" /\ job.wait => TakenForDone \/ dev.printed = given

-----------------------------------------------------------------------------
(* The remainder of a number less than twice the divisor.                  *)
LEMMA ModOnce ==
  ASSUME NEW M \in Nat \ {0}, NEW x \in 0 .. 2 * M - 1
  PROVE  x % M = IF x < M THEN x ELSE x - M
<1> DEFINE a == x \div M
<1>1. a \in Int /\ x = M * a + (x % M) /\ x % M \in 0 .. M - 1
  OBVIOUS
<1> HIDE DEF a
<1>2. a < 2
  <2>1. CASE a >= 2
    <3>1. PICK d \in Nat : a = 2 + d
      BY <1>1, <2>1
    <3>2. M * a = 2 * M + M * d /\ M * d >= 0
      BY <3>1
    <3> QED  BY <1>1, <3>2
  <2> QED  BY <1>1, <2>1
<1>3. a >= 0
  <2>1. CASE a < 0
    <3>1. PICK d \in Nat : a = -1 - d
      BY <1>1, <2>1
    <3>2. M * a = -M - M * d /\ M * d >= 0
      BY <3>1
    <3> QED  BY <1>1, <3>2
  <2> QED  BY <1>1, <2>1
<1>4. CASE a = 0
  BY <1>1, <1>4
<1>5. CASE a = 1
  BY <1>1, <1>5
<1> QED  BY <1>2, <1>3, <1>4, <1>5

(* The five numbers tried for a job are numbers, and apart from each       *)
(* other.                                                                  *)
LEMMA LaterApart ==
  ASSUME mem.jobid \in 1 .. MaxJobId
  PROVE  /\ \A k \in 0 .. 4 : Later(k) \in 1 .. MaxJobId
         /\ \A k, l \in 0 .. 4 : k # l => Later(k) # Later(l)
<1> DEFINE j == mem.jobid
<1>1. MaxJobId \in Nat /\ MaxJobId > 4 /\ j \in 1 .. MaxJobId
  BY MaxJobIdAssumption
<1>2. ASSUME NEW k \in 0 .. 4
      PROVE  Later(k) = IF j + k - 1 < MaxJobId THEN j + k ELSE j + k - MaxJobId
  <2>1. j + k - 1 \in 0 .. 2 * MaxJobId - 1 /\ MaxJobId \in Nat \ {0}
    BY <1>1
  <2>2. (j + k - 1) % MaxJobId = IF j + k - 1 < MaxJobId THEN j + k - 1
                                 ELSE (j + k - 1) - MaxJobId
    <3> DEFINE x == j + k - 1
    <3>1. x \in 0 .. 2 * MaxJobId - 1
      BY <2>1
    <3> HIDE DEF x
    <3>2. x % MaxJobId = IF x < MaxJobId THEN x ELSE x - MaxJobId
      BY <2>1, <3>1, ModOnce
    <3> QED  BY <3>2, Zenon DEF x
  <2>3. Later(k) = ((j + k - 1) % MaxJobId) + 1
    BY Zenon DEF Later
  <2> DEFINE r == (j + k - 1) % MaxJobId
  <2> HIDE DEF r
  <2> QED  BY <1>1, <2>2, <2>3 DEF r
<1> HIDE DEF j
<1> QED  BY <1>1, <1>2

(* The number that is chosen is that of no bank: there are more numbers    *)
(* than banks.                                                             *)
LEMMA FreeNumber ==
  ASSUME mem.jobid \in 1 .. MaxJobId, NEW banks, DOMAIN banks \in {1 .. 2, 1 .. 4}
  PROVE  /\ FreeId(banks) \in 1 .. MaxJobId
         /\ \A b \in DOMAIN banks : banks[b].id # FreeId(banks)
<1> DEFINE held == {banks[b].id : b \in DOMAIN banks}
           Free(k) == /\ Later(k) \notin held
                      /\ \A l \in 0 .. k - 1 : Later(l) \in held
           n == CHOOSE k \in 0 .. MaxJobId - 1 : Free(k)
<1>1. /\ \A k \in 0 .. 4 : Later(k) \in 1 .. MaxJobId
      /\ \A k, l \in 0 .. 4 : k # l => Later(k) # Later(l)
  BY LaterApart
<1>2. PICK a, b, c, d : held \subseteq {a, b, c, d}
  <2>1. CASE DOMAIN banks = 1 .. 2
    <3>1. held \subseteq {banks[1].id, banks[2].id, banks[1].id, banks[2].id}
      BY <2>1
    <3> QED  BY <3>1
  <2>2. CASE DOMAIN banks = 1 .. 4
    <3>1. held \subseteq {banks[1].id, banks[2].id, banks[3].id, banks[4].id}
      BY <2>2
    <3> QED  BY <3>1
  <2> QED  BY <2>1, <2>2
<1> HIDE DEF held
<1>3. \E k \in 0 .. 4 : Later(k) \notin held
  <2> DEFINE e0 == Later(0)  e1 == Later(1)  e2 == Later(2)
             e3 == Later(3)  e4 == Later(4)
  <2>1. /\ e0 # e1 /\ e0 # e2 /\ e0 # e3 /\ e0 # e4 /\ e1 # e2
        /\ e1 # e3 /\ e1 # e4 /\ e2 # e3 /\ e2 # e4 /\ e3 # e4
    BY <1>1
  <2> HIDE DEF e0, e1, e2, e3, e4
  <2>2. ~({e0, e1, e2, e3, e4} \subseteq {a, b, c, d})
    BY <2>1
  <2>3. ~({e0, e1, e2, e3, e4} \subseteq held)
    BY <1>2, <2>2
  <2> QED  BY <2>3 DEF e0, e1, e2, e3, e4
<1>4. \E k \in 0 .. 4 : Free(k)
  <2>1. CASE Later(0) \notin held
    BY <2>1
  <2>2. CASE Later(0) \in held /\ Later(1) \notin held
    BY <2>2
  <2>3. CASE Later(0) \in held /\ Later(1) \in held /\ Later(2) \notin held
    BY <2>3
  <2>4. CASE /\ Later(0) \in held /\ Later(1) \in held /\ Later(2) \in held
             /\ Later(3) \notin held
    BY <2>4
  <2>5. CASE /\ Later(0) \in held /\ Later(1) \in held /\ Later(2) \in held
             /\ Later(3) \in held
    <3>1. Later(4) \notin held
      BY <1>3, <2>5
    <3> QED  BY <2>5, <3>1
  <2> QED  BY <2>1, <2>2, <2>3, <2>4, <2>5
<1>5. PICK m \in 0 .. 4 : Free(m)
  BY <1>4
<1>6. m \in 0 .. MaxJobId - 1
  BY MaxJobIdAssumption
<1>7. n \in 0 .. MaxJobId - 1 /\ Free(n)
  BY <1>5, <1>6, Zenon
<1>8. n \in 0 .. 4
  BY <1>3, <1>7, MaxJobIdAssumption
<1> HIDE DEF n
<1>9. Later(n) \in 1 .. MaxJobId /\ Later(n) \notin held
  BY <1>1, <1>7, <1>8
<1>10. FreeId(banks) = Later(n)
  BY Zenon DEF FreeId, n, held
<1> QED  BY <1>9, <1>10 DEF held

-----------------------------------------------------------------------------
(* Before the first page no bank is ours.                                  *)
LEMMA BankTurnInit == Init => BankTurn
<1> SUFFICES ASSUME Init, job.model \in BankModels PROVE BankTurn
  BY DEF BankTurn
<1>1. BankInit
  BY DEF Init, PlaneInit, PlaneJobs, HitiInit, HitiJobs, SpoolInit, SpoolJobs,
     SpoolModels, PrinterCopies, BankModels, Shinkos,
     DeckInit, DeckJobs, DnpInit, DnpJobs
<1>2. BankJobOK
  BY <1>1 DEF BankInit, BankJobs, BankJobOK, Is
<1>3. /\ dev \in [banks : OldBanks, refuse : {"no"}, troubles : {0},
              err : {"none"}, finished : {FALSE}, stray : {FALSE},
              clash : {FALSE}, printed : {0}]
      /\ mem \in [jobid : {MaxJobId}, last : {NotRead}, last_state : {<<>>},
              set : {FALSE}]
      /\ state = <<"idle">>
  BY <1>1 DEF BankInit
<1>4. OldBanks \subseteq [Banks -> [id : Nat, left : Nat, mine : BOOLEAN]]
  <2> DEFINE old == [id : 0 .. MaxJobId, left : {0, 1}, mine : {FALSE}]
             any == [id : Nat, left : Nat, mine : BOOLEAN]
  <2>1. old \subseteq any
    <3> SUFFICES ASSUME NEW r \in old PROVE r \in any
      OBVIOUS
    <3>2. r = [id |-> r.id, left |-> r.left, mine |-> r.mine]
          /\ r.id \in 0 .. MaxJobId /\ r.left \in {0, 1} /\ r.mine \in {FALSE}
      OBVIOUS
    <3>3. r.id \in Nat /\ r.left \in Nat /\ r.mine \in BOOLEAN
      <4>1. r.id \in Nat /\ r.left \in Nat
        BY <3>2, MaxJobIdAssumption
      <4>2. r.mine = FALSE
        BY <3>2, Zenon
      <4> QED  BY <4>1, <4>2
    <3>4. [id |-> r.id, left |-> r.left, mine |-> r.mine] \in any
      BY <3>3
    <3> QED  BY <3>2, <3>4, Zenon
  <2>2. OldBanks \subseteq [Banks -> old]
    <3>1. [b \in Banks |-> [id |-> 0, left |-> 0, mine |-> FALSE]] \in [Banks -> old]
      BY MaxJobIdAssumption
    <3>2. ASSUME NEW left \in [Banks -> {0, 1}]
          PROVE  [b \in Banks |-> [id |-> IF b = 1 THEN MaxJobId ELSE b - 1,
                                   left |-> left[b], mine |-> FALSE]]
                   \in [Banks -> old]
      <4>1. \A b \in Banks : (IF b = 1 THEN MaxJobId ELSE b - 1) \in 0 .. MaxJobId
        BY MaxJobIdAssumption DEF Banks
      <4> QED  BY <3>2, <4>1
    <3> HIDE DEF old
    <3> SUFFICES ASSUME NEW bs \in OldBanks PROVE bs \in [Banks -> old]
      OBVIOUS
    <3>3. \/ bs = [b \in Banks |-> [id |-> 0, left |-> 0, mine |-> FALSE]]
          \/ \E left \in [Banks -> {0, 1}] :
               bs = [b \in Banks |-> [id |-> IF b = 1 THEN MaxJobId ELSE b - 1,
                                     left |-> left[b], mine |-> FALSE]]
      BY Zenon DEF OldBanks
    <3> QED  BY <3>1, <3>2, <3>3, Zenon
  <2> HIDE DEF old, any
  <2>3. [Banks -> old] \subseteq [Banks -> any]
    BY <2>1
  <2> QED  BY <2>2, <2>3 DEF any
<1>5. dev \in BankDevs
  <2> DEFINE bs == [Banks -> [id : Nat, left : Nat, mine : BOOLEAN]]
  <2>1. OldBanks \subseteq bs /\ 0 \in Nat /\ "no" \in {"no", "full", "bad"}
        /\ "none" \in BankErrors
    BY <1>4 DEF BankErrors
  <2> HIDE DEF bs
  <2>2. dev \in [banks : bs, refuse : {"no", "full", "bad"}, troubles : Nat,
                 err : BankErrors, finished : BOOLEAN, stray : {FALSE},
                 clash : BOOLEAN, printed : Nat]
    BY <1>3, <2>1
  <2> QED  BY <2>2, Zenon DEF BankDevs, bs
<1>6. BankMem
  BY <1>3, MaxJobIdAssumption DEF BankMem
<1>7. \A b \in Banks : ~dev.banks[b].mine
  BY <1>3 DEF OldBanks
<1>8. sts = NotRead /\ result = "running"
  BY DEF Init
<1>9. BankPlace
  BY <1>3, <1>7 DEF BankPlace, OwnBanks
<1> QED  BY <1>2, <1>3, <1>5, <1>6, <1>8, <1>9 DEF BankTurn, BanksSeen

(* The steps of the printers with banks.                                   *)
LEMMA BankSteps ==
  ASSUME job.model \in BankModels, [Next]_vars
  PROVE  BankQuery \/ BankAct \/ BankWorks \/ BankMended \/ BankBreaks \/ Aside
<1>1. /\ job.model \notin {"canonselphy", "kodak1400"} \union SpoolModels
      /\ ~Is("hiti") /\ ~Is("magicard") /\ ~Is("mitsu70x") /\ ~Is("dnpds40")
      /\ ~Is("mitsu9550")
  BY DEF SpoolModels, PrinterCopies, BankModels, Shinkos, Is
<1>2. Query => BankQuery
  BY <1>1 DEF Query, PlaneQuery, HitiQuery, SpoolQuery, DeckQuery, DnpQuery
<1>3. Act => BankAct
  BY <1>1 DEF Act, PlaneAct, HitiAct, SpoolAct, MagicardPage, DeckAct, DnpAct
<1>4. Works => BankWorks \/ BankMended
  BY <1>1 DEF Works, PlaneWorks, HitiWorks, SpoolWorks, SpoolMended, DeckWorks,
     DnpWorks
<1>5. Breaks => BankBreaks
  BY <1>1 DEF Breaks, PlaneBreaks, HitiBreaks, SpoolBreaks, DeckBreaks, DnpBreaks
<1> QED  BY <1>2, <1>3, <1>4, <1>5, AsideSteps DEF Next, Ended

(* What is known of the job depends on the job only.                       *)
LEMMA BankJobStays ==
  ASSUME job' = job
  PROVE  /\ Banks' = Banks /\ BankDevs' = BankDevs /\ BankJobOK' = BankJobOK
         /\ \A model : Is(model)' = Is(model)
BY DEF Banks, BankDevs, BankJobOK, Is

(* What neither the loop nor the printer does leaves them where they are.  *)
LEMMA BankTurnAside ==
  ASSUME BankTurn, Aside PROVE BankTurn'
<1>1. UNCHANGED <<job, state, mem, dev, given>>
      /\ (sts' = sts \/ sts' = NotRead) /\ (result' = result \/ result' = "failed")
  BY DEF Aside
<1>2. /\ Banks' = Banks /\ BankDevs' = BankDevs /\ BankJobOK' = BankJobOK
      /\ \A model : Is(model)' = Is(model)
  BY <1>1, BankJobStays
<1>3. NoRoom' = NoRoom
  BY <1>1 DEF NoRoom, FreeBanks
<1>4. BankPlace => BankPlace'
  BY <1>1, <1>2, <1>3 DEF BankPlace, OwnBanks, NumberFree
<1>5. BanksSeen => BanksSeen'
  BY <1>1, <1>2 DEF BanksSeen
<1>6. (BankMem => BankMem') /\ TakenForDone' = TakenForDone
  BY <1>1, <1>2 DEF BankMem, TakenForDone
<1> QED  BY <1>1, <1>2, <1>4, <1>5, <1>6 DEF BankTurn, Running

(* The banks and how many of them are free.                                *)
LEMMA BanksAreFew == Banks \in {1 .. 2, 1 .. 4} /\ IsFiniteSet(Banks)
<1>1. Banks \in {1 .. 2, 1 .. 4}
  BY DEF Banks
<1>2. IsFiniteSet(1 .. 2) /\ IsFiniteSet(1 .. 4)
  <2>1. 1 \in Int /\ 2 \in Int /\ 4 \in Int
    OBVIOUS
  <2> QED  BY <2>1, FS_Interval, Zenon
<1> QED  BY <1>1, <1>2

(* What is free in an old status is free.                                  *)
LEMMA FreeIsFree ==
  ASSUME NEW old, NEW new, DOMAIN old = Banks, DOMAIN new = Banks,
         \A b \in Banks : /\ old[b].left \in Nat /\ new[b].left \in Nat
                          /\ new[b].left <= old[b].left
  PROVE  /\ Cardinality(FreeBanks(old)) \in Nat
         /\ Cardinality(FreeBanks(new)) \in Nat
         /\ Cardinality(FreeBanks(old)) <= Cardinality(FreeBanks(new))
         /\ FreeBanks(old) # {} => Cardinality(FreeBanks(old)) >= 1
<1>1. FreeBanks(old) \subseteq FreeBanks(new) /\ FreeBanks(new) \subseteq Banks
  BY DEF FreeBanks
<1>2. IsFiniteSet(FreeBanks(new)) /\ IsFiniteSet(FreeBanks(old))
  BY <1>1, BanksAreFew, FS_Subset
<1>3. Cardinality(FreeBanks(old)) <= Cardinality(FreeBanks(new))
  BY <1>1, <1>2, FS_Subset
<1>4. Cardinality(FreeBanks(old)) \in Nat /\ Cardinality(FreeBanks(new)) \in Nat
  BY <1>2, FS_CardinalityType
<1>5. FreeBanks(old) # {} => Cardinality(FreeBanks(old)) # 0
  BY <1>2, FS_EmptySet
<1> QED  BY <1>3, <1>4, <1>5

-----------------------------------------------------------------------------
(* A page of a bank is printed.                                            *)
LEMMA BankPagePrinted ==
  ASSUME BankTurn, job.model \in BankModels, Running, job.copies \in Nat \ {0},
         NEW b \in Banks, dev.banks[b].left > 0,
         Printer([dev EXCEPT
               !.banks = [c \in Banks |->
                 IF c = b \/ (job.needs = 2 /\ dev.banks[b].mine /\ dev.banks[c].mine)
                 THEN [dev.banks[c] EXCEPT !.left = @ - 1]
                 ELSE dev.banks[c]],
               !.finished = Is("shinkos2145"),
               !.printed = IF dev.banks[b].mine THEN @ + 1 ELSE @])
  PROVE  BankTurn'
<1> DEFINE Goes(c) == c = b \/ (job.needs = 2 /\ dev.banks[b].mine /\ dev.banks[c].mine)
           banks == [c \in Banks |->
                      IF Goes(c) THEN [dev.banks[c] EXCEPT !.left = @ - 1]
                                 ELSE dev.banks[c]]
           p == IF dev.banks[b].mine THEN dev.printed + 1 ELSE dev.printed
           fin == Is("shinkos2145")
<1>1. /\ UNCHANGED <<job, state, sts, mem, given, result>>
      /\ dev' = [dev EXCEPT !.banks = banks, !.finished = fin, !.printed = p]
      /\ result # "ok" /\ fin \in BOOLEAN
  BY DEF Printer, Running, Is
<1> HIDE DEF fin
<1>2. /\ Banks' = Banks /\ BankDevs' = BankDevs /\ BankJobOK' = BankJobOK
      /\ \A model : Is(model)' = Is(model)
  BY <1>1, BankJobStays
<1>3. dev \in BankDevs /\ BankPlace /\ BankJobOK /\ BanksSeen
  BY DEF BankTurn
<1>4. /\ dev.banks \in [Banks -> [id : Nat, left : Nat, mine : BOOLEAN]]
      /\ dev.printed \in Nat
  BY <1>3 DEF BankDevs
<1>5. \A c \in Banks : Goes(c) => dev.banks[c].left > 0
  BY <1>3, <1>4 DEF BankPlace, OwnBanks
<1>6. \A c \in Banks : /\ banks[c] \in [id : Nat, left : Nat, mine : BOOLEAN]
                       /\ banks[c].id = dev.banks[c].id
                       /\ banks[c].mine = dev.banks[c].mine
                       /\ banks[c].left = IF Goes(c) THEN dev.banks[c].left - 1
                                                     ELSE dev.banks[c].left
  BY <1>4, <1>5
<1>7. banks \in [Banks -> [id : Nat, left : Nat, mine : BOOLEAN]] /\ p \in Nat
      /\ DOMAIN banks = Banks
  <2>1. p \in Nat
    BY <1>4
  <2>2. DOMAIN banks = Banks /\ banks = [c \in Banks |-> banks[c]]
    OBVIOUS
  <2> HIDE DEF banks, p
  <2> QED  BY <1>6, <2>1, <2>2
<1> HIDE DEF banks
<1>8. \A c \in Banks : banks[c].mine /\ job.needs # 2 /\ dev.banks[b].mine => c = b
  BY <1>3, <1>6 DEF BankPlace, OwnBanks
<1>9. \A c \in Banks : banks[c].mine => banks[c].left + p = job.copies
  <2> SUFFICES ASSUME NEW c \in Banks, banks[c].mine
               PROVE  banks[c].left + p = job.copies
    OBVIOUS
  <2>1. dev.banks[c].mine /\ dev.banks[c].left + dev.printed = job.copies
        /\ dev.banks[c].left \in Nat
    BY <1>3, <1>4, <1>6 DEF BankPlace, OwnBanks
  <2>2. CASE dev.banks[b].mine
    <3>1. Goes(c)
      BY <1>3, <1>8, <2>1, <2>2 DEF BankJobOK
    <3>2. banks[c].left = dev.banks[c].left - 1 /\ p = dev.printed + 1
      BY <1>6, <2>2, <3>1
    <3> HIDE DEF p
    <3> QED  BY <1>4, <2>1, <3>2
  <2>3. CASE ~dev.banks[b].mine
    <3>1. ~Goes(c)
      BY <2>1, <2>3
    <3> QED  BY <1>4, <1>6, <2>1, <2>3, <3>1
  <2> QED  BY <2>2, <2>3
<1>10. /\ dev'.banks = banks /\ dev'.printed = p /\ dev'.clash = dev.clash
       /\ dev' \in BankDevs
  <2> HIDE DEF p
  <2> QED  BY <1>1, <1>3, <1>7 DEF BankDevs
<1>11. \A c \in Banks : banks[c].left <= dev.banks[c].left /\ banks[c].left \in Nat
  BY <1>4, <1>6
<1>12. OwnBanks'
  <2>1. \A c, e \in Banks : job.needs # 2 /\ banks[c].mine /\ banks[e].mine => c = e
    BY <1>3, <1>6 DEF BankPlace, OwnBanks
  <2> QED  BY <1>1, <1>2, <1>9, <1>10, <2>1 DEF OwnBanks
<1>13. ~NoRoom => ~NoRoom'
  <2>1. Cardinality(FreeBanks(dev.banks)) <= Cardinality(FreeBanks(banks))
        /\ Cardinality(FreeBanks(dev.banks)) \in Nat
        /\ Cardinality(FreeBanks(banks)) \in Nat
    <3>1. DOMAIN dev.banks = Banks
      BY <1>4
    <3> QED  BY <1>4, <1>7, <1>11, <3>1, FreeIsFree
  <2>2. job.needs \in {1, 2}
    BY <1>3 DEF BankJobOK
  <2>3. FreeBanks(dev.banks)' = FreeBanks(banks)
    BY <1>10 DEF FreeBanks
  <2> QED  BY <1>1, <2>1, <2>2, <2>3 DEF NoRoom
<1>14. BanksSeen'
  <2> SUFFICES ASSUME sts # NotRead, NEW c \in Banks
               PROVE  /\ sts.banks[c].id = banks[c].id
                      /\ banks[c].left <= sts.banks[c].left
    BY <1>1, <1>2, <1>3, <1>10 DEF BanksSeen
  <2>1. /\ sts.banks[c].id = dev.banks[c].id /\ sts.banks[c].left \in Nat
        /\ dev.banks[c].left <= sts.banks[c].left
    BY <1>3 DEF BanksSeen
  <2> QED  BY <1>4, <1>6, <1>11, <2>1
<1>15. NumberFree => NumberFree'
  BY <1>1, <1>2, <1>4, <1>6, <1>10, <1>11 DEF NumberFree
<1>16. (\A c \in Banks : ~dev.banks[c].mine) => p = dev.printed
  OBVIOUS
<1> HIDE DEF p
<1>17. BankPlace'
  BY <1>1, <1>2, <1>3, <1>6, <1>10, <1>12, <1>13, <1>15, <1>16 DEF BankPlace
<1>18. BankMem'
  BY <1>1, <1>2 DEF BankTurn, BankMem
<1> QED  BY <1>1, <1>2, <1>10, <1>14, <1>17, <1>18 DEF BankTurn, Running

-----------------------------------------------------------------------------
(* The printer works off its banks, or refuses, or is asked.               *)
LEMMA BankTurnPrinter ==
  ASSUME BankTurn, job.model \in BankModels, job.copies \in Nat \ {0},
         BankQuery \/ BankWorks \/ BankMended \/ BankBreaks
  PROVE  BankTurn'
<1>1. /\ UNCHANGED <<job, state, mem, given, result>> /\ Running
      /\ result # "ok"
  BY DEF BankQuery, BankWorks, BankMended, BankBreaks, Read, Printer, Running
<1>2. /\ Banks' = Banks /\ BankDevs' = BankDevs /\ BankJobOK' = BankJobOK
      /\ \A model : Is(model)' = Is(model)
  BY <1>1, BankJobStays
<1>3. dev \in BankDevs /\ BankPlace /\ BankJobOK /\ BanksSeen /\ BankMem
  BY <1>1 DEF BankTurn
<1>4. BankMem'
  BY <1>1, <1>2, <1>3 DEF BankMem
<1>5. ASSUME dev' \in BankDevs, dev'.banks = dev.banks, dev'.printed = dev.printed,
             dev'.clash = dev.clash, BanksSeen'
      PROVE  BankTurn'
  <2>1. NoRoom' = NoRoom
    BY <1>1, <1>5 DEF NoRoom, FreeBanks
  <2>2. BankPlace'
    BY <1>1, <1>2, <1>3, <1>5, <2>1 DEF BankPlace, OwnBanks, NumberFree
  <2> QED  BY <1>1, <1>2, <1>3, <1>4, <1>5, <2>2 DEF BankTurn, Running
<1>6. CASE BankQuery
  <2>1. dev' = dev /\ sts'.banks = dev.banks /\ sts'.err = dev.err
    BY <1>6 DEF BankQuery, Read
  <2>2. /\ dev.banks \in [Banks -> [id : Nat, left : Nat, mine : BOOLEAN]]
        /\ dev.err \in BankErrors
    BY <1>3 DEF BankDevs
  <2>3. BanksSeen'
    BY <1>2, <2>1, <2>2 DEF BanksSeen
  <2> QED  BY <1>3, <1>5, <2>1, <2>3
<1>7. ASSUME sts' = sts, dev'.banks = dev.banks PROVE BanksSeen'
  BY <1>2, <1>3, <1>7 DEF BanksSeen
<1>8. ASSUME NEW new, Printer(new), new \in BankDevs, new.banks = dev.banks,
             new.printed = dev.printed, new.clash = dev.clash
      PROVE  BankTurn'
  <2>1. sts' = sts /\ dev' = new
    BY <1>8 DEF Printer
  <2> QED  BY <1>5, <1>7, <1>8, <2>1
<1>9. CASE BankWorks
  <2>1. CASE Printer([dev EXCEPT !.refuse = "no"])
    BY <1>3, <1>8, <2>1 DEF BankDevs
  <2>2. CASE Printer([dev EXCEPT !.finished = FALSE])
    BY <1>3, <1>8, <2>2 DEF BankDevs
  <2>3. CASE /\ ~Printer([dev EXCEPT !.refuse = "no"])
             /\ ~Printer([dev EXCEPT !.finished = FALSE])
    <3>1. PICK b \in Banks :
            /\ dev.banks[b].left > 0
            /\ Printer([dev EXCEPT
               !.banks = [c \in Banks |->
                 IF c = b \/ (job.needs = 2 /\ dev.banks[b].mine /\ dev.banks[c].mine)
                 THEN [dev.banks[c] EXCEPT !.left = @ - 1]
                 ELSE dev.banks[c]],
               !.finished = Is("shinkos2145"),
               !.printed = IF dev.banks[b].mine THEN @ + 1 ELSE @])
      BY <1>9, <2>3, Zenon DEF BankWorks
    <3> QED  BY <1>1, <3>1, BankPagePrinted
  <2> QED  BY <2>1, <2>2, <2>3
<1>10. CASE BankMended
  <2>1. Printer([dev EXCEPT !.err = "none"])
    BY <1>10 DEF BankMended
  <2> QED  BY <1>3, <1>8, <2>1 DEF BankDevs, BankErrors
<1>11. CASE BankBreaks
  <2>1. dev.troubles + 1 \in Nat
    BY <1>3 DEF BankDevs
  <2>2. ASSUME NEW e \in {"flagged", "status"},
               Printer([dev EXCEPT !.err = e, !.troubles = @ + 1])
        PROVE  BankTurn'
    BY <1>3, <1>8, <2>1, <2>2 DEF BankDevs, BankErrors
  <2>3. ASSUME NEW r \in {"full", "bad"},
               Printer([dev EXCEPT !.refuse = r, !.troubles = @ + 1])
        PROVE  BankTurn'
    BY <1>3, <1>8, <2>1, <2>3 DEF BankDevs
  <2>4. \/ \E e \in {"flagged", "status"} :
             Printer([dev EXCEPT !.err = e, !.troubles = @ + 1])
        \/ \E r \in {"full", "bad"} :
             Printer([dev EXCEPT !.refuse = r, !.troubles = @ + 1])
    BY <1>11, Zenon DEF BankBreaks
  <2> QED  BY <2>2, <2>3, <2>4
<1> QED  BY <1>6, <1>9, <1>10, <1>11

-----------------------------------------------------------------------------
(* The job is sent to banks that are free, under a number that is free.    *)
LEMMA BankTaken ==
  ASSUME BankTurn, job.model \in BankModels, job.copies \in Nat \ {0},
         job' = job, dev.printed = 0, \A b \in Banks : ~dev.banks[b].mine,
         ~Is("shinkos6145") => NumberFree,
         ~NoRoom, Takes(mem.jobid)
  PROVE  /\ dev' \in BankDevs /\ OwnBanks'
         /\ ~Is("shinkos6145") => ~dev'.clash
         /\ \E b \in Banks : dev'.banks[b].mine
         /\ \A b \in Banks : dev'.banks[b].id = mem.jobid =>
              dev.banks[b].id = mem.jobid \/ dev'.banks[b].mine
<1>1. /\ Banks' = Banks /\ BankDevs' = BankDevs
  BY BankJobStays
<1>2. dev \in BankDevs /\ BankJobOK /\ BankMem
  BY DEF BankTurn
<1>3. /\ dev.banks \in [Banks -> [id : Nat, left : Nat, mine : BOOLEAN]]
      /\ mem.jobid \in Nat
  BY <1>2 DEF BankDevs, BankMem
<1>4. PICK bs \in SUBSET FreeBanks(dev.banks) :
        /\ Cardinality(bs) = job.needs
        /\ dev' = [dev EXCEPT
             !.banks = [b \in Banks |->
                         IF b \in bs
                         THEN [id |-> mem.jobid, mine |-> TRUE, left |-> job.copies]
                         ELSE dev.banks[b]],
             !.clash = @ \/ \E b \in Banks :
                      dev.banks[b].id = mem.jobid /\ dev.banks[b].left > 0]
  BY Zenon DEF Takes, Accept
<1> DEFINE banks == [b \in Banks |->
                         IF b \in bs
                         THEN [id |-> mem.jobid, mine |-> TRUE, left |-> job.copies]
                         ELSE dev.banks[b]]
           clash == dev.clash \/ \E b \in Banks :
                      dev.banks[b].id = mem.jobid /\ dev.banks[b].left > 0
<1>5. bs \subseteq Banks /\ IsFiniteSet(bs)
  <2>1. FreeBanks(dev.banks) \subseteq Banks
    BY <1>3 DEF FreeBanks
  <2> QED  BY <2>1, BanksAreFew, FS_Subset
<1>6. bs # {} /\ (job.needs # 2 => \E b : bs = {b})
  <2>1. job.needs \in {1, 2}
    BY <1>2 DEF BankJobOK
  <2>2. bs # {}
    BY <1>4, <1>5, <2>1, FS_EmptySet
  <2>3. ASSUME job.needs # 2 PROVE \E b : bs = {b}
    <3>1. Cardinality(bs) = 1
      BY <1>4, <2>1, <2>3
    <3> QED  BY <1>5, <3>1, FS_Singleton
  <2> QED  BY <2>2, <2>3
<1>7. \A b \in Banks : /\ banks[b] \in [id : Nat, left : Nat, mine : BOOLEAN]
                       /\ banks[b].mine <=> b \in bs
                       /\ b \in bs => banks[b].left = job.copies
                       /\ b \notin bs => banks[b].id = dev.banks[b].id
  BY <1>3
<1>8. banks \in [Banks -> [id : Nat, left : Nat, mine : BOOLEAN]]
  <2>1. DOMAIN banks = Banks /\ banks = [b \in Banks |-> banks[b]]
    OBVIOUS
  <2> HIDE DEF banks
  <2> QED  BY <1>7, <2>1
<1>9. clash \in BOOLEAN /\ (~Is("shinkos6145") => ~clash)
  BY DEF BankTurn, NumberFree
<1>10. dev' = [dev EXCEPT !.banks = banks, !.clash = clash]
  BY <1>4, Zenon
<1> HIDE DEF banks, clash
<1>11. /\ dev' \in BankDevs /\ dev'.banks = banks /\ dev'.clash = clash
       /\ dev'.printed = dev.printed
  BY <1>2, <1>8, <1>9, <1>10 DEF BankDevs
<1>12. OwnBanks'
  <2>1. \A b \in Banks : banks[b].mine => banks[b].left + 0 = job.copies
    BY <1>7
  <2>2. job.needs # 2 =>
          \A b, c \in Banks : banks[b].mine /\ banks[c].mine => b = c
    BY <1>6, <1>7
  <2> QED  BY <1>1, <1>11, <2>1, <2>2 DEF OwnBanks
<1>13. \E b \in Banks : banks[b].mine
  BY <1>5, <1>6, <1>7
<1> QED  BY <1>7, <1>9, <1>11, <1>12, <1>13

-----------------------------------------------------------------------------
(* A step of the loop that sends nothing.                                  *)
BankNoData ==
  /\ UNCHANGED <<job, dev, given>> /\ sts' = NotRead /\ BankMem'

(* Banks stay as they were when the loop sends nothing.                    *)
LEMMA BankNoDataSent ==
  ASSUME BankTurn, job.model \in BankModels, BankNoData,
         result' = result => BankPlace',
         result' = "ok" /\ job.wait => TakenForDone' \/ dev.printed = given,
         result' # result => result' # "running"
  PROVE  BankTurn'
<1>1. /\ Banks' = Banks /\ BankDevs' = BankDevs /\ BankJobOK' = BankJobOK
      /\ \A model : Is(model)' = Is(model)
  BY BankJobStays DEF BankNoData
<1>2. BanksSeen'
  BY DEF BankNoData, BanksSeen
<1> QED  BY <1>1, <1>2 DEF BankTurn, BankNoData, Running

(* The loop sends a page when a bank is free, under a number that is, and  *)
(* waits for its banks.                                                    *)
LEMMA BankTurnAct ==
  ASSUME BankTurn, CInv, BankAct
  PROVE  BankTurn'
<1>1. /\ job.model \in BankModels /\ Running /\ result = "running"
      /\ job' = job
  BY DEF BankAct, Running
<1>2. /\ Banks' = Banks /\ BankDevs' = BankDevs /\ BankJobOK' = BankJobOK
      /\ \A model : Is(model)' = Is(model)
  BY <1>1, BankJobStays
<1>3. dev \in BankDevs /\ BankPlace /\ BankJobOK /\ BanksSeen /\ BankMem
  BY <1>1 DEF BankTurn
<1>4. /\ job.copies \in Nat \ {0}
      /\ state \in {<<"wait">>, <<"sent">>} => given = job.copies
  <2>1. AtOnce /\ JobOK
    BY <1>1 DEF AtOnce, CInv
  <2>2. job.copies \in Nat \ {0} /\ job.batch = job.copies
    BY <2>1, Zenon DEF JobOK
  <2>3. copies = job.copies /\ (PageGiven => given = (job.copies - copies) + job.batch)
    BY <1>1, <2>1, <2>2, WantedFacts DEF CInv, CopiesAddUp
  <2>4. ~Is("hiti") /\ (state \in {<<"wait">>, <<"sent">>} => PageGiven)
    BY <1>1 DEF BankModels, Shinkos, Is, PageGiven, CopyLost
  <2> QED  BY <2>2, <2>3, <2>4
<1>5. dev.banks \in [Banks -> [id : Nat, left : Nat, mine : BOOLEAN]]
      /\ DOMAIN dev.banks = Banks
  BY <1>3 DEF BankDevs
<1>6. ASSUME NEW code, code # "running", code = "ok" => FALSE, Leaves(code)
      PROVE  BankTurn'
  <2>1. BankNoData /\ result' = code
    BY <1>1, <1>2, <1>3, <1>6 DEF Leaves, Return, GiveNone, BankNoData, BankMem
  <2> QED  BY <1>1, <1>6, <2>1, BankNoDataSent
<1>7. ASSUME Stays(state), BankMem',
             state # <<"idle">> => mem'.jobid = mem.jobid
      PROVE  BankTurn'
  <2>1. BankNoData /\ result' = result /\ state' = state
    BY <1>1, <1>7 DEF Stays, Goto, GiveNone, BankNoData
  <2>2. NoRoom' = NoRoom
    BY <1>1, <2>1 DEF NoRoom, BankNoData, FreeBanks
  <2>3. BankPlace'
    BY <1>1, <1>2, <1>3, <1>7, <2>1, <2>2
       DEF BankPlace, BankNoData, OwnBanks, NumberFree
  <2> QED  BY <1>1, <2>1, <2>3, BankNoDataSent
<1> DEFINE Calm == Is("shinkos2145") /\ sts.err = "flagged" => sts = mem.last
<1>8. ASSUME mem' = mem \/ (Calm /\ sts # NotRead /\ mem' = Seen)
      PROVE  BankMem' /\ mem'.jobid = mem.jobid
  BY <1>2, <1>3, <1>8 DEF BankMem, Seen
<1>9. ASSUME sts # NotRead
      PROVE  /\ FreeId(sts.banks) \in 1 .. MaxJobId
             /\ \A b \in Banks : dev.banks[b].id # FreeId(sts.banks)
             /\ Cardinality(FreeBanks(sts.banks)) >= job.needs => ~NoRoom
             /\ FreeBanks(sts.banks) # {} /\ job.needs = 1 => ~NoRoom
             /\ Printing(sts.banks) \/ \A b \in Banks : dev.banks[b].left = 0
  <2>1. /\ DOMAIN sts.banks = Banks
        /\ \A b \in Banks : /\ sts.banks[b].id = dev.banks[b].id
                            /\ sts.banks[b].left \in Nat
                            /\ dev.banks[b].left \in Nat
                            /\ dev.banks[b].left <= sts.banks[b].left
    BY <1>3, <1>5, <1>9 DEF BanksSeen
  <2>2. /\ FreeId(sts.banks) \in 1 .. MaxJobId
        /\ \A b \in Banks : dev.banks[b].id # FreeId(sts.banks)
    <3> DEFINE bs == sts.banks
    <3>1. DOMAIN bs \in {1 .. 2, 1 .. 4} /\ mem.jobid \in 1 .. MaxJobId
      BY <1>3, <2>1, BanksAreFew DEF BankMem
    <3> HIDE DEF bs
    <3>2. /\ FreeId(bs) \in 1 .. MaxJobId
          /\ \A b \in DOMAIN bs : bs[b].id # FreeId(bs)
      BY <3>1, FreeNumber
    <3> QED  BY <2>1, <3>2 DEF bs
  <2>3. /\ Cardinality(FreeBanks(sts.banks)) \in Nat
        /\ Cardinality(FreeBanks(dev.banks)) \in Nat
        /\ Cardinality(FreeBanks(sts.banks)) <= Cardinality(FreeBanks(dev.banks))
        /\ FreeBanks(sts.banks) # {} => Cardinality(FreeBanks(sts.banks)) >= 1
    BY <1>5, <2>1, FreeIsFree
  <2>4. Printing(sts.banks) \/ \A b \in Banks : dev.banks[b].left = 0
    BY <2>1 DEF Printing
  <2>5. job.needs \in {1, 2}
    BY <1>3 DEF BankJobOK
  <2> QED  BY <2>2, <2>3, <2>4, <2>5 DEF NoRoom
<1>10. ASSUME state \in {<<"ready">>, <<"print">>},
              NEW s \in {<<"wait">>, <<"sent">>}, Goto(s), Takes(mem.jobid),
              s = <<"wait">> => state = <<"print">>,
              BankMem', mem'.jobid = mem.jobid
       PROVE  BankTurn'
  <2>1. /\ dev.printed = 0 /\ \A b \in Banks : ~dev.banks[b].mine
    BY <1>3, <1>10 DEF BankPlace
  <2>2. ~NoRoom /\ (~Is("shinkos6145") => NumberFree)
    BY <1>3, <1>10 DEF BankPlace, NumberFree
  <2>3. /\ dev' \in BankDevs /\ OwnBanks'
        /\ ~Is("shinkos6145") => ~dev'.clash
        /\ \E b \in Banks : dev'.banks[b].mine
        /\ \A b \in Banks : dev'.banks[b].id = mem.jobid =>
              dev.banks[b].id = mem.jobid \/ dev'.banks[b].mine
    BY <1>1, <1>4, <1>10, <2>1, <2>2, BankTaken
  <2>4. state = <<"print">> => \A b \in Banks : dev.banks[b].id # mem.jobid
    BY <1>3 DEF BankPlace
  <2>5. state' = s /\ sts' = NotRead /\ result' = result
    BY <1>10 DEF Goto
  <2>6. BankPlace'
    BY <1>2, <1>10, <2>3, <2>4, <2>5 DEF BankPlace
  <2>7. BanksSeen'
    BY <1>10, <2>3, <2>5 DEF BanksSeen
  <2> QED  BY <1>1, <1>2, <1>3, <1>10, <2>3, <2>5, <2>6, <2>7
           DEF BankTurn, Running
<1>11. CASE KodakIdle /\ job.model \notin Shinkos
  <2>1. CASE Leaves("hold") \/ Leaves("failed")
    BY <1>6, <2>1
  <2>2. CASE /\ mem' = [mem EXCEPT !.jobid = FreeId(sts.banks)]
             /\ Stays(IF Cardinality(FreeBanks(sts.banks)) >= job.needs
                      THEN <<"print">> ELSE state)
    <3>1. state = <<"idle">> /\ sts # NotRead
      BY <1>11 DEF KodakIdle
    <3>2. BankMem' /\ mem'.jobid = FreeId(sts.banks)
      BY <1>2, <1>3, <1>9, <2>2, <3>1 DEF BankMem
    <3>3. CASE Cardinality(FreeBanks(sts.banks)) >= job.needs
      <4>1. BankNoData /\ result' = result /\ state' = <<"print">>
        BY <1>1, <2>2, <3>2, <3>3 DEF Stays, Goto, GiveNone, BankNoData
      <4>2. ~NoRoom'
        BY <1>9, <3>1, <3>3, <4>1 DEF NoRoom, BankNoData, FreeBanks
      <4>3. BankPlace'
        BY <1>2, <1>3, <1>9, <1>11, <3>1, <3>2, <4>1, <4>2
           DEF BankPlace, BankNoData, OwnBanks
      <4> QED  BY <1>1, <4>1, <4>3, BankNoDataSent
    <3>4. CASE ~(Cardinality(FreeBanks(sts.banks)) >= job.needs)
      <4>1. Stays(state)
        BY <2>2, <3>4
      <4> QED  BY <1>7, <3>1, <3>2, <4>1
    <3> QED  BY <3>3, <3>4
  <2> QED  BY <1>11, <2>1, <2>2, Zenon DEF KodakIdle
<1>12. CASE KodakPrint
  <2>1. state = <<"print">> /\ mem' = mem /\ BankMem'
    BY <1>8, <1>12 DEF KodakPrint
  <2>2. CASE Return("failed") /\ GiveNone /\ UNCHANGED dev
    BY <1>6, <2>1, <2>2 DEF Leaves
  <2>3. CASE Goto(<<"wait">>) /\ Takes(mem.jobid)
    BY <1>10, <2>1, <2>3
  <2> QED  BY <1>12, <2>2, <2>3, Zenon DEF KodakPrint
<1>13. ASSUME state \in {<<"wait">>, <<"sent">>}, sts # NotRead,
              ~job.wait \/ Idle \/ (OwnDone /\ state = <<"wait">>) \/ TakenForDone',
              Return("ok"), GiveNone, UNCHANGED dev, BankMem'
       PROVE  BankTurn'
  <2>1. BankNoData /\ result' = "ok"
    BY <1>1, <1>13 DEF Return, GiveNone, BankNoData
  <2>2. ASSUME job.wait, ~TakenForDone' PROVE dev.printed = given
    <3>1. PICK b \in Banks : dev.banks[b].mine /\ dev.banks[b].left = 0
      <4>1. CASE Idle
        <5>1. \A b \in Banks : dev.banks[b].left = 0
          BY <1>9, <1>13, <4>1 DEF Idle
        <5>2. \E b \in Banks : dev.banks[b].mine
          BY <1>3, <1>13, <2>2 DEF BankPlace
        <5> QED  BY <5>1, <5>2
      <4>2. CASE OwnDone /\ state = <<"wait">>
        <5>1. PICK b \in Banks : sts.banks[b].id = mem.jobid /\ sts.banks[b].left = 0
          BY <4>2 DEF OwnDone
        <5>2. dev.banks[b].id = mem.jobid /\ dev.banks[b].left <= 0
          BY <1>3, <1>13, <5>1 DEF BanksSeen
        <5>3. dev.banks[b].left = 0
          BY <1>5, <5>2
        <5>4. dev.banks[b].mine
          BY <1>3, <4>2, <5>2 DEF BankPlace
        <5> QED  BY <5>3, <5>4
      <4> QED  BY <1>13, <2>2, <4>1, <4>2
    <3>2. dev.banks[b].left + dev.printed = job.copies
      BY <1>3, <3>1 DEF BankPlace, OwnBanks
    <3>3. dev.printed \in Nat
      BY <1>3 DEF BankDevs
    <3> QED  BY <1>4, <1>13, <3>1, <3>2, <3>3
  <2> QED  BY <1>1, <2>1, <2>2, BankNoDataSent
<1>14. CASE KodakWait
  <2>1. state = <<"wait">> /\ sts # NotRead
    BY <1>14 DEF KodakWait
  <2>2. CASE Leaves("stop") \/ Leaves("failed")
    BY <1>6, <2>2
  <2>3. CASE KodakDone /\ Leaves("ok")
    <3>1. /\ Return("ok") /\ GiveNone /\ UNCHANGED dev /\ mem' = mem
      BY <2>3 DEF Leaves
    <3>2. ~job.wait \/ Idle \/ (OwnDone /\ state = <<"wait">>)
      BY <2>1, <2>3, Zenon DEF KodakDone
    <3> QED  BY <1>8, <1>13, <2>1, <3>1, <3>2
  <2>4. CASE Stays(state) /\ UNCHANGED mem
    BY <1>7, <1>8, <2>4
  <2>5. \/ Leaves("stop") \/ Leaves("failed") \/ (KodakDone /\ Leaves("ok"))
        \/ Stays(state) /\ UNCHANGED mem
    BY <1>14 DEF KodakWait
  <2> QED  BY <2>2, <2>3, <2>4, <2>5
<1>15. CASE ShinkoIdle /\ job.model \in Shinkos /\ sts # NotRead /\ Calm
  <2>1. PICK free \in BOOLEAN, checks \in BOOLEAN :
          /\ free => FreeBanks(sts.banks) # {}
          /\ ~checks /\ ~Is("shinkos6145") => Idle
          /\ Stays(IF free THEN <<"ready">> ELSE state)
          /\ mem' = [Seen EXCEPT !.jobid = IF checks THEN FreeId(sts.banks) ELSE @]
    <3> DEFINE f == FreeBanks(sts.banks) # {}
               c == ~Is("shinkos6145") /\ ~(Is("shinkos1245") /\ Idle)
    <3>1. /\ Stays(IF f THEN <<"ready">> ELSE state)
          /\ mem' = [Seen EXCEPT !.jobid = IF c THEN FreeId(sts.banks) ELSE @]
      BY <1>15, Zenon DEF ShinkoIdle
    <3>2. f \in BOOLEAN /\ c \in BOOLEAN /\ (~c /\ ~Is("shinkos6145") => Idle)
      OBVIOUS
    <3> QED  BY <3>1, <3>2, Zenon
  <2>2. state = <<"idle">>
    BY <1>15 DEF ShinkoIdle
  <2>3. /\ BankMem'
        /\ mem'.jobid = IF checks THEN FreeId(sts.banks) ELSE mem.jobid
    BY <1>2, <1>3, <1>9, <1>15, <2>1 DEF BankMem, Seen
  <2>4. CASE free
    <3>1. BankNoData /\ result' = result /\ state' = <<"ready">>
      BY <1>1, <2>1, <2>3, <2>4 DEF Stays, Goto, GiveNone, BankNoData
    <3>2. job.needs = 1
      BY <1>3, <1>15 DEF BankJobOK, Shinkos, Is
    <3>3. ~NoRoom'
      BY <1>9, <1>15, <2>1, <2>4, <3>1, <3>2 DEF NoRoom, BankNoData, FreeBanks
    <3>4. ~Is("shinkos6145") =>
            \A b \in Banks : dev.banks[b].left > 0 => dev.banks[b].id # mem'.jobid
      <4>1. CASE checks
        BY <1>9, <1>15, <2>3, <4>1
      <4>2. CASE ~checks /\ ~Is("shinkos6145")
        <5>1. \A b \in Banks : dev.banks[b].left = 0
          BY <1>9, <1>15, <2>1, <4>2 DEF Idle
        <5> QED  BY <5>1
      <4> QED  BY <4>1, <4>2
    <3>5. BankPlace'
      BY <1>2, <1>3, <1>15, <2>2, <2>3, <3>1, <3>3, <3>4
         DEF BankPlace, BankNoData, OwnBanks, NumberFree, Shinkos
    <3> QED  BY <1>1, <3>1, <3>5, BankNoDataSent
  <2>5. CASE ~free
    BY <1>7, <2>1, <2>2, <2>3, <2>5
  <2> QED  BY <2>4, <2>5
<1>16. CASE ShinkoReady /\ job.model \in Shinkos /\ sts # NotRead /\ Calm
  <2>1. state = <<"ready">>
    BY <1>16 DEF ShinkoReady
  <2>2. CASE Stays(<<"idle">>) /\ mem' = Seen
    <3>1. BankMem' /\ mem'.jobid = mem.jobid
      BY <1>8, <1>16, <2>2
    <3>2. BankNoData /\ result' = result /\ state' = <<"idle">>
      BY <1>1, <2>2, <3>1 DEF Stays, Goto, GiveNone, BankNoData
    <3>3. BankPlace'
      BY <1>2, <1>3, <2>1, <3>1, <3>2 DEF BankPlace, BankNoData, OwnBanks
    <3> QED  BY <1>1, <3>2, <3>3, BankNoDataSent
  <2>3. CASE Stays(state) /\ mem' = Seen
    BY <1>7, <1>8, <1>16, <2>3
  <2>4. CASE /\ mem' = [Seen EXCEPT !.set = TRUE]
             /\ \/ Stays(state)
                \/ Return("failed") /\ GiveNone /\ UNCHANGED dev
                \/ Goto(<<"sent">>) /\ Takes(mem.jobid)
    <3>1. BankMem' /\ mem'.jobid = mem.jobid
      BY <1>2, <1>3, <1>16, <2>4 DEF BankMem, Seen
    <3>2. CASE Stays(state)
      BY <1>7, <3>1, <3>2
    <3>3. CASE Return("failed") /\ GiveNone /\ UNCHANGED dev
      <4>1. BankNoData /\ result' = "failed"
        BY <1>1, <3>1, <3>3 DEF Return, GiveNone, BankNoData
      <4> QED  BY <1>1, <4>1, BankNoDataSent
    <3>4. CASE Goto(<<"sent">>) /\ Takes(mem.jobid)
      <4>1. <<"sent">> \in {<<"wait">>, <<"sent">>} /\ <<"sent">> # <<"wait">>
        OBVIOUS
      <4> QED  BY <1>10, <2>1, <3>1, <3>4, <4>1
    <3> QED  BY <2>4, <3>2, <3>3, <3>4
  <2>5. \/ (Stays(<<"idle">>) \/ Stays(state)) /\ mem' = Seen
        \/ /\ mem' = [Seen EXCEPT !.set = TRUE]
           /\ \/ Stays(state)
              \/ Return("failed") /\ GiveNone /\ UNCHANGED dev
              \/ Goto(<<"sent">>) /\ Takes(mem.jobid)
    BY <1>16, Zenon DEF ShinkoReady
  <2> QED  BY <2>2, <2>3, <2>4, <2>5
<1>17. CASE ShinkoSent /\ sts # NotRead /\ Calm
  <2>1. /\ state = <<"sent">> /\ GiveNone /\ UNCHANGED dev /\ mem' = Seen
        /\ BankMem' /\ mem'.jobid = mem.jobid
    BY <1>8, <1>17 DEF ShinkoSent
  <2>2. CASE (~job.wait \/ ShinkoDone) /\ Return("ok")
    <3>1. ASSUME Is("shinkos2145"), sts.finished \/ sts.err # "none"
          PROVE  TakenForDone'
      <4>1. mem'.last = sts
        BY <1>3, <2>1 DEF Seen, BankMem
      <4>2. sts.err = "flagged" => FALSE
        BY <1>3, <1>17, <3>1 DEF BankMem
      <4>3. sts.err \in BankErrors
        BY <1>3, <1>17 DEF BanksSeen
      <4> QED  BY <1>2, <3>1, <4>1, <4>2, <4>3 DEF TakenForDone, BankErrors
    <3>2. ~job.wait \/ Idle \/ TakenForDone'
      BY <2>2, <3>1, Zenon DEF ShinkoDone
    <3> QED  BY <1>13, <1>17, <2>1, <2>2, <3>2
  <2>3. CASE Goto(state)
    BY <1>7, <2>1, <2>3 DEF Stays
  <2>4. \/ (~job.wait \/ ShinkoDone) /\ Return("ok")
        \/ Goto(state)
    BY <1>17 DEF ShinkoSent
  <2> QED  BY <2>2, <2>3, <2>4
<1> QED
  <2>1. CASE job.model \in Shinkos
    <3>1. ShinkoAct
      BY <2>1 DEF BankAct
    <3>2. /\ sts # NotRead
          /\ \/ Leaves("hold") \/ Leaves("failed")
             \/ Stays(state) /\ UNCHANGED mem
             \/ ~ShinkoError /\ (ShinkoIdle \/ ShinkoReady \/ ShinkoSent)
      BY <3>1, Zenon DEF ShinkoAct
    <3>3. Stays(state) /\ UNCHANGED mem => BankTurn'
      BY <1>7, <1>8
    <3>4. Leaves("hold") \/ Leaves("failed") => BankTurn'
      BY <1>6
    <3>5. ~ShinkoError => Calm
      BY DEF ShinkoError, Is
    <3> QED  BY <1>15, <1>16, <1>17, <2>1, <3>2, <3>3, <3>4, <3>5
  <2>2. CASE job.model \notin Shinkos
    <3>1. KodakIdle \/ KodakPrint \/ KodakWait
      BY <2>2 DEF BankAct
    <3> QED  BY <1>11, <1>12, <1>14, <2>2, <3>1
  <2> QED  BY <2>1, <2>2

(* Every step keeps pages and banks in turn.                               *)
LEMMA BankTurnStep ==
  ASSUME BankTurn, CInv, [Next]_vars PROVE BankTurn'
<1>1. job' = job /\ JobOK
  BY JobStays DEF CInv
<1>2. CASE job.model \in BankModels
  <2>1. job.copies \in Nat \ {0}
    BY <1>1 DEF JobOK
  <2> QED  BY <1>2, <2>1, BankSteps, BankTurnAct, BankTurnPrinter, BankTurnAside
<1>3. CASE job.model \notin BankModels
  BY <1>1, <1>3 DEF BankTurn
<1> QED  BY <1>2, <1>3

-----------------------------------------------------------------------------
(* mitsu70x begins with the decks as the last job left them.               *)
LEMMA DeckTurnInit == Init => DeckTurn
<1> SUFFICES ASSUME Init, Is("mitsu70x") PROVE DeckTurn
  BY DEF DeckTurn
<1>1. DeckInit
  BY DEF Is, Init, PlaneInit, PlaneJobs, HitiInit, HitiJobs, SpoolInit, SpoolJobs,
     SpoolModels, PrinterCopies, BankInit, BankJobs, BankModels, Shinkos,
     DnpInit, DnpJobs
<1>2. DeckJobOK
  BY <1>1 DEF DeckInit, DeckJobs, DeckJobOK
<1>3. mem \in DeckMems
  <2>1. {0, MaxDeckJobId} \subseteq 0 .. MaxDeckJobId /\ 0 \in Nat
    BY MaxDeckJobIdAssumption
  <2>2. mem \in [jobid : {0, MaxDeckJobId}, current : {0}]
    BY <1>1 DEF DeckInit
  <2> QED  BY <2>1, <2>2 DEF DeckMems
<1>4. dev \in DeckDevs
  <2> DEFINE one == [id : {0, 1}, err : {FALSE}, copy : {"none"}]
             old == [job.decks -> one]
             any == [job.decks -> Decks]
  <2>1. dev \in [decks : old, cool : {{}}, troubles : {0, 1}, full : BOOLEAN,
                 abnormal : {FALSE}, stray : {FALSE}, clash : {FALSE}]
    BY <1>1 DEF DeckInit
  <2>2. one \subseteq Decks
    <3> SUFFICES ASSUME NEW r \in one
                 PROVE  r \in Decks
      OBVIOUS
    <3>1. /\ r.id \in Nat /\ r.copy \in {"none", "in", "lost"}
          /\ r = [id |-> r.id, err |-> r.err, copy |-> r.copy]
      OBVIOUS
    <3>2. r.err = FALSE
      BY Zenon
    <3>3. r.err \in BOOLEAN
      BY <3>2
    <3> QED  BY <3>1, <3>3, Zenon DEF Decks
  <2> HIDE DEF one
  <2>3. old \subseteq any
    BY <2>2
  <2> HIDE DEF old, any
  <2>4. {0, 1} \subseteq Nat /\ {} \in SUBSET job.decks
    OBVIOUS
  <2>5. dev \in [decks : any, cool : SUBSET job.decks, troubles : Nat,
                 full : BOOLEAN, abnormal : BOOLEAN, stray : {FALSE},
                 clash : {FALSE}]
    BY <2>1, <2>3, <2>4
  <2> QED  BY <2>5, Zenon DEF DeckDevs, any
<1>5. sts = NotRead /\ result = "running" /\ state = <<"top">>
  BY <1>1 DEF Init, DeckInit
<1>6. state[1] # "wait"
  BY <1>5
<1> QED  BY <1>2, <1>3, <1>4, <1>5, <1>6 DEF DeckTurn, DecksSeen, DeckPlace

(* The steps of mitsu70x.                                                  *)
LEMMA DeckSteps ==
  ASSUME Is("mitsu70x"), [Next]_vars
  PROVE  DeckQuery \/ DeckAct \/ DeckWorks \/ DeckBreaks \/ Aside
<1>1. /\ job.model \notin {"canonselphy", "kodak1400"} \union SpoolModels
                          \union BankModels
      /\ ~Is("hiti") /\ ~Is("magicard") /\ ~Is("dnpds40") /\ ~Is("mitsu9550")
  BY DEF SpoolModels, PrinterCopies, BankModels, Shinkos, Is
<1>2. Query => DeckQuery
  BY <1>1 DEF Query, PlaneQuery, HitiQuery, SpoolQuery, BankQuery, DnpQuery
<1>3. Act => DeckAct
  BY <1>1 DEF Act, PlaneAct, HitiAct, SpoolAct, MagicardPage, BankAct, DnpAct
<1>4. Works => DeckWorks
  BY <1>1 DEF Works, PlaneWorks, HitiWorks, SpoolWorks, SpoolMended, BankWorks,
     BankMended, DnpWorks
<1>5. Breaks => DeckBreaks
  BY <1>1 DEF Breaks, PlaneBreaks, HitiBreaks, SpoolBreaks, BankBreaks, DnpBreaks
<1> QED  BY <1>2, <1>3, <1>4, <1>5, AsideSteps DEF Next, Ended

(* What neither the loop nor the printer does leaves them where they are.  *)
LEMMA DeckTurnAside ==
  ASSUME DeckTurn, Aside PROVE DeckTurn'
<1>1. /\ UNCHANGED <<job, state, mem, dev, given>>
      /\ \/ sts' = sts /\ result' = result
         \/ sts' = NotRead /\ result' = "failed"
      /\ terminate' # terminate => Running
      /\ Is("mitsu70x")' = Is("mitsu70x")
  BY DEF Aside, Is
<1>2. DeckPlace => DeckPlace'
  BY <1>1 DEF DeckPlace, Printed
<1>3. DecksSeen => DecksSeen'
  BY <1>1 DEF DecksSeen
<1>4. DeckJobOK' = DeckJobOK /\ DeckDevs' = DeckDevs
  BY <1>1 DEF DeckJobOK, DeckDevs
<1>5. sts' = sts => (Waited(state[2]) => Waited(state[2])')
  BY <1>1 DEF Waited
<1> QED  BY <1>1, <1>2, <1>3, <1>4, <1>5 DEF DeckTurn, Running, DeckMems

(* The decks print what they have, or spoil it.                            *)
LEMMA DecksEmptied ==
  ASSUME DeckTurn, Is("mitsu70x"), Running, dev' \in DeckDevs,
         UNCHANGED <<job, state, sts, mem, result>>,
         \A d \in job.decks : dev'.decks[d].id \in {0, dev.decks[d].id},
         state[1] = "wait" => Waited(state[2])'
  PROVE  DeckTurn'
<1>1. result # "ok" /\ Is("mitsu70x")' /\ state' = state
  BY DEF Running, Is
<1>2. DeckJobOK' = DeckJobOK /\ DeckDevs' = DeckDevs
  BY DEF DeckJobOK, DeckDevs
<1>3. DeckPlace /\ DecksSeen
  BY DEF DeckTurn
<1>4. DeckPlace'
  BY <1>3 DEF DeckPlace, Printed
<1>5. DecksSeen'
  BY <1>3 DEF DecksSeen
<1> QED  BY <1>1, <1>2, <1>4, <1>5 DEF DeckTurn, DeckMems

(* The deck main_loop waits for, when it prints...                         *)
LEMMA WaitedPrints ==
  ASSUME NEW d, Waited(d), UNCHANGED <<job, sts, mem>>,
         ~dev.decks[d].err, ~Printed(d),
         dev'.decks[d] = [id |-> 0, err |-> FALSE, copy |-> "none"]
  PROVE  Waited(d)'
<1>1. dev.decks[d].copy # "lost"
  BY DEF Waited, Printed
<1>2. /\ dev'.decks[d].copy = "none" /\ dev'.decks[d].id = 0
      /\ dev'.decks[d].err = FALSE
  OBVIOUS
<1> QED  BY <1>1, <1>2 DEF Waited

(* ... when nothing happens to it...                                       *)
LEMMA WaitedStays ==
  ASSUME NEW d, Waited(d), UNCHANGED <<job, sts, mem>>,
         dev'.decks[d] = dev.decks[d], dev.abnormal => dev'.abnormal
  PROVE  Waited(d)'
BY DEF Waited

(* ... and when it fails or its copy ends abnormally.                      *)
LEMMA WaitedFails ==
  ASSUME NEW d, Waited(d), UNCHANGED <<job, sts, mem>>, mem.jobid # 0,
         dev.decks[d] \in Decks, job.decks \in {{1}, AllDecks},
         sts # NotRead => dev.decks[d].id \in {0, sts.decks[d].id},
         dev'.decks[d].id = 0,
         \/ /\ dev'.decks[d] = Failed(d) /\ dev'.abnormal = dev.abnormal
            /\ \/ job.decks # AllDecks
               \/ dev.decks[d].copy = "in" /\ sts = NotRead
               \/ /\ dev.decks[d].copy = "none"
                  /\ sts # NotRead /\ sts.decks[d].id # mem.jobid
               \/ dev.decks[d].copy = "lost"
         \/ /\ dev'.decks[d] = [id |-> 0, err |-> dev.decks[d].err, copy |-> "lost"]
            /\ dev'.abnormal /\ dev.decks[d].copy = "in"
            /\ job.decks # AllDecks \/ sts = NotRead
  PROVE  Waited(d)'
<1>1. dev.decks[d].copy \in {"none", "in", "lost"}
  BY DEF Decks
<1>2. dev.decks[d].copy = "in" /\ sts # NotRead => sts.decks[d].id = mem.jobid
  BY DEF Waited
<1>3. CASE dev'.decks[d] = Failed(d) /\ dev'.abnormal = dev.abnormal
  <2>1. /\ dev'.decks[d].err = TRUE
        /\ dev'.decks[d].copy = IF dev.decks[d].copy = "none" THEN "none" ELSE "lost"
    BY <1>3 DEF Failed
  <2>2. CASE dev.decks[d].copy = "none"
    BY <1>3, <2>1, <2>2 DEF Waited
  <2>3. CASE dev.decks[d].copy = "in"
    BY <1>2, <1>3, <2>1, <2>3 DEF Waited
  <2>4. CASE dev.decks[d].copy = "lost"
    BY <1>3, <2>1, <2>4 DEF Waited
  <2> QED  BY <1>1, <2>2, <2>3, <2>4
<1>4. CASE /\ dev'.decks[d] = [id |-> 0, err |-> dev.decks[d].err, copy |-> "lost"]
           /\ dev'.abnormal /\ dev.decks[d].copy = "in"
           /\ job.decks # AllDecks \/ sts = NotRead
  <2>1. dev'.decks[d].copy = "lost" /\ dev'.decks[d].err = dev.decks[d].err
    BY <1>4
  <2> QED  BY <1>2, <1>4, <2>1 DEF Waited
<1> QED  BY <1>3, <1>4

(* A deck that has none of its copy any more.                              *)
LEMMA DeckRecord ==
  ASSUME NEW r \in Decks, NEW what \in {"none", "lost"}
  PROVE  [r EXCEPT !.id = 0, !.copy = what]
           = [id |-> 0, err |-> r.err, copy |-> what]
<1> DEFINE new == [r EXCEPT !.id = 0, !.copy = what]
<1>1. new.id = 0 /\ new.err = r.err /\ new.copy = what
  BY DEF Decks
<1>2. new \in Decks
  BY DEF Decks
<1> HIDE DEF new
<1>3. new = [id |-> new.id, err |-> new.err, copy |-> new.copy]
  BY <1>2 DEF Decks
<1>4. new = [id |-> 0, err |-> r.err, copy |-> what]
  BY <1>1, <1>3
<1> QED  BY <1>4 DEF new

(* The decks print or spoil what they have, or fail, or are asked.         *)
LEMMA DeckTurnPrinter ==
  ASSUME CopiesPlain, DeckTurn, DeckQuery \/ DeckWorks \/ DeckBreaks
  PROVE  DeckTurn'
<1>1. /\ UNCHANGED <<job, state, mem, result>> /\ Running
      /\ result # "ok" /\ Is("mitsu70x") /\ Is("mitsu70x")'
  BY DEF DeckQuery, DeckWorks, DeckBreaks, Read, Printer, Spoils, Running, Is
<1>2. dev \in DeckDevs /\ mem \in DeckMems /\ DeckPlace /\ DeckJobOK /\ DecksSeen
  BY <1>1 DEF DeckTurn
<1>3. /\ dev.decks \in [job.decks -> Decks]
      /\ dev.cool \subseteq job.decks /\ dev.troubles + 1 \in Nat
  BY <1>2 DEF DeckDevs
<1>4. state[1] = "wait" => /\ state[2] \in job.decks /\ mem.jobid # 0
                           /\ state = <<"wait", state[2]>> /\ Waited(state[2])
  <2>1. state[1] = "wait" => Waited(state[2])
    BY <1>1 DEF DeckTurn
  <2> QED  BY <1>2, <2>1 DEF DeckPlace
<1>5. CASE DeckQuery
  <2>1. PICK current \in {dev.decks[d].id : d \in job.decks} :
          /\ current = 0 => \A d \in job.decks : Printed(d)
          /\ sts = NotRead
          /\ sts' = [decks |-> dev.decks, cool |-> dev.cool, full |-> dev.full,
                     abnormal |-> dev.abnormal, current |-> current]
    BY <1>5 DEF DeckQuery, Read
  <2>2. /\ dev' = dev /\ sts'.decks = dev.decks /\ sts'.current = current
        /\ sts'.abnormal = dev.abnormal
    BY <1>5, <2>1 DEF DeckQuery
  <2>3. current \in Nat
    BY <1>3 DEF Decks
  <2>4. ASSUME NEW d \in job.decks, dev.decks[d].id = 0, NEW e \in job.decks
        PROVE  dev.decks[e].id \in {0, current}
    BY <1>2, <2>1, <2>4 DEF DeckJobOK, AllDecks, Printed
  <2>5. DecksSeen'
    BY <1>1, <2>2, <2>3, <2>4 DEF DecksSeen
  <2>6. DeckPlace' /\ DeckJobOK' /\ DeckDevs' = DeckDevs
    BY <1>1, <1>2, <2>2 DEF DeckPlace, Printed, DeckJobOK, DeckDevs
  <2>7. state[1] = "wait" => Waited(state[2])'
    BY <1>1, <1>4, <2>1, <2>2 DEF Waited
  <2> QED  BY <1>1, <1>2, <2>2, <2>5, <2>6, <2>7 DEF DeckTurn, DeckMems
<1>6. ASSUME dev' \in DeckDevs, dev'.decks = dev.decks, sts' = sts,
             dev'.abnormal = dev.abnormal
      PROVE  DeckTurn'
  <2>1. state[1] = "wait" => Waited(state[2])'
    BY <1>1, <1>4, <1>6, WaitedStays
  <2>2. \A d \in job.decks : dev'.decks[d].id \in {0, dev.decks[d].id}
    BY <1>6
  <2> QED  BY <1>1, <1>6, <2>1, <2>2, DecksEmptied
<1>7. ASSUME NEW d \in job.decks, ~Printed(d), ~dev.decks[d].err,
             Printer([dev EXCEPT !.decks[d].id = 0, !.decks[d].copy = "none"])
      PROVE  DeckTurn'
  <2> DEFINE empty == [id |-> 0, err |-> FALSE, copy |-> "none"]
             new == [dev.decks EXCEPT ![d] = empty]
  <2>1. dev' = [dev EXCEPT !.decks = new] /\ sts' = sts
    <3>1. dev.decks[d] \in Decks /\ dev.decks[d].err = FALSE
      BY <1>3, <1>7 DEF Decks
    <3>2. [dev.decks[d] EXCEPT !.id = 0, !.copy = "none"] = empty
      BY <3>1, DeckRecord
    <3>3. dev' = [dev EXCEPT !.decks[d].id = 0, !.decks[d].copy = "none"]
          /\ sts' = sts
      BY <1>7 DEF Printer
    <3>4. [dev EXCEPT !.decks[d].id = 0, !.decks[d].copy = "none"]
            = [dev EXCEPT !.decks =
                 [dev.decks EXCEPT ![d] =
                    [dev.decks[d] EXCEPT !.id = 0, !.copy = "none"]]]
      BY <1>2, <1>3 DEF DeckDevs
    <3> QED  BY <3>2, <3>3, <3>4
  <2>2. empty \in Decks
    BY DEF Decks
  <2>3. new \in [job.decks -> Decks] /\ new[d] = empty
        /\ \A e \in job.decks \ {d} : new[e] = dev.decks[e]
    BY <1>3, <2>2
  <2> HIDE DEF new
  <2>4. dev' \in DeckDevs /\ dev'.decks = new /\ dev'.abnormal = dev.abnormal
    BY <1>2, <2>1, <2>3 DEF DeckDevs
  <2>5. \A e \in job.decks : dev'.decks[e].id \in {0, dev.decks[e].id}
    BY <2>3, <2>4
  <2>6. ASSUME state[1] = "wait" PROVE Waited(state[2])'
    <3>1. CASE state[2] = d
      BY <1>1, <1>4, <1>7, <2>1, <2>3, <2>4, <2>6, <3>1, WaitedPrints
    <3>2. CASE state[2] # d
      BY <1>1, <1>4, <2>1, <2>3, <2>4, <2>6, <3>2, WaitedStays
    <3> QED  BY <3>1, <3>2
  <2> QED  BY <1>1, <2>1, <2>4, <2>5, <2>6, DecksEmptied
<1>8. CASE DeckWorks
  <2>1. CASE \/ Printer([dev EXCEPT !.cool = {}])
             \/ Printer([dev EXCEPT !.full = FALSE])
    <3>1. /\ dev' \in DeckDevs /\ dev'.decks = dev.decks /\ sts' = sts
          /\ dev'.abnormal = dev.abnormal
      BY <1>2, <2>1 DEF Printer, DeckDevs
    <3> QED  BY <1>6, <3>1
  <2> QED  BY <1>7, <1>8, <2>1 DEF DeckWorks
<1>9. CASE DeckBreaks
  <2>1. ASSUME NEW ds \in SUBSET job.decks, \A d \in ds : MayFail(d), NEW spoilt,
               Spoils([dev EXCEPT
                 !.decks = [d \in job.decks |-> IF d \in ds THEN Failed(d) ELSE @[d]],
                 !.troubles = @ + 1], spoilt)
        PROVE  DeckTurn'
    <3> DEFINE new == [d \in job.decks |->
                        IF d \in ds THEN Failed(d) ELSE dev.decks[d]]
    <3>1. dev' = [dev EXCEPT !.decks = new, !.troubles = @ + 1] /\ sts' = sts
      BY <2>1 DEF Spoils
    <3>2. \A d \in job.decks : Failed(d) \in Decks /\ Failed(d).id = 0
      BY <1>3 DEF Failed, Decks
    <3>3. /\ new \in [job.decks -> Decks]
          /\ \A d \in job.decks : new[d] = IF d \in ds THEN Failed(d) ELSE dev.decks[d]
      BY <1>3, <3>2
    <3> HIDE DEF new
    <3>4. dev' \in DeckDevs /\ dev'.decks = new /\ dev'.abnormal = dev.abnormal
      BY <1>2, <1>3, <3>1, <3>3 DEF DeckDevs
    <3>5. \A d \in job.decks : dev'.decks[d].id \in {0, dev.decks[d].id}
      BY <3>2, <3>3, <3>4
    <3>6. ASSUME state[1] = "wait" PROVE Waited(state[2])'
      <4>1. PICK d \in job.decks : /\ mem.jobid # 0 /\ Waited(d) /\ d = state[2]
                                  /\ state = <<"wait", d>>
        BY <1>4, <3>6
      <4>2. CASE d \notin ds
        <5>1. dev'.decks[d] = dev.decks[d]
          BY <3>3, <3>4, <4>1, <4>2
        <5>2. Waited(d)'
          BY <1>1, <3>1, <3>4, <4>1, <5>1, WaitedStays
        <5> QED  BY <1>1, <4>1, <5>2
      <4>3. CASE d \in ds
        <5>1. dev'.decks[d] = Failed(d) /\ dev'.decks[d].id = 0
          BY <3>2, <3>3, <3>4, <4>1, <4>3
        <5>2. MayFail(d) /\ ~May("fail unwatched") /\ ~May("fail when done")
          BY <1>1, <2>1, <4>3 DEF CopiesPlain, May, Is
        <5>3. \/ job.decks # AllDecks
              \/ dev.decks[d].copy = "in" /\ sts = NotRead
              \/ /\ dev.decks[d].copy = "none"
                 /\ sts # NotRead /\ sts.decks[d].id # mem.jobid
              \/ dev.decks[d].copy = "lost"
          BY <4>1, <5>2, Zenon DEF MayFail, Watched
        <5>4. dev.decks[d] \in Decks /\ job.decks \in {{1}, AllDecks}
              /\ (sts # NotRead => dev.decks[d].id \in {0, sts.decks[d].id})
          BY <1>2, <1>3, <4>1 DEF DeckJobOK, DecksSeen
        <5>5. Waited(d)'
          BY <1>1, <3>1, <3>4, <4>1, <5>1, <5>3, <5>4, WaitedFails
        <5> QED  BY <1>1, <4>1, <5>5
      <4> QED  BY <4>2, <4>3
    <3> QED  BY <1>1, <3>1, <3>4, <3>5, <3>6, DecksEmptied
  <2>2. ASSUME NEW d \in job.decks,
               Printer([dev EXCEPT !.cool = @ \union {d}, !.troubles = @ + 1])
        PROVE  DeckTurn'
    <3>1. /\ dev' \in DeckDevs /\ dev'.decks = dev.decks /\ sts' = sts
          /\ dev'.abnormal = dev.abnormal
      BY <1>2, <1>3, <2>2 DEF Printer, DeckDevs
    <3> QED  BY <1>6, <3>1
  <2>3. ASSUME state[1] = "wait", dev.decks[state[2]].copy = "in",
               job.decks # AllDecks \/ Watched(state[2]) \/ May("fail unwatched"),
               Spoils([dev EXCEPT !.abnormal = TRUE, !.troubles = @ + 1,
                  !.decks[state[2]].id = 0, !.decks[state[2]].copy = "lost"],
                  {state[2]})
        PROVE  DeckTurn'
    <3>1. PICK d \in job.decks : /\ mem.jobid # 0 /\ Waited(d) /\ d = state[2]
                                /\ state = <<"wait", d>>
      BY <1>4, <2>3
    <3> DEFINE gone == [id |-> 0, err |-> dev.decks[d].err, copy |-> "lost"]
               new == [dev.decks EXCEPT ![d] = gone]
    <3>2. dev.decks[d] \in Decks
      BY <1>3, <3>1
    <3>3. /\ dev' = [dev EXCEPT !.abnormal = TRUE, !.troubles = @ + 1,
                       !.decks[d].id = 0, !.decks[d].copy = "lost"]
          /\ sts' = sts
      BY <2>3, <3>1 DEF Spoils
    <3>4. job.decks # AllDecks \/ sts = NotRead
      BY <1>1, <2>3, <3>1 DEF CopiesPlain, May, Is, Watched
    <3>5. dev.decks[d].copy = "in"
      BY <2>3, <3>1
    <3>6. [dev.decks[d] EXCEPT !.id = 0, !.copy = "lost"] = gone
      BY <3>2, DeckRecord
    <3>7. dev' = [dev EXCEPT !.abnormal = TRUE, !.troubles = @ + 1,
                    !.decks = [dev.decks EXCEPT ![d] =
                      [dev.decks[d] EXCEPT !.id = 0, !.copy = "lost"]]]
      BY <1>2, <1>3, <3>1, <3>3 DEF DeckDevs
    <3>8. dev' = [dev EXCEPT !.abnormal = TRUE, !.troubles = @ + 1, !.decks = new]
      BY <3>6, <3>7
    <3>9. gone \in Decks
      BY <3>2 DEF Decks
    <3>10. new \in [job.decks -> Decks] /\ new[d] = gone
           /\ \A e \in job.decks \ {d} : new[e] = dev.decks[e]
      BY <1>3, <3>1, <3>9
    <3> HIDE DEF new
    <3>11. dev' \in DeckDevs /\ dev'.decks = new /\ dev'.abnormal = TRUE
      BY <1>2, <1>3, <3>8, <3>10 DEF DeckDevs
    <3>12. \A e \in job.decks : dev'.decks[e].id \in {0, dev.decks[e].id}
      BY <3>10, <3>11
    <3>13. job.decks \in {{1}, AllDecks}
           /\ (sts # NotRead => dev.decks[d].id \in {0, sts.decks[d].id})
      BY <1>2, <3>1 DEF DeckJobOK, DecksSeen
    <3>14. dev'.decks[d] = gone /\ dev'.decks[d].id = 0
      BY <3>10, <3>11
    <3>15. Waited(d)'
      BY <1>1, <3>1, <3>2, <3>3, <3>4, <3>5, <3>11, <3>13, <3>14, WaitedFails
    <3> QED  BY <1>1, <3>1, <3>3, <3>11, <3>12, <3>15, DecksEmptied
  <2>4. \/ \E ds \in SUBSET job.decks :
            /\ \A d \in ds : MayFail(d)
            /\ Spoils([dev EXCEPT
                 !.decks = [d \in job.decks |-> IF d \in ds THEN Failed(d) ELSE @[d]],
                 !.troubles = @ + 1],
                 {d \in ds : dev.decks[d].copy = "in"})
        \/ \E d \in job.decks :
             Printer([dev EXCEPT !.cool = @ \union {d}, !.troubles = @ + 1])
        \/ /\ state[1] = "wait" /\ dev.decks[state[2]].copy = "in"
           /\ job.decks # AllDecks \/ Watched(state[2]) \/ May("fail unwatched")
           /\ Spoils([dev EXCEPT !.abnormal = TRUE, !.troubles = @ + 1,
                !.decks[state[2]].id = 0, !.decks[state[2]].copy = "lost"],
                {state[2]})
    BY <1>9, Zenon DEF DeckBreaks
  <2> QED  BY <2>1, <2>2, <2>3, <2>4
<1> QED  BY <1>5, <1>8, <1>9

-----------------------------------------------------------------------------
(* The number of a copy is a number, and not that of the copy that prints. *)
LEMMA NextJobIdIsFree ==
  ASSUME mem \in DeckMems
  PROVE  /\ NextJobId \in 1 .. MaxDeckJobId
         /\ NextJobId # mem.current
<1> DEFINE id == IF mem.jobid = 0 THEN 1 ELSE mem.jobid
           M == MaxDeckJobId
<1>1. M \in Nat \ {0} /\ M > 3
  BY MaxDeckJobIdAssumption
<1>2. id \in 1 .. M
  BY <1>1 DEF DeckMems
<1>3. NextJobId = IF id = mem.current THEN (id % M) + 1 ELSE id
  BY Zenon DEF NextJobId
<1> HIDE DEF id, M
<1>4. id % M = IF id < M THEN id ELSE id - M
  <2>1. M \in Nat \ {0} /\ id \in 0 .. 2 * M - 1
    BY <1>1, <1>2
  <2> QED  BY <2>1, ModOnce
<1>5. (id % M) + 1 \in 1 .. M /\ (id % M) + 1 # id
  BY <1>1, <1>2, <1>4
<1>6. CASE id = mem.current
  BY <1>3, <1>5, <1>6 DEF M
<1>7. CASE id # mem.current
  BY <1>2, <1>3, <1>7 DEF M
<1> QED  BY <1>6, <1>7

(* The loop gives a copy to a deck that has none, and waits for the last   *)
(* one.                                                                    *)
LEMMA DeckTurnAct ==
  ASSUME DeckTurn, CInv, DeckAct
  PROVE  DeckTurn'
<1>1. /\ Is("mitsu70x") /\ Is("mitsu70x")' /\ Running /\ result = "running"
      /\ sts # NotRead /\ job' = job /\ terminate' = terminate
  BY DEF DeckAct, Running, Is
<1>2. DeckJobOK' = DeckJobOK /\ DeckDevs' = DeckDevs
  BY <1>1 DEF DeckJobOK, DeckDevs
<1>3. /\ dev \in DeckDevs /\ mem \in DeckMems /\ DeckPlace /\ DeckJobOK /\ DecksSeen
  BY <1>1 DEF DeckTurn
<1>4. /\ dev.decks \in [job.decks -> Decks]
      /\ copies \in Nat
  BY <1>1, <1>3, WantedFacts DEF DeckDevs, CInv, CopiesAddUp, JobOK
<1>5. ASSUME sts' = NotRead, dev' \in DeckDevs, mem' \in DeckMems,
             result' = result =>
               DeckPlace' /\ (state'[1] = "wait" => Waited(state[2])'),
             result' # result => result' \notin {"running", "ok"}
      PROVE  DeckTurn'
  BY <1>1, <1>2, <1>3, <1>5 DEF DeckTurn, DecksSeen, Running, DeckMems
<1>6. ASSUME NEW code \in {"cancel", "stop", "hold"}, Return(code),
             UNCHANGED <<dev, mem>>
      PROVE  DeckTurn'
  BY <1>1, <1>3, <1>5, <1>6 DEF Return
<1>7. ASSUME Goto(<<"top">>), UNCHANGED <<dev, mem>> PROVE DeckTurn'
  <2>1. state'[1] # "wait"
    BY <1>7 DEF Goto
  <2> QED  BY <1>3, <1>5, <1>7, <2>1 DEF Goto, DeckPlace
<1>8. CASE DeckTop
  <2>1. CASE \E d \in Usable : Goto(<<"memory", d>>)
             /\ mem' = [mem EXCEPT !.current = sts.current] /\ UNCHANGED dev
    <3>1. PICK d \in Usable : Goto(<<"memory", d>>)
      BY <2>1
    <3>2. d \in job.decks /\ sts.decks[d].id = 0
      BY <1>3 DEF Usable, Legal, DeckJobOK
    <3>3. /\ mem' \in DeckMems /\ mem'.current = sts.current /\ dev' = dev
          /\ state' = <<"memory", d>> /\ sts' = NotRead /\ result' = result
      BY <1>1, <1>3, <2>1, <3>1 DEF DeckMems, DecksSeen, Goto
    <3>4. dev.decks[d].id = 0
          /\ \A e \in job.decks : dev.decks[e].id \in {0, sts.current}
      BY <1>1, <1>3, <3>2 DEF DecksSeen
    <3>5. DeckPlace' /\ state'[1] # "wait"
      BY <1>1, <3>2, <3>3, <3>4 DEF DeckPlace, Printed
    <3> QED  BY <1>3, <1>5, <3>3, <3>5
  <2>2. \/ Return("cancel") /\ UNCHANGED <<dev, mem>>
        \/ Return("stop") /\ UNCHANGED <<dev, mem>>
        \/ Return("hold") /\ UNCHANGED <<dev, mem>>
        \/ Goto(<<"top">>) /\ UNCHANGED <<dev, mem>>
        \/ \E d \in Usable : Goto(<<"memory", d>>)
             /\ mem' = [mem EXCEPT !.current = sts.current] /\ UNCHANGED dev
    BY <1>8 DEF DeckTop, DeckLeaves
  <2> QED  BY <1>6, <1>7, <2>1, <2>2
<1>9. CASE DeckMemory
  <2>1. PICK d \in job.decks :
          /\ state = <<"memory", d>> /\ dev.decks[d].id = 0
          /\ \A e \in job.decks : dev.decks[e].id \in {0, mem.current}
    BY <1>3, <1>9 DEF DeckMemory, DeckPlace, Printed
  <2>2. state[2] = d
    BY <2>1
  <2>3. CASE Goto(<<"wait", d>>) /\ SendCopy(d)
    <3>1. NextJobId \in 1 .. MaxDeckJobId /\ NextJobId # mem.current
      BY <1>3, NextJobIdIsFree
    <3> DEFINE n == NextJobId
               clash == dev.clash \/ \E e \in job.decks : dev.decks[e].id = n
               stray == dev.stray \/ ~Printed(d)
               lost == dev.decks[d].err /\ job.decks = AllDecks
               sent == [id |-> n, err |-> dev.decks[d].err,
                        copy |-> IF lost THEN "lost" ELSE "in"]
               new == [dev.decks EXCEPT ![d] = sent]
    <3>2. clash = FALSE /\ stray = FALSE
      <4>1. ~dev.clash /\ ~dev.stray
        BY <1>3 DEF DeckDevs
      <4>2. \A e \in job.decks : dev.decks[e].id # n
        BY <2>1, <3>1
      <4> QED  BY <2>1, <4>1, <4>2 DEF Printed
    <3>3. sent \in Decks
      <4>1. dev.decks[d] \in Decks /\ n \in Nat
        BY <1>4, <3>1
      <4> QED  BY <4>1 DEF Decks
    <3>4. dev' = [dev EXCEPT !.decks = new, !.stray = stray, !.clash = clash]
      BY <2>3, Zenon DEF SendCopy
    <3>5. mem' = [mem EXCEPT !.jobid = n] /\ n \in 0 .. MaxDeckJobId /\ n # 0
      BY <2>3, <3>1 DEF SendCopy
    <3> HIDE DEF n, clash, stray
    <3>6. new \in [job.decks -> Decks] /\ new[d] = sent
      BY <1>4, <3>3
    <3> HIDE DEF new
    <3>7. dev' \in DeckDevs /\ dev'.decks[d] = sent
      BY <1>3, <3>2, <3>4, <3>6 DEF DeckDevs
    <3>8. mem' \in DeckMems /\ mem'.jobid = n
      BY <1>3, <3>5 DEF DeckMems
    <3>9. state' = <<"wait", d>> /\ sts' = NotRead /\ result' = result
      BY <2>3 DEF Goto
    <3>10. DeckPlace'
      BY <1>1, <3>5, <3>8, <3>9 DEF DeckPlace
    <3>11. Waited(d)'
      BY <1>1, <3>7, <3>8, <3>9 DEF Waited
    <3> QED  BY <1>5, <2>2, <3>7, <3>8, <3>9, <3>10, <3>11
  <2>4. \/ Return("cancel") /\ UNCHANGED <<dev, mem>>
        \/ Goto(<<"top">>) /\ UNCHANGED <<dev, mem>>
        \/ Goto(<<"wait", d>>) /\ SendCopy(d)
    BY <1>9, <2>2 DEF DeckMemory, DeckLeaves
  <2> QED  BY <1>6, <1>7, <2>3, <2>4
<1>10. CASE DeckWait
  <2>1. PICK d \in job.decks : state = <<"wait", d>> /\ mem.jobid # 0
    BY <1>3, <1>10 DEF DeckWait, DeckPlace
  <2>2. state[2] = d /\ state[1] = "wait"
    BY <2>1
  <2>3. UNCHANGED <<dev, mem>>
    BY <1>10 DEF DeckWait
  <2>4. Waited(d)
    BY <1>1, <2>2 DEF DeckTurn
  <2>5. CASE /\ NextCopy(CopiesLeft, <<"top">>) /\ ~sts.decks[d].err
             /\ \/ sts.decks[d].id # mem.jobid /\ ~sts.abnormal
                \/ ~job.wait
                \/ Cardinality(job.decks) > 1 /\ copies > 1
    <3>1. CASE result' # "ok"
      <4>1. state' = <<"top">> /\ sts' = NotRead /\ result' = result
        BY <2>5, <3>1 DEF NextCopy
      <4>2. state'[1] # "wait"
        BY <4>1
      <4> QED  BY <1>3, <1>5, <2>3, <4>1, <4>2 DEF DeckPlace
    <3>2. CASE result' = "ok"
      <4>1. state' = state /\ sts' = NotRead /\ CopiesLeft = 0
        BY <1>1, <2>5, <3>2 DEF NextCopy
      <4>2. ASSUME job.wait => \/ dev.decks[d].copy = "none"
                               \/ terminate /\ job.decks = AllDecks
            PROVE  DeckTurn'
        BY <1>1, <1>2, <1>3, <2>2, <2>3, <3>2, <4>1, <4>2
           DEF DeckTurn, DecksSeen, Running, DeckMems
      <4>3. CASE sts.decks[d].id # mem.jobid /\ ~sts.abnormal
        <5>1. dev.decks[d].id # mem.jobid
          BY <1>1, <1>3, <2>1, <4>3 DEF DecksSeen
        <5>2. dev.decks[d].copy \notin {"in", "lost"}
          BY <1>1, <2>4, <2>5, <4>3, <5>1 DEF Waited
        <5>3. dev.decks[d].copy \in {"none", "in", "lost"}
          BY <1>4 DEF Decks
        <5> QED  BY <4>2, <5>2, <5>3
      <4>4. CASE ~job.wait
        BY <4>2, <4>4
      <4>5. CASE Cardinality(job.decks) > 1 /\ copies > 1
        <5>1. terminate
          BY <1>4, <4>1, <4>5 DEF CopiesLeft
        <5>2. job.decks = AllDecks
          <6>1. Cardinality({1}) = 1
            BY FS_Singleton
          <6> QED  BY <1>3, <4>5, <6>1 DEF DeckJobOK
        <5> QED  BY <4>2, <5>1, <5>2
      <4> QED  BY <2>5, <4>3, <4>4, <4>5
    <3> QED  BY <3>1, <3>2
  <2>6. CASE Goto(state) /\ ~sts.decks[d].err /\ sts.decks[d].id = mem.jobid
    <3>1. state' = state /\ sts' = NotRead /\ result' = result
      BY <2>6 DEF Goto
    <3>2. DeckPlace'
      BY <1>1, <2>1, <2>3, <3>1 DEF DeckPlace
    <3>3. Waited(d)'
      BY <1>1, <2>3, <2>4, <2>6, <3>1 DEF Waited
    <3> QED  BY <1>3, <1>5, <2>2, <2>3, <3>1, <3>2, <3>3
  <2>7. \/ Return("stop") \/ Goto(<<"top">>)
        \/ Goto(state) /\ ~sts.decks[d].err /\ sts.decks[d].id = mem.jobid
        \/ /\ NextCopy(CopiesLeft, <<"top">>) /\ ~sts.decks[d].err
           /\ \/ sts.decks[d].id # mem.jobid /\ ~sts.abnormal
              \/ ~job.wait
              \/ Cardinality(job.decks) > 1 /\ copies > 1
    BY <1>10, <2>2 DEF DeckWait
  <2> QED  BY <1>6, <1>7, <2>3, <2>5, <2>6, <2>7
<1> QED  BY <1>8, <1>9, <1>10 DEF DeckAct

(* Every step keeps copies and decks in turn.                              *)
LEMMA DeckTurnStep ==
  ASSUME CopiesPlain, DeckTurn, CInv, [Next]_vars PROVE DeckTurn'
<1>1. job' = job
  BY JobStays
<1>2. CASE Is("mitsu70x")
  BY <1>2, DeckSteps, DeckTurnAct, DeckTurnPrinter, DeckTurnAside
<1>3. CASE ~Is("mitsu70x")
  BY <1>1, <1>3 DEF DeckTurn, Is
<1> QED  BY <1>2, <1>3

-----------------------------------------------------------------------------
(* dnpds40: the printer holds what was given and not printed, and never    *)
(* more pages than it has been seen to hold.                               *)
DnpJobOK ==
  /\ job.rewind \in BOOLEAN /\ job.matte \in BOOLEAN /\ job.manual \in BOOLEAN
  /\ job.part \in {"page", "matte1", "matte2", "panel"}
  /\ job.rewind => job.part = "page"
  /\ job.rewind /\ job.manual => job.copies = 1

DnpQueues ==
  {<< >>, <<"other">>, <<"mine">>, <<"other", "mine">>, <<"mine", "mine">>}

(* How many copies of ours the printer still has to print.                 *)
Held(queue) ==
  IF queue = <<"mine", "mine">> THEN job.batch + job.batch
  ELSE IF queue \in {<< >>, <<"other">>} THEN 0 ELSE job.batch

DnpDevs ==
  [queue : DnpQueues, matte : BOOLEAN, cool : BOOLEAN, troubles : Nat,
   asleep : BOOLEAN, err : {"none", "fault", "data"}, stray : {FALSE},
   printed : Nat]

DnpMems ==
  [buf_needed : {1, 2}, needed : {1, 2}, rewinds : Nat, started : BOOLEAN,
   pano : Nat, partial : {"page", "matte1", "matte2", "panel"},
   status : {"idle", "fault", "data"}]

(* Everything given is printed, or the printer has reported an error, or   *)
(* dnpds40 does not wait for it.                                           *)
Through ==
  \/ mem.status \in {"fault", "data"} \/ mem.pano # 0 \/ job.part = "matte1"
  \/ dev.printed = given /\ dev.queue = << >>

(* What was read of the printer is what it is, or what it was.             *)
DnpSeen ==
  sts # NotRead =>
    /\ sts.err \in {"none", "fault", "data"}
    /\ sts.pages \in Nat /\ Len(dev.queue) <= sts.pages
    /\ sts.asleep => dev.queue = << >>

DnpPlace ==
  /\ state \in {<<"top">>, <<"buffers">>, <<"panorama">>, <<"wait">>, <<"done">>}
  /\ state \in {<<"top">>, <<"buffers">>, <<"panorama">>} =>
       /\ job.matte # dev.matte => mem.buf_needed = 2
       /\ mem.rewinds = 0
  /\ state \in {<<"wait">>, <<"done">>} => job.matte = dev.matte
  /\ state = <<"done">> /\ job.wait => Through

DnpTurn ==
  Is("dnpds40") =>
    /\ DnpJobOK
    /\ dev \in DnpDevs /\ mem \in DnpMems
    /\ dev.printed + Held(dev.queue) = given
    /\ dev.asleep => dev.queue = << >>
    /\ ~job.rewind => mem.rewinds = 0
    /\ mem.partial = "matte1" <=> job.part = "matte1"
    /\ DnpSeen
    /\ Running => DnpPlace
    /\ result = "ok" /\ job.wait => Through

(* The queue of dnpds40, printed or added to.                              *)
LEMMA DnpQueueSteps ==
  /\ Append(<< >>, "mine") = <<"mine">>
  /\ Append(<<"other">>, "mine") = <<"other", "mine">>
  /\ Append(<<"mine">>, "mine") = <<"mine", "mine">>
  /\ Tail(<<"other">>) = << >> /\ Head(<<"other">>) = "other"
  /\ Tail(<<"mine">>) = << >> /\ Head(<<"mine">>) = "mine"
  /\ Tail(<<"other", "mine">>) = <<"mine">> /\ Head(<<"other", "mine">>) = "other"
  /\ Tail(<<"mine", "mine">>) = <<"mine">> /\ Head(<<"mine", "mine">>) = "mine"
<1>1. Append(<< >>, "mine") = <<"mine">>
  OBVIOUS
<1>2. ASSUME NEW a \in {"other", "mine"}
      PROVE  Append(<<a>>, "mine") = <<a, "mine">>
  <2> DEFINE S == {"other", "mine"}
             q == Append(<<a>>, "mine")
  <2>1. <<a>> \in Seq(S) /\ "mine" \in S /\ <<a, "mine">> \in Seq(S)
        /\ Len(<<a>>) = 1
    OBVIOUS
  <2>2. q \in Seq(S) /\ Len(q) = 2 /\ q[1] = a /\ q[2] = "mine"
    BY <2>1, AppendProperties
  <2> HIDE DEF q
  <2>3. q = <<a, "mine">>
    BY <2>2
  <2> QED  BY <2>3 DEF q
<1>3. /\ Append(<<"other">>, "mine") = <<"other", "mine">>
      /\ Append(<<"mine">>, "mine") = <<"mine", "mine">>
  BY <1>2
<1>4. /\ Tail(<<"other">>) = << >> /\ Head(<<"other">>) = "other"
      /\ Tail(<<"mine">>) = << >> /\ Head(<<"mine">>) = "mine"
  OBVIOUS
<1>5. Head(<<"other", "mine">>) = "other" /\ Head(<<"mine", "mine">>) = "mine"
  OBVIOUS
<1>6. Tail(<<"other", "mine">>) = <<"mine">> /\ Tail(<<"mine", "mine">>) = <<"mine">>
  OBVIOUS
<1> QED  BY <1>1, <1>3, <1>4, <1>5, <1>6

(* No two of them are the same.                                            *)
LEMMA DnpQueuesDiffer ==
  /\ << >> # <<"other">> /\ << >> # <<"mine">>
  /\ << >> # <<"other", "mine">> /\ << >> # <<"mine", "mine">>
  /\ <<"other">> # <<"mine">>
  /\ <<"other">> # <<"other", "mine">> /\ <<"other">> # <<"mine", "mine">>
  /\ <<"mine">> # <<"other", "mine">> /\ <<"mine">> # <<"mine", "mine">>
  /\ <<"other", "mine">> # <<"mine", "mine">>
<1>1. /\ Len(<< >>) = 0 /\ Len(<<"other">>) = 1 /\ Len(<<"mine">>) = 1
      /\ Len(<<"other", "mine">>) = 2 /\ Len(<<"mine", "mine">>) = 2
  OBVIOUS
<1>2. /\ <<"other">>[1] = "other" /\ <<"mine">>[1] = "mine" /\ "other" # "mine"
      /\ <<"other", "mine">>[1] = "other" /\ <<"mine", "mine">>[1] = "mine"
  OBVIOUS
<1>3. /\ << >> # <<"other">> /\ << >> # <<"mine">>
      /\ << >> # <<"other", "mine">> /\ << >> # <<"mine", "mine">>
      /\ <<"other">> # <<"other", "mine">> /\ <<"other">> # <<"mine", "mine">>
      /\ <<"mine">> # <<"other", "mine">> /\ <<"mine">> # <<"mine", "mine">>
  BY <1>1
<1>4. <<"other">> # <<"mine">> /\ <<"other", "mine">> # <<"mine", "mine">>
  BY <1>2
<1> QED  BY <1>3, <1>4

(* How many pages are in it, and how many copies of ours.                  *)
LEMMA DnpQueueHolds ==
  ASSUME NEW q \in DnpQueues
  PROVE  /\ Len(q) \in Nat
         /\ Len(q) = 0 <=> q = << >>
         /\ Len(q) < 2 <=> q \in {<< >>, <<"other">>, <<"mine">>}
         /\ Held(<< >>) = 0 /\ Held(<<"other">>) = 0
         /\ Held(<<"mine">>) = job.batch
         /\ Held(<<"other", "mine">>) = job.batch
         /\ Held(<<"mine", "mine">>) = job.batch + job.batch
<1>1. /\ Len(<< >>) = 0 /\ Len(<<"other">>) = 1 /\ Len(<<"mine">>) = 1
      /\ Len(<<"other", "mine">>) = 2 /\ Len(<<"mine", "mine">>) = 2
  OBVIOUS
<1>2. Len(q) \in Nat
  BY <1>1 DEF DnpQueues
<1>3. Len(q) = 0 <=> q = << >>
  BY <1>1, DnpQueuesDiffer DEF DnpQueues
<1>4. Len(q) < 2 <=> q \in {<< >>, <<"other">>, <<"mine">>}
  BY <1>1, DnpQueuesDiffer DEF DnpQueues
<1>5. Held(<< >>) = 0 /\ Held(<<"other">>) = 0
  BY DnpQueuesDiffer DEF Held
<1>6. Held(<<"mine">>) = job.batch /\ Held(<<"other", "mine">>) = job.batch
  BY DnpQueuesDiffer DEF Held
<1>7. Held(<<"mine", "mine">>) = job.batch + job.batch
  BY DEF Held
<1> QED  BY <1>2, <1>3, <1>4, <1>5, <1>6, <1>7

RewindsOnce == <<"dnpds40", "rewind copies">> \notin Hitches

(* dnpds40 begins with as many buffers to wait for as the overcoat asks    *)
(* for.                                                                    *)
LEMMA DnpTurnInit ==
  ASSUME Init, RewindsOnce PROVE DnpTurn
<1> SUFFICES ASSUME Is("dnpds40") PROVE DnpTurn
  BY DEF DnpTurn
<1>1. DnpInit
  BY DEF Is, Init, PlaneInit, PlaneJobs, HitiInit, HitiJobs, SpoolInit, SpoolJobs,
     SpoolModels, PrinterCopies, BankInit, BankJobs, BankModels, Shinkos,
     DeckInit, DeckJobs
<1>2. DnpJobOK
  <2>1. /\ job \in [model : {"dnpds40"}, copies : Copies, wait : BOOLEAN,
               batch : Copies \union {1}, manual : BOOLEAN, rewind : BOOLEAN,
               matte : BOOLEAN, fits : BOOLEAN,
               part : {"page", "matte1", "matte2", "panel"}]
        /\ job.rewind => job.part = "page"
        /\ job.rewind /\ job.manual /\ job.copies > 1 =>
             <<"dnpds40", "rewind copies">> \in Hitches
    BY <1>1 DEF DnpInit, DnpJobs
  <2>2. job.copies \in Nat \ {0} /\ job.rewind \in BOOLEAN /\ job.manual \in BOOLEAN
        /\ job.matte \in BOOLEAN /\ job.part \in {"page", "matte1", "matte2", "panel"}
    BY <2>1, CopiesAssumption
  <2>3. job.copies > 1 => ~(job.rewind /\ job.manual)
    BY <2>1, Zenon DEF RewindsOnce
  <2>4. job.rewind /\ job.manual => job.copies = 1
    BY <2>2, <2>3
  <2>5. job.rewind => job.part = "page"
    BY <2>1, Zenon
  <2> QED  BY <2>2, <2>4, <2>5, Zenon DEF DnpJobOK
<1>3. PICK last_matte \in BOOLEAN, printing \in 0 .. 1, bufs \in 0 .. 1,
           pano \in IF job.part = "panel" THEN 0 .. 2 ELSE {0, 2} :
       /\ pano # 0 => printing = 0 /\ job.part \in {"page", "panel"}
                      /\ job.copies = 1 /\ ~job.rewind
       /\ job.part = "matte2" => job.matte = last_matte
       /\ ~job.fits => job.part = "panel" \/ pano # 0
       /\ mem = [buf_needed |->
                   IF job.part = "matte1" THEN 2
                   ELSE IF job.part = "matte2" THEN 1
                   ELSE IF job.matte # last_matte THEN 2 ELSE 1 + bufs,
                 needed |-> 1 + bufs,
                 rewinds |-> 0, started |-> FALSE, status |-> "idle",
                 pano |-> pano, partial |-> job.part]
       /\ dev = [queue |-> [n \in 1 .. printing |-> "other"],
                 matte |-> last_matte, cool |-> FALSE, troubles |-> 0,
                 asleep |-> FALSE, err |-> "none", stray |-> FALSE,
                 printed |-> 0]
  BY <1>1, Zenon DEF DnpInit
<1>4. dev.queue \in {<< >>, <<"other">>} /\ dev.matte = last_matte
      /\ dev.printed = 0 /\ dev.asleep = FALSE
  <2>1. dev.queue = [n \in 1 .. printing |-> "other"] /\ dev.matte = last_matte
        /\ dev.printed = 0 /\ dev.asleep = FALSE
    BY <1>3
  <2>2. CASE printing = 0
    BY <2>1, <2>2
  <2>3. CASE printing = 1
    BY <2>1, <2>3
  <2> QED  BY <2>1, <2>2, <2>3
<1>5. dev \in DnpDevs
  BY <1>3, <1>4 DEF DnpDevs, DnpQueues
<1>6. /\ mem \in DnpMems /\ mem.rewinds = 0 /\ mem.partial = job.part
      /\ job.matte # dev.matte => mem.buf_needed = 2
  <2> DEFINE b == IF job.part = "matte1" THEN 2
                  ELSE IF job.part = "matte2" THEN 1
                  ELSE IF job.matte # last_matte THEN 2 ELSE 1 + bufs
             n == 1 + bufs
  <2>1. b \in {1, 2} /\ n \in {1, 2} /\ pano \in Nat
    OBVIOUS
  <2>2. job.matte # last_matte => b = 2
    BY <1>3
  <2> HIDE DEF b, n
  <2>3. mem = [buf_needed |-> b, needed |-> n, rewinds |-> 0, started |-> FALSE,
               status |-> "idle", pano |-> pano, partial |-> job.part]
    BY <1>3, Zenon DEF b, n
  <2> QED  BY <1>2, <1>4, <2>1, <2>2, <2>3 DEF DnpMems, DnpJobOK
<1>7. sts = NotRead /\ result = "running" /\ state = <<"top">> /\ given = 0
  BY <1>1 DEF Init, DnpInit
<1>8. Held(dev.queue) = 0
  <2>1. Held(<< >>) = 0 /\ Held(<<"other">>) = 0
    BY DnpQueueHolds DEF DnpQueues
  <2> QED  BY <1>4, <2>1
<1>9. DnpSeen /\ DnpPlace
  <2>1. DnpSeen
    BY <1>7, Zenon DEF DnpSeen
  <2>2. state \in {<<"top">>, <<"buffers">>, <<"panorama">>, <<"wait">>, <<"done">>}
        /\ state \notin {<<"wait">>, <<"done">>} /\ state # <<"done">>
    BY <1>7
  <2>3. DnpPlace
    BY <1>6, <2>2, Zenon DEF DnpPlace
  <2> QED  BY <2>1, <2>3
<1>10. dev.printed + Held(dev.queue) = given
  BY <1>4, <1>7, <1>8
<1>11. result # "ok" /\ (dev.asleep => dev.queue = << >>)
  BY <1>4, <1>7
<1> QED  BY <1>2, <1>5, <1>6, <1>9, <1>10, <1>11, Zenon DEF DnpTurn

-----------------------------------------------------------------------------
(* The steps of dnpds40.                                                   *)
LEMMA DnpSteps ==
  ASSUME Is("dnpds40"), [Next]_vars
  PROVE  DnpQuery \/ DnpAct \/ DnpWorks \/ DnpBreaks \/ Aside
<1>1. /\ job.model \notin {"canonselphy", "kodak1400"} \union SpoolModels
                          \union BankModels
      /\ ~Is("hiti") /\ ~Is("magicard") /\ ~Is("mitsu70x") /\ ~Is("mitsu9550")
  BY DEF SpoolModels, PrinterCopies, BankModels, Shinkos, Is
<1>2. Query => DnpQuery
  BY <1>1 DEF Query, PlaneQuery, HitiQuery, SpoolQuery, BankQuery, DeckQuery
<1>3. Act => DnpAct
  BY <1>1 DEF Act, PlaneAct, HitiAct, SpoolAct, MagicardPage, BankAct, DeckAct
<1>4. Works => DnpWorks
  BY <1>1 DEF Works, PlaneWorks, HitiWorks, SpoolWorks, SpoolMended, BankWorks,
     BankMended, DeckWorks
<1>5. Breaks => DnpBreaks
  BY <1>1 DEF Breaks, PlaneBreaks, HitiBreaks, SpoolBreaks, BankBreaks, DeckBreaks
<1> QED  BY <1>2, <1>3, <1>4, <1>5, AsideSteps DEF Next, Ended

(* What neither the loop nor the printer does leaves them where they are.  *)
LEMMA DnpTurnAside ==
  ASSUME DnpTurn, Aside PROVE DnpTurn'
<1>1. /\ UNCHANGED <<job, state, mem, dev, given>>
      /\ sts' = sts \/ sts' = NotRead
      /\ result' = result \/ result' = "failed"
      /\ Is("dnpds40")' = Is("dnpds40")
  BY DEF Aside, Is
<1>2. Through' = Through
  BY <1>1 DEF Through
<1>3. DnpPlace' = DnpPlace
  BY <1>1, <1>2 DEF DnpPlace
<1>4. DnpSeen => DnpSeen'
  BY <1>1 DEF DnpSeen
<1>5. DnpJobOK' = DnpJobOK /\ Held(dev.queue)' = Held(dev.queue)
  BY <1>1 DEF DnpJobOK, Held
<1> QED  BY <1>1, <1>2, <1>3, <1>4, <1>5 DEF DnpTurn, Running, DnpMems, DnpDevs

(* The printer goes on with what it has, or fails.                         *)
LEMMA DnpGoesOn ==
  ASSUME DnpTurn, Is("dnpds40"), Running, dev' \in DnpDevs,
         UNCHANGED <<job, state, sts, mem, result, given>>,
         dev'.printed + Held(dev'.queue) = given,
         dev'.matte = dev.matte,
         Len(dev'.queue) <= Len(dev.queue),
         dev'.asleep => dev'.queue = << >>
  PROVE  DnpTurn'
<1>1. result # "ok" /\ Is("dnpds40")' /\ Running' /\ DnpJobOK' /\ given' = given
      /\ Held(dev.queue)' = Held(dev'.queue)
  BY DEF Running, Is, DnpTurn, DnpJobOK, Held
<1>2. /\ DnpPlace /\ DnpSeen /\ dev \in DnpDevs
      /\ dev.printed + Held(dev.queue) = given /\ mem \in DnpMems
      /\ ~job.rewind => mem.rewinds = 0
      /\ mem.partial = "matte1" <=> job.part = "matte1"
  BY DEF DnpTurn
<1>3. dev.queue \in DnpQueues /\ dev'.queue \in DnpQueues
      /\ Len(dev.queue) \in Nat /\ Len(dev'.queue) \in Nat
  BY <1>2, DnpQueueHolds DEF DnpDevs
<1>4. dev.queue = << >> => dev'.queue = << >>
  <2>1. Len(dev.queue) = 0 <=> dev.queue = << >>
    BY <1>3, DnpQueueHolds
  <2>2. Len(dev'.queue) = 0 <=> dev'.queue = << >>
    BY <1>3, DnpQueueHolds
  <2> QED  BY <1>3, <2>1, <2>2
<1>5. Through => Through'
  <2>1. CASE dev.printed = given /\ dev.queue = << >>
    <3>1. dev'.queue = << >> /\ Held(dev'.queue) = 0
      BY <1>3, <1>4, <2>1, DnpQueueHolds
    <3>2. dev'.printed \in Nat
      BY DEF DnpDevs
    <3>3. dev'.printed = given
      BY <3>1, <3>2
    <3> QED  BY <1>1, <3>1, <3>3 DEF Through
  <2>2. CASE mem.status \in {"fault", "data"} \/ mem.pano # 0 \/ job.part = "matte1"
    BY <2>2 DEF Through
  <2> QED  BY <2>1, <2>2 DEF Through
<1>6. DnpPlace'
  <2>1. /\ state' = state /\ mem' = mem /\ job' = job /\ dev'.matte = dev.matte
    OBVIOUS
  <2> QED  BY <1>2, <1>5, <2>1 DEF DnpPlace
<1>7. DnpSeen'
  <2>1. /\ sts' = sts
    OBVIOUS
  <2> QED  BY <1>2, <1>3, <1>4, <2>1 DEF DnpSeen
<1>8. mem' \in DnpMems /\ (~job'.rewind => mem'.rewinds = 0)
      /\ (mem'.partial = "matte1" <=> job'.part = "matte1")
  BY <1>2
<1>9. dev' \in DnpDevs /\ (dev'.asleep => dev'.queue = << >>)
      /\ result' # "ok" /\ dev'.printed + Held(dev.queue)' = given'
  BY <1>1
<1> QED  BY <1>1, <1>6, <1>7, <1>8, <1>9 DEF DnpTurn, DnpMems, DnpDevs

(* A page that is printed leaves the queue and is counted.                 *)
LEMMA DnpPagePrinted ==
  ASSUME dev \in DnpDevs, job.batch \in Nat \ {0}, dev.queue # << >>,
         dev' = [dev EXCEPT !.queue = Tail(@),
             !.printed = IF Head(dev.queue) = "mine" THEN @ + job.batch ELSE @]
  PROVE  /\ dev' \in DnpDevs /\ dev'.matte = dev.matte /\ dev'.err = dev.err
         /\ dev'.asleep = dev.asleep
         /\ dev'.printed + Held(dev'.queue) = dev.printed + Held(dev.queue)
         /\ Len(dev'.queue) <= Len(dev.queue)
<1> DEFINE t == Tail(dev.queue)
           p == IF Head(dev.queue) = "mine" THEN dev.printed + job.batch
                ELSE dev.printed
<1>1. dev.queue \in DnpQueues /\ dev.printed \in Nat
  BY DEF DnpDevs
<1>2. /\ Len(<< >>) = 0 /\ Len(<<"other">>) = 1 /\ Len(<<"mine">>) = 1
      /\ Len(<<"other", "mine">>) = 2 /\ Len(<<"mine", "mine">>) = 2
  OBVIOUS
<1>3. /\ Held(<< >>) = 0 /\ Held(<<"other">>) = 0
      /\ Held(<<"mine">>) = job.batch
      /\ Held(<<"other", "mine">>) = job.batch
      /\ Held(<<"mine", "mine">>) = job.batch + job.batch
  BY <1>1, DnpQueueHolds
<1>4. /\ t \in DnpQueues /\ p \in Nat
      /\ p + Held(t) = dev.printed + Held(dev.queue)
      /\ Len(t) <= Len(dev.queue)
  <2>1. CASE dev.queue = <<"other">>
    <3>1. t = << >> /\ p = dev.printed
      BY <2>1, DnpQueueSteps
    <3> HIDE DEF t, p
    <3> QED  BY <1>1, <1>2, <1>3, <2>1, <3>1 DEF DnpQueues
  <2>2. CASE dev.queue = <<"mine">>
    <3>1. t = << >> /\ p = dev.printed + job.batch
      BY <2>2, DnpQueueSteps
    <3> HIDE DEF t, p
    <3> QED  BY <1>1, <1>2, <1>3, <2>2, <3>1 DEF DnpQueues
  <2>3. CASE dev.queue = <<"other", "mine">>
    <3>1. t = <<"mine">> /\ p = dev.printed
      BY <2>3, DnpQueueSteps
    <3> HIDE DEF t, p
    <3> QED  BY <1>1, <1>2, <1>3, <2>3, <3>1 DEF DnpQueues
  <2>4. CASE dev.queue = <<"mine", "mine">>
    <3>1. t = <<"mine">> /\ p = dev.printed + job.batch
      BY <2>4, DnpQueueSteps
    <3> HIDE DEF t, p
    <3> QED  BY <1>1, <1>2, <1>3, <2>4, <3>1 DEF DnpQueues
  <2> QED  BY <1>1, <2>1, <2>2, <2>3, <2>4 DEF DnpQueues
<1> HIDE DEF t, p
<1>5. dev' = [dev EXCEPT !.queue = t, !.printed = p]
  BY Zenon DEF t, p
<1>6. /\ dev' \in DnpDevs /\ dev'.matte = dev.matte /\ dev'.err = dev.err
      /\ dev'.asleep = dev.asleep /\ dev'.queue = t /\ dev'.printed = p
  BY <1>4, <1>5 DEF DnpDevs
<1> QED  BY <1>4, <1>6

(* The printer works off its queue, or fails, or is asked.                 *)
LEMMA DnpTurnPrinter ==
  ASSUME DnpTurn, job.batch \in Nat \ {0}, DnpQuery \/ DnpWorks \/ DnpBreaks
  PROVE  DnpTurn'
<1>1. /\ UNCHANGED <<job, state, mem, given, result>> /\ Running
      /\ result # "ok" /\ Is("dnpds40")
  BY DEF DnpQuery, DnpWorks, DnpBreaks, Read, Printer, Running, Is
<1>2. /\ dev \in DnpDevs /\ dev.printed + Held(dev.queue) = given
      /\ dev.asleep => dev.queue = << >>
  BY <1>1 DEF DnpTurn
<1>3. dev.queue \in DnpQueues /\ Len(dev.queue) \in Nat
  BY <1>2, DnpQueueHolds DEF DnpDevs
<1>4. CASE DnpQuery
  <2>1. PICK err \in {dev.err, "fault"} :
          /\ dev' = dev /\ Running' /\ Is("dnpds40")'
          /\ sts' = [err |-> err, cool |-> dev.cool, asleep |-> dev.asleep,
                     pages |-> Len(dev.queue)]
    BY <1>1, <1>4 DEF DnpQuery, Read, Running, Is
  <2>2. sts'.err = err /\ sts'.asleep = dev.asleep /\ sts'.pages = Len(dev.queue)
    BY <2>1
  <2>3. DnpSeen'
    <3>1. dev'.queue = dev.queue /\ err \in {"none", "fault", "data"}
      BY <1>2, <2>1 DEF DnpDevs
    <3> QED  BY <1>2, <1>3, <2>2, <3>1 DEF DnpSeen
  <2>4. Through' = Through /\ DnpJobOK' = DnpJobOK
        /\ Held(dev.queue)' = Held(dev.queue)
    BY <1>1, <2>1 DEF Through, DnpJobOK, Held
  <2>5. DnpPlace' = DnpPlace
    BY <1>1, <2>1, <2>4 DEF DnpPlace
  <2> QED  BY <1>1, <2>1, <2>3, <2>4, <2>5 DEF DnpTurn, DnpMems, DnpDevs
<1>5. CASE DnpWorks
  <2>1. UNCHANGED sts
    BY <1>5 DEF DnpWorks, Printer
  <2>2. \/ /\ dev.queue # << >>
           /\ dev' = [dev EXCEPT !.queue = Tail(@),
                !.printed = IF Head(dev.queue) = "mine" THEN @ + job.batch ELSE @]
        \/ dev' = [dev EXCEPT !.cool = FALSE]
    BY <1>5, Zenon DEF DnpWorks, Printer
  <2>3. CASE /\ dev.queue # << >>
             /\ dev' = [dev EXCEPT !.queue = Tail(@),
                  !.printed = IF Head(dev.queue) = "mine" THEN @ + job.batch ELSE @]
    <3>1. /\ dev' \in DnpDevs /\ dev'.matte = dev.matte /\ dev'.err = dev.err
          /\ dev'.asleep = dev.asleep
          /\ dev'.printed + Held(dev'.queue) = dev.printed + Held(dev.queue)
          /\ Len(dev'.queue) <= Len(dev.queue)
      BY <1>2, <2>3, DnpPagePrinted
    <3>2. ~dev'.asleep
      BY <1>2, <2>3, <3>1
    <3> QED  BY <1>1, <1>2, <2>1, <3>1, <3>2, DnpGoesOn
  <2>4. CASE dev' = [dev EXCEPT !.cool = FALSE]
    <3>1. /\ dev' \in DnpDevs /\ dev'.matte = dev.matte /\ dev'.err = dev.err
          /\ dev'.asleep = dev.asleep /\ dev'.queue = dev.queue
          /\ dev'.printed = dev.printed
      BY <1>2, <2>4 DEF DnpDevs
    <3>2. /\ dev'.printed + Held(dev'.queue) = given
          /\ Len(dev'.queue) <= Len(dev.queue)
          /\ dev'.asleep => dev'.queue = << >>
      BY <1>2, <1>3, <3>1
    <3> QED  BY <1>1, <2>1, <3>1, <3>2, DnpGoesOn
  <2> QED  BY <2>2, <2>3, <2>4
<1>6. CASE DnpBreaks
  <2>1. UNCHANGED sts
    BY <1>6 DEF DnpBreaks, Printer
  <2>2. \/ \E e \in {"fault", "data"} :
             dev' = [dev EXCEPT !.err = e, !.troubles = @ + 1]
        \/ dev' = [dev EXCEPT !.cool = TRUE, !.troubles = @ + 1]
        \/ /\ dev.queue = << >>
           /\ dev' = [dev EXCEPT !.asleep = TRUE, !.troubles = @ + 1]
    BY <1>6, Zenon DEF DnpBreaks, Printer
  <2>3. /\ dev' \in DnpDevs /\ dev'.matte = dev.matte
        /\ dev'.queue = dev.queue /\ dev'.printed = dev.printed
        /\ dev'.asleep => dev.asleep \/ dev.queue = << >>
    <3>1. dev.troubles + 1 \in Nat
      BY <1>2 DEF DnpDevs
    <3>2. ASSUME NEW e \in {"fault", "data"},
                 dev' = [dev EXCEPT !.err = e, !.troubles = @ + 1]
          PROVE  <2>3!:
      BY <1>2, <3>1, <3>2 DEF DnpDevs
    <3>3. CASE dev' = [dev EXCEPT !.cool = TRUE, !.troubles = @ + 1]
      BY <1>2, <3>1, <3>3 DEF DnpDevs
    <3>4. CASE /\ dev.queue = << >>
               /\ dev' = [dev EXCEPT !.asleep = TRUE, !.troubles = @ + 1]
      BY <1>2, <3>1, <3>4 DEF DnpDevs
    <3> QED  BY <2>2, <3>2, <3>3, <3>4
  <2>4. /\ dev'.printed + Held(dev'.queue) = given
        /\ Len(dev'.queue) <= Len(dev.queue)
        /\ dev'.asleep => dev'.queue = << >>
    BY <1>2, <1>3, <2>3
  <2> QED  BY <1>1, <2>1, <2>3, <2>4, DnpGoesOn
<1> QED  BY <1>4, <1>5, <1>6

-----------------------------------------------------------------------------
(* A page is sent to a printer that has room for it.                       *)
LEMMA DnpSheetSent ==
  ASSUME DnpTurn, Is("dnpds40"), Running, job' = job, job.batch \in Nat \ {0},
         NEW m \in DnpMems, m.rewinds <= 1,
         m.partial = mem.partial, ~job.rewind => m.rewinds = 0,
         Len(dev.queue) < Buffers,
         job.matte # dev.matte => dev.queue = << >>,
         SendSheet(m)
  PROVE  DnpTurn'
<1> DEFINE pano == IF job.part = "panel" THEN m.pano + 1 ELSE 0
<1>1. /\ mem' = [m EXCEPT !.pano = pano, !.started = FALSE,
                   !.partial = IF @ = "matte2" THEN "page" ELSE @]
      /\ dev' = [dev EXCEPT
           !.queue = Append(@, "mine"), !.matte = job.matte, !.asleep = FALSE,
           !.stray = @ \/ (Len(dev.queue) >= Buffers)
                       \/ (job.matte # dev.matte /\ dev.queue # << >>)
                       \/ (m.rewinds > 1)]
      /\ given' = given + job.batch
      /\ IF ~job.wait /\ ~job.manual THEN Goto(<<"done">>)
         ELSE Goto(IF pano = 0 /\ mem'.partial # "matte1"
                   THEN <<"wait">> ELSE <<"done">>)
  BY Zenon DEF SendSheet, Give
<1>2. /\ DnpJobOK /\ dev \in DnpDevs /\ dev.printed + Held(dev.queue) = given
      /\ mem.partial = "matte1" <=> job.part = "matte1"
  BY DEF DnpTurn
<1>3. pano \in Nat
  BY DEF DnpMems
<1> HIDE DEF pano
<1>4. mem' \in DnpMems /\ mem'.pano = pano /\ mem'.rewinds = m.rewinds
      /\ (mem'.partial = "matte1" <=> m.partial = "matte1")
  <2> DEFINE p == IF m.partial = "matte2" THEN "page" ELSE m.partial
  <2>1. p \in {"page", "matte1", "matte2", "panel"}
        /\ (p = "matte1" <=> m.partial = "matte1")
    BY DEF DnpMems
  <2>2. mem' = [m EXCEPT !.pano = pano, !.started = FALSE, !.partial = p]
    BY <1>1, Zenon DEF p
  <2> HIDE DEF p
  <2> QED  BY <1>3, <2>1, <2>2 DEF DnpMems
<1>5. /\ state' \in {<<"wait">>, <<"done">>} /\ sts' = NotRead /\ result' = result
      /\ state' = <<"done">> /\ job.wait => pano # 0 \/ mem'.partial = "matte1"
  <2>1. CASE ~job.wait /\ ~job.manual
    BY <1>1, <2>1 DEF Goto
  <2>2. CASE ~(~job.wait /\ ~job.manual)
    <3>1. Goto(IF pano = 0 /\ mem'.partial # "matte1"
               THEN <<"wait">> ELSE <<"done">>)
      BY <1>1, <2>2, Zenon
    <3> QED  BY <3>1 DEF Goto
  <2> QED  BY <2>1, <2>2
<1>6. /\ Append(dev.queue, "mine") \in DnpQueues
      /\ Held(Append(dev.queue, "mine")) = Held(dev.queue) + job.batch
      /\ Held(dev.queue) \in Nat
  <2>1. dev.queue \in {<< >>, <<"other">>, <<"mine">>}
    BY <1>2, DnpQueueHolds DEF DnpDevs, Buffers
  <2>2. /\ Held(<< >>) = 0 /\ Held(<<"other">>) = 0
        /\ Held(<<"mine">>) = job.batch
        /\ Held(<<"other", "mine">>) = job.batch
        /\ Held(<<"mine", "mine">>) = job.batch + job.batch
    BY <1>2, DnpQueueHolds DEF DnpDevs
  <2>3. CASE dev.queue = << >>
    BY <2>2, <2>3, DnpQueueSteps DEF DnpQueues
  <2>4. CASE dev.queue = <<"other">>
    <3>1. Append(dev.queue, "mine") = <<"other", "mine">>
      BY <2>4, DnpQueueSteps
    <3>2. Held(dev.queue) = 0 /\ Held(Append(dev.queue, "mine")) = job.batch
      BY <2>2, <2>4, <3>1, Zenon
    <3>3. Append(dev.queue, "mine") \in DnpQueues
      BY <3>1 DEF DnpQueues
    <3> QED  BY <3>2, <3>3
  <2>5. CASE dev.queue = <<"mine">>
    BY <2>2, <2>5, DnpQueueSteps DEF DnpQueues
  <2> QED  BY <2>1, <2>3, <2>4, <2>5
<1>7. /\ dev' \in DnpDevs /\ dev'.queue = Append(dev.queue, "mine")
      /\ dev'.matte = job.matte /\ dev'.asleep = FALSE
      /\ dev'.printed = dev.printed
  <2> DEFINE stray == \/ dev.stray \/ (Len(dev.queue) >= Buffers)
                      \/ (job.matte # dev.matte /\ dev.queue # << >>)
                      \/ (m.rewinds > 1)
             q == Append(dev.queue, "mine")
  <2>1. stray = FALSE
    <3>1. dev.stray = FALSE
      BY <1>2 DEF DnpDevs
    <3>2. ~(Len(dev.queue) >= Buffers)
      <4>1. Len(dev.queue) \in Nat
        BY <1>2, DnpQueueHolds DEF DnpDevs
      <4> QED  BY <4>1 DEF Buffers
    <3>3. ~(m.rewinds > 1)
      BY DEF DnpMems
    <3> QED  BY <3>1, <3>2, <3>3, Zenon
  <2>2. dev' = [dev EXCEPT !.queue = q, !.matte = job.matte, !.asleep = FALSE,
                           !.stray = stray]
    BY <1>1, Zenon
  <2> HIDE DEF stray, q
  <2>3. dev' = [dev EXCEPT !.queue = q, !.matte = job.matte, !.asleep = FALSE,
                           !.stray = FALSE]
    BY <2>1, <2>2
  <2>4. q \in DnpQueues /\ job.matte \in BOOLEAN
    BY <1>2, <1>6 DEF q, DnpJobOK
  <2>5. /\ dev' \in DnpDevs /\ dev'.queue = q
        /\ dev'.matte = job.matte /\ dev'.asleep = FALSE
        /\ dev'.printed = dev.printed
    BY <1>2, <2>3, <2>4 DEF DnpDevs
  <2> QED  BY <2>5 DEF q
<1>8. dev'.printed + Held(dev.queue)' = given'
  <2>1. Held(dev.queue)' = Held(dev'.queue)
    BY DEF Held
  <2>2. dev.printed \in Nat
    BY <1>2 DEF DnpDevs
  <2> QED  BY <1>1, <1>2, <1>6, <1>7, <2>1, <2>2
<1>9. DnpPlace'
  <2>1. state' = <<"done">> /\ job.wait => Through'
    BY <1>2, <1>4, <1>5 DEF Through
  <2>2. state' \notin {<<"top">>, <<"buffers">>, <<"panorama">>}
    BY <1>5
  <2> QED  BY <1>5, <1>7, <2>1, <2>2 DEF DnpPlace
<1>10. DnpSeen' /\ DnpJobOK' /\ result' # "ok"
  BY <1>2, <1>5 DEF DnpSeen, DnpJobOK, Running
<1>11. /\ mem' \in DnpMems /\ (~job'.rewind => mem'.rewinds = 0)
       /\ (mem'.partial = "matte1" <=> job'.part = "matte1")
       /\ dev' \in DnpDevs /\ ~dev'.asleep
  BY <1>2, <1>4, <1>7
<1> QED  BY <1>8, <1>9, <1>10, <1>11 DEF DnpTurn, DnpMems, DnpDevs

(* The loop sends a page when there are buffers for it, and waits for an   *)
(* idle printer.                                                           *)
LEMMA DnpTurnAct ==
  ASSUME DnpTurn, CInv, DnpAct
  PROVE  DnpTurn'
<1>1. /\ Is("dnpds40") /\ Is("dnpds40")' /\ Running /\ result = "running"
      /\ job' = job
  BY DEF DnpAct, Running, Is
<1>2. /\ DnpJobOK /\ dev \in DnpDevs /\ mem \in DnpMems
      /\ dev.printed + Held(dev.queue) = given
      /\ dev.asleep => dev.queue = << >>
      /\ ~job.rewind => mem.rewinds = 0
      /\ mem.partial = "matte1" <=> job.part = "matte1"
      /\ DnpSeen /\ DnpPlace
  BY <1>1 DEF DnpTurn
<1>3. /\ job.batch \in Nat \ {0} /\ job.copies \in Nat \ {0}
      /\ copies \in 1 .. job.copies
  BY <1>1, WantedFacts DEF CInv, JobOK, CopiesAddUp, Is
<1>4. dev.queue \in DnpQueues /\ Len(dev.queue) \in Nat
      /\ (Len(dev.queue) = 0 <=> dev.queue = << >>)
  BY <1>2, DnpQueueHolds DEF DnpDevs
<1>5. ASSUME NEW s, Goto(s), GiveNone, dev' = dev, mem' \in DnpMems,
             mem'.rewinds = mem.rewinds, mem'.partial = mem.partial,
             DnpPlace'
      PROVE  DnpTurn'
  <2>1. /\ sts' = NotRead /\ result' # "ok" /\ given' = given
        /\ Held(dev.queue)' = Held(dev.queue) /\ DnpJobOK'
    BY <1>1, <1>2, <1>5 DEF Goto, GiveNone, Held, DnpJobOK
  <2> QED  BY <1>1, <1>2, <1>5, <2>1 DEF DnpTurn, DnpSeen, DnpMems, DnpDevs
<1>6. ASSUME NEW code \in {"stop", "cancel"}, DnpFails(code) PROVE DnpTurn'
  <2>1. /\ sts' = NotRead /\ result' = code /\ given' = given
        /\ dev' = dev /\ mem' = mem
        /\ Held(dev.queue)' = Held(dev.queue) /\ DnpJobOK'
    BY <1>1, <1>2, <1>6 DEF DnpFails, Return, GiveNone, Held, DnpJobOK
  <2> QED  BY <1>1, <1>2, <1>6, <2>1 DEF DnpTurn, DnpSeen, DnpMems, DnpDevs, Running
<1>7. ASSUME state \in {<<"top">>, <<"buffers">>}, Len(dev.queue) < Buffers,
             job.matte # dev.matte => dev.queue = << >>, Proceed
      PROVE  DnpTurn'
  <2> DEFINE m == Rewinding
  <2>1. mem.rewinds = 0 /\ mem.buf_needed \in {1, 2}
        /\ (job.matte # dev.matte => mem.buf_needed = 2)
    BY <1>2, <1>7 DEF DnpPlace, DnpMems
  <2>2. /\ m \in DnpMems /\ m.rewinds <= 1 /\ m.partial = mem.partial
        /\ m.buf_needed = mem.buf_needed
        /\ ~job.rewind => m.rewinds = 0
    <3>1. CASE job.rewind
      <4>1. m = [mem EXCEPT !.rewinds = @ + 1]
        BY <3>1 DEF Rewinding
      <4> QED  BY <1>2, <2>1, <3>1, <4>1 DEF DnpMems
    <3>2. CASE ~job.rewind
      <4>1. m = [mem EXCEPT !.rewinds = @]
        BY <3>2 DEF Rewinding
      <4> QED  BY <1>2, <2>1, <3>2, <4>1 DEF DnpMems
    <3> QED  BY <3>1, <3>2
  <2> HIDE DEF m
  <2>3. \/ DnpFails("cancel")
        \/ job.part = "panel" /\ DnpStays(<<"panorama">>) /\ mem' = m
        \/ SendSheet(m)
    BY <1>7, Zenon DEF Proceed, m
  <2>4. CASE job.part = "panel" /\ DnpStays(<<"panorama">>) /\ mem' = m
    <3>1. m.rewinds = 0 /\ m.rewinds = mem.rewinds
      BY <1>2, <2>1, <2>2, <2>4 DEF DnpJobOK
    <3>2. Goto(<<"panorama">>) /\ GiveNone /\ dev' = dev
      BY <2>4 DEF DnpStays
    <3>3. DnpPlace'
      BY <1>1, <2>1, <2>2, <2>4, <3>1, <3>2 DEF DnpPlace, Goto
    <3> QED  BY <1>5, <2>2, <2>4, <3>1, <3>2, <3>3
  <2>5. CASE SendSheet(m)
    BY <1>1, <1>3, <1>7, <2>2, <2>5, DnpSheetSent
  <2> QED  BY <1>6, <2>3, <2>4, <2>5
<1>8. ASSUME NEW s \in {<<"top">>, <<"buffers">>, <<"panorama">>},
             state \in {<<"top">>, <<"buffers">>, <<"panorama">>},
             DnpStays(s), UNCHANGED mem
      PROVE  DnpTurn'
  <2>1. Goto(s) /\ GiveNone /\ dev' = dev /\ mem' = mem
    BY <1>8 DEF DnpStays
  <2>2. DnpPlace'
    BY <1>1, <1>2, <1>8, <2>1 DEF DnpPlace, Goto
  <2> QED  BY <1>2, <1>5, <2>1, <2>2
<1>9. CASE sts # NotRead /\ DnpTop
  <2>1. /\ state = <<"top">> /\ sts.err \in {"none", "fault", "data"}
        /\ sts.asleep => dev.queue = << >>
    BY <1>2, <1>9 DEF DnpTop, DnpSeen
  <2>2. \/ DnpFails("stop") \/ DnpFails("cancel")
        \/ DnpStays(state) /\ UNCHANGED mem
        \/ Status = "standby" /\ Proceed
        \/ DnpStays(<<"buffers">>) /\ UNCHANGED mem
    BY <1>9, Zenon DEF DnpTop
  <2>3. CASE Status = "standby" /\ Proceed
    <3>1. sts.asleep
      BY <2>1, <2>3 DEF Status
    <3>2. dev.queue = << >> /\ Len(dev.queue) < Buffers
      BY <1>4, <2>1, <3>1 DEF Buffers
    <3> QED  BY <1>7, <2>1, <2>3, <3>2
  <2> QED  BY <1>6, <1>8, <2>1, <2>2, <2>3
<1>10. CASE sts # NotRead /\ DnpBuffers
  <2>1. /\ state = <<"buffers">> /\ sts.pages \in Nat /\ Len(dev.queue) <= sts.pages
        /\ mem.buf_needed \in {1, 2}
        /\ job.matte # dev.matte => mem.buf_needed = 2
    BY <1>2, <1>10 DEF DnpBuffers, DnpSeen, DnpPlace, DnpMems
  <2>2. \/ DnpStays(<<"top">>) /\ UNCHANGED mem
        \/ ~(Buffers - sts.pages < mem.buf_needed) /\ Proceed
    BY <1>10, Zenon DEF DnpBuffers
  <2>3. CASE ~(Buffers - sts.pages < mem.buf_needed) /\ Proceed
    <3>1. Len(dev.queue) < Buffers
          /\ (job.matte # dev.matte => dev.queue = << >>)
      BY <1>4, <2>1, <2>3 DEF Buffers
    <3> QED  BY <1>7, <2>1, <2>3, <3>1
  <2> QED  BY <1>8, <2>1, <2>2, <2>3
<1>11. CASE sts # NotRead /\ DnpPanorama
  <2>1. /\ state = <<"panorama">> /\ sts.pages \in Nat
        /\ Len(dev.queue) <= sts.pages /\ mem.rewinds = 0
    BY <1>2, <1>11 DEF DnpPanorama, DnpSeen, DnpPlace
  <2>2. \/ DnpStays(<<"top">>) /\ UNCHANGED mem
        \/ ~(sts.pages > 0) /\ SendSheet(mem)
    BY <1>11, Zenon DEF DnpPanorama
  <2>3. CASE ~(sts.pages > 0) /\ SendSheet(mem)
    <3>1. dev.queue = << >> /\ Len(dev.queue) < Buffers
      BY <1>4, <2>1, <2>3 DEF Buffers
    <3> QED  BY <1>1, <1>2, <1>3, <2>1, <2>3, <3>1, DnpSheetSent
  <2> QED  BY <1>8, <2>1, <2>2, <2>3
<1>12. CASE sts # NotRead /\ DnpWait
  <2> DEFINE begun == mem.started \/ Status # "idle"
             ended == Status \in {"fault", "data"} \/ (Status = "idle" /\ mem.started)
             status == IF ended THEN Status ELSE mem.status
  <2>1. /\ state = <<"wait">>
        /\ mem' = [mem EXCEPT !.started = begun, !.status = status]
        /\ GiveNone /\ dev' = dev
        /\ \/ Goto(<<"wait">>)
           \/ Goto(<<"done">>) /\ Status \in {"fault", "data", "idle"}
              /\ status = Status
    <3>1. /\ state = <<"wait">>
          /\ mem' = [mem EXCEPT !.started = begun, !.status = status]
          /\ DnpStays(IF ended THEN <<"done">> ELSE state)
      BY <1>12, Zenon DEF DnpWait
    <3>2. CASE ended
      <4>1. DnpStays(<<"done">>)
        BY <3>1, <3>2, Zenon
      <4> QED  BY <3>1, <3>2, <4>1 DEF DnpStays
    <3>3. CASE ~ended
      <4>1. DnpStays(<<"wait">>)
        BY <3>1, <3>3, Zenon
      <4> QED  BY <3>1, <4>1 DEF DnpStays
    <3> QED  BY <3>2, <3>3
  <2>2. begun \in BOOLEAN /\ status \in {"idle", "fault", "data"}
    BY <1>2 DEF DnpMems
  <2> HIDE DEF begun, status, ended
  <2>3. /\ mem' \in DnpMems /\ mem'.rewinds = mem.rewinds
        /\ mem'.partial = mem.partial /\ mem'.pano = mem.pano
        /\ mem'.status = status
    BY <1>2, <2>1, <2>2 DEF DnpMems
  <2>4. job.matte = dev.matte
    BY <1>2, <2>1 DEF DnpPlace
  <2>5. CASE Goto(<<"wait">>)
    <3>1. DnpPlace'
      BY <1>1, <2>1, <2>4, <2>5 DEF DnpPlace, Goto
    <3> QED  BY <1>5, <2>1, <2>3, <2>5, <3>1
  <2>6. CASE Goto(<<"done">>) /\ Status \in {"fault", "data", "idle"}
             /\ status = Status
    <3>1. /\ sts.err \in {"none", "fault", "data"}
          /\ sts.pages \in Nat /\ Len(dev.queue) <= sts.pages
      BY <1>2, <1>12 DEF DnpSeen
    <3>2. Through'
      <4>1. CASE sts.err # "none"
        <5>1. Status \in {"fault", "data"}
          BY <3>1, <4>1 DEF Status
        <5> QED  BY <2>3, <2>6, <5>1 DEF Through
      <4>2. CASE sts.err = "none"
        <5>1. Status = "idle" /\ ~(sts.pages > 0)
          BY <2>6, <4>2 DEF Status
        <5>2. dev.queue = << >>
          BY <1>4, <3>1, <5>1
        <5>3. Held(dev.queue) = 0 /\ dev.printed \in Nat
          BY <1>2, <5>2, DnpQueueHolds DEF DnpDevs
        <5>4. dev.printed = given
          BY <1>2, <5>3
        <5> QED  BY <2>1, <5>2, <5>4 DEF Through, GiveNone
      <4> QED  BY <4>1, <4>2
    <3>3. DnpPlace'
      BY <1>1, <2>1, <2>4, <2>6, <3>2 DEF DnpPlace, Goto
    <3> QED  BY <1>5, <2>1, <2>3, <2>6, <3>3
  <2> QED  BY <2>1, <2>5, <2>6
<1>13. CASE DnpNext
  <2>1. /\ state = <<"done">> /\ mem' = [mem EXCEPT !.buf_needed = mem.needed]
        /\ GiveNone /\ dev' = dev
        /\ \/ job.manual /\ NextCopy(CopiesLeft, <<"top">>)
           \/ Return("ok")
    BY <1>13, Zenon DEF DnpNext
  <2>2. /\ mem' \in DnpMems /\ mem'.rewinds = mem.rewinds
        /\ mem'.partial = mem.partial /\ mem'.pano = mem.pano
        /\ mem'.status = mem.status
    BY <1>2, <2>1 DEF DnpMems
  <2>3. /\ job.matte = dev.matte /\ (job.wait => Through)
    BY <1>2, <2>1 DEF DnpPlace
  <2>4. Through' = Through
    BY <1>1, <2>1, <2>2 DEF Through, GiveNone
  <2>5. /\ given' = given /\ Held(dev.queue)' = Held(dev.queue) /\ DnpJobOK'
    BY <1>1, <1>2, <2>1 DEF GiveNone, Held, DnpJobOK
  <2>6. \/ sts' = NotRead /\ result' = "ok"
        \/ /\ job.manual /\ CopiesLeft # 0
           /\ sts' = NotRead /\ state' = <<"top">> /\ result' = result
    BY <2>1 DEF Return, NextCopy
  <2>7. CASE sts' = NotRead /\ result' = "ok"
    BY <1>1, <1>2, <2>1, <2>2, <2>3, <2>4, <2>5, <2>7
       DEF DnpTurn, DnpSeen, DnpMems, DnpDevs, Running
  <2>8. CASE /\ job.manual /\ CopiesLeft # 0
             /\ sts' = NotRead /\ state' = <<"top">> /\ result' = result
    <3>1. ~job.rewind
      <4> SUFFICES ASSUME job.rewind PROVE FALSE
        OBVIOUS
      <4>1. job.copies = 1
        BY <1>2, <2>8 DEF DnpJobOK
      <4>2. copies = 1
        BY <1>3, <2>8, <4>1
      <4> QED  BY <2>8, <4>2 DEF CopiesLeft
    <3>2. mem'.rewinds = 0
      BY <1>2, <2>2, <3>1
    <3>3. DnpPlace'
      BY <1>1, <2>1, <2>3, <2>8, <3>2 DEF DnpPlace
    <3> QED  BY <1>1, <1>2, <2>1, <2>2, <2>5, <2>8, <3>3
             DEF DnpTurn, DnpSeen, DnpMems, DnpDevs
  <2> QED  BY <2>6, <2>7, <2>8
<1> QED  BY <1>9, <1>10, <1>11, <1>12, <1>13 DEF DnpAct

(* Every step keeps pages and buffers in turn.                             *)
LEMMA DnpTurnStep ==
  ASSUME DnpTurn, CInv, [Next]_vars PROVE DnpTurn'
<1>1. job' = job /\ job.batch \in Nat \ {0}
  BY JobStays DEF CInv, JobOK
<1>2. CASE Is("dnpds40")
  BY <1>1, <1>2, DnpSteps, DnpTurnAct, DnpTurnPrinter, DnpTurnAside
<1>3. CASE ~Is("dnpds40")
  BY <1>1, <1>3 DEF DnpTurn, Is
<1> QED  BY <1>2, <1>3

-----------------------------------------------------------------------------
(* All of them together.                                                   *)
(* What a printer may do that the code of its backend does not deal with.  *)
Unhandled ==
  {<<"mitsu70x", "fail unwatched">>, <<"mitsu70x", "fail when done">>,
   <<"mitsud90", "side left over">>, <<"mitsu9550", "rest within a page">>,
   <<"dnpds40", "rewind copies">>}

Models ==
  PlaneModels \union SpoolModels \union BankModels \union
  {"hiti", "mitsu70x", "dnpds40"}

(* The counts of the copies need only the decks to be in turn.             *)
CopiesInv == CInv /\ DeckTurn

(* Where every printer stands to its host.                                 *)
Turn ==
  /\ job.model \in Models
  /\ PlaneTurn /\ HitiTurn /\ SpoolTurn /\ MagicardTurn
  /\ BankTurn /\ DnpTurn

(* What the proofs of the single backends exclude.                         *)
LEMMA HandledParts ==
  ASSUME Hitches \cap Unhandled = {}
  PROVE  RestsBetween /\ RewindsOnce /\ CopiesPlain
BY DEF Unhandled, RestsBetween, RewindsOnce, CopiesPlain

(* The copies add up at first and after every step.                        *)
LEMMA CopiesInvHolds ==
  ASSUME CopiesPlain PROVE Spec => []CopiesInv
<1>1. Init => CopiesInv
  BY CInvInit, DeckTurnInit DEF CopiesInv
<1>2. CopiesInv /\ [Next]_vars => CopiesInv'
  BY CInvStep, DeckTurnStep DEF CopiesInv
<1> QED  BY <1>1, <1>2, PTL DEF Spec

(* Every job is for one of the models.                                     *)
LEMMA ModelKnown == Init => job.model \in Models
BY DEF Init, Models, PlaneInit, PlaneJobs, PlaneModels, HitiInit, HitiJobs, SpoolInit,
   SpoolJobs, BankInit, BankJobs, DeckInit, DeckJobs, DnpInit, DnpJobs

(* At first every printer is in turn...                                    *)
LEMMA TurnInit ==
  ASSUME Hitches \cap Unhandled = {}, Init PROVE Turn
BY HandledParts, ModelKnown, PlaneTurnInit, HitiTurnInit, SpoolTurnInit,
   BankTurnInit, DnpTurnInit DEF Turn

(* ... and stays so.                                                       *)
LEMMA TurnStep ==
  ASSUME Hitches \cap Unhandled = {}, Turn, CInv, [Next]_vars PROVE Turn'
<1>1. PlaneTurn' /\ HitiTurn' /\ SpoolTurn' /\ MagicardTurn'
  BY HandledParts, PlaneTurnStep, HitiTurnStep, SpoolTurnStep, MagicardTurnStep
     DEF Turn
<1>2. BankTurn' /\ DnpTurn'
  BY BankTurnStep, DnpTurnStep DEF Turn
<1>3. job' = job
  BY JobStays
<1>4. (job.model \in Models)'
  BY <1>3 DEF Turn, Models, PlaneModels, SpoolModels, PrinterCopies, BankModels, Shinkos
<1> QED  BY <1>1, <1>2, <1>4 DEF Turn

(* Every printer is always in turn.                                        *)
LEMMA TurnHolds ==
  ASSUME Hitches \cap Unhandled = {} PROVE Spec => [](Turn /\ CopiesInv)
<1>1. CopiesPlain
  BY HandledParts
<1>2. Spec => []CopiesInv
  BY <1>1, CopiesInvHolds
<1>3. Init => Turn
  BY TurnInit
<1>4. Turn /\ CopiesInv /\ [Next]_vars => Turn'
  BY TurnStep DEF CopiesInv
<1> QED  BY <1>2, <1>3, <1>4, PTL DEF Spec

(* The counts of copies stay within the copies asked for, if no deck of a  *)
(* mitsu70x fails unwatched or when its copy is done, and if no side is    *)
(* left over in a mitsud90.                                                *)
THEOREM PrintersTypeOK ==
  ASSUME CopiesPlain PROVE Spec => []TypeOK
<1>1. CopiesInv => TypeOK
  <2> SUFFICES ASSUME CInv PROVE TypeOK
    BY DEF CopiesInv
  <2>1. /\ copies \in 0 .. Wanted /\ given \in 0 .. Wanted
        /\ late \in 0 .. given /\ Wanted \in Nat
        /\ terminate \in BOOLEAN /\ result \in Codes \union {"running"}
        /\ dev.stray \in BOOLEAN
    BY WantedFacts DEF CInv, Counts, DevOK
  <2>2. late \in 0 .. Wanted
    BY <2>1
  <2> QED  BY <2>1, <2>2 DEF TypeOK
<1> QED  BY CopiesInvHolds, <1>1, PTL

(* Every main loop keeps the promise that the job list relies on, with the *)
(* same printers excepted.                                                 *)
THEOREM LoopsKeepCopyPromise ==
  ASSUME CopiesPlain PROVE Spec => CopyPromise
<1>1. Init => Service!Init
  <2> SUFFICES ASSUME Init PROVE Service!Init
    OBVIOUS
  <2>1. JobOK
    BY JobsAreOK
  <2>2. Wanted \in Nat \ {0} /\ job.batch \in {1, Wanted}
    BY <2>1, WantedFacts DEF JobOK
  <2>3. /\ given = 0 /\ late = 0 /\ terminate = FALSE /\ result = "running"
    BY DEF Init
  <2>4. Heeds \in BOOLEAN
    BY DEF Heeds
  <2> QED  BY <2>2, <2>3, <2>4 DEF Service!Init
<1>2. CopiesInv /\ [Next]_vars => [Service!Next]_(Service!vars)
  <2> SUFFICES ASSUME CInv, DeckTurn, [Next]_vars
               PROVE  [Service!Next]_(Service!vars)
    BY DEF CopiesInv
  <2>1. JobOK /\ Counts /\ CopiesAddUp /\ MagicardIdle
    BY DEF CInv
  <2>2. ASSUME Outside, terminate' = terminate
        PROVE  UNCHANGED Service!vars
    <3>1. Wanted' = Wanted /\ Heeds' = Heeds /\ job' = job
      BY <2>1, <2>2, WantedFacts DEF Outside
    <3> QED  BY <2>2, <3>1 DEF Outside, Service!vars
  <2>3. CASE Act \/ LinkFails
    BY <2>1, <2>3, LoopMoves, MoveIsService
  <2>4. CASE Query \/ Works \/ Breaks
    BY <2>1, <2>2, <2>4, PrinterIsOutside, MoveIsService
  <2>5. CASE SigTerm
    <3>1. /\ result = "running" /\ terminate = FALSE /\ terminate' = TRUE
          /\ UNCHANGED <<job, given, late, result>>
      BY <2>1, <2>5 DEF SigTerm, Running, Counts
    <3>2. Heeds' = Heeds /\ Wanted' = Wanted
      BY <2>1, <3>1, WantedFacts
    <3> QED  BY <3>1, <3>2 DEF Service!Next, Service!Terminate
  <2>6. CASE UNCHANGED vars
    <3>1. UNCHANGED <<job, given, late, result, terminate>>
      BY <2>6 DEF vars
    <3>2. Heeds' = Heeds /\ Wanted' = Wanted
      BY <2>1, <3>1, WantedFacts
    <3> QED  BY <3>1, <3>2 DEF Service!vars
  <2> QED  BY <2>3, <2>4, <2>5, <2>6 DEF Next, Ended
<1>3. CopyPromise <=> Service!Init /\ [][Service!Next]_(Service!vars)
  BY DEF CopyPromise, Service!Spec
<1> QED  BY CopiesInvHolds, <1>1, <1>2, <1>3, PTL DEF Spec

(* A printer that does none of the five things its backend is not written  *)
(* for gets nothing that it is not ready for: no plane out of turn, no     *)
(* page without room or in the middle of another, no image data that it    *)
(* has not accepted.                                                       *)
THEOREM PrintersInTurn ==
  ASSUME Hitches \cap Unhandled = {}
  PROVE  Spec => []InTurn
<1>1. Turn /\ CopiesInv => InTurn
  <2> SUFFICES ASSUME Turn, DeckTurn PROVE ~dev.stray
    BY DEF InTurn, CopiesInv
  <2>1. CASE job.model \in PlaneModels
    BY <2>1 DEF Turn, PlaneTurn, PlaneDevs
  <2>2. CASE Is("hiti")
    BY <2>2 DEF Turn, HitiTurn, HitiDevs
  <2>3. CASE job.model \in SpoolModels \ {"magicard"}
    BY <2>3 DEF Turn, SpoolTurn, SpoolDevs
  <2>4. CASE Is("magicard")
    BY <2>4 DEF Turn, MagicardTurn
  <2>5. CASE job.model \in BankModels
    BY <2>5 DEF Turn, BankTurn, BankDevs
  <2>6. CASE Is("mitsu70x")
    BY <2>6 DEF DeckTurn, DeckDevs
  <2>7. CASE Is("dnpds40")
    BY <2>7 DEF Turn, DnpTurn, DnpDevs
  <2> QED  BY <2>1, <2>2, <2>3, <2>4, <2>5, <2>6, <2>7 DEF Turn, Models, Is
<1> QED  BY TurnHolds, <1>1, PTL

(* A loop that was told to wait returns "ok" only when the printer has     *)
(* printed what it was given, but for the cases that WaitedFor names.      *)
THEOREM PrintersWaitedFor ==
  ASSUME Hitches \cap Unhandled = {}
  PROVE  Spec => []WaitedFor
<1>1. Turn /\ CopiesInv => WaitedFor
  <2> SUFFICES ASSUME Turn, DeckTurn, result = "ok", job.wait PROVE WaitedFor
    BY DEF WaitedFor, CopiesInv
  <2>1. CASE Is("mitsu70x")
    <3>1. \/ dev.decks[state[2]].copy = "none"
          \/ terminate /\ job.decks = AllDecks
      BY <2>1 DEF DeckTurn
    <3>2. ~Is("dnpds40") /\ ~Is("shinkos2145") /\ ~Is("mitsud90")
      BY <2>1 DEF Is
    <3> QED  BY <2>1, <3>1, <3>2, Zenon DEF WaitedFor
  <2>2. CASE Is("dnpds40")
    <3>1. \/ mem.status \in {"fault", "data"}
          \/ dev.printed = given \/ mem.pano # 0 \/ job.part = "matte1"
      BY <2>2 DEF Turn, DnpTurn, Through
    <3>2. ~Is("mitsu70x") /\ ~Is("shinkos2145") /\ ~Is("mitsud90")
      BY <2>2 DEF Is
    <3> QED  BY <2>2, <3>1, <3>2, Zenon DEF WaitedFor
  <2>3. CASE Is("shinkos2145")
    <3>1. \/ mem.last.finished \/ mem.last.err = "status" \/ dev.printed = given
      BY <2>3 DEF Turn, BankTurn, TakenForDone, BankModels, Shinkos, Is
    <3>2. ~Is("mitsu70x") /\ ~Is("dnpds40") /\ ~Is("mitsud90")
      BY <2>3 DEF Is
    <3> QED  BY <2>3, <3>1, <3>2, Zenon DEF WaitedFor
  <2>4. CASE Is("mitsud90")
    <3>1. dev.loaded \/ dev.printed = given
      BY <2>4 DEF Turn, SpoolTurn, SpoolModels, PrinterCopies, Is
    <3>2. ~Is("mitsu70x") /\ ~Is("dnpds40") /\ ~Is("shinkos2145")
      BY <2>4 DEF Is
    <3> QED  BY <2>4, <3>1, <3>2, Zenon DEF WaitedFor
  <2>5. CASE job.model \notin {"mitsu70x", "dnpds40", "shinkos2145", "mitsud90"}
    <3>1. dev.printed = given
      <4>1. CASE job.model \in PlaneModels
        BY <4>1 DEF Turn, PlaneTurn
      <4>2. CASE Is("hiti")
        BY <4>2 DEF Turn, HitiTurn
      <4>3. CASE job.model \in SpoolModels \ {"magicard"}
        BY <2>5, <4>3 DEF Turn, SpoolTurn, Is
      <4>4. CASE Is("magicard")
        BY <4>4 DEF Turn, MagicardTurn
      <4>5. CASE job.model \in BankModels
        BY <2>5, <4>5 DEF Turn, BankTurn, TakenForDone, Is
      <4> QED  BY <2>5, <4>1, <4>2, <4>3, <4>4, <4>5 DEF Turn, Models, Is
    <3>2. ~Is("mitsu70x") /\ ~Is("dnpds40") /\ ~Is("shinkos2145") /\ ~Is("mitsud90")
      BY <2>5 DEF Is
    <3> QED  BY <3>1, <3>2, Zenon DEF WaitedFor
  <2> QED  BY <2>1, <2>2, <2>3, <2>4, <2>5 DEF Is
<1> QED  BY TurnHolds, <1>1, PTL

(* However often the printers fail, a job gets no number that a job still  *)
(* printing has, but for shinkos6145; the printers excepted are those of   *)
(* LoopsKeepCopyPromise.                                                   *)
THEOREM PrintersJobIdsApart ==
  ASSUME CopiesPlain PROVE Spec => []JobIdsApart
<1>1. BankTurn /\ CopiesInv => JobIdsApart
  BY DEF BankTurn, CopiesInv, DeckTurn, DeckDevs, JobIdsApart, Is
<1>2. Init => BankTurn
  BY BankTurnInit
<1>3. BankTurn /\ CopiesInv /\ [Next]_vars => BankTurn'
  BY BankTurnStep DEF CopiesInv
<1> QED  BY CopiesInvHolds, <1>1, <1>2, <1>3, PTL DEF Spec
=============================================================================
