---------------------------- MODULE DeckPrinters ----------------------------
(***************************************************************************)
(* The backend mitsu70x: printers with one deck or two.  Each copy goes to *)
(* a deck that may take it; a copy that its deck has spoilt is sent to the *)
(* other one.                                                              *)
(***************************************************************************)
EXTENDS PrinterLink

CONSTANT MaxDeckJobId   (* 65535 in the code: an uint16_t                  *)

ASSUME MaxDeckJobIdAssumption == MaxDeckJobId \in Nat /\ MaxDeckJobId > 3

AllDecks == {1, 2}

(* decks: those the printer has; req: the deck asked for, 0 is any; ok and *)
(* exact: the decks whose media can be used, and those that match; where   *)
(* they differ it is deck 1 that is better, for the decks are alike.       *)
DeckJobs ==
  {j \in [model : {"mitsu70x"}, copies : Copies, wait : BOOLEAN,
          batch : {1}, decks : {{1}, AllDecks}, req : 0 .. 2,
          ok : SUBSET AllDecks, exact : SUBSET AllDecks, fits : BOOLEAN] :
     /\ j.ok \subseteq j.decks /\ j.exact \subseteq j.ok \ {2}
     /\ j.ok # {2} /\ (j.exact # {} => j.exact # j.ok)
     /\ j.decks = {1} => j.req = 1 /\ j.exact = {}}

DeckInit ==
  /\ job \in DeckJobs
  /\ state = <<"top">>
  /\ mem \in [jobid : {0, MaxDeckJobId}, current : {0}]
  /\ dev \in [decks : [job.decks -> [id : {0, 1}, err : {FALSE},
                                     copy : {"none"}]],
              cool : {{}}, troubles : {0, 1}, full : BOOLEAN,
              abnormal : {FALSE}, stray : {FALSE},
              clash : {FALSE}]
  /\ \E d \in job.decks : dev.decks[d].id = 0
  /\ dev.full <=> dev.troubles > 0

Printed(d) == dev.decks[d].id = 0

(* Job status 0: the decks, and the number of a job that is printing.      *)
DeckQuery ==
  /\ Is("mitsu70x")
  /\ \E current \in {dev.decks[d].id : d \in job.decks} :
       /\ current = 0 => \A d \in job.decks : Printed(d)
       /\ Read([decks |-> dev.decks, cool |-> dev.cool, full |-> dev.full,
                abnormal |-> dev.abnormal, current |-> current])
  /\ UNCHANGED dev

(* The decks the job may go to.                                            *)
Legal ==
  IF job.req \in job.ok THEN {job.req}
  ELSE IF job.exact # {} THEN job.exact ELSE job.ok

Online(d) == d \in sts.cool \/ ~sts.decks[d].err

Usable ==
  {d \in Legal : d \notin sts.cool /\ ~sts.decks[d].err /\ sts.decks[d].id = 0}

DeckLeaves(code) == Return(code) /\ UNCHANGED mem

DeckTop ==
  /\ state = <<"top">>
  /\ IF Legal = {} THEN DeckLeaves("cancel")
     ELSE IF Usable # {}
     THEN /\ \E d \in Usable : Goto(<<"memory", d>>)
          /\ mem' = [mem EXCEPT !.current = sts.current]
     ELSE IF \A d \in job.decks : sts.decks[d].err THEN DeckLeaves("stop")
     ELSE IF \A d \in Legal : ~Online(d) THEN DeckLeaves("hold")
     ELSE Goto(state) /\ UNCHANGED mem
  /\ GiveNone /\ UNCHANGED dev

(* The job's number is not that of the job that was printing.              *)
NextJobId ==
  LET next(j) == (j % MaxDeckJobId) + 1
      id == IF mem.jobid = 0 THEN 1 ELSE mem.jobid
  IN  IF id = mem.current THEN next(id) ELSE id

(* A copy that a printer with two decks gets on a deck that has failed is  *)
(* lost, and asked for again.                                              *)
SendCopy(d) ==
  LET lost == dev.decks[d].err /\ job.decks = AllDecks IN
  /\ mem' = [mem EXCEPT !.jobid = NextJobId]
  /\ dev' = [dev EXCEPT
       !.decks[d] = [id |-> NextJobId, err |-> dev.decks[d].err,
                     copy |-> IF lost THEN "lost" ELSE "in"],
       !.stray = @ \/ ~Printed(d),
       !.clash = @ \/ (\E e \in job.decks : dev.decks[e].id = NextJobId)]
  /\ IF lost THEN GiveNone ELSE Give(1)

DeckMemory ==
  LET d == state[2] IN
  /\ state[1] = "memory"
  /\ IF ~job.fits THEN DeckLeaves("cancel") /\ GiveNone /\ UNCHANGED dev
     ELSE IF sts.full
     THEN Goto(<<"top">>) /\ GiveNone /\ UNCHANGED <<dev, mem>>
     ELSE Goto(<<"wait", d>>) /\ SendCopy(d)

(* The copy just sent: its deck has failed, and the copy is sent again if  *)
(* there is another deck; it is printed; or it is not waited for.          *)
DeckWait ==
  LET d       == state[2]
      done    == sts.decks[d].id # mem.jobid
      early   == ~job.wait /\ copies <= 1
      another == Cardinality(job.decks) > 1 /\ copies > 1
  IN
  /\ state[1] = "wait"
  /\ UNCHANGED <<mem, dev>> /\ GiveNone
  /\ IF sts.decks[d].err
     THEN IF Cardinality(job.decks) = 1 THEN Return("stop") ELSE Goto(<<"top">>)
     ELSE IF done /\ sts.abnormal THEN Return("stop")
     ELSE IF done \/ early \/ another THEN NextCopy(CopiesLeft, <<"top">>)
     ELSE Goto(state)

DeckAct ==
  /\ Is("mitsu70x")
  /\ Running /\ sts # NotRead
  /\ UNCHANGED <<job, terminate>>
  /\ DeckTop \/ DeckMemory \/ DeckWait

DeckWorks ==
  /\ Is("mitsu70x")
  /\ \/ \E d \in job.decks :
          /\ ~Printed(d) /\ ~dev.decks[d].err
          /\ Printer([dev EXCEPT !.decks[d].id = 0, !.decks[d].copy = "none"])
     \/ dev.cool # {} /\ Printer([dev EXCEPT !.cool = {}])
     \/ dev.full /\ Printer([dev EXCEPT !.full = FALSE])

(* Main_loop looks only at the deck of the copy it sent last, and takes    *)
(* that copy for spoilt when the deck reports an error.                    *)
Watched(d) == state = <<"wait", d>> /\ sts = NotRead

(* With two decks a deck with a copy in it fails under the eyes of         *)
(* main_loop, and not when it has just printed the copy, before main_loop  *)
(* knows it is done: unless the printer is one that does.                  *)
MayFail(d) ==
  \/ job.decks # AllDecks
  \/ /\ dev.decks[d].copy = "in"
     /\ Watched(d) \/ May("fail unwatched")
  \/ /\ dev.decks[d].copy = "none"
     /\ \/ state # <<"wait", d>> \/ May("fail when done")
        \/ sts # NotRead /\ sts.decks[d].id # mem.jobid
  \/ dev.decks[d].copy = "lost"

Failed(d) ==
  [id |-> 0, err |-> TRUE,
   copy |-> IF dev.decks[d].copy = "none" THEN "none" ELSE "lost"]

(* The printer spoils copies: it does not have them any more.  Of a        *)
(* printer with one deck main_loop does not try them again.                *)
Spoils(new, spoilt) ==
  /\ Running
  /\ dev' = new
  /\ IF spoilt # {} /\ job.decks = AllDecks
     THEN given' = given - Cardinality(spoilt) /\ late' = 0
     ELSE GiveNone
  /\ UNCHANGED <<job, copies, state, sts, mem, terminate, result>>

(* A deck or both fail: what was in it is spoilt.  Or a deck has to rest,  *)
(* or the job in it ends abnormally.                                       *)
DeckBreaks ==
  /\ Is("mitsu70x")
  /\ dev.troubles = 0 /\ MaxTroubles > 0
  /\ \/ \E ds \in SUBSET job.decks \ {{}} :
          /\ \A d \in ds : MayFail(d)
          /\ Spoils([dev EXCEPT
               !.decks = [d \in job.decks |-> IF d \in ds THEN Failed(d) ELSE @[d]],
               !.troubles = @ + 1],
               {d \in ds : dev.decks[d].copy = "in"})
     \/ \E d \in job.decks \ dev.cool :
          /\ Printed(d)
          /\ Printer([dev EXCEPT !.cool = @ \union {d}, !.troubles = @ + 1])
     \/ LET d == state[2] IN
        /\ state[1] = "wait" /\ ~dev.abnormal
        /\ dev.decks[d].copy = "in"
        /\ job.decks # AllDecks \/ Watched(d) \/ May("fail unwatched")
        /\ Spoils([dev EXCEPT !.abnormal = TRUE, !.troubles = @ + 1,
               !.decks[d].id = 0, !.decks[d].copy = "lost"],
               {d})
=============================================================================
