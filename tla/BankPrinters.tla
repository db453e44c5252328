---------------------------- MODULE BankPrinters ----------------------------
(***************************************************************************)
(* Backends of printers with memory banks: kodak605 and kodak6800, and the *)
(* state machines of shinkos1245, shinkos2145, shinkos6145, shinkos6245.   *)
(* A job is sent as soon as a bank is free, while others are printing; the *)
(* host gives it a number that no bank holds.  The printer makes the       *)
(* copies.  A bank keeps its number when it has been printed.              *)
(*                                                                         *)
(* A printer may refuse the print command though a bank is free.  Only     *)
(* shinkos1245 tries again: the loops of kodak605, shinkos2145, 6145 and   *)
(* 6245 have a case for it ("Printer Buffers full, retrying"), but their   *)
(* commands go through sinfonia_docmd, which fails by itself whenever the  *)
(* result is not RESULT_SUCCESS, and the loop returns what it returns.     *)
(***************************************************************************)
EXTENDS PrinterLink

CONSTANT MaxJobId    (* 127 in the code: "&= 0x7f"                         *)

ASSUME MaxJobIdAssumption == MaxJobId \in Nat /\ MaxJobId > 4

Shinkos == {"shinkos1245", "shinkos2145", "shinkos6145", "shinkos6245"}

BankModels == {"kodak605", "kodak6800"} \union Shinkos

(* needs: the banks the page takes; switch: has the overcoat (6145) or the *)
(* matte intensity (1245) to be set, which a printing printer refuses.     *)
BankJobs ==
  {j \in [model : BankModels, copies : Copies, wait : BOOLEAN,
          batch : Copies, needs : {1, 2}, switch : BOOLEAN, fits : BOOLEAN] :
     /\ j.batch = j.copies
     /\ j.needs = 2 => j.model = "kodak605"
     /\ j.switch => j.model \in {"shinkos1245", "shinkos6145"}}

Banks == 1 .. IF Is("kodak605") THEN 4 ELSE 2

FreeBanks(banks) == {b \in DOMAIN banks : banks[b].left = 0}

(* What is in the banks at first: nothing yet, or old jobs, some of them   *)
(* still printing, with the numbers that the host comes to next.           *)
(* The printer refuses with full buffers, or (shinkos1245) says no more    *)
(* than that it does not take the job; its error is in the field for       *)
(* errors ("flagged") or only in the one for the status; shinkos2145 has a *)
(* status of its own for a page just finished.                             *)
OldBanks ==
  {[b \in Banks |-> [id |-> 0, left |-> 0, mine |-> FALSE]]}
  \union {[b \in Banks |-> [id |-> IF b = 1 THEN MaxJobId ELSE b - 1,
                            left |-> left[b], mine |-> FALSE]] :
          left \in [Banks -> {0, 1}]}

BankInit ==
  /\ job \in BankJobs
  /\ state = <<"idle">>
  /\ mem \in [jobid : {MaxJobId}, last : {NotRead}, last_state : {<<>>},
              set : {FALSE}]
  /\ dev \in [banks : OldBanks, refuse : {"no"}, troubles : {0},
              err : {"none"}, finished : {FALSE},
              stray : {FALSE}, clash : {FALSE}, printed : {0}]

Printing(banks) == \E b \in DOMAIN banks : banks[b].left > 0

BankQuery ==
  /\ job.model \in BankModels
  /\ state # <<"print">>
  /\ Read([banks |-> dev.banks, refuse |-> dev.refuse, err |-> dev.err,
           finished |-> dev.finished])
  /\ UNCHANGED dev

Idle == ~Printing(sts.banks) /\ sts.refuse # "full" /\ sts.err = "none"

(* "Make sure we're not colliding with an existing jobid."                 *)
Later(k) == ((mem.jobid + k - 1) % MaxJobId) + 1

(* Mutant of FreeId: only the first bank is looked at.                     *)
FreeIdFirst(banks) == IF mem.jobid = banks[1].id THEN Later(1) ELSE mem.jobid

FreeId(banks) ==
  LET held == {banks[b].id : b \in DOMAIN banks}
      n    == CHOOSE k \in 0 .. MaxJobId - 1 :
                /\ Later(k) \notin held
                /\ \A l \in 0 .. k - 1 : Later(l) \in held
  IN  Later(n)

(* The print command and the data: the job is in free banks now.           *)
Accept(id) ==
  \E bs \in SUBSET FreeBanks(dev.banks) :
    /\ Cardinality(bs) = job.needs
    /\ dev' = [dev EXCEPT
         !.banks = [b \in Banks |->
                     IF b \in bs
                     THEN [id |-> id, mine |-> TRUE, left |-> job.copies]
                     ELSE dev.banks[b]],
         !.clash = @ \/ \E b \in Banks :
                          dev.banks[b].id = id /\ dev.banks[b].left > 0]

Overrun == dev' = [dev EXCEPT !.stray = TRUE]

NoRoom == Cardinality(FreeBanks(dev.banks)) < job.needs

Takes(id) ==
  /\ IF NoRoom THEN Overrun ELSE Accept(id)
  /\ Give(job.copies)

Refused == dev.refuse # "no"

Leaves(code) == Return(code) /\ GiveNone /\ UNCHANGED <<mem, dev>>

Stays(s) == Goto(s) /\ GiveNone /\ UNCHANGED dev

OwnDone == \E b \in Banks : sts.banks[b].id = mem.jobid /\ sts.banks[b].left = 0

-----------------------------------------------------------------------------
(* kodak605 and kodak6800.  Waiting for a bank kodak605 does not look at   *)
(* errors.                                                                 *)
KodakIdle ==
  /\ state = <<"idle">> /\ sts # NotRead
  /\ IF ~job.fits THEN Leaves("hold")
     ELSE IF Is("kodak6800") /\ sts.err # "none" THEN Leaves("failed")
     ELSE /\ mem' = [mem EXCEPT !.jobid = FreeId(sts.banks)]
          /\ Stays(IF Cardinality(FreeBanks(sts.banks)) >= job.needs
                   THEN <<"print">> ELSE state)

KodakPrint ==
  /\ state = <<"print">>
  /\ IF Refused THEN Return("failed") /\ GiveNone /\ UNCHANGED dev
     ELSE Goto(<<"wait">>) /\ Takes(mem.jobid)
  /\ UNCHANGED mem

KodakDone == ~job.wait \/ OwnDone \/ (Is("kodak605") /\ Idle)

KodakWait ==
  /\ state = <<"wait">> /\ sts # NotRead
  /\ IF sts.err = "flagged"
     THEN Leaves(IF Is("kodak605") THEN "stop" ELSE "failed")
     ELSE IF KodakDone THEN Leaves("ok")
     ELSE Stays(state) /\ UNCHANGED mem

-----------------------------------------------------------------------------
(* The Shinkos.  mem.last is the status seen last (sts2): an unchanged one *)
(* in an unchanged state is not acted on.                                  *)
Seen == [mem EXCEPT !.last = sts, !.last_state = state]

(* Mutant of ShinkoPasses: the state is not compared.                     *)
ShinkoPassesAlways == sts = mem.last

ShinkoPasses == sts = mem.last /\ state = mem.last_state

ShinkoIdle ==
  LET free == FreeBanks(sts.banks) # {}
      checks == ~Is("shinkos6145") /\ ~(Is("shinkos1245") /\ Idle)
  IN /\ state = <<"idle">>
     /\ Stays(IF free THEN <<"ready">> ELSE state)
     /\ mem' = [Seen EXCEPT !.jobid = IF checks THEN FreeId(sts.banks) ELSE @]

(* The printer cannot be set while it prints.                              *)
CannotSet ==
  /\ job.switch
  /\ Is("shinkos6145") \/ ~mem.set
  /\ Printing(IF Is("shinkos6145") THEN sts.banks ELSE dev.banks)

(* The print command is accepted and the data are sent, or it is refused.  *)
ShinkoReady ==
  /\ state = <<"ready">>
  /\ IF CannotSet
     THEN Stays(IF Is("shinkos6145") THEN state ELSE <<"idle">>) /\ mem' = Seen
     ELSE /\ mem' = [Seen EXCEPT !.set = TRUE]
          /\ IF Is("shinkos1245") /\ dev.refuse = "full" THEN Stays(state)
             ELSE IF Refused \/ (Is("shinkos1245") /\ dev.err # "none")
             THEN Return("failed") /\ GiveNone /\ UNCHANGED dev
             ELSE Goto(<<"sent">>) /\ Takes(mem.jobid)

(* shinkos2145 also takes a page just finished for the end, whose ever it  *)
(* is, and an error that is only in the status.                            *)
ShinkoDone ==
  Idle \/ (Is("shinkos2145") /\ (sts.finished \/ sts.err # "none"))

ShinkoSent ==
  /\ state = <<"sent">>
  /\ mem' = Seen
  /\ IF ~job.wait \/ ShinkoDone THEN Return("ok") ELSE Goto(state)
  /\ GiveNone /\ UNCHANGED dev

(* shinkos1245 looks for errors in every status, the others in one that    *)
(* has changed; shinkos2145 and 6245 only in its field for errors.         *)
ShinkoError ==
  CASE Is("shinkos1245") -> sts.err # "none"
    [] Is("shinkos6145") -> sts.err # "none" /\ sts # mem.last
    [] OTHER             -> sts.err = "flagged" /\ sts # mem.last

ShinkoAct ==
  /\ sts # NotRead
  /\ IF ~job.fits THEN Leaves("hold")
     ELSE IF ShinkoPasses THEN Stays(state) /\ UNCHANGED mem
     ELSE IF ShinkoError THEN Leaves("failed")
     ELSE ShinkoIdle \/ ShinkoReady \/ ShinkoSent

BankAct ==
  /\ job.model \in BankModels
  /\ Running
  /\ UNCHANGED <<job, terminate>>
  /\ IF job.model \in Shinkos THEN ShinkoAct
     ELSE KodakIdle \/ KodakPrint \/ KodakWait

-----------------------------------------------------------------------------
(* A page of some bank is printed, or a refusal ends: unless the printer   *)
(* is quick about it, not before shinkos1245 has read a status that shows  *)
(* it.                                                                     *)
BankWorks ==
  /\ job.model \in BankModels
  /\ \/ \E b \in Banks :
          /\ dev.banks[b].left > 0 /\ dev.err = "none"
          /\ Printer([dev EXCEPT
               !.banks = [c \in Banks |->
                 IF c = b \/ (job.needs = 2 /\ dev.banks[b].mine /\ dev.banks[c].mine)
                 THEN [dev.banks[c] EXCEPT !.left = @ - 1]
                 ELSE dev.banks[c]],
               !.finished = Is("shinkos2145"),
               !.printed = IF dev.banks[b].mine THEN @ + 1 ELSE @])
     \/ dev.finished /\ Printer([dev EXCEPT !.finished = FALSE])
     \/ /\ dev.refuse # "no"
        /\ \/ May("refuse briefly") \/ ~Is("shinkos1245")
           \/ mem.last # NotRead /\ mem.last.refuse # "no"
        /\ Printer([dev EXCEPT !.refuse = "no"])

(* Somebody mends it.                                                      *)
BankMended ==
  /\ job.model \in BankModels /\ dev.err # "none"
  /\ Printer([dev EXCEPT !.err = "none"])

BankBreaks ==
  /\ job.model \in BankModels
  /\ dev.troubles = 0 /\ MaxTroubles > 0
  /\ \/ /\ dev.err = "none"
        /\ \E e \in {"flagged", "status"} :
             /\ e = "status" => job.model \notin {"kodak6800", "shinkos1245"}
             /\ Printer([dev EXCEPT !.err = e, !.troubles = @ + 1])
     \/ /\ dev.refuse = "no"
        /\ \E r \in {"full", "bad"} :
             /\ r = "bad" => Is("shinkos1245")
             /\ Printer([dev EXCEPT !.refuse = r, !.troubles = @ + 1])
=============================================================================
