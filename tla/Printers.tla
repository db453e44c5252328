------------------------------ MODULE Printers ------------------------------
(***************************************************************************)
(* The main loops of the dye-sublimation backends, each with a printer of  *)
(* its kind, in one specification: job.model says which.                   *)
(***************************************************************************)
EXTENDS PlanePrinters, SpoolPrinters, BankPrinters, DeckPrinters, DnpPrinters

Init ==
  /\ PlaneInit \/ HitiInit \/ SpoolInit \/ BankInit \/ DeckInit \/ DnpInit
  /\ copies = Wanted
  /\ sts = NotRead
  /\ terminate = FALSE /\ result = "running"
  /\ given = 0 /\ late = 0

Query ==
  PlaneQuery \/ HitiQuery \/ SpoolQuery \/ BankQuery \/ DeckQuery \/ DnpQuery

Act ==
  \/ PlaneAct \/ HitiAct \/ SpoolAct \/ MagicardPage
  \/ BankAct \/ DeckAct \/ DnpAct

(* The printer does what it has been given.                                *)
Works ==
  \/ PlaneWorks \/ HitiWorks \/ SpoolWorks \/ SpoolMended
  \/ BankWorks \/ BankMended \/ DeckWorks \/ DnpWorks

(* It fails, or has to rest.                                               *)
Breaks ==
  \/ PlaneBreaks \/ HitiBreaks \/ SpoolBreaks
  \/ BankBreaks \/ DeckBreaks \/ DnpBreaks

Ended == ~Running /\ UNCHANGED vars

Next == Query \/ Act \/ Works \/ Breaks \/ SigTerm \/ LinkFails \/ Ended

Spec == Init /\ [][Next]_vars

FairSpec == Spec /\ WF_vars(Query \/ Act) /\ WF_vars(Works)
-----------------------------------------------------------------------------
(* Each main loop keeps the promise that the job list relies on: every     *)
(* copy given once and completely, "ok" only then, and after a SIGTERM no  *)
(* more than one batch.  sonyupd does not look at terminate when it finds  *)
(* the printer idle ("goto done"): of it the last part is not promised.    *)
Heeds   == job.model # "sonyupd"
Service == INSTANCE CopyService
             WITH wanted <- Wanted, batch <- job.batch, heeds <- Heeds,
                  late <- IF Heeds THEN late ELSE 0
CopyPromise == Service!Spec

(* However the printer's progress interleaves with the host's stale view   *)
(* of it, the printer gets nothing it is not ready for: no plane out of    *)
(* turn, no page without room or in the middle of another, no image data   *)
(* without an accepted print command.                                      *)
InTurn == ~dev.stray

(* A loop that was told to wait returns "ok" only when the printer has     *)
(* printed what it was given; of a printer with two decks that is so of    *)
(* the last copy, and not so once SIGTERM has cut the copies short.        *)
(* shinkos2145 takes a page just finished, whose ever it is, and an error  *)
(* in the status for the end; mitsud90 does not wait for pages that are    *)
(* not to be printed yet; dnpds40 returns "ok" when the printer reports an *)
(* error or nothing.                                                       *)
WaitedFor ==
  result = "ok" /\ job.wait =>
    CASE Is("mitsu70x") -> \/ dev.decks[state[2]].copy = "none"
                           \/ terminate /\ job.decks = AllDecks
      [] Is("shinkos2145") -> \/ mem.last.finished \/ mem.last.err = "status"
                              \/ dev.printed = given
      [] Is("mitsud90")    -> dev.loaded \/ dev.printed = given
      [] Is("dnpds40")     -> \/ mem.status \in {"fault", "data"}
                              \/ dev.printed = given
                              \/ mem.pano # 0 \/ job.part = "matte1"
      [] OTHER             -> dev.printed = given

(* The loops that send a page through banks say "Printer Buffers full,     *)
(* retrying" when a print command is refused for that reason, and have a   *)
(* case that keeps their state; a refused print command does not end them. *)
RefusalRetried ==
  [][Is("shinkos6145") /\ dev.refuse = "full" /\ sts # NotRead /\ ShinkoReady
       => result' = "running"]_vars

(* A job gets no number that a job still printing has: the host would      *)
(* take the end of the one for the end of the other.  shinkos6145 does not *)
(* look, and does not use the number.                                      *)
JobIdsApart ==
  job.model \in (BankModels \union {"mitsu70x"}) \ {"shinkos6145"} => ~dev.clash

(* Every main loop ends, whatever the printer reports, if a printer that   *)
(* can still do something does it: no loop waits for a status it slept     *)
(* through.                                                                *)
LoopEnds == <>(result # "running")

(* Type correctness.                                                       *)
TypeOK ==
  /\ copies \in 0 .. Wanted
  /\ given \in 0 .. Wanted /\ late \in 0 .. Wanted
  /\ terminate \in BOOLEAN
  /\ result \in Codes \union {"running"}
  /\ dev.stray \in BOOLEAN
=============================================================================
