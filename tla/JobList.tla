------------------------------ MODULE JobList ------------------------------
(***************************************************************************)
(* The main loop of the dye-sublimation backends, handle_input in          *)
(* src/cups/backend_common.c, and its job list: pages are read one by one, *)
(* and a page that leaves half a sheet empty waits in the list for another *)
(* one to share the sheet with (combine_jobs).                             *)
(*                                                                         *)
(* A job is a record with the fields copies, can_combine, kind (what has   *)
(* to be equal for two jobs to share a sheet) and data, its print data.    *)
(* memory[d] is what print data d show: the pages on the sheet, in order.  *)
(***************************************************************************)
EXTENDS Integers, Sequences, SequencesExt

CONSTANT Documents   (* sequences of reads; a read is a sequence of jobs,  *)
                     (* each with its page in place of its data            *)

MaxJobEntries == 3   (* DYESUB_MAX_JOB_ENTRIES   *)
MaxJobsRead   == 3   (* MAX_JOBS_FROM_READ_PARSE *)

ASSUME DocumentsAssumption ==
  \A document \in Documents :
    /\ document \in
         Seq(Seq([page : Nat, copies : Nat \ {0}, kind : STRING,
                  can_combine : BOOLEAN]))
    /\ \A n \in DOMAIN document : Len(document[n]) \in 1 .. MaxJobsRead

(* A document with at most two copies of a page, and with panoramas only   *)
(* where no page can wait for another: of these no print data are lost.    *)
Modest(d) ==
  /\ \A n \in DOMAIN d : \A k \in DOMAIN d[n] : d[n][k].copies <= 2
  /\ \A n \in DOMAIN d :
       n > 1 /\ Len(d[n]) > 1 => ~d[n - 1][Len(d[n - 1])].can_combine

VARIABLES
  document,  (* the reads that the data still hold                         *)
  read_page, (* has a page been read                                       *)
  jobs,      (* the jobs of the last read, not yet in the list             *)
  list,      (* the job list; empty when there is none                     *)
  memory,    (* the print data allocated                                   *)
  fresh,     (* the next print data to allocate                            *)
  entry, copy, (* the entry of the list being printed, copies of it so far *)
  pc,
  taken, printed, status  (* as in PrintQueue                              *)

heap == <<memory, fresh>>
vars == <<document, read_page, jobs, list, heap, entry, copy, pc, taken,
          printed, status>>

Init ==
  /\ document \in Documents
  /\ read_page = FALSE
  /\ jobs = << >> /\ list = << >>
  /\ memory = << >> /\ fresh = 1
  /\ entry = 1 /\ copy = 0
  /\ pc = "read"
  /\ taken = << >> /\ printed = << >> /\ status = "running"

Free(ds) == [d \in DOMAIN memory \ ds |-> memory[d]]

Repeat(n, s) == FlattenSeq([k \in 1 .. n |-> s])

-----------------------------------------------------------------------------
(* read_parse returns the jobs of a page, or the panels of a panorama.     *)
ReadPage ==
  /\ pc = "read"
  /\ document # << >>
  /\ LET read == Head(document)
     IN  /\ jobs' = [k \in DOMAIN read |->
                      [copies |-> read[k].copies, kind |-> read[k].kind,
                       can_combine |-> read[k].can_combine,
                       data |-> fresh + k - 1]]
         /\ memory' = [d \in DOMAIN memory \union
                             fresh .. fresh + Len(read) - 1 |->
                        IF d < fresh THEN memory[d]
                        ELSE <<read[d - fresh + 1].page>>]
         /\ fresh' = fresh + Len(read)
         /\ taken' = taken \o FlattenSeq([k \in DOMAIN read |->
                       Repeat(read[k].copies, <<read[k].page>>)])
  /\ document' = Tail(document)
  /\ read_page' = TRUE
  /\ pc' = "append"
  /\ UNCHANGED <<list, entry, copy, printed, status>>

(* Mutant of ReadFails: a list that may get another page goes on waiting.  *)
ReadFailsWaits ==
  /\ pc = "read"
  /\ document' = IF document = << >> THEN << >> ELSE Tail(document)
  /\ IF list # << >>
     THEN UNCHANGED <<pc, status>>
     ELSE /\ pc' = "done"
          /\ status' = IF read_page THEN "ok" ELSE "failed"
  /\ UNCHANGED <<read_page, jobs, list, heap, entry, copy, taken, printed>>

(* read_parse finds the end of the data, or data it cannot use: what waits *)
(* in the list is printed and another read tried; without a list, all is   *)
(* well if anything was ever read.                                         *)
ReadFails ==
  /\ pc = "read"
  /\ document' = IF document = << >> THEN << >> ELSE Tail(document)
  /\ IF list # << >>
     THEN pc' = "print" /\ UNCHANGED status
     ELSE /\ pc' = "done"
          /\ status' = IF read_page THEN "ok" ELSE "failed"
  /\ UNCHANGED <<read_page, jobs, list, heap, entry, copy, taken, printed>>

-----------------------------------------------------------------------------
(* __dyesub_joblist_addjob, for each of some jobs: a full list takes none. *)
Added(entries, new) ==
  LET all == entries \o new
  IN  SubSeq(all, 1, IF Len(all) < MaxJobEntries THEN Len(all)
                     ELSE MaxJobEntries)

(* dyesub_joblist_canwait; the list is never empty when it is asked.       *)
CanWait(entries) ==
  /\ Len(entries) # MaxJobEntries
  /\ Last(entries).can_combine

(* Mutant of Pairable: copies of the waiting job are not looked at.        *)
PairableIfAlike(old, job) == old.can_combine /\ job.can_combine

(* Does __dyesub_append_job try to combine the last job of the list and    *)
(* the new one?                                                            *)
Pairable(old, job) ==
  /\ job.can_combine
  /\ old.copies <= 1
  /\ old.can_combine

WithWaiting == list # << >> /\ Pairable(Last(list), Head(jobs))

(* The job is in the list, as new entries; on to the next one.             *)
Append1(entries) ==
  /\ list' = entries
  /\ jobs' = Tail(jobs)
  /\ pc' = IF Len(jobs) > 1 THEN "append"
           ELSE IF CanWait(entries) THEN "read" ELSE "print"
  /\ UNCHANGED <<document, read_page, entry, copy, taken, printed, status>>

(* combine_jobs: a job that shows both, to be printed as often as the      *)
(* first.  It may refuse two jobs of a kind (no memory, no such sheet).    *)
Combined(old, job) ==
  [copies |-> old.copies, can_combine |-> FALSE, kind |-> old.kind,
   data |-> fresh]

(* Mutant of NewSheet: both are cleaned up, whatever copies are left.      *)
NewSheetFreesBoth(old, job, freed) ==
  /\ fresh' = fresh + 1
  /\ memory' = [d \in (DOMAIN memory \ {old.data, job.data}) \union {fresh} |->
                 IF d = fresh THEN memory[old.data] \o memory[job.data]
                 ELSE memory[d]]

(* The combined job's data; the data of jobs with no copy left are freed.  *)
NewSheet(old, job, freed) ==
  /\ fresh' = fresh + 1
  /\ memory' = [d \in (DOMAIN memory \ freed) \union {fresh} |->
                 IF d = fresh THEN memory[old.data] \o memory[job.data]
                 ELSE memory[d]]

(* "Anything left in the new job?", "Just one, shove it on the list".      *)
LeftOver(job) ==
  IF job.copies - 1 = 1 THEN <<[job EXCEPT !.copies = 1]>> ELSE << >>

(* The first copy of the job shares the sheet of the job that waits.       *)
PairWithWaiting ==
  LET job == Head(jobs)
      old == Last(list)
  IN  /\ pc = "append" /\ jobs # << >>
      /\ WithWaiting
      /\ old.kind = job.kind
      /\ NewSheet(old, job,
                  {old.data} \union IF job.copies = 1 THEN {job.data} ELSE {})
      /\ Append1(Added(Front(list), <<Combined(old, job)>> \o LeftOver(job)))

(* Mutant of PairedCopies: a sheet too few.                                *)
SheetTooFew(job) ==
  [Combined(job, job) EXCEPT !.copies = (job.copies - 1) \div 2]

(* Two copies on every sheet.                                              *)
PairedCopies(job) == [Combined(job, job) EXCEPT !.copies = job.copies \div 2]

(* The copies of the job share sheets with each other; an odd one is left. *)
(* Where the printer says so (job_polarity) it is printed before them, but *)
(* not if a waiting job has refused the new one.                           *)
PairCopies(polarity) ==
  LET job  == Head(jobs)
      rest == IF job.copies % 2 = 0 THEN << >>
              ELSE <<[job EXCEPT !.copies = 1]>>
      pair == <<PairedCopies(job)>>
  IN  /\ pc = "append" /\ jobs # << >>
      /\ job.can_combine
      /\ job.copies > 1
      /\ polarity => ~WithWaiting
      /\ NewSheet(job, job, IF rest = << >> THEN {job.data} ELSE {})
      /\ Append1(Added(list, IF polarity THEN rest \o pair ELSE pair \o rest))

(* The job cannot share a sheet.                                           *)
AppendAsIs ==
  /\ pc = "append" /\ jobs # << >>
  /\ Append1(Added(list, <<Head(jobs)>>))
  /\ UNCHANGED heap

-----------------------------------------------------------------------------
(* dyesub_joblist_print: main_loop prints the copies of an entry, one      *)
(* sheet each; after the last entry the list is cleaned up.                *)
PrintSheet ==
  LET job  == list[entry]
      last == copy + 1 = job.copies
      end  == last /\ entry = Len(list)
  IN  /\ pc = "print"
      /\ printed' = printed \o memory[job.data]
      /\ copy'  = IF last THEN 0 ELSE copy + 1
      /\ entry' = IF end THEN 1 ELSE IF last THEN entry + 1 ELSE entry
      /\ IF end
         THEN /\ memory' = Free({list[n].data : n \in DOMAIN list})
              /\ list' = << >>
              /\ pc' = "read"
         ELSE UNCHANGED <<memory, list, pc>>
      /\ UNCHANGED <<document, read_page, jobs, fresh, taken, status>>

(* main_loop or the query of the markers fails: no more is printed.        *)
PrintFails ==
  /\ pc = "print"
  /\ pc' = "done"
  /\ status' = "failed"
  /\ memory' = Free({list[n].data : n \in DOMAIN list})
  /\ list' = << >>
  /\ UNCHANGED <<document, read_page, jobs, fresh, entry, copy, taken, printed>>

Done == pc = "done" /\ UNCHANGED vars

Next ==
  \/ ReadPage \/ ReadFails
  \/ PairWithWaiting \/ (\E polarity \in BOOLEAN : PairCopies(polarity))
  \/ AppendAsIs
  \/ PrintSheet \/ PrintFails \/ Done

Spec     == Init /\ [][Next]_vars
FairSpec == Spec /\ WF_vars(Next)
-----------------------------------------------------------------------------
(* Type correctness.                                                       *)
TypeOK ==
  /\ read_page \in BOOLEAN
  /\ Len(list) <= MaxJobEntries
  /\ fresh \in Nat \ {0}
  /\ DOMAIN memory \subseteq 1 .. fresh - 1
  /\ pc \in {"read", "append", "print", "done"}
  /\ pc = "append" => jobs # << >>
  /\ pc = "print" =>
       /\ entry \in DOMAIN list
       /\ copy \in 0 .. list[entry].copies - 1
  /\ status \in {"running", "ok", "failed"}
  /\ pc = "done" <=> status # "running"

(* All print data belong to exactly one job that waits or is to be added:  *)
(* no job is printed or combined after its data were freed, no data are    *)
(* freed twice, and none are forgotten, whatever shares a sheet and however*)
(* the backend ends.                                                       *)
DataOwnedOnce ==
  LET all == list \o jobs
  IN  /\ DOMAIN memory = {all[n].data : n \in DOMAIN all}
      /\ \A n, m \in DOMAIN all : all[n].data = all[m].data => n = m
      /\ pc = "done" => all = << >>

(* A job that waits in the list keeps its place: whatever shares a sheet,  *)
(* what is printed is at all times what was read first, each copy once,    *)
(* and the backend succeeds only when every copy read has been printed.    *)
Queue      == INSTANCE PrintQueue
InOrderAll == Queue!Spec

(* "Anything left in the new job?", "Add the remainder, if any": when the  *)
(* backend reports success, every copy of every page read was printed.     *)
EveryCopyPrinted == status = "ok" => Len(printed) = Len(taken)

(* The backend ends: it never waits for a page that does not come.         *)
BackendEnds == <>(pc = "done")
=============================================================================
