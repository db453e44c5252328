----------------------------- MODULE SoftWeave -----------------------------
(***************************************************************************)
(* The softweave of src/main/print-weave.c as the ESC/P2 driver drives it: *)
(* stp_write_weave is called for each row of the image, puts the row's     *)
(* subpasses in the line buffers of the passes that will print them, and   *)
(* sends the passes whose last row has gone by; stp_flush_all sends the    *)
(* rest.  Passes live in vmod banks, pass p in bank p % vmod.              *)
(*                                                                         *)
(* The loops of the C functions are steps of pc: "driver" between two      *)
(* calls, "initialize" in initialize_row, "add" in stp_write_weave's own   *)
(* loop, "finalize" in finalize_row, "flush" in the stpi_flush_passes it   *)
(* calls, "flushall" in stp_flush_all's, and "done".                       *)
(***************************************************************************)
EXTENDS WeaveJobs

VARIABLES
  job,         (* the page, fixed by stp_initialize_weave                  *)
  lineno,      (* the row that stp_write_weave works on                    *)
  subline,     (* current_vertical_subpass                                 *)
  pc, i, j,    (* where in which loop: subpass i, colour j                 *)
  passes,      (* passes[b], the pass of bank b, with pass = -1 if free    *)
  linecount,   (* linecount[b][j], the rows of colour j                    *)
  linebuf,     (* linebuf[b][j], the lines in the buffer of colour j       *)
  lineactive,  (* lineactive[b][j], does any of them have dots             *)
  last_pass,   (* the pass sent last                                       *)
  sheet, paper (* what the printer has printed (see Page)                  *)

engine  == <<lineno, subline, passes, linecount, linebuf, lineactive>>
printer == <<last_pass, sheet, paper>>
vars    == <<job, pc, i, j, engine, printer>>

FreePass == [pass |-> -1, logicalpassstart |-> 0, physpassend |-> 0, subpass |-> 0]

(* The weave parameters of this row for colour c in subpass s, its bank.   *)
Param(c, s)  == job.weave[lineno + job.head_offset[c], s]
Bank(c, s)   == Param(c, s).pass % job.vmod
NextBank     == (last_pass + 1) % job.vmod

-----------------------------------------------------------------------------
(* stp_initialize_weave *)
Init ==
  /\ job \in Jobs
  /\ lineno = job.firstline
  /\ subline = 0
  /\ pc = "driver" /\ i = 0 /\ j = 1
  /\ passes     = [b \in Slots(job) |-> FreePass]
  /\ linecount  = [b \in Slots(job) |-> [c \in Colors(job) |-> 0]]
  /\ linebuf    = [b \in Slots(job) |-> [c \in Colors(job) |-> << >>]]
  /\ lineactive = [b \in Slots(job) |-> [c \in Colors(job) |-> FALSE]]
  /\ last_pass = -1
  /\ sheet = {}
  /\ paper = 0

(* The driver calls stp_write_weave with the row's data.                   *)
WriteWeave ==
  /\ pc = "driver"
  /\ lineno <= job.lastline
  /\ pc' = IF subline = 0 THEN "initialize" ELSE "add"
  /\ i' = 0 /\ j' = 1
  /\ UNCHANGED <<job, engine, printer>>

(* Mutants of IdleJets: one phantom line too many; only the jets above the *)
(* page, although a colour's head may lag behind.                          *)
OneJetTooMany(w)   == w.jet + 1
MissingRowsOnly(w) == w.missingstartrows

(* The jets of a pass that have no row of colour j to print when its first *)
(* row arrives: they are given phantom lines by the fill function.         *)
IdleJets(w) == w.jet

(* initialize_row, colour by colour within each subpass.  A free bank is   *)
(* taken for the pass; a colour without rows so far gets its phantom lines.*)
InitializeRow ==
  LET w == Param(j, i)
      b == Bank(j, i)
      begin == passes[b].pass < 0
      fill  == (begin \/ linecount[b][j] = 0) /\ IdleJets(w) > 0
      Started(f, empty, filled) ==
        [f EXCEPT ![b] = [c \in Colors(job) |->
          IF c = j /\ fill THEN filled ELSE IF begin THEN empty ELSE @[c]]]
  IN  /\ pc = "initialize"
      /\ IF j \in job.cols
         THEN /\ passes' =
                   IF begin
                   THEN [passes EXCEPT ![b] =
                          [pass |-> w.pass, subpass |-> i,
                           logicalpassstart |-> w.logicalpassstart,
                           physpassend |-> w.physpassend]]
                   ELSE passes
              /\ lineactive' = Started(lineactive, FALSE, lineactive[b][j] /\ ~begin)
              /\ linecount' = Started(linecount, 0, IdleJets(w))
              /\ linebuf' = Started(linebuf, << >>, [k \in 1 .. IdleJets(w) |-> Phantom])
         ELSE UNCHANGED <<passes, lineactive, linecount, linebuf>>
      /\ IF j < job.ncolors
         THEN j' = j + 1 /\ UNCHANGED <<i, pc>>
         ELSE /\ j' = 1
              /\ i' = (i + 1) % job.oversample
              /\ pc' = IF i + 1 < job.oversample THEN "initialize" ELSE "add"
      /\ UNCHANGED <<job, lineno, subline, printer>>

(* add_to_row: the line of subpass s is the last in its buffer so far; a   *)
(* row without dots leaves the buffer inactive.                            *)
AddLine(b, s) ==
  /\ linebuf' = [linebuf EXCEPT ![b][j] = Append(@, <<lineno, s>>)]
  /\ lineactive' = [lineactive EXCEPT ![b][j] = @ \/ lineno \in job.ink]

(* The loop of stp_write_weave: add_to_row for each of the h_passes of     *)
(* each colour.  The end of the last call for a row goes on to             *)
(* finalize_row.                                                           *)
AddToRow ==
  LET s == subline * job.h_passes + i
      b == Bank(j, s)
      lastSub == subline + 1 >= job.vertical_oversample
  IN  /\ pc = "add"
      /\ IF j \in job.cols
         THEN AddLine(b, s)
         ELSE UNCHANGED <<linebuf, lineactive>>
      /\ IF i + 1 < job.h_passes
         THEN i' = i + 1 /\ UNCHANGED <<j, pc, subline>>
         ELSE /\ i' = 0
              /\ IF j < job.ncolors
                 THEN j' = j + 1 /\ UNCHANGED <<pc, subline>>
                 ELSE /\ j' = 1
                      /\ subline' = subline + 1
                      /\ pc' = IF lastSub THEN "finalize" ELSE "driver"
      /\ UNCHANGED <<job, lineno, passes, linecount, printer>>

(* finalize_row, one subpass: every colour's line is counted, and if the   *)
(* row is the last of its pass the passes that are over are sent.          *)
FinalizeRow ==
  /\ pc = "finalize"
  /\ i < job.oversample
  /\ linecount' =
       [b \in Slots(job) |-> [c \in Colors(job) |->
          linecount[b][c] + (IF Bank(c, i) = b THEN 1 ELSE 0)]]
  /\ i' = i + 1
  /\ pc' = IF job.weave[lineno, i].physpassend = lineno THEN "flush" ELSE pc
  /\ UNCHANGED <<job, lineno, subline, j, passes, linebuf, lineactive, printer>>

(* Mutant of EndRow: the row is counted twice.                             *)
SkipRow ==
  /\ pc = "finalize"
  /\ i = job.oversample
  /\ lineno' = lineno + 2
  /\ subline' = 0
  /\ pc' = "driver"
  /\ UNCHANGED <<job, i, j, passes, linecount, linebuf, lineactive, printer>>

EndRow ==
  /\ pc = "finalize"
  /\ i = job.oversample
  /\ lineno' = lineno + 1
  /\ subline' = 0
  /\ pc' = "driver"
  /\ UNCHANGED <<job, i, j, passes, linecount, linebuf, lineactive, printer>>

-----------------------------------------------------------------------------
(* Mutants of Ready: a pass is sent with its last row not yet counted;     *)
(* whether all its rows have come or not; never for want of a later row.   *)
ReadyAtLastRow ==
  /\ passes[NextBank].pass >= 0
  /\ pc = "flush" => passes[NextBank].physpassend <= lineno
ReadyEarly == passes[NextBank].pass >= 0
ReadyNeverForced ==
  /\ passes[NextBank].pass >= 0
  /\ passes[NextBank].physpassend < lineno

(* The loop of stpi_flush_passes: the bank of the next pass number is sent *)
(* unless it is free or, outside stp_flush_all, may still get a row.       *)
Ready ==
  /\ passes[NextBank].pass >= 0
  /\ pc = "flush" => passes[NextBank].physpassend < lineno

(* stpi_escp2_flush_pass: the head moves down to the pass, if it has dots  *)
(* at all, and the k-th line of each colour leaves through jet k - 1.      *)
Printed(pass, bank, start) ==
  {[color |-> n[1], pass |-> pass.pass, subpass |-> pass.subpass,
    at |-> start + job.separation * (n[2] - 1),
    line |-> linebuf[bank][n[1]][n[2]]] :
     n \in {n \in Colors(job) \X (1 .. job.virtual_jets) :
              /\ lineactive[bank][n[1]]
              /\ n[2] \in DOMAIN linebuf[bank][n[1]]
              /\ linebuf[bank][n[1]][n[2]][1] \in job.ink}}

(* Mutants of FreeBank: the bank stays taken; the pass is not remembered.  *)
KeepBank(b)   == last_pass' = passes[b].pass /\ UNCHANGED passes
ForgetPass(b) == UNCHANGED <<last_pass, passes>>

(* The pass has been sent: it is the last one so far, and its bank is free.*)
FreeBank(b) ==
  /\ last_pass' = passes[b].pass
  /\ passes' = [passes EXCEPT ![b].pass = -1]

(* The paper moves before the first colour that has lines, and never back. *)
SetVerticalPosition(b) ==
  IF (\E c \in Colors(job) : lineactive[b][c]) /\ passes[b].logicalpassstart > paper
  THEN passes[b].logicalpassstart ELSE paper

FlushPass ==
  LET b     == NextBank
      start == SetVerticalPosition(b)
  IN  /\ pc \in {"flush", "flushall"}
      /\ Ready
      /\ paper' = start
      /\ sheet' = sheet \union Printed(passes[b], b, start)
      /\ linebuf'   = [linebuf EXCEPT ![b] = [c \in Colors(job) |-> << >>]]
      /\ linecount' = [linecount EXCEPT ![b] = [c \in Colors(job) |-> 0]]
      /\ FreeBank(b)
      /\ UNCHANGED <<job, pc, i, j, lineno, subline, lineactive>>

EndFlush ==
  /\ pc \in {"flush", "flushall"}
  /\ ~Ready
  /\ pc' = IF pc = "flush" THEN "finalize" ELSE "done"
  /\ UNCHANGED <<job, i, j, engine, printer>>

(* The driver's loop over the rows is over, or the image failed to deliver *)
(* the next line (escp2_print_data returns 2): the page ends either way.   *)
FlushAll ==
  /\ pc = "driver"
  /\ pc' = "flushall"
  /\ UNCHANGED <<job, i, j, engine, printer>>

Done == pc = "done" /\ UNCHANGED vars

Next ==
  \/ WriteWeave \/ InitializeRow \/ AddToRow \/ FinalizeRow \/ EndRow
  \/ FlushPass \/ EndFlush \/ FlushAll \/ Done

Spec     == Init /\ [][Next]_vars
FairSpec == Spec /\ WF_vars(Next)
-----------------------------------------------------------------------------
(* Type correctness.                                                       *)
PassType == [pass : Nat \union {-1}, logicalpassstart : Int,
             physpassend : Int, subpass : Nat]

TypeOK ==
  /\ IsJob(job)
  /\ lineno \in job.firstline .. job.lastline + 1
  /\ subline \in 0 .. job.vertical_oversample
  /\ pc \in {"driver", "initialize", "add", "finalize", "flush", "flushall",
             "done"}
  /\ i \in 0 .. job.oversample
  /\ j \in Colors(job)
  /\ passes \in [Slots(job) -> PassType]
  /\ linecount \in [Slots(job) -> [Colors(job) -> Nat]]
  /\ linebuf \in [Slots(job) -> [Colors(job) -> Seq(Int \X Nat)]]
  /\ lineactive \in [Slots(job) -> [Colors(job) -> BOOLEAN]]
  /\ last_pass \in Nat \union {-1}
  /\ paper \in Int

(* A line goes into the buffer of its own pass: the bank that add_to_row   *)
(* picks by the pass number modulo vmod holds that very pass, although     *)
(* initialize_row took the bank for whichever pass came first ("If pass x  *)
(* is not yet printed, pass x+vmod cannot be started").                    *)
LineInItsPass ==
  pc = "add" =>
    \A c \in job.cols, s \in Subpasses(job) :
      passes[Bank(c, s)].pass = Param(c, s).pass

(* Passes are sent in the order of their numbers, none left out: this is   *)
(* what the driver's paper feed relies on.                                 *)
SentInOrder == [][last_pass' # last_pass => last_pass' = last_pass + 1]_vars

(* When a pass is sent, each colour that is sent has as many lines in its  *)
(* buffer as linecount says: the ESC/P2 driver announces linecount rows to *)
(* the printer and the Canon driver divides the buffer by it.              *)
Sendable(b) ==
  passes[b].pass >= 0 =>
    \A c \in Colors(job) :
      lineactive[b][c] => linecount[b][c] = Len(linebuf[b][c])

RasterMatchesCount ==
  pc \in {"flush", "flushall"} /\ Ready /\ subline \in {0, job.vertical_oversample}
    => Sendable(NextBank)

(* No colour's buffer outgrows its virtual_jets lines (add_to_row_1 aborts *)
(* the program if one would).                                              *)
BufferFits ==
  \A b \in Slots(job), c \in Colors(job) :
    Len(linebuf[b][c]) <= job.virtual_jets

(* A pass that has been sent never gets another line: no row still to come *)
(* belongs to a pass sent already, so its dots cannot arrive too late.     *)
NoLateLine ==
  pc \in {"driver", "initialize", "add"} =>
    \A row \in lineno .. job.lastline, c \in job.cols, s \in Subpasses(job) :
      last_pass < job.weave[row + job.head_offset[c], s].pass

(* Once a page whose image came in full is done, every dot row of it is on *)
(* the paper.                                                              *)
EveryLinePrinted ==
  pc = "done" /\ lineno > job.lastline =>
    Wanted(job) = {<<d.color, d.line>> : d \in sheet}

(* The page promise: each step prints nothing, or a pass as Page allows.   *)
PromisedPage == INSTANCE Page
PagePromise  == PromisedPage!Spec

(* Every page gets done.                                                   *)
PageEnds == <>(pc = "done")
-----------------------------------------------------------------------------
(* The inductive invariant from which WovenProofs derives LineInItsPass,   *)
(* NoLateLine and SentInOrder.                                             *)

(* The bounds of the loops.                                                *)
Control ==
  /\ pc \in {"initialize", "add", "finalize", "flush"} => lineno <= job.lastline
  /\ pc = "initialize" => subline = 0 /\ i < job.oversample
  /\ pc = "add" => subline < job.vertical_oversample /\ i < job.h_passes
  /\ pc = "driver" => subline < job.vertical_oversample
  /\ pc \in {"finalize", "flush"} => subline > 0

(* The lines that initialize_row has dealt with.                           *)
Reached(l) ==
  \/ l[1] < lineno
  \/ /\ l[1] = lineno
     /\ \/ pc = "add"
        \/ subline > 0
        \/ pc = "initialize" /\ (l[3] < i \/ (l[3] = i /\ l[2] < j))

(* A taken bank holds a pass that belongs there and is still to be sent;   *)
(* it was taken for a line of that pass.                                   *)
BanksHoldTheirPasses ==
  \A b \in Slots(job) :
    passes[b].pass >= 0 =>
      /\ passes[b].pass % job.vmod = b
      /\ passes[b].pass > last_pass
      /\ \E l \in Fed(job) :
           /\ l[1] <= lineno
           /\ Line(job, l).pass = passes[b].pass
           /\ Line(job, l).physpassend = passes[b].physpassend

(* The pass of every line dealt with is in its bank until it is sent.      *)
ReachedPassesWait ==
  \A l \in Fed(job) :
    Reached(l) /\ Line(job, l).pass > last_pass =>
      passes[Line(job, l).pass % job.vmod].pass = Line(job, l).pass

(* Only passes that are over have been sent.                               *)
SentPassesAreOver ==
  pc \notin {"flushall", "done"} =>
    \A l \in Fed(job) :
      Line(job, l).pass <= last_pass => Line(job, l).physpassend < lineno

(* finalize_row has looked for passes to send on this row...               *)
Looked(row) ==
  \/ row < lineno /\ EndsPass(job, row)
  \/ /\ row = lineno
     /\ pc = "finalize"
     /\ \E s \in 0 .. i - 1 : job.weave[row, s].physpassend = row

(* ... and has sent every pass that it could send then.                    *)
NoneHeldBack ==
  \A row \in Rows(job), l \in Fed(job) :
    Looked(row) /\ Behind(job, Line(job, l).pass, row) =>
      Line(job, l).pass <= last_pass
=============================================================================
