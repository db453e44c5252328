----------------------------- MODULE WeaveJobs -----------------------------
(***************************************************************************)
(* The pages a softweave is asked to print.  A job is what                 *)
(* stp_initialize_weave keeps of its arguments; job.weave[row, subpass] is *)
(* what weave_parameters_by_row answers for a line of it.                  *)
(***************************************************************************)
EXTENDS Integers, Sequences

CONSTANT Jobs   (* the pages that may be printed *)

Colors(job)    == 1 .. job.ncolors
Slots(job)     == 0 .. job.vmod - 1
Subpasses(job) == 0 .. job.oversample - 1

(* The rows the driver hands over, and the rows whose weave is asked for:  *)
(* the row itself and the row that each colour's head offset makes of it.  *)
Rows(job)      == job.firstline .. job.lastline
WeaveRows(job) ==
  Rows(job) \union
  {row + job.head_offset[j] : row \in Rows(job), j \in Colors(job)}

(* A line is one subpass of a row; a buffer also holds phantom lines, for  *)
(* the jets that have no row to print.                                     *)
Lines(job)  == Rows(job) \X Subpasses(job)
Phantom     == <<-1, 0>>

(* The lines, per colour, that must end up on the paper.                   *)
Wanted(job) == {w \in job.cols \X Lines(job) : w[2][1] \in job.ink}

Params ==
  [pass : Nat, jet : Nat, missingstartrows : Nat,
   logicalpassstart : Int, physpassstart : Int, physpassend : Int]

Positive == Nat \ {0}

IsJob(job) ==
  /\ job.separation \in Positive
  /\ job.jets \in Positive
  /\ job.virtual_jets \in Positive
  /\ job.vmod \in Positive
  /\ job.oversample \in Positive
  /\ job.h_passes \in Positive
  /\ job.vertical_oversample \in Positive
  /\ job.ncolors \in Positive
  /\ job.head_offset \in [Colors(job) -> Nat]
  /\ job.firstline \in Nat
  /\ job.lastline \in Nat
  /\ job.cols \subseteq Colors(job)
  /\ job.ink \subseteq Rows(job)

(* Every row handed over has its parameters; a pass ends no earlier than   *)
(* any of its rows, and all its rows agree on where it ends.               *)
WeaveFits(job) ==
  LET lines == WeaveRows(job) \X Subpasses(job)
      ends  == {<<job.weave[l].pass, job.weave[l].physpassend>> : l \in lines}
  IN  /\ lines \subseteq DOMAIN job.weave
      /\ \A l \in lines : /\ job.weave[l] \in Params
                          /\ l[1] <= job.weave[l].physpassend
      /\ \A e, f \in ends : e[1] = f[1] => e[2] = f[2]

(* The lines the driver hands over: a row, a colour it has data for and a  *)
(* subpass, each with the parameters of the row its colour's jets are on.  *)
Fed(job)      == Rows(job) \X job.cols \X Subpasses(job)
Line(job, l)  == job.weave[l[1] + job.head_offset[l[2]], l[3]]

(* finalize_row looks for passes to send on a row on which a pass ends.    *)
EndsPass(job, row) ==
  \E s \in Subpasses(job) : job.weave[row, s].physpassend = row

(* All the passes up to this one have ended above the row.                 *)
Behind(job, pass, row) ==
  \A l \in Fed(job) : Line(job, l).pass <= pass => Line(job, l).physpassend < row

(* What the softweave expects of the weave: "Passes are numbered           *)
(* consecutively", none without a line; and "If pass x is not yet printed, *)
(* pass x+vmod cannot be started": pass x and those before it can be sent  *)
(* on some row before the first row of pass x+vmod.                        *)
WovenWell(job) ==
  LET numbers == {Line(job, l).pass : l \in Fed(job)}
  IN  /\ \A p \in numbers : 0 .. p \subseteq numbers
      /\ \A l \in Fed(job) :
           Line(job, l).pass >= job.vmod =>
             \E row \in Rows(job) :
               /\ row < l[1]
               /\ EndsPass(job, row)
               /\ Behind(job, Line(job, l).pass - job.vmod, row)

(* What printing the page expects of it: each jet of a pass lies on its    *)
(* line, the lines of a pass start together and print one subpass, no pass *)
(* starts above an earlier one, and no jet of a colour is skipped between  *)
(* two that print: the buffer of the colour has no gap.                    *)
PrintsWell(job) ==
  /\ job.jets <= job.virtual_jets
  /\ \A l \in Fed(job) :
       LET w == Line(job, l)
       IN  /\ w.jet < job.jets
           /\ w.logicalpassstart >= 0
           /\ l[1] + job.head_offset[l[2]] =
                w.logicalpassstart + job.separation * w.jet
  /\ \A l, m \in Fed(job) :
       LET v == Line(job, l)
           w == Line(job, m)
       IN  /\ v.pass = w.pass =>
                v.logicalpassstart = w.logicalpassstart /\ l[3] = m[3]
           /\ v.pass < w.pass => v.logicalpassstart <= w.logicalpassstart
           /\ v.pass = w.pass /\ l[2] = m[2] /\ l[1] < m[1] =>
                Line(job, <<m[1] - job.separation, m[2], m[3]>>).pass = w.pass

(* The requests of the drivers: no pass is repeated, so the passes of a    *)
(* call of stp_write_weave, over all calls for a row, are its subpasses.   *)
ASSUME JobsAssumption ==
  \A job \in Jobs :
    /\ IsJob(job)
    /\ job.firstline <= job.lastline
    /\ job.oversample = job.h_passes * job.vertical_oversample
    /\ WeaveFits(job)
=============================================================================
