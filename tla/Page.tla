-------------------------------- MODULE Page --------------------------------
(***************************************************************************)
(* What weaving promises: the page is printed by passes of the head, each  *)
(* further down the page than the one before or level with it, each dot    *)
(* row lands where it belongs, through a jet that lies on it, and none is  *)
(* printed twice.  The specification says nothing of buffers, banks of     *)
(* passes or the order in which the rows were received.                    *)
(***************************************************************************)
EXTENDS WeaveJobs

VARIABLES
  job,    (* the page being printed                                        *)
  sheet,  (* the dot rows on the paper                                     *)
  paper   (* the row under the first jet, last_pass_offset of the driver   *)

vars == <<job, sheet, paper>>

(* A dot row on the paper: the colour, the pass that printed it, the row   *)
(* of the page it lies on, the subpass (which of the interleaved columns)  *)
(* it was printed for, and the line of the image it came from.             *)
InPlace(d) ==
  /\ d.at = d.line[1] + job.head_offset[d.color]
  /\ d.subpass = d.line[2]

UnderAJet(d, start) ==
  \E jet \in 0 .. job.jets - 1 : d.at = start + job.separation * jet

Init ==
  /\ IsJob(job)
  /\ sheet = {}
  /\ paper = 0

PrintPass ==
  LET new == sheet' \ sheet
  IN  /\ new # {}
      /\ sheet \subseteq sheet'
      /\ paper' >= paper
      /\ UNCHANGED job
      /\ \A d \in new :
           /\ <<d.color, d.line>> \in Wanted(job)
           /\ InPlace(d)
           /\ UnderAJet(d, paper')
           /\ \A e \in sheet : e.pass < d.pass
           /\ \A e \in new : e.pass = d.pass
           /\ \A e \in sheet' : e.color = d.color /\ e.line = d.line => e = d

Spec == Init /\ [][PrintPass]_vars
=============================================================================
