---------------------------- MODULE CopyService ----------------------------
(***************************************************************************)
(* What a main loop promises to the job list that calls it: the printer is *)
(* given each copy completely, never more than were asked for, and "ok" is *)
(* returned only when it has all of them.  After a SIGTERM at most one     *)
(* more batch is given, and "ok" may then be returned with copies left.  A *)
(* copy that the printer spoils counts as not given, from that moment on.  *)
(***************************************************************************)
EXTENDS Naturals

VARIABLES
  wanted,    (* the copies asked for: never changes                        *)
  heeds,     (* whether terminate is looked at after every copy            *)
  batch,     (* how many are given at once: 1, or all where the printer    *)
             (* makes the copies                                           *)
  given, late, terminate, result

vars == <<wanted, heeds, batch, given, late, terminate, result>>

Init ==
  /\ wanted \in Nat \ {0} /\ heeds \in BOOLEAN /\ batch \in {1, wanted}
  /\ given = 0 /\ late = 0
  /\ terminate = FALSE /\ result = "running"

GiveCopies ==
  /\ given' = given + batch /\ given' <= wanted
  /\ IF terminate /\ heeds THEN late = 0 /\ late' = batch ELSE UNCHANGED late
  /\ UNCHANGED terminate

TakeBack ==
  /\ batch = 1 /\ given > 0
  /\ given' = given - 1
  /\ late' = 0
  /\ UNCHANGED <<terminate, result>>

Terminate ==
  /\ ~terminate /\ terminate' = TRUE
  /\ UNCHANGED <<given, late, result>>

(* The last copy may be given in the step that returns.                    *)
Ends ==
  \/ UNCHANGED result
  \/ result' = "ok" /\ (given' = wanted \/ (terminate /\ given' > 0))
  \/ result' \in {"failed", "stop", "hold", "cancel"}

Next ==
  /\ result = "running"
  /\ UNCHANGED <<wanted, heeds, batch>>
  /\ \/ GiveCopies /\ Ends
     \/ UNCHANGED <<given, late, terminate>> /\ Ends
     \/ TakeBack
     \/ Terminate

Spec == Init /\ [][Next]_vars
=============================================================================
