----------------------------- MODULE PrintQueue -----------------------------
(***************************************************************************)
(* What a dye-sublimation backend promises of a document: copies come out  *)
(* in the order in which they were taken in, none twice and none left out, *)
(* and the backend reports success only when all of them have come out.    *)
(* Nothing is said of sheets, of waiting or of sharing a sheet.            *)
(***************************************************************************)
EXTENDS Sequences, SequencesExt

VARIABLES
  taken,    (* the copies taken in, one entry per copy                     *)
  printed,  (* the copies printed                                          *)
  status    (* "running", or how the backend ended: "ok", "failed"         *)

vars == <<taken, printed, status>>

Init == taken = << >> /\ printed = << >> /\ status = "running"

TakeIn ==
  /\ status = "running"
  /\ IsStrictPrefix(taken, taken')
  /\ UNCHANGED <<printed, status>>

PutOut ==
  /\ status = "running"
  /\ IsStrictPrefix(printed, printed')
  /\ IsPrefix(printed', taken)
  /\ UNCHANGED <<taken, status>>

End ==
  /\ status = "running"
  /\ \/ status' = "ok" /\ printed = taken
     \/ status' = "failed"
  /\ UNCHANGED <<taken, printed>>

Next == TakeIn \/ PutOut \/ End

Spec == Init /\ [][Next]_vars
=============================================================================
