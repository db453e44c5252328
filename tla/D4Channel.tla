----------------------------- MODULE D4Channel -----------------------------
(***************************************************************************)
(* What a channel promises to its user: commands are executed one after    *)
(* the other, each once, and one that is reported as answered has been     *)
(* executed; no other is sent while it is open whether one was.            *)
(***************************************************************************)
EXTENDS Naturals

VARIABLES
  executed,   (* commands that the printer has executed                    *)
  confirmed   (* commands whose answer the user was given                  *)

vars == <<executed, confirmed>>

Init == executed = 0 /\ confirmed = 0

Execute ==
  executed = confirmed /\ executed' = executed + 1 /\ UNCHANGED confirmed

Confirm == confirmed < executed /\ confirmed' = executed /\ UNCHANGED executed

Next == Execute \/ Confirm

Spec == Init /\ [][Next]_vars
=============================================================================
