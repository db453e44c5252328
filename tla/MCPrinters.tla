----------------------------- MODULE MCPrinters -----------------------------
(***************************************************************************)
(* Up to two copies; job numbers just more than the largest printer's      *)
(* banks can hold.  No printer does what only some printers may do.        *)
(***************************************************************************)
EXTENDS Printers

NoHitches == {}
=============================================================================
