---------------------------- MODULE MCPrintPipe ----------------------------
(***************************************************************************)
(* The dialog has some descriptors open, with gaps between them.           *)
(***************************************************************************)
EXTENDS PrintPipe

SomeOpen == SUBSET (3 .. 5)
=============================================================================
