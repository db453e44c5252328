-------------------------- MODULE PrintedDocument --------------------------
(***************************************************************************)
(* What the raster filter promises: the pages of a document reach the      *)
(* printer in order, each whole before the next begins, within one job.    *)
(* After SIGTERM the page that was begun may stay incomplete; later pages  *)
(* stay blank or are left out, and a filter that keeps pages in memory may *)
(* not live to close the job.                                              *)
(***************************************************************************)
EXTENDS Integers, Sequences

VARIABLES
  document,  (* the lines of every page; never changes                     *)
  fragile,   (* whether pages are kept in memory; never changes            *)
  opens, closes, (* whether the driver starts and ends jobs                *)
  sent,      (* the pages at the printer                                   *)
  opened, closed,
  cancelled, (* empty, or the last page that was begun before SIGTERM      *)
  result

vars == <<document, fragile, opens, closes, sent, opened, closed, cancelled,
          result>>

Cancelled == cancelled # <<>>

Newest == sent[Len(sent)]
Number == IF sent = <<>> THEN 0 ELSE Newest.number
Whole == sent # <<>> => Newest.lines = document[Number]

Init ==
  /\ document \in Seq(Seq(Int))
  /\ fragile \in BOOLEAN /\ opens \in BOOLEAN /\ closes \in BOOLEAN
  /\ sent = <<>> /\ opened = FALSE /\ closed = FALSE
  /\ cancelled = <<>>
  /\ result = "running"

Open ==
  /\ opens /\ ~opened /\ sent = <<>>
  /\ opened' = TRUE
  /\ UNCHANGED <<sent, closed, cancelled, result>>

BeginPage(n) ==
  /\ opened = opens
  /\ IF Cancelled THEN n > Number ELSE Whole /\ n = Number + 1
  /\ sent' = Append(sent, [number |-> n, lines |-> <<>>])
  /\ UNCHANGED <<opened, closed, cancelled, result>>

PrintLine ==
  /\ sent # <<>> /\ ~Whole
  /\ Cancelled => Number <= cancelled[1]
  /\ sent' = [sent EXCEPT ![Len(sent)].lines =
               Append(@, document[Number][Len(@) + 1])]
  /\ UNCHANGED <<opened, closed, cancelled, result>>

End ==
  /\ Cancelled \/ (Whole /\ Number = Len(document))
  /\ result' = "ended"
  /\ IF Cancelled THEN closed' \in {closed, closes} ELSE closed' = closes
  /\ UNCHANGED <<sent, opened, cancelled>>

Crash ==
  /\ fragile /\ Cancelled
  /\ result' = "crashed"
  /\ UNCHANGED <<sent, opened, closed, cancelled>>

Cancel(n) ==
  /\ ~Cancelled
  /\ cancelled' = <<n>>
  /\ UNCHANGED <<sent, opened, closed, result>>

Works ==
  /\ result = "running"
  /\ UNCHANGED <<document, fragile, opens, closes>>
  /\ \/ Open \/ PrintLine \/ End \/ Crash
     \/ \E n \in DOMAIN document : BeginPage(n)

Next ==
  \/ Works
  \/ /\ result = "running"
     /\ UNCHANGED <<document, fragile, opens, closes>>
     /\ \E n \in {Number, Number + 1} : Cancel(n)

Spec == Init /\ [][Next]_vars /\ WF_vars(Works)
=============================================================================
