---------------------------- MODULE MCSoftWeave ----------------------------
(***************************************************************************)
(* The pages of WeaveRequests, as jobs for the softweave.                  *)
(***************************************************************************)
EXTENDS SoftWeave, TLC

W == INSTANCE WeaveRequests

ImageRows(rq) == rq.first_line .. rq.first_line + rq.line_count - 1

(* A page with data for all its colours.  @@ << >> changes nothing but that *)
(* TLC then computes the table once.                                       *)
AllColors(rq) ==
  [W!JobOf(rq, DOMAIN rq.head_offset, ImageRows(rq))
     EXCEPT !.weave = @ @@ << >>]

(* Dots on every row, or on all but the last rows of the image.            *)
MonoJobs ==
  UNION {LET jb == AllColors(rq)
         IN  {jb, [jb EXCEPT !.ink = {r \in @ : r + 3 \in @}]} :
           rq \in W!MonoRequests}

(* Where the colours are level the driver may have data for one only.      *)
ColorJobs ==
  UNION {LET jb == AllColors(rq)
         IN  IF rq.head_offset = <<0, 0>>
             THEN {jb, [jb EXCEPT !.cols = {2}]} ELSE {jb} :
           rq \in W!ColorRequests}

PrintedPages == MonoJobs \union ColorJobs

(* The hypotheses of the theorems of WovenProofs hold of                   *)
(* these pages.                                                            *)
ASSUME PagesAreWovenWell == \A jb \in PrintedPages : WovenWell(jb)

ASSUME PagesPrintWell == \A jb \in PrintedPages : PrintsWell(jb)

(* Images lower than a head height: a strip of one or two rows far down    *)
(* the page.                                                               *)
ShortImages ==
  {AllColors(W!Request(W!PrintHead(2, 2, 1, 1, 1), height, 29, 0, <<0>>, s)) :
     height \in {1, 2}, s \in {"zigzag", "ascending"}}
=============================================================================
