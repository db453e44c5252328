----------------------------- MODULE MCJobList -----------------------------
(***************************************************************************)
(* Documents of up to four pages: pages that share sheets of one of two    *)
(* kinds, pages that do not, and panoramas.                                *)
(***************************************************************************)
EXTENDS JobList

Job(page, copies, kind) ==
  [page |-> page, copies |-> copies, kind |-> kind,
   can_combine |-> kind # "full"]

Kinds == {"4x6", "4x6 matte", "full"}

(* Documents of n pages, each of one of the kinds, in some copies.         *)
PageDocuments(n, copies) ==
  {[p \in 1 .. n |-> <<Job(p, f[p][1], f[p][2])>>] :
     f \in [1 .. n -> copies \X Kinds]}

(* A panorama: panels that do not share sheets, one copy of each.          *)
Panorama(page, panels) == [k \in 1 .. panels |-> Job(page + k - 1, 1, "full")]

(* A panorama, where no page can be waiting: the first thing printed, or   *)
(* after a page that takes a sheet to itself.                              *)
PanoramaDocuments ==
  {<<Panorama(1, panels)>> \o d : panels \in {2, 3}, d \in
     {<< >>, <<<<Job(4, 1, "4x6")>>>>, <<<<Job(4, 2, "full")>>, Panorama(5, 3)>>}}

UpToTwoCopies ==
  PanoramaDocuments \union UNION {PageDocuments(n, 1 .. 2) : n \in 1 .. 4}

(* Of these no print data are lost.                                        *)
ASSUME UpToTwoCopiesAreModest == \A d \in UpToTwoCopies : Modest(d)

(* Three copies of each page, as ncopies asks for.                         *)
ThreeCopies == PageDocuments(2, {3})

(* A panorama after a page that waits for another to share its sheet.      *)
PanoramaAfterPage == {<<<<Job(1, 1, "4x6")>>, Panorama(2, 3)>>}
=============================================================================
