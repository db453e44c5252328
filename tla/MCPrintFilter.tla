--------------------------- MODULE MCPrintFilter ---------------------------
(***************************************************************************)
(* Streams of up to three pages on a small paper: rasters of two to eight  *)
(* rows that are cropped, shrunk or expanded, pictures printed at half,    *)
(* the same, one and a half and several times their resolution, rasters    *)
(* with rows and columns that no picture needs, and a page that the driver *)
(* does not accept.                                                        *)
(***************************************************************************)
EXTENDS PrintFilter

Axis(extent, low, high, maxlow, maxhigh) ==
  [extent |-> extent, low |-> low, high |-> high, maxlow |-> maxlow,
   maxhigh |-> maxhigh]

Page(x, y0, shrink, width, rows, bits, dpi) ==
  [x |-> x, y |-> y0, shrink |-> shrink, res |-> 72, width |-> width,
   rows |-> rows, bits |-> bits, dpi |-> dpi, verifies |-> TRUE]

(* The paper's margins, and an area that is larger than the printable one  *)
(* or reaches over the edges of the paper.                                 *)
Plain      == Axis(6, 1, 5, 1, 5)
Borderless == Axis(6, 1, 5, -1, 8)
Wide       == Axis(4, 1, 3, 0, 4)

Same      == Page(Plain, Plain, Crop, 4, 4, 8, 72)
Cropped   == Page(Wide, Wide, Crop, 4, 5, 24, 108)
Shrunk    == Page(Wide, Wide, Shrink, 4, 4, 8, 36)
Expanded  == Page(Borderless, Borderless, Expand, 6, 6, 8, 180)
Short     == Page(Plain, Borderless, Crop, 5, 2, 16, 144)
Refused   == [Same EXCEPT !.verifies = FALSE]

Pages == {Same, Cropped, Shrunk, Expanded, Short}

SmallStreams ==
  {<<p, q>> : p \in Pages, q \in Pages} \union
  {<<Same, Refused, Same>>, <<Refused>>, <<Cropped, Shrunk, Short>>, <<>>}

AllDrivers ==
  {Epson, Canon, PCL, Lexmark, PS, Raw, Label, Dyesub(1, FALSE),
   Dyesub(3, FALSE), Dyesub(1, TRUE)}
=============================================================================
