----------------------------- MODULE RasterPage -----------------------------
(***************************************************************************)
(* What the CUPS raster filter makes of the header of a page and of the    *)
(* areas of its paper (initialize_page): which bytes of every row of the   *)
(* raster are read, how many rows the driver is told of, and how large     *)
(* the picture is printed.  Lengths are in whole points, offsets in bytes. *)
(***************************************************************************)
EXTENDS Integers

Least(a, b) == IF a < b THEN a ELSE b
Greatest(a, b) == IF a > b THEN a ELSE b

(* Where "Shrink Page If Necessary to Fit Borders" leads.                  *)
Crop == 0
Shrink == 1
Expand == 2

(* A length in points at so many dots per inch, without its fraction.      *)
Pixels(res, points) == (res * points) \div 72

(* Whole bytes for so many pixels.                                         *)
Bytes(pixels, bits) == (pixels * bits + 7) \div 8

(* One axis of a page.  The paper has the given extent, the driver prints  *)
(* from low to high, and could print from maxlow to maxhigh, which may be  *)
(* beyond the paper and which the raster covers.                           *)
LeastPoint(axis) == Greatest(axis.maxlow, 0)

LastPoint(axis) ==
  IF axis.maxhigh > LeastPoint(axis) + axis.extent THEN axis.extent
                                                   ELSE axis.maxhigh

From(axis) == Greatest(LeastPoint(axis), axis.low)
UpTo(axis) == Least(LastPoint(axis), axis.high)

(* Mutant of Trim: what is cropped is taken off when shrinking, too.       *)
TrimAlways(axis, shrink) == From(axis) - LeastPoint(axis)

(* Points of the raster that are dropped before its first printed one.     *)
Trim(axis, shrink) ==
  IF shrink = Shrink THEN 0 ELSE From(axis) - LeastPoint(axis)

(* Points of the raster that become the picture.                           *)
Picture(axis, shrink) ==
  IF shrink = Shrink THEN LastPoint(axis) - LeastPoint(axis)
                     ELSE UpTo(axis) - From(axis)

(* Points of paper that the picture covers.                                *)
Covered(axis, shrink) ==
  IF shrink = Expand THEN axis.high - axis.low ELSE UpTo(axis) - From(axis)

(* The paper above the picture.                                            *)
Above(axis, shrink) == IF shrink = Expand THEN axis.low ELSE From(axis)

-----------------------------------------------------------------------------
(* A page of the stream: the axes of its paper, the resolution and the     *)
(* size of its raster, the bits of a pixel, the resolution it is printed   *)
(* at, and whether the driver accepts its options.                         *)

Columns(page) ==
  Least(Pixels(page.res, Picture(page.x, page.shrink)), page.width)

(* The rows the driver is told of.                                         *)
Height(page) ==
  Least(Pixels(page.res, Picture(page.y, page.shrink)), page.rows)

(* What the filter and the driver know of a page: the rows of its raster   *)
(* and the bytes of each, the bytes dropped at their left and those taken, *)
(* the height of the picture in rows and in printed lines, and its place   *)
(* on the paper that can be printed on.                                    *)
Layout(page) ==
  [rows      |-> page.rows,
   stride    |-> Bytes(page.width, page.bits),
   left      |-> Bytes(Pixels(page.res, Trim(page.x, page.shrink)), page.bits),
   taken     |-> Bytes(Columns(page), page.bits),
   height    |-> Height(page),
   lines     |-> Pixels(page.dpi, Covered(page.y, page.shrink)),
   top       |-> Pixels(page.dpi, Above(page.y, page.shrink) - page.y.low),
   printable |-> Pixels(page.dpi, page.y.high - page.y.low),
   verifies  |-> page.verifies]

Size(layout) == layout.rows * layout.stride

-----------------------------------------------------------------------------
(* The pages that a stream may have.                                       *)

Axes == [extent : Nat, low : Int, high : Int, maxlow : Int, maxhigh : Int]

Headers ==
  [x : Axes, y : Axes, shrink : {Crop, Shrink, Expand}, res : Nat,
   width : Nat, rows : Nat, bits : Nat \ {0}, dpi : Nat,
   verifies : BOOLEAN]

(* A pixel has whole bytes, the raster is as wide as the area that can be  *)
(* printed on, and something of it is printed.                             *)
Printable(page) ==
  /\ page.bits % 8 = 0
  /\ page.width >= Pixels(page.res, LastPoint(page.x) - LeastPoint(page.x))
  /\ Columns(page) > 0 /\ Height(page) > 0
  /\ Pixels(page.dpi, Covered(page.y, page.shrink)) > 0
=============================================================================
