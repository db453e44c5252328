---------------------------- MODULE FilterProofs ----------------------------
(***************************************************************************)
(* What TLAPS proves of the raster filter for all streams and drivers: its *)
(* counters stay within the page, it is at the end of a page's data when   *)
(* it reads the next header, each line that a driver prints row by row is  *)
(* the row of the picture that belongs there, and the printer gets the     *)
(* document that is promised.                                              *)
(***************************************************************************)
EXTENDS PrintFilter, FiniteSetTheorems, WellFoundedInduction, TLAPS

SoundLayouts ==
  {l \in [rows : Nat, stride : Nat, left : Nat, taken : Nat,
          height : Nat \ {0}, lines : Nat \ {0}, top : Int, printable : Int,
          verifies : BOOLEAN] :
     /\ l.left + l.taken <= l.stride
     /\ l.left < l.stride
     /\ l.height <= l.rows}

(* Where rows of the raster may begin.                                     *)
Offsets == {Blank} \union 0 .. Size(cups) - 1

Control ==
  /\ job.driver \in Drivers /\ job.stream \in Streams
  /\ pc \in {"header", "print", "lines", "read", "planes", "purge", "end",
             "ended", "crashed"}
  /\ page \in 0 .. Len(job.stream)
  /\ pc = "print" \/ Begun => page < Len(job.stream)
  /\ pc = "lines" => ~job.driver.stores
  /\ opened \in BOOLEAN /\ closed \in BOOLEAN

(* The stream is read by whole rows, and by whole pages.                   *)
ByRows ==
  /\ pc = "print" \/ Begun =>
       /\ cups \in SoundLayouts
       /\ row \in 0 .. cups.rows
       /\ at = row * cups.stride
  /\ pc = "print" => row = 0
  /\ pc = "header" => InStep

(* A page in memory has its rows in the order of the raster.               *)
Stored ==
  Begun =>
    /\ data \in Offsets
    /\ store \in Seq(Offsets) /\ Len(store) <= cups.height
    /\ \A k \in 1 .. Len(store) : store[k] = Source(cups, FALSE, k - 1)
    /\ pc = "lines" /\ store # <<>> => Len(store) = cups.height
    /\ pc = "planes" => Len(store) = cups.height
    /\ pc = "read" => row = Len(store)

(* Bresenham's division, and how it goes along with the rows read.         *)
Divided ==
  /\ Begun => y \in Nat
  /\ pc \in {"lines", "read"} =>
       /\ y <= LineCount
       /\ err.val \in 0 .. LineCount - 1
       /\ err.line \in Nat
       /\ err.line * LineCount + err.val = y * cups.height
       /\ err.last \in -1 .. cups.height - 1
       /\ err.last <= err.line
       /\ y = 0 => err.last = -1
  /\ pc = "lines" =>
       /\ ~Turned => row <= err.last + 1
       /\ Turned /\ store = <<>> => row = 0 /\ y = 0
       /\ y > 0 => data = Source(cups, Turned, err.last)
  /\ pc = "read" /\ ~job.driver.stores => Turned /\ y = 0

(* Pages at the printer, as long as there was no signal.                   *)
Counted ==
  ~Aborted =>
    /\ sent \in Seq([number : Nat, lines : Seq(Int)])
    /\ Len(sent) = IF \/ pc \in {"lines", "planes", "purge"}
                      \/ pc = "read" /\ ~job.driver.stores
                   THEN page + 1 ELSE page

IInv == Control /\ ByRows /\ Stored /\ Divided /\ Counted

-----------------------------------------------------------------------------
(* Arithmetic.                                                             *)

(* Pixels are cut off: two lengths have no more than their sum has.        *)
LEMMA PixelsOfSum ==
  ASSUME NEW r \in Nat, NEW a \in Int, NEW b \in Int, NEW c \in Int,
         a + b <= c
  PROVE  /\ Pixels(r, a) \in Int /\ Pixels(r, b) \in Int
         /\ Pixels(r, a) + Pixels(r, b) <= Pixels(r, c)
<1> DEFINE u == r * a
           v == r * b
           w == r * c
<1>1. u \in Int /\ v \in Int /\ w \in Int /\ u + v <= w
  <2>1. r * (a + b) <= r * c
    BY SMT
  <2>2. r * (a + b) = r * a + r * b
    BY SMT
  <2> QED  BY <2>1, <2>2
<1> HIDE DEF u, v, w
<1>2. (u \div 72) + (v \div 72) <= w \div 72
  BY <1>1
<1>3. u \div 72 \in Int /\ v \div 72 \in Int
  BY <1>1
<1> QED  BY <1>2, <1>3 DEF Pixels, u, v, w

(* Where a pixel has whole bytes, bytes are in proportion to pixels.       *)
LEMMA WholeBytes ==
  ASSUME NEW bits \in Nat \ {0}, bits % 8 = 0
  PROVE  \E b \in Nat \ {0} : \A p \in Int : Bytes(p, bits) = p * b
<1> DEFINE b == bits \div 8
<1>1. b \in Nat \ {0} /\ bits = 8 * b
  OBVIOUS
<1>2. ASSUME NEW p \in Int
      PROVE  Bytes(p, bits) = p * b
  <2> DEFINE k == p * b
  <2>1. k \in Int /\ p * bits = 8 * k
    BY <1>1
  <2> HIDE DEF k
  <2>2. (8 * k + 7) \div 8 = k
    BY <2>1
  <2> QED  BY <2>1, <2>2 DEF Bytes, k
<1> QED  BY <1>1, <1>2

(* A row lies in its page.                                                 *)
LEMMA RowInPage ==
  ASSUME NEW rows \in Nat, NEW stride \in Nat, NEW left \in Nat,
         left < stride, NEW r \in Nat, r < rows
  PROVE  r * stride + left \in 0 .. rows * stride - 1
<1>1. (r + 1) * stride <= rows * stride
  BY SMT
<1>2. (r + 1) * stride = r * stride + stride
  BY SMT
<1>3. r * stride \in Nat /\ rows * stride \in Nat
  BY SMT
<1> QED  BY <1>1, <1>2, <1>3

LEMMA PlaceInPage ==
  ASSUME NEW rows \in Nat, NEW stride \in Nat, NEW r \in 0 .. rows
  PROVE  r * stride \in 0 .. rows * stride
BY SMT

(* The line that comes of a division is within the picture.                *)
LEMMA DividedInPicture ==
  ASSUME NEW n \in Nat \ {0}, NEW h \in Nat \ {0}, NEW k \in Nat, k < n
  PROVE  (k * h) \div n \in 0 .. h - 1
<1>1. k * h \in Nat /\ n * h \in Nat /\ k * h < n * h
  BY SMT
<1> DEFINE m == k * h
           q == m \div n
<1>2. m \in Nat /\ q \in Nat /\ n * q <= m
  BY <1>1, SMT
<1>3. q >= h => n * q >= n * h
  BY <1>2, SMT
<1> QED  BY <1>1, <1>2, <1>3

(* One step of the division.                                               *)
LEMMA DivisionStep ==
  ASSUME NEW n \in Nat \ {0}, NEW h \in Nat \ {0}, NEW k \in Nat,
         NEW line \in Nat, NEW val \in 0 .. n - 1, line * n + val = k * h
  PROVE  /\ line = (k * h) \div n
         /\ (line + (h \div n)) * n + (val + (h % n)) = (k + 1) * h
         /\ (line + (h \div n) + 1) * n + (val + (h % n) - n) = (k + 1) * h
<1> DEFINE d == h \div n
           m == h % n
<1>1. d \in Nat /\ m \in 0 .. n - 1 /\ h = n * d + m
  BY SMT
<1>2. (line + d) * n = line * n + n * d
  BY <1>1, SMT
<1>3. (line + d + 1) * n = line * n + n * d + n
  BY <1>1, SMT
<1>4. (k + 1) * h = k * h + h
  BY SMT
<1>5. line = (k * h) \div n
  BY SMT
<1>6. line * n \in Nat /\ n * d \in Nat /\ k * h \in Nat
  BY <1>1, SMT
<1> HIDE DEF d, m
<1>7. (line + d) * n + (val + m) = (k + 1) * h
  BY <1>1, <1>2, <1>4, <1>6
<1>8. (line + d + 1) * n + (val + m - n) = (k + 1) * h
  BY <1>1, <1>3, <1>4, <1>6
<1> QED  BY <1>5, <1>7, <1>8 DEF d, m

-----------------------------------------------------------------------------
(* What a printable page gives the filter fits its raster.                 *)
LEMMA LayoutIsSound ==
  ASSUME NEW s \in Streams, NEW n \in DOMAIN s
  PROVE  Layout(s[n]) \in SoundLayouts
<1> DEFINE p == s[n]
<1>1. p \in Headers /\ Printable(p)
  BY StreamsAssumption
<1> HIDE DEF p
<1> DEFINE least == LeastPoint(p.x)
           last  == LastPoint(p.x)
           trim  == Trim(p.x, p.shrink)
           pic   == Picture(p.x, p.shrink)
<1>2. /\ p.x \in Axes /\ p.y \in Axes /\ p.res \in Nat /\ p.dpi \in Nat
      /\ p.width \in Nat /\ p.rows \in Nat /\ p.bits \in Nat \ {0}
      /\ p.shrink \in {Crop, Shrink, Expand} /\ p.verifies \in BOOLEAN
  BY <1>1 DEF Headers
<1>3. ASSUME NEW axis \in Axes
      PROVE  /\ LeastPoint(axis) \in Int /\ LastPoint(axis) \in Int
             /\ From(axis) \in Int /\ UpTo(axis) \in Int
             /\ axis.low \in Int /\ axis.high \in Int
             /\ From(axis) >= LeastPoint(axis) /\ UpTo(axis) <= LastPoint(axis)
  BY DEF Axes, LeastPoint, LastPoint, From, UpTo, Least, Greatest
<1>4. trim \in Nat /\ pic \in Int /\ trim + pic <= last - least
  BY <1>2, <1>3 DEF Trim, Picture, Crop, Shrink, Expand
<1>5. /\ Pixels(p.res, trim) \in Int
      /\ Pixels(p.res, pic) \in Int
      /\ Pixels(p.res, trim) + Pixels(p.res, pic) <= Pixels(p.res, last - least)
  <2> DEFINE span == last - least
  <2>1. p.res \in Nat /\ trim \in Int /\ pic \in Int /\ span \in Int
    BY <1>2, <1>3, <1>4
  <2>2. trim + pic <= span
    BY <1>4
  <2> HIDE DEF trim, pic, span
  <2>3. /\ Pixels(p.res, trim) \in Int
        /\ Pixels(p.res, pic) \in Int
        /\ Pixels(p.res, trim) + Pixels(p.res, pic) <= Pixels(p.res, span)
    BY <2>1, <2>2, PixelsOfSum
  <2> QED  BY <2>3 DEF span
<1>6. Pixels(p.res, trim) \in Nat
  <2> HIDE DEF trim
  <2>1. p.res * trim \in Nat
    BY <1>2, <1>4
  <2> QED  BY <2>1 DEF Pixels
<1>7. PICK b \in Nat \ {0} : \A k \in Int : Bytes(k, p.bits) = k * b
  BY <1>1, <1>2, WholeBytes DEF Printable
<1> DEFINE left  == Pixels(p.res, trim)
           taken == Columns(p)
<1>8. /\ taken \in Nat \ {0} /\ left + taken <= p.width
  <2>1. p.width >= Pixels(p.res, last - least) /\ Columns(p) > 0
    BY <1>1 DEF Printable
  <2>2. taken = Least(Pixels(p.res, pic), p.width)
    BY DEF Columns
  <2>3. Pixels(p.res, last - least) \in Int
    BY <1>2, <1>3 DEF Pixels
  <2>4. taken \in Int /\ taken <= Pixels(p.res, pic) /\ taken > 0
    <3> HIDE DEF pic
    <3> QED  BY <1>2, <1>5, <2>1, <2>2 DEF Least
  <2> HIDE DEF pic, trim, least, last, taken
  <2> QED  BY <1>2, <1>5, <1>6, <2>1, <2>3, <2>4
<1>9. /\ left * b \in Nat /\ taken * b \in Nat \ {0} /\ p.width * b \in Nat
      /\ left * b + taken * b <= p.width * b
  <2> HIDE DEF left, taken
  <2>1. left \in Nat /\ taken \in Nat \ {0}
    BY <1>6, <1>8 DEF left
  <2>2. (left + taken) * b <= p.width * b
    BY <1>2, <1>8, <2>1, SMT
  <2>3. (left + taken) * b = left * b + taken * b
    BY <2>1, SMT
  <2>4. left * b \in Nat /\ taken * b \in Nat /\ p.width * b \in Nat
    BY <1>2, <2>1, SMT
  <2>5. taken * b # 0
    BY <2>1, SMT
  <2> QED  BY <2>2, <2>3, <2>4, <2>5
<1>10. Height(p) \in Nat \ {0} /\ Height(p) <= p.rows
  <2>1. Height(p) \in Int /\ Height(p) <= p.rows
    <3>1. Picture(p.y, p.shrink) \in Int
      BY <1>2, <1>3 DEF Picture
    <3> QED  BY <1>2, <3>1 DEF Height, Pixels, Least
  <2> QED  BY <2>1, <1>1 DEF Printable
<1>11. Pixels(p.dpi, Covered(p.y, p.shrink)) \in Nat \ {0}
  <2>1. Covered(p.y, p.shrink) \in Int
    BY <1>2, <1>3 DEF Covered
  <2>2. Pixels(p.dpi, Covered(p.y, p.shrink)) \in Int
    BY <1>2, <2>1 DEF Pixels
  <2> QED  BY <2>2, <1>1 DEF Printable
<1>12. Pixels(p.dpi, Above(p.y, p.shrink) - p.y.low) \in Int
  <2>1. Above(p.y, p.shrink) \in Int /\ p.y.low \in Int
    BY <1>2, <1>3 DEF Above
  <2> QED  BY <1>2, <2>1 DEF Pixels
<1>13. Pixels(p.dpi, p.y.high - p.y.low) \in Int
  BY <1>2, <1>3 DEF Pixels
<1> DEFINE l == Layout(p)
<1>14. /\ l.rows = p.rows /\ l.stride = p.width * b /\ l.left = left * b
       /\ l.taken = taken * b /\ l.height = Height(p)
  BY <1>2, <1>5, <1>7, <1>8 DEF Layout
<1>15. l \in [rows : Nat, stride : Nat, left : Nat, taken : Nat,
              height : Nat \ {0}, lines : Nat \ {0}, top : Int,
              printable : Int, verifies : BOOLEAN]
  <2>1. /\ Bytes(p.width, p.bits) \in Nat
        /\ Bytes(left, p.bits) \in Nat
        /\ Bytes(taken, p.bits) \in Nat
    BY <1>2, <1>5, <1>7, <1>8, <1>9
  <2> QED  BY <1>2, <1>10, <1>11, <1>12, <1>13, <2>1 DEF Layout
<1>16. Layout(p) \in SoundLayouts
  <2> HIDE DEF l, left, taken
  <2>1. l.left + l.taken <= l.stride /\ l.left < l.stride /\ l.height <= l.rows
    BY <1>9, <1>10, <1>14
  <2> QED  BY <1>15, <2>1 DEF SoundLayouts, l
<1> QED  BY <1>16 DEF p

-----------------------------------------------------------------------------
(* What the invariant says of a page that is printed.                      *)
LEMMA LayoutFacts ==
  ASSUME IInv, pc = "print" \/ Begun
  PROVE  /\ cups.rows \in Nat /\ cups.stride \in Nat /\ cups.left \in Nat
         /\ cups.taken \in Nat /\ cups.height \in Nat \ {0}
         /\ cups.lines \in Nat \ {0} /\ cups.top \in Int
         /\ cups.printable \in Int
         /\ cups.left < cups.stride /\ cups.height <= cups.rows
         /\ Advance = cups.stride
         /\ LineCount \in Nat \ {0}
         /\ row \in Nat /\ row <= cups.rows /\ at = row * cups.stride
<1>1. cups \in SoundLayouts /\ row \in 0 .. cups.rows /\ at = row * cups.stride
  BY DEF IInv, ByRows
<1>2. /\ cups.rows \in Nat /\ cups.stride \in Nat /\ cups.left \in Nat
      /\ cups.taken \in Nat /\ cups.height \in Nat \ {0}
      /\ cups.lines \in Nat \ {0} /\ cups.top \in Int
      /\ cups.printable \in Int
      /\ cups.left + cups.taken <= cups.stride
      /\ cups.left < cups.stride /\ cups.height <= cups.rows
  BY <1>1 DEF SoundLayouts
<1>3. Advance = cups.stride
  BY <1>2 DEF Advance
<1>4. LineCount \in Nat \ {0}
  BY <1>2 DEF LineCount
<1> QED  BY <1>1, <1>2, <1>3, <1>4

LEMMA PageFacts ==
  ASSUME IInv, Begun
  PROVE  /\ cups.rows \in Nat /\ cups.stride \in Nat /\ cups.left \in Nat
         /\ cups.height \in Nat \ {0} /\ cups.height <= cups.rows
         /\ cups.left < cups.stride /\ Advance = cups.stride
         /\ LineCount \in Nat \ {0}
         /\ row \in Nat /\ row <= cups.rows /\ at = row * cups.stride
         /\ data \in Offsets /\ store \in Seq(Offsets) /\ y \in Nat
BY LayoutFacts DEF IInv, Stored, Divided

(* Where a row of a picture is, it can be read from.                       *)
LEMMA SourceInPage ==
  ASSUME IInv, Begun, NEW turned \in BOOLEAN, NEW r \in 0 .. cups.height - 1
  PROVE  /\ Source(cups, turned, r) \in Offsets
         /\ Source(cups, turned, r) \in Int
<1> DEFINE k == IF turned THEN cups.height - 1 - r ELSE r
<1>1. k \in Nat /\ k < cups.rows
  BY PageFacts
<1> HIDE DEF k
<1>2. k * cups.stride + cups.left \in 0 .. cups.rows * cups.stride - 1
  BY <1>1, PageFacts, RowInPage
<1>3. k * cups.stride + cups.left \in Int
  BY <1>1, PageFacts, SMT
<1> QED  BY <1>2, <1>3 DEF Source, k, Offsets, Size

(* Asked for a row that it has not passed, Image_get_row reads up to it.   *)
LEMMA RowIsRead ==
  ASSUME IInv, Begun, NEW r \in Nat, r < cups.height, row <= r, GetRow(r)
  PROVE  /\ row' = r + 1
         /\ at' = row' * cups.stride
         /\ data' = Source(cups, FALSE, r)
         /\ data' \in Offsets /\ data' \in Int
<1> DEFINE w == cups.stride
<1>1. /\ cups.rows \in Nat /\ w \in Nat /\ cups.left \in Nat
      /\ cups.height \in Nat /\ cups.height <= cups.rows /\ Advance = w
      /\ row \in Nat /\ at = row * w
  BY PageFacts
<1>2. Upcoming(r) = r + 1
  BY <1>1 DEF Upcoming, Least
<1>3. row' = r + 1
  BY <1>1, <1>2 DEF GetRow, Greatest
<1>4. row * w + (r + 1 - row) * w = (r + 1) * w
  <2> HIDE DEF w
  <2>1. (r + 1 - row) * w = (r + 1) * w - row * w
    BY <1>1, SMT
  <2>2. row * w \in Int /\ (r + 1) * w \in Int
    BY <1>1, SMT
  <2> QED  BY <2>1, <2>2
<1>5. at' = row' * w
  BY <1>1, <1>3, <1>4 DEF GetRow
<1>6. Fetched(r) = at + (r + 1 - 1 - row) * w + cups.left
  BY <1>1, <1>2 DEF Fetched, Reads
<1>7. r + 1 - 1 - row = r - row /\ row * w + (r - row) * w = r * w
  BY <1>1, SMT
<1>8. data' = r * w + cups.left
  BY <1>1, <1>6, <1>7 DEF GetRow
<1>9. data' = Source(cups, FALSE, r)
  BY <1>8 DEF Source
<1>10. Source(cups, FALSE, r) \in Offsets /\ Source(cups, FALSE, r) \in Int
  <2>1. r \in 0 .. cups.height - 1 /\ FALSE \in BOOLEAN
    BY <1>1
  <2> QED  BY <2>1, SourceInPage
<1> QED  BY <1>3, <1>5, <1>9, <1>10

(* From the front or from the end, a page in memory gives the right row.   *)
LEMMA StoredRow ==
  ASSUME IInv, Begun, Len(store) = cups.height,
         NEW r \in 0 .. cups.height - 1
  PROVE  /\ store[r + 1] = Source(cups, FALSE, r)
         /\ Turn(store, r) = Source(cups, TRUE, r)
<1>1. cups.height \in Nat
  BY PageFacts
<1>2. \A k \in 1 .. Len(store) : store[k] = Source(cups, FALSE, k - 1)
  BY DEF IInv, Stored
<1>3. r + 1 \in 1 .. Len(store) /\ (r + 1) - 1 = r
  BY <1>1
<1>4. /\ Len(store) - r \in 1 .. Len(store)
      /\ (Len(store) - r) - 1 = cups.height - 1 - r
  BY <1>1
<1>5. store[r + 1] = Source(cups, FALSE, r)
  BY <1>2, <1>3
<1>6. store[Len(store) - r] = Source(cups, FALSE, cups.height - 1 - r)
  BY <1>2, <1>4
<1> QED  BY <1>5, <1>6 DEF Turn, Source

(* The division goes on: the row asked for is the one of the line.         *)
LEMMA ErrorFacts ==
  ASSUME IInv, pc = "lines"
  PROVE  /\ err.val \in 0 .. LineCount - 1 /\ err.line \in Nat
         /\ err.line = (y * cups.height) \div LineCount
         /\ y < LineCount => err.line < cups.height
         /\ err.line <= cups.height
<1>1. /\ err.val \in 0 .. LineCount - 1 /\ err.line \in Nat /\ y <= LineCount
      /\ err.line * LineCount + err.val = y * cups.height
  BY DEF IInv, Divided
<1>2. LineCount \in Nat \ {0} /\ cups.height \in Nat \ {0} /\ y \in Nat
  BY PageFacts DEF Begun
<1>3. err.line = (y * cups.height) \div LineCount
  BY <1>1, <1>2, DivisionStep
<1>4. y < LineCount => err.line < cups.height
  <2>1. y < LineCount => (y * cups.height) \div LineCount \in 0 .. cups.height - 1
    BY <1>2, DividedInPicture
  <2> QED  BY <1>1, <1>2, <1>3, <2>1
<1>5. y = LineCount => err.line <= cups.height
  <2>1. y = LineCount => err.line * LineCount <= LineCount * cups.height
    <3>1. err.line * LineCount \in Int /\ y * cups.height \in Int
      BY <1>1, <1>2, SMT
    <3> QED  BY <1>1, <3>1
  <2>2. err.line > cups.height => err.line * LineCount > cups.height * LineCount
    BY <1>1, <1>2, SMT
  <2>3. /\ cups.height * LineCount = LineCount * cups.height
        /\ cups.height * LineCount \in Int /\ err.line * LineCount \in Int
    BY <1>1, <1>2, SMT
  <2> QED  BY <1>1, <1>2, <2>1, <2>2, <2>3
<1> QED  BY <1>1, <1>2, <1>3, <1>4, <1>5

LEMMA NextErrorDivides ==
  ASSUME IInv, pc = "lines", y < LineCount
  PROVE  LET next == NextError IN
         /\ next.val \in 0 .. LineCount - 1
         /\ next.line \in Nat /\ next.line >= err.line
         /\ next.line * LineCount + next.val = (y + 1) * cups.height
         /\ next.last = err.line /\ err.line \in 0 .. cups.height - 1
<1> DEFINE n == LineCount
           h == cups.height
<1>1. /\ err.val \in 0 .. n - 1 /\ err.line \in Nat
      /\ err.line * n + err.val = y * h
  BY DEF IInv, Divided
<1>2. n \in Nat \ {0} /\ h \in Nat \ {0} /\ y \in Nat
  BY PageFacts DEF Begun
<1>3. err.line < h
  BY ErrorFacts
<1> DEFINE down == h \div n
           rest == h % n
<1>4. down \in Nat /\ rest \in 0 .. n - 1
  BY <1>2
<1>5. /\ (err.line + down) * n + (err.val + rest) = (y + 1) * h
      /\ (err.line + down + 1) * n + (err.val + rest - n) = (y + 1) * h
  <2> DEFINE line == err.line
             val  == err.val
  <2>1. line \in Nat /\ val \in 0 .. n - 1 /\ line * n + val = y * h
    BY <1>1
  <2> HIDE DEF n, h, line, val
  <2>2. /\ (line + (h \div n)) * n + (val + (h % n)) = (y + 1) * h
        /\ (line + (h \div n) + 1) * n + (val + (h % n) - n) = (y + 1) * h
    BY <1>2, <2>1, DivisionStep
  <2> QED  BY <2>2 DEF line, val
<1> DEFINE carry == IF err.val + rest >= n THEN 1 ELSE 0
<1>6. /\ NextError.val = (err.val + rest) - carry * n
      /\ NextError.line = err.line + down + carry
      /\ NextError.last = err.line
  BY DEF NextError
<1>7. carry \in {0, 1} /\ (carry = 1 <=> err.val + rest >= n)
  OBVIOUS
<1> HIDE DEF n, h, down, rest, carry
<1>8. CASE carry = 1
  <2>1. NextError.val = err.val + rest - n /\ NextError.line = err.line + down + 1
    BY <1>1, <1>2, <1>4, <1>6, <1>8
  <2> QED  BY <1>1, <1>2, <1>3, <1>4, <1>5, <1>6, <1>7, <1>8, <2>1 DEF n, h
<1>9. CASE carry = 0
  <2>1. NextError.val = err.val + rest /\ NextError.line = err.line + down
    BY <1>1, <1>2, <1>4, <1>6, <1>9
  <2> QED  BY <1>1, <1>2, <1>3, <1>4, <1>5, <1>6, <1>7, <1>9, <2>1 DEF n, h
<1> QED  BY <1>7, <1>8, <1>9

-----------------------------------------------------------------------------
(* The invariant holds at the start, and every step keeps it.              *)
LEMMA Initially == Init => IInv
<1> SUFFICES ASSUME Init PROVE IInv
  OBVIOUS
<1>1. pc = "header" /\ page = 0 /\ ~Begun
  BY DEF Init, Begun
<1>2. PICK driver \in Drivers, stream \in Streams, duplex \in BOOLEAN :
        job = [driver |-> driver, stream |-> stream, duplex |-> duplex,
               document |-> Document(driver, stream, duplex)]
  BY DEF Init
<1>3. job.driver \in Drivers /\ job.stream \in Streams
  BY <1>2
<1>4. Len(job.stream) \in Nat
  BY <1>3, StreamsAssumption
<1>5. Control
  <2>1. opened \in BOOLEAN /\ closed \in BOOLEAN
    BY Zenon DEF Init
  <2> QED  BY <1>1, <1>3, <1>4, <2>1 DEF Control
<1>6. ByRows
  BY <1>1 DEF ByRows, InStep
<1>7. Stored
  BY <1>1 DEF Stored
<1>8. Divided
  BY <1>1 DEF Divided
<1>9. Counted
  BY <1>1 DEF Init, Counted
<1> QED  BY <1>5, <1>6, <1>7, <1>8, <1>9 DEF IInv

LEMMA StreamFacts ==
  ASSUME IInv
  PROVE  /\ job.stream \in Seq(Headers) /\ Len(job.stream) \in Nat
         /\ page \in Nat /\ page <= Len(job.stream)
<1>1. job.stream \in Seq(Headers)
  BY StreamsAssumption DEF IInv, Control
<1>2. Len(job.stream) \in Nat
  BY <1>1
<1> QED  BY <1>1, <1>2 DEF IInv, Control

LEMMA HeaderStep ==
  ASSUME IInv, ReadHeader
  PROVE  IInv'
<1>1. /\ pc = "header" /\ pc' = "print" /\ ~Begun'
      /\ page' = page /\ job' = job /\ page < Len(job.stream)
      /\ row' = 0 /\ at' = 0 /\ cups' = Layout(job.stream[page + 1])
  BY DEF ReadHeader, Begun
<1>2. page + 1 \in DOMAIN job.stream /\ job.stream \in Streams
  BY <1>1, StreamFacts DEF IInv, Control
<1>3. cups' \in SoundLayouts
  BY <1>1, <1>2, LayoutIsSound
<1>4. cups'.rows \in Nat /\ cups'.stride \in Nat
  BY <1>3 DEF SoundLayouts
<1>5. Control'
  BY <1>1 DEF IInv, Control, ReadHeader
<1>6. ByRows'
  BY <1>1, <1>3, <1>4 DEF ByRows
<1>7. Stored'
  BY <1>1 DEF Stored
<1>8. Divided'
  BY <1>1 DEF Divided
<1>9. Counted'
  BY <1>1 DEF IInv, Counted, ReadHeader, Aborted
<1> QED  BY <1>5, <1>6, <1>7, <1>8, <1>9 DEF IInv

(* Steps between the pages that leave the stream and the page alone.       *)
LEMMA RestingStep ==
  ASSUME IInv, EndOfStream \/ EndJob
  PROVE  IInv'
<1>1. /\ pc \in {"header", "end"} /\ pc' \in {"end", "ended"} /\ ~Begun'
      /\ page' = page /\ job' = job /\ sent' = sent /\ status' = status
  BY DEF EndOfStream, EndJob, Begun
<1>2. opened' \in BOOLEAN /\ closed' \in BOOLEAN
  BY DEF IInv, Control, EndOfStream, EndJob, brackets
<1>3. Control'
  BY <1>1, <1>2 DEF IInv, Control
<1>4. ByRows'
  BY <1>1 DEF ByRows
<1>5. Stored'
  BY <1>1 DEF Stored
<1>6. Divided'
  BY <1>1 DEF Divided
<1>7. Counted'
  BY <1>1 DEF IInv, Counted, Aborted
<1> QED  BY <1>3, <1>4, <1>5, <1>6, <1>7 DEF IInv

(* A new page at the printer.                                              *)
LEMMA PageStarts ==
  ASSUME IInv, StartPage, ~Aborted, Len(sent) = page
  PROVE  /\ sent' \in Seq([number : Nat, lines : Seq(Int)])
         /\ Len(sent') = page + 1
<1>1. sent \in Seq([number : Nat, lines : Seq(Int)])
  BY DEF IInv, Counted
<1>2. [number |-> page + 1, lines |-> <<>>] \in [number : Nat, lines : Seq(Int)]
  BY StreamFacts
<1> QED  BY <1>1, <1>2 DEF StartPage

LEMMA BeginStep ==
  ASSUME IInv, BeginPrint
  PROVE  IInv'
<1>1. /\ pc = "print" /\ pc' \in {"lines", "read", "end"} /\ row = 0
      /\ page' = page /\ job' = job /\ cups' = cups /\ row' = row /\ at' = at
      /\ status' = status /\ opened' = opened /\ closed' = closed
      /\ page < Len(job.stream) /\ job.driver \in Drivers
      /\ LineCount' = LineCount /\ Turned' = Turned /\ Offsets' = Offsets
  BY DEF IInv, ByRows, Control, BeginPrint, reader, brackets, LineCount, Turned,
         Offsets, Size
<1>2. pc' # "end" =>
        /\ pc' = IF job.driver.stores THEN "read" ELSE "lines"
        /\ IF job.driver.stores THEN sent' = sent ELSE StartPage
        /\ data' = Blank /\ store' = <<>> /\ y' = 0
        /\ err' = [val |-> 0, line |-> 0, last |-> -1]
  BY DEF BeginPrint
<1>3. pc' = "end" => sent' = sent
  BY DEF BeginPrint
<1>4. Control'
  BY <1>1, <1>2 DEF IInv, Control, Begun
<1>5. ByRows'
  BY <1>1 DEF IInv, ByRows
<1>6. Stored'
  <2> SUFFICES ASSUME Begun' PROVE Stored'
    BY DEF Stored
  <2>1. pc' # "end"
    BY DEF Begun
  <2>2. data' \in Offsets' /\ store' \in Seq(Offsets') /\ Len(store') = 0
    BY <1>2, <2>1 DEF Offsets
  <2>3. cups'.height \in Nat /\ row' = 0
    BY <1>1, LayoutFacts
  <2> QED  BY <1>1, <1>2, <2>1, <2>2, <2>3 DEF Stored
<1>7. Divided'
  <2>1. CASE pc' = "end"
    BY <2>1 DEF Divided, Begun
  <2>2. CASE pc' # "end"
    <3>1. LineCount \in Nat \ {0} /\ cups.height \in Nat \ {0}
      BY <1>1, LayoutFacts
    <3>2. /\ y' = 0 /\ err'.val = 0 /\ err'.line = 0 /\ err'.last = -1
          /\ store' = <<>> /\ row' = 0
      BY <1>1, <1>2, <2>2
    <3>3. err'.line * LineCount' + err'.val = y' * cups'.height
      BY <1>1, <3>1, <3>2
    <3>4. pc' = "read" => job'.driver.stores
      BY <1>1, <1>2
    <3> QED  BY <1>1, <3>1, <3>2, <3>3, <3>4 DEF Divided
  <2> QED  BY <2>1, <2>2
<1>8. Counted'
  <2> SUFFICES ASSUME ~Aborted' PROVE Counted'
    BY DEF Counted
  <2>1. /\ ~Aborted /\ Len(sent) = page
        /\ sent \in Seq([number : Nat, lines : Seq(Int)])
    BY <1>1 DEF IInv, Counted, Aborted
  <2>2. CASE pc' = "lines"
    BY <1>1, <1>2, <2>1, <2>2, PageStarts DEF Counted
  <2>3. CASE pc' # "lines"
    BY <1>1, <1>2, <1>3, <2>1, <2>3 DEF Counted
  <2> QED  BY <2>2, <2>3
<1> QED  BY <1>4, <1>5, <1>6, <1>7, <1>8 DEF IInv

(* Purging leaves the stream at the end of the page.                       *)
LEMMA PurgeStep ==
  ASSUME IInv, Purge
  PROVE  IInv'
<1>1. /\ pc = "purge" /\ pc' = "header" /\ Begun /\ ~Begun' /\ page' = page + 1
      /\ job' = job /\ cups' = cups /\ status' = status /\ sent' = sent
      /\ opened' = opened /\ closed' = closed
  BY DEF Purge, Begun, brackets
<1>2. page < Len(job.stream)
  BY <1>1 DEF IInv, Control
<1>3. Control'
  BY <1>1, <1>2, StreamFacts DEF IInv, Control
<1>4. at' = Size(cups)
  <2> DEFINE w == cups.stride
             h == cups.rows
  <2>1. h \in Nat /\ w \in Nat /\ row \in Nat /\ row <= h /\ at = row * w
    BY <1>1, PageFacts
  <2>2. row' = h
    BY <2>1 DEF Purge, Greatest
  <2>3. at' = at + (h - row) * w
    BY <2>2 DEF Purge
  <2> HIDE DEF w, h
  <2>4. (h - row) * w = h * w - row * w
    BY <2>1, SMT
  <2>5. h * w \in Int /\ row * w \in Int
    BY <2>1, SMT
  <2>6. at' = h * w
    BY <2>1, <2>3, <2>4, <2>5
  <2> QED  BY <2>6 DEF Size, w, h
<1>5. ByRows'
  BY <1>1, <1>4 DEF ByRows, InStep
<1>6. Stored'
  BY <1>1 DEF Stored
<1>7. Divided'
  BY <1>1 DEF Divided
<1>8. Counted'
  BY <1>1 DEF IInv, Counted, Aborted
<1> QED  BY <1>3, <1>5, <1>6, <1>7, <1>8 DEF IInv

(* One more line on the newest page.                                       *)
LEMMA LinePrinted ==
  ASSUME IInv, ~Aborted, Len(sent) = page + 1, NEW source \in Int,
         PrintLine(source)
  PROVE  /\ sent' \in Seq([number : Nat, lines : Seq(Int)])
         /\ Len(sent') = page + 1
<1> DEFINE S == [number : Nat, lines : Seq(Int)]
           n == Len(sent)
<1>1. sent \in Seq(S) /\ n \in 1 .. n
  BY StreamFacts DEF IInv, Counted
<1>2. sent[n] \in S
  <2> HIDE DEF S
  <2>1. n \in Nat /\ DOMAIN sent = 1 .. n
    BY <1>1
  <2> QED  BY <1>1, <2>1
<1>3. Append(sent[n].lines, source) \in Seq(Int)
  BY <1>2
<1>4. [sent[n] EXCEPT !.lines = Append(sent[n].lines, source)] \in S
  BY <1>2, <1>3
<1>5. sent' = [sent EXCEPT ![n] =
                 [sent[n] EXCEPT !.lines = Append(sent[n].lines, source)]]
  BY DEF PrintLine
<1> HIDE DEF S
<1>6. sent' \in Seq(S) /\ Len(sent') = n
  BY <1>1, <1>4, <1>5
<1> QED  BY <1>6 DEF S

(* What the steps within the lines of a page leave alone.                  *)
LEMMA SamePage ==
  ASSUME job' = job, page' = page, cups' = cups
  PROVE  /\ LineCount' = LineCount /\ Turned' = Turned /\ Offsets' = Offsets
         /\ \A t, r : Source(cups, t, r)' = Source(cups, t, r)
BY DEF LineCount, Turned, Offsets, Size, Source

LEMMA SameControl ==
  ASSUME IInv, Begun, job' = job, page' = page, opened' = opened,
         closed' = closed,
         pc' \in {"lines", "read", "planes", "purge", "crashed"},
         pc' = "lines" => pc = "lines" \/ ~job.driver.stores
  PROVE  Control'
BY DEF IInv, Control, Begun

(* The lines of a page, printed from a row that is in place.               *)
LEMMA LineKeepsDivision ==
  ASSUME IInv, pc = "lines", pc' = "lines", y < LineCount,
         job' = job, page' = page, cups' = cups, store' = store,
         y' = y + 1, err' = NextError,
         ~Turned => row' <= err.line + 1,
         Turned => store # <<>>,
         data' = Source(cups, Turned, err.line)
  PROVE  Divided'
<1>1. /\ err'.val \in 0 .. LineCount - 1
      /\ err'.line \in Nat /\ err'.line >= err.line
      /\ err'.line * LineCount + err'.val = (y + 1) * cups.height
      /\ err'.last = err.line /\ err.line \in 0 .. cups.height - 1
  BY NextErrorDivides
<1>2. LineCount' = LineCount /\ Turned' = Turned
  BY SamePage
<1>3. y \in Nat /\ LineCount \in Nat \ {0} /\ cups.height \in Nat \ {0}
  BY PageFacts DEF Begun
<1>4. err'.last \in -1 .. cups'.height - 1 /\ err'.last <= err'.line
  BY <1>1, <1>3
<1>5. data' = Source(cups', Turned', err'.last)
  BY <1>1, <1>2
<1>6. y' \in Nat /\ y' # 0 /\ y' <= LineCount'
  BY <1>2, <1>3
<1>7. err'.line * LineCount' + err'.val = y' * cups'.height
  BY <1>1, <1>2
<1>8. ~Turned' => row' <= err'.last + 1
  BY <1>1, <1>2
<1> QED  BY <1>1, <1>2, <1>4, <1>5, <1>6, <1>7, <1>8 DEF Divided

LEMMA LineKeepsStore ==
  ASSUME IInv, Begun, Begun', pc' # "read", pc' # "planes" \/ pc = "planes",
         pc' # "lines" \/ pc = "lines",
         job' = job, page' = page, cups' = cups, store' = store,
         data' \in Offsets
  PROVE  Stored'
<1>1. /\ Offsets' = Offsets
      /\ \A t, r : Source(cups, t, r)' = Source(cups, t, r)
  BY SamePage
<1> QED  BY <1>1 DEF IInv, Stored

LEMMA NewRowStep ==
  ASSUME IInv, NewRow
  PROVE  /\ IInv'
         /\ y' = y \/ data' = Source(cups, Turned, err.line)
<1>1. /\ pc = "lines" /\ Begun /\ y < LineCount /\ err.line # err.last
      /\ ~Turned /\ GetRow(err.line)
      /\ job' = job /\ page' = page /\ cups' = cups /\ status' = status
      /\ store' = store /\ opened' = opened /\ closed' = closed
  BY DEF NewRow, Begun, brackets
<1>2. /\ err.line \in Nat /\ err.line < cups.height /\ row <= err.line
  <2>1. err.last <= err.line /\ row <= err.last + 1 /\ err.last \in Int
    BY <1>1 DEF IInv, Divided
  <2>2. err.line \in Nat /\ err.line < cups.height /\ row \in Nat
    BY <1>1, ErrorFacts, PageFacts
  <2> QED  BY <1>1, <2>1, <2>2
<1>3. /\ row' = err.line + 1 /\ at' = row' * cups.stride
      /\ data' = Source(cups, FALSE, err.line)
      /\ data' \in Offsets /\ data' \in Int
  BY <1>1, <1>2, RowIsRead
<1>4. data' = Source(cups, Turned, err.line)
  BY <1>1, <1>3 DEF Source
<1>5. ByRows'
  <2>1. /\ cups.rows \in Nat /\ cups.height \in Nat /\ cups.height <= cups.rows
        /\ cups \in SoundLayouts
    BY <1>1, PageFacts DEF IInv, ByRows
  <2>2. row' \in 0 .. cups.rows
    BY <1>2, <1>3, <2>1
  <2>3. pc' \in {"lines", "purge"}
    BY <1>1 DEF NewRow, Return
  <2> QED  BY <1>1, <1>3, <2>1, <2>2, <2>3 DEF ByRows, InStep
<1>6. CASE Aborted
  <2>1. pc' = "purge" /\ sent' = sent /\ y' = y /\ err' = err /\ Begun'
    BY <1>6 DEF NewRow, Return, Begun
  <2>2. Control'
    BY <1>1, <2>1, SameControl
  <2>3. Stored'
    BY <1>1, <1>3, <2>1, LineKeepsStore
  <2>4. Divided'
    BY <1>1, <2>1, PageFacts DEF Divided
  <2>5. Counted'
    BY <1>1, <1>6 DEF Counted, Aborted
  <2> QED  BY <1>5, <2>1, <2>2, <2>3, <2>4, <2>5 DEF IInv
<1>7. CASE ~Aborted
  <2>1. pc' = "lines" /\ PrintLine(data') /\ err' = NextError /\ Begun'
    BY <1>1, <1>7 DEF NewRow, Begun
  <2>2. y' = y + 1
    BY <2>1 DEF PrintLine
  <2>3. Control'
    BY <1>1, <2>1, SameControl
  <2>4. Stored'
    BY <1>1, <1>3, <2>1, LineKeepsStore
  <2>5. Divided'
    <3>1. row' <= err.line + 1
      BY <1>2, <1>3
    <3> QED  BY <1>1, <1>4, <2>1, <2>2, <3>1, LineKeepsDivision
  <2>6. Counted'
    <3>1. Len(sent) = page + 1
      BY <1>1, <1>7 DEF IInv, Counted
    <3>2. /\ sent' \in Seq([number : Nat, lines : Seq(Int)])
          /\ Len(sent') = page + 1
      BY <1>3, <1>7, <2>1, <3>1, LinePrinted
    <3> QED  BY <1>1, <2>1, <3>2 DEF Counted
  <2> QED  BY <1>4, <1>5, <2>3, <2>4, <2>5, <2>6 DEF IInv
<1> QED  BY <1>6, <1>7

LEMMA SameRowStep ==
  ASSUME IInv, SameRow
  PROVE  IInv' /\ data' = Source(cups, Turned, err.line)
<1>1. /\ pc = "lines" /\ pc' = "lines" /\ Begun /\ Begun'
      /\ y < LineCount /\ err.line = err.last
      /\ PrintLine(data) /\ y' = y + 1 /\ err' = NextError /\ data' = data
      /\ job' = job /\ page' = page /\ cups' = cups /\ row' = row /\ at' = at
      /\ status' = status /\ store' = store
      /\ opened' = opened /\ closed' = closed
  BY DEF SameRow, PrintLine, Begun, brackets, reader
<1>2. /\ y > 0 /\ data = Source(cups, Turned, err.line)
      /\ (~Turned => row <= err.line + 1) /\ (Turned => store # <<>>)
  <2>1. y # 0
    BY <1>1, ErrorFacts DEF IInv, Divided
  <2>2. y \in Nat
    BY <1>1, PageFacts
  <2> QED  BY <1>1, <2>1, <2>2 DEF IInv, Divided
<1>3. Control'
  BY <1>1, SameControl
<1>4. ByRows'
  BY <1>1 DEF IInv, ByRows
<1>5. Stored'
  BY <1>1, PageFacts, LineKeepsStore
<1>6. Divided'
  BY <1>1, <1>2, LineKeepsDivision
<1>7. Counted'
  <2> SUFFICES ASSUME ~Aborted' PROVE Counted'
    BY DEF Counted
  <2>1. ~Aborted /\ Len(sent) = page + 1
    BY <1>1 DEF IInv, Counted, Aborted
  <2>2. data \in Int
    <3>1. data \in Offsets /\ Size(cups) \in Int
      BY <1>1, PageFacts DEF Size
    <3> QED  BY <3>1 DEF Offsets, Blank
  <2>3. /\ sent' \in Seq([number : Nat, lines : Seq(Int)])
        /\ Len(sent') = page + 1
    BY <1>1, <2>1, <2>2, LinePrinted
  <2> QED  BY <1>1, <2>3 DEF Counted
<1> QED  BY <1>1, <1>2, <1>3, <1>4, <1>5, <1>6, <1>7 DEF IInv

LEMMA BackRowStep ==
  ASSUME IInv, BackRow
  PROVE  IInv' /\ data' = Source(cups, Turned, err.line)
<1>1. /\ pc = "lines" /\ pc' = "lines" /\ Begun /\ Begun'
      /\ y < LineCount /\ Turned /\ store # <<>>
      /\ data' = Turn(store, err.line)
      /\ PrintLine(data') /\ y' = y + 1 /\ err' = NextError
      /\ job' = job /\ page' = page /\ cups' = cups /\ row' = row /\ at' = at
      /\ status' = status /\ store' = store
      /\ opened' = opened /\ closed' = closed
  BY DEF BackRow, PrintLine, Begun, brackets, reader
<1>2. /\ data' = Source(cups, Turned, err.line)
      /\ data' \in Offsets /\ data' \in Int
  <2>1. err.line \in 0 .. cups.height - 1
    BY <1>1, ErrorFacts, PageFacts
  <2>2. Len(store) = cups.height
    BY <1>1 DEF IInv, Stored
  <2>3. data' = Source(cups, TRUE, err.line)
    BY <1>1, <2>1, <2>2, StoredRow
  <2>4. Source(cups, TRUE, err.line) = Source(cups, Turned, err.line)
    BY <1>1 DEF Source
  <2>5. /\ Source(cups, TRUE, err.line) \in Offsets
        /\ Source(cups, TRUE, err.line) \in Int
    BY <1>1, <2>1, SourceInPage
  <2> QED  BY <2>3, <2>4, <2>5
<1>3. Control'
  BY <1>1, SameControl
<1>4. ByRows'
  BY <1>1 DEF IInv, ByRows
<1>5. Stored'
  BY <1>1, <1>2, LineKeepsStore
<1>6. Divided'
  BY <1>1, <1>2, LineKeepsDivision
<1>7. Counted'
  <2> SUFFICES ASSUME ~Aborted' PROVE Counted'
    BY DEF Counted
  <2>1. ~Aborted /\ Len(sent) = page + 1
    BY <1>1 DEF IInv, Counted, Aborted
  <2>2. /\ sent' \in Seq([number : Nat, lines : Seq(Int)])
        /\ Len(sent') = page + 1
    BY <1>1, <1>2, <2>1, LinePrinted
  <2> QED  BY <1>1, <2>2 DEF Counted
<1> QED  BY <1>2, <1>3, <1>4, <1>5, <1>6, <1>7 DEF IInv

LEMMA ReadBackStep ==
  ASSUME IInv, ReadBack
  PROVE  IInv'
<1>1. /\ pc = "lines" /\ pc' = "read" /\ Begun /\ Begun'
      /\ Turned /\ store = <<>> /\ ~job.driver.stores
      /\ job' = job /\ page' = page /\ cups' = cups /\ row' = row /\ at' = at
      /\ data' = data /\ store' = store /\ y' = y /\ err' = err /\ sent' = sent
      /\ status' = status /\ opened' = opened /\ closed' = closed
  BY DEF IInv, Control, ReadBack, Begun, brackets, reader, loop
<1>2. row = 0 /\ y = 0
  BY <1>1 DEF IInv, Divided
<1>3. /\ LineCount' = LineCount /\ Turned' = Turned /\ Offsets' = Offsets
      /\ \A t, r : Source(cups, t, r)' = Source(cups, t, r)
  BY <1>1, SamePage
<1>4. Control'
  BY <1>1, SameControl
<1>5. ByRows'
  BY <1>1 DEF IInv, ByRows
<1>6. Stored'
  <2>1. Len(store) = 0 /\ store \in Seq(Offsets)
    BY <1>1, PageFacts
  <2> QED  BY <1>1, <1>2, <1>3, <2>1 DEF IInv, Stored
<1>7. Divided'
  BY <1>1, <1>2, <1>3 DEF IInv, Divided
<1>8. Counted'
  BY <1>1 DEF IInv, Counted, Aborted
<1> QED  BY <1>4, <1>5, <1>6, <1>7, <1>8 DEF IInv

LEMMA PageDoneStep ==
  ASSUME IInv, EndOfLines \/ EndOfPlanes
  PROVE  IInv'
<1>1. /\ pc \in {"lines", "planes"} /\ pc' = "purge" /\ Begun /\ Begun'
      /\ job' = job /\ page' = page /\ cups' = cups /\ row' = row /\ at' = at
      /\ data' = data /\ store' = store /\ y' = y /\ err' = err /\ sent' = sent
      /\ status' = status /\ opened' = opened /\ closed' = closed
  BY DEF EndOfLines, EndOfPlanes, Return, Begun, brackets, reader, loop
<1>2. Control'
  BY <1>1, SameControl
<1>3. ByRows'
  BY <1>1 DEF IInv, ByRows
<1>4. Stored'
  BY <1>1, PageFacts, LineKeepsStore
<1>5. Divided'
  BY <1>1 DEF IInv, Divided
<1>6. Counted'
  BY <1>1 DEF IInv, Counted, Aborted
<1> QED  BY <1>2, <1>3, <1>4, <1>5, <1>6 DEF IInv

(* A sequence with one more element at its end.                            *)
LEMMA OneMore ==
  ASSUME NEW S, NEW q \in Seq(S), NEW e \in S
  PROVE  /\ Append(q, e) \in Seq(S) /\ Len(Append(q, e)) = Len(q) + 1
         /\ Append(q, e)[Len(q) + 1] = e
         /\ \A k \in 1 .. Len(q) : Append(q, e)[k] = q[k]
OBVIOUS

LEMMA ReadRowStep ==
  ASSUME IInv, ReadRow
  PROVE  IInv'
<1> DEFINE r == Len(store)
<1>1. /\ pc = "read" /\ pc' \in {"read", "crashed", "purge"} /\ Begun
      /\ r < cups.height /\ GetRow(r)
      /\ job' = job /\ page' = page /\ cups' = cups
      /\ status' = status /\ y' = y /\ err' = err /\ sent' = sent
      /\ opened' = opened /\ closed' = closed
  BY DEF ReadRow, Begun, brackets
<1>2. r \in Nat /\ row = r /\ store \in Seq(Offsets)
  BY <1>1, PageFacts DEF IInv, Stored
<1>3. /\ row' = r + 1 /\ at' = row' * cups.stride
      /\ data' = Source(cups, FALSE, r)
      /\ data' \in Offsets
  <2> HIDE DEF r
  <2>1. row <= r
    BY <1>2
  <2> QED  BY <1>1, <1>2, <2>1, RowIsRead
<1>4. /\ LineCount' = LineCount /\ Turned' = Turned /\ Offsets' = Offsets
      /\ \A t, k : Source(cups, t, k)' = Source(cups, t, k)
  BY <1>1, SamePage
<1>5. Control'
  BY <1>1, SameControl
<1>6. ByRows'
  <2>1. row' \in 0 .. cups.rows
    <3>1. cups.height <= cups.rows /\ cups.height \in Nat /\ cups.rows \in Nat
      BY <1>1, PageFacts
    <3> QED  BY <1>1, <1>2, <1>3, <3>1
  <2> QED  BY <1>1, <1>3, <2>1 DEF IInv, ByRows
<1>7. Divided'
  BY <1>1, <1>4 DEF IInv, Divided, Begun
<1>8. Stored'
  <2>1. CASE Aborted
    <3>1. pc' # "read" /\ store' = store
      BY <1>1, <2>1 DEF ReadRow
    <3>2. CASE Begun'
      BY <1>1, <1>3, <3>1, <3>2, LineKeepsStore
    <3> QED  BY <3>2 DEF Stored
  <2>2. CASE ~Aborted
    <3>1. pc' = "read" /\ store' = Append(store, data')
      BY <1>1, <2>2 DEF ReadRow
    <3>2. /\ store' \in Seq(Offsets) /\ Len(store') = r + 1
          /\ store'[r + 1] = data'
          /\ \A k \in 1 .. r : store'[k] = store[k]
      <4> DEFINE e == data'
                 S == Offsets
      <4>1. store \in Seq(S) /\ e \in S
        BY <1>2, <1>3
      <4> HIDE DEF e, S
      <4>2. /\ Append(store, e) \in Seq(S) /\ Len(Append(store, e)) = r + 1
            /\ Append(store, e)[r + 1] = e
            /\ \A k \in 1 .. r : Append(store, e)[k] = store[k]
        BY <4>1, OneMore
      <4> QED  BY <3>1, <4>2 DEF e, S
    <3>3. \A k \in 1 .. r : store[k] = Source(cups, FALSE, k - 1)
      BY <1>1 DEF IInv, Stored
    <3>4. (r + 1) - 1 = r
      BY <1>2
    <3> HIDE DEF r
    <3>5. ASSUME NEW k \in 1 .. r + 1
          PROVE  store'[k] = Source(cups, FALSE, k - 1)
      <4>1. CASE k = r + 1
        BY <1>3, <3>2, <3>4, <4>1
      <4>2. CASE k \in 1 .. r
        BY <3>2, <3>3, <4>2
      <4>3. k = r + 1 \/ k \in 1 .. r
        BY <1>2
      <4> QED  BY <4>1, <4>2, <4>3
    <3>6. r + 1 <= cups.height
      BY <1>1, <1>2, PageFacts
    <3> QED  BY <1>1, <1>3, <1>4, <3>1, <3>2, <3>5, <3>6 DEF Stored
  <2> QED  BY <2>1, <2>2
<1>9. Counted'
  <2> SUFFICES ASSUME ~Aborted' PROVE Counted'
    BY DEF Counted
  <2>1. ~Aborted /\ pc' = "read"
    BY <1>1 DEF ReadRow, Aborted
  <2> QED  BY <1>1, <2>1 DEF IInv, Counted
<1> QED  BY <1>5, <1>6, <1>7, <1>8, <1>9 DEF IInv

LEMMA WholeReadStep ==
  ASSUME IInv, WholeRead
  PROVE  IInv'
<1>1. /\ pc = "read" /\ Begun /\ Begun' /\ Len(store) = cups.height
      /\ pc' = IF job.driver.stores THEN "planes" ELSE "lines"
      /\ IF job.driver.stores THEN StartPage ELSE sent' = sent
      /\ job' = job /\ page' = page /\ cups' = cups /\ row' = row /\ at' = at
      /\ data' = data /\ store' = store /\ y' = y /\ err' = err
      /\ status' = status /\ opened' = opened /\ closed' = closed
  BY DEF WholeRead, Begun, brackets, reader, loop
<1>2. /\ LineCount' = LineCount /\ Turned' = Turned /\ Offsets' = Offsets
      /\ \A t, k : Source(cups, t, k)' = Source(cups, t, k)
  BY <1>1, SamePage
<1>3. Control'
  BY <1>1, SameControl
<1>4. ByRows'
  BY <1>1 DEF IInv, ByRows
<1>5. Stored'
  BY <1>1, <1>2 DEF IInv, Stored
<1>6. Divided'
  <2>1. cups.height # 0
    BY <1>1, PageFacts
  <2>2. store # <<>>
    BY <1>1, <2>1
  <2>3. pc' = "lines" => Turned /\ y = 0
    BY <1>1 DEF IInv, Divided
  <2> QED  BY <1>1, <1>2, <2>2, <2>3 DEF IInv, Divided
<1>7. Counted'
  <2> SUFFICES ASSUME ~Aborted' PROVE Counted'
    BY DEF Counted
  <2>1. /\ ~Aborted /\ sent \in Seq([number : Nat, lines : Seq(Int)])
        /\ Len(sent) = IF job.driver.stores THEN page ELSE page + 1
    BY <1>1 DEF IInv, Counted, Aborted
  <2>2. CASE job.driver.stores
    BY <1>1, <2>1, <2>2, PageStarts DEF Counted
  <2>3. CASE ~job.driver.stores
    BY <1>1, <2>1, <2>3 DEF Counted
  <2> QED  BY <2>2, <2>3
<1> QED  BY <1>3, <1>4, <1>5, <1>6, <1>7 DEF IInv

(* A line of a page in memory is one of its rows, or blank.                *)
LEMMA StoredLineFacts ==
  ASSUME IInv, pc = "planes", NEW line \in Int
  PROVE  StoredLine(line) \in Int
<1> DEFINE top    == OutTop(cups)
           height == OutHeight(cups)
           below  == line - top
           r      == (below * cups.height) \div height
<1>1. /\ cups.lines \in Nat /\ cups.height \in Nat \ {0} /\ cups.top \in Int
      /\ cups.printable \in Int /\ Begun
  BY LayoutFacts DEF Begun
<1>2. height \in Int /\ top \in Int
  BY <1>1 DEF OutTop, OutHeight, Least
<1>3. CASE below < 0 \/ below >= height
  BY <1>3 DEF StoredLine, Blank
<1>4. CASE ~(below < 0 \/ below >= height)
  <2>1. below \in Nat /\ below < height /\ height \in Nat \ {0}
    <3> HIDE DEF top, height
    <3> QED  BY <1>2, <1>4
  <2>2. r \in 0 .. cups.height - 1
    <3> HIDE DEF below, height
    <3> QED  BY <1>1, <2>1, DividedInPicture
  <2>3. Len(store) = cups.height
    BY <1>1 DEF IInv, Stored
  <2>4. StoredLine(line) = IF Turned THEN Turn(store, r) ELSE store[r + 1]
    BY <1>4 DEF StoredLine
  <2> HIDE DEF r
  <2>5. /\ store[r + 1] = Source(cups, FALSE, r)
        /\ Turn(store, r) = Source(cups, TRUE, r)
        /\ Source(cups, FALSE, r) \in Int /\ Source(cups, TRUE, r) \in Int
    BY <1>1, <2>2, <2>3, StoredRow, SourceInPage
  <2> QED  BY <2>4, <2>5
<1> QED  BY <1>3, <1>4

LEMMA PlaneStep ==
  ASSUME IInv, Plane
  PROVE  IInv'
<1> DEFINE line == FirstSent(cups, job.driver) + y
<1>1. /\ pc = "planes" /\ pc' = "planes" /\ Begun /\ Begun'
      /\ PrintLine(StoredLine(line)) /\ y' = y + 1
      /\ job' = job /\ page' = page /\ cups' = cups /\ row' = row /\ at' = at
      /\ data' = data /\ store' = store /\ err' = err
      /\ status' = status /\ opened' = opened /\ closed' = closed
  BY DEF Plane, PrintLine, Begun, brackets, reader
<1>2. line \in Int
  <2>1. job.driver.block \in Nat \ {0}
    BY DriversAssumption DEF IInv, Control
  <2>2. /\ cups.lines \in Nat /\ cups.height \in Nat /\ cups.top \in Int
        /\ cups.printable \in Int /\ y \in Nat
    BY <1>1, LayoutFacts, PageFacts
  <2>3. OutTop(cups) \in Int
    BY <2>2 DEF OutTop, OutHeight, Least
  <2> QED  BY <2>1, <2>2, <2>3 DEF FirstSent
<1>3. Control'
  BY <1>1, SameControl
<1>4. ByRows'
  BY <1>1 DEF IInv, ByRows
<1>5. Stored'
  BY <1>1, PageFacts, LineKeepsStore
<1>6. Divided'
  BY <1>1, PageFacts DEF Divided
<1>7. Counted'
  <2> SUFFICES ASSUME ~Aborted' PROVE Counted'
    BY DEF Counted
  <2>1. ~Aborted /\ Len(sent) = page + 1
    BY <1>1 DEF IInv, Counted, Aborted
  <2>2. StoredLine(line) \in Int
    <3> HIDE DEF line
    <3> QED  BY <1>1, <1>2, StoredLineFacts
  <2>3. /\ sent' \in Seq([number : Nat, lines : Seq(Int)])
        /\ Len(sent') = page + 1
    BY <1>1, <2>1, <2>2, LinePrinted
  <2> QED  BY <1>1, <2>3 DEF Counted
<1> QED  BY <1>3, <1>4, <1>5, <1>6, <1>7 DEF IInv

(* The signal, and steps that change nothing.                              *)
LEMMA SignalStep ==
  ASSUME IInv, Cancel \/ UNCHANGED vars
  PROVE  IInv'
<1>1. /\ pc' = pc /\ Begun' = Begun
      /\ job' = job /\ page' = page /\ cups' = cups /\ row' = row /\ at' = at
      /\ data' = data /\ store' = store /\ y' = y /\ err' = err /\ sent' = sent
      /\ opened' = opened /\ closed' = closed
  BY DEF Cancel, vars, Begun, brackets, reader, loop
<1>2. Aborted => Aborted'
  BY DEF Cancel, vars, Aborted
<1>3. /\ LineCount' = LineCount /\ Turned' = Turned /\ Offsets' = Offsets
      /\ \A t, k : Source(cups, t, k)' = Source(cups, t, k)
  BY <1>1, SamePage
<1>4. Control'
  BY <1>1 DEF IInv, Control
<1>5. ByRows'
  BY <1>1 DEF IInv, ByRows, InStep, Size
<1>6. Stored'
  BY <1>1, <1>3 DEF IInv, Stored
<1>7. Divided'
  BY <1>1, <1>3 DEF IInv, Divided
<1>8. Counted'
  BY <1>1, <1>2 DEF IInv, Counted
<1> QED  BY <1>4, <1>5, <1>6, <1>7, <1>8 DEF IInv

LEMMA EveryStep == IInv /\ [Next]_vars => IInv'
<1> SUFFICES ASSUME IInv, [Next]_vars PROVE IInv'
  OBVIOUS
<1>1. CASE ReadHeader
  BY <1>1, HeaderStep
<1>2. CASE EndOfStream \/ EndJob
  BY <1>2, RestingStep
<1>3. CASE BeginPrint
  BY <1>3, BeginStep
<1>4. CASE Purge
  BY <1>4, PurgeStep
<1>5. CASE NewRow
  BY <1>5, NewRowStep
<1>6. CASE SameRow
  BY <1>6, SameRowStep
<1>7. CASE BackRow
  BY <1>7, BackRowStep
<1>8. CASE ReadBack
  BY <1>8, ReadBackStep
<1>9. CASE EndOfLines \/ EndOfPlanes
  BY <1>9, PageDoneStep
<1>10. CASE ReadRow
  BY <1>10, ReadRowStep
<1>11. CASE WholeRead
  BY <1>11, WholeReadStep
<1>12. CASE Plane
  BY <1>12, PlaneStep
<1>13. CASE Cancel \/ UNCHANGED vars
  BY <1>13, SignalStep
<1>14. CASE Finished
  BY <1>14, SignalStep DEF Finished
<1> QED  BY <1>1, <1>2, <1>3, <1>4, <1>5, <1>6, <1>7, <1>8, <1>9, <1>10,
           <1>11, <1>12, <1>13, <1>14 DEF Next, Step

LEMMA Invariant == Spec => []IInv
BY Initially, EveryStep, PTL DEF Spec

-----------------------------------------------------------------------------
LEMMA TypesFollow == IInv => TypeOK
<1> SUFFICES ASSUME IInv PROVE TypeOK
  OBVIOUS
<1>1. /\ pc \in {"header", "print", "lines", "read", "planes", "purge",
                 "end", "ended", "crashed"}
      /\ page \in 0 .. Len(job.stream)
      /\ opened \in BOOLEAN /\ closed \in BOOLEAN
  BY DEF IInv, Control
<1>2. CASE Begun
  <2>1. row \in 0 .. cups.rows /\ at \in 0 .. Size(cups)
    BY <1>2, PageFacts, PlaceInPage DEF Size
  <2>2. data \in {Blank} \union 0 .. Size(cups) - 1 /\ Len(store) <= cups.height
    BY <1>2 DEF IInv, Stored, Offsets
  <2>3. pc = "lines" =>
          /\ y \in 0 .. LineCount /\ err.val \in 0 .. LineCount - 1
          /\ err.line \in 0 .. cups.height
          /\ err.last \in -1 .. cups.height - 1
    BY <1>2, ErrorFacts, PageFacts DEF IInv, Divided
  <2>4. Len(sent) \in {page, page + 1} \/ Aborted
    BY DEF IInv, Counted
  <2> QED  BY <1>1, <2>1, <2>2, <2>3, <2>4 DEF TypeOK
<1>3. CASE ~Begun
  <2>1. Len(sent) \in {page, page + 1} \/ Aborted
    BY DEF IInv, Counted
  <2> QED  BY <1>1, <1>3, <2>1 DEF TypeOK
<1> QED  BY <1>2, <1>3

(* The counters of a page stay within it (main, Image_get_row and the      *)
(* drivers' loops): no driver asks for a row that its picture has not, and *)
(* nothing is read behind the page.                                        *)
THEOREM FilterTypes == Spec => []TypeOK
BY Invariant, TypesFollow, PTL

(* When the filter reads a header, the stream is at the end of the page    *)
(* before, whichever rows its driver asked for and whatever was left over  *)
(* at the sides (Image_get_row, purge_excess_data).                        *)
THEOREM StaysInStep == Spec => [](pc = "header" => InStep)
<1>1. IInv => (pc = "header" => InStep)
  BY DEF IInv, ByRows
<1> QED  BY <1>1, Invariant, PTL

(* What a driver that takes row by row prints on each line.                *)
RightRow ==
  pc = "lines" /\ y' = y + 1 =>
    data' = Source(cups, Turned, (y * cups.height) \div LineCount)

(* Each line is the row of the picture that its place on the page calls    *)
(* for, be the picture stretched, thinned out or turned round: the loops   *)
(* that carry a remainder from line to line (escp2_print_data and others)  *)
(* and the cache of one row (Image_get_row) never drift apart.             *)
THEOREM RowsInTheirPlaces == Spec => [][RightRow]_vars
<1>1. IInv /\ [Next]_vars => [RightRow]_vars
  <2> SUFFICES ASSUME IInv, Next, pc = "lines", y' = y + 1 PROVE RightRow
    BY DEF RightRow
  <2>1. err.line = (y * cups.height) \div LineCount /\ y \in Nat /\ y' # y
    BY ErrorFacts, PageFacts DEF Begun
  <2>2. NewRow \/ SameRow \/ BackRow
    BY <2>1 DEF Next, Step, ReadHeader, EndOfStream, BeginPrint, Purge, EndJob,
         ReadBack, EndOfLines, ReadRow, WholeRead, Plane, EndOfPlanes, Cancel,
         Finished, vars, loop
  <2>3. data' = Source(cups, Turned, err.line)
    BY <2>1, <2>2, NewRowStep, SameRowStep, BackRowStep
  <2> QED  BY <2>1, <2>3 DEF RightRow
<1> QED  BY <1>1, Invariant, PTL DEF Spec

-----------------------------------------------------------------------------
(* Streams and their documents.                                            *)

(* A set of naturals that is not empty has a least element.                *)
LEMMA LeastMember ==
  ASSUME NEW S \in SUBSET Nat, S # {}
  PROVE  \E x \in S : \A z \in S : x <= z
<1> DEFINE R == StrictSubsetOrdering(Nat)
           T == {0 .. x : x \in S}
<1>1. IsWellFoundedOn(R, FiniteSubsetsOf(Nat))
  BY FS_StrictSubsetOrderingWellFounded
<1>2. T \subseteq FiniteSubsetsOf(Nat)
  <2>1. \A x \in S : 0 .. x \subseteq Nat /\ IsFiniteSet(0 .. x)
    BY FS_Interval
  <2> QED  BY <2>1 DEF FiniteSubsetsOf
<1>3. T # {}
  OBVIOUS
<1> HIDE DEF R
<1>4. PICK t \in T : \A u \in T : <<u, t>> \notin R
  BY <1>1, <1>2, <1>3, WFMin
<1>5. PICK x \in S : t = 0 .. x
  BY <1>4
<1>6. ASSUME NEW z \in S, z < x PROVE FALSE
  <2>1. x \in 0 .. x /\ x \notin 0 .. z
    BY <1>6
  <2>2. 0 .. z \subseteq 0 .. x /\ 0 .. z # 0 .. x
    BY <1>6, <2>1
  <2>3. <<0 .. z, 0 .. x>> \in R
    BY <2>2 DEF R, StrictSubsetOrdering
  <2> QED  BY <2>3, <1>4, <1>5
<1> QED  BY <1>6

(* The accepted pages of a stream are those before the first refused one.  *)
LEMMA AcceptedFirst ==
  ASSUME NEW stream \in Seq(Headers)
  PROVE  \E k \in 0 .. Len(stream) : Accepted(stream) = 1 .. k
<1> DEFINE refused == DOMAIN stream \ Accepted(stream)
<1>1. Len(stream) \in Nat /\ DOMAIN stream = 1 .. Len(stream)
  OBVIOUS
<1>2. Accepted(stream) \subseteq DOMAIN stream
  BY DEF Accepted
<1>3. CASE refused = {}
  <2>1. Accepted(stream) = 1 .. Len(stream)
    BY <1>1, <1>2, <1>3
  <2>2. Len(stream) \in 0 .. Len(stream)
    BY <1>1
  <2> QED  BY <2>1, <2>2
<1>4. CASE refused # {}
  <2>1. refused \in SUBSET Nat
    BY <1>1
  <2>2. PICK n \in refused : \A m \in refused : n <= m
    BY <1>4, <2>1, LeastMember
  <2>3. n \in 1 .. Len(stream) /\ n \notin Accepted(stream)
    BY <1>1, <2>2
  <2>4. ASSUME NEW m \in 1 .. n - 1 PROVE m \in Accepted(stream)
    BY <1>1, <2>2, <2>3, <2>4
  <2>5. ASSUME NEW m \in Accepted(stream) PROVE m \in 1 .. n - 1
    <3>1. m \in 1 .. Len(stream) /\ \A i \in 1 .. m : stream[i].verifies
      BY <1>1 DEF Accepted
    <3>2. CASE n <= m
      <4>1. \A i \in 1 .. n : stream[i].verifies
        BY <2>3, <3>1, <3>2
      <4> QED  BY <1>1, <2>3, <4>1 DEF Accepted
    <3> QED  BY <2>3, <3>1, <3>2
  <2>6. Accepted(stream) = 1 .. n - 1
    BY <2>4, <2>5
  <2>7. n - 1 \in 0 .. Len(stream)
    BY <2>3
  <2> QED  BY <2>6, <2>7
<1> QED  BY <1>3, <1>4

(* So many pages that verify, and one that does not or the end.            *)
LEMMA AcceptedUpTo ==
  ASSUME NEW stream \in Seq(Headers), NEW n \in 0 .. Len(stream),
         \A m \in 1 .. n : stream[m].verifies,
         n < Len(stream) => ~stream[n + 1].verifies
  PROVE  Accepted(stream) = 1 .. n
<1>1. Len(stream) \in Nat /\ DOMAIN stream = 1 .. Len(stream)
  OBVIOUS
<1>2. ASSUME NEW m \in 1 .. n PROVE m \in Accepted(stream)
  BY <1>1 DEF Accepted
<1>3. ASSUME NEW m \in Accepted(stream) PROVE m \in 1 .. n
  <2>1. m \in 1 .. Len(stream) /\ \A i \in 1 .. m : stream[i].verifies
    BY <1>1 DEF Accepted
  <2>2. CASE n < m
    <3>1. n < Len(stream) /\ n + 1 \in 1 .. m
      BY <1>1, <2>1, <2>2
    <3> QED  BY <2>1, <3>1
  <2> QED  BY <2>1, <2>2
<1> QED  BY <1>2, <1>3

-----------------------------------------------------------------------------
(* The place of a picture on its page.                                     *)

(* No picture is larger than the area that can be printed on, and none     *)
(* begins above it.                                                        *)
LEMMA LayoutOnPaper ==
  ASSUME NEW s \in Streams, NEW n \in DOMAIN s
  PROVE  /\ Layout(s[n]).lines <= Layout(s[n]).printable
         /\ Layout(s[n]).top \in Nat
<1> DEFINE p == s[n]
<1>1. p \in Headers
  BY StreamsAssumption
<1> HIDE DEF p
<1> DEFINE axis == p.y
           covered == Covered(axis, p.shrink)
           span    == axis.high - axis.low
           above   == Above(axis, p.shrink) - axis.low
<1>2. /\ axis \in Axes /\ p.dpi \in Nat /\ p.shrink \in {Crop, Shrink, Expand}
  BY <1>1 DEF Headers
<1>3. /\ axis.low \in Int /\ axis.high \in Int
      /\ From(axis) \in Int /\ UpTo(axis) \in Int
      /\ From(axis) >= axis.low /\ UpTo(axis) <= axis.high
  BY <1>2 DEF Axes, LeastPoint, LastPoint, From, UpTo, Least, Greatest
<1>4. covered \in Int /\ span \in Int /\ covered + 0 <= span
  BY <1>2, <1>3 DEF Covered
<1>5. above \in Nat
  BY <1>2, <1>3 DEF Above
<1> HIDE DEF covered, span, above, axis
<1>6. /\ Pixels(p.dpi, covered) \in Int /\ Pixels(p.dpi, 0) \in Int
      /\ Pixels(p.dpi, covered) + Pixels(p.dpi, 0) <= Pixels(p.dpi, span)
  <2> DEFINE none == 0
  <2>1. none \in Int /\ covered + none <= span
    BY <1>4
  <2> HIDE DEF none
  <2>2. /\ Pixels(p.dpi, covered) \in Int /\ Pixels(p.dpi, none) \in Int
        /\ Pixels(p.dpi, covered) + Pixels(p.dpi, none) <= Pixels(p.dpi, span)
    BY <1>2, <1>4, <2>1, PixelsOfSum
  <2> QED  BY <2>2 DEF none
<1>7. Pixels(p.dpi, 0) = 0
  BY <1>2 DEF Pixels
<1>8. Pixels(p.dpi, span) \in Int
  <2>1. p.dpi * span \in Int
    BY <1>2, <1>4
  <2> QED  BY <2>1 DEF Pixels
<1>9. Pixels(p.dpi, above) \in Nat
  <2>1. p.dpi * above \in Nat
    BY <1>2, <1>5, SMT
  <2> QED  BY <2>1 DEF Pixels
<1>10. /\ Layout(p).lines = Pixels(p.dpi, covered)
       /\ Layout(p).printable = Pixels(p.dpi, span)
       /\ Layout(p).top = Pixels(p.dpi, above)
  BY DEF Layout, covered, span, above, axis
<1>11. Layout(p).lines <= Layout(p).printable /\ Layout(p).top \in Nat
  BY <1>6, <1>7, <1>8, <1>9, <1>10
<1> QED  BY <1>11 DEF p

(* Layouts of pages that can be printed.                                   *)
Placeable ==
  {l \in SoundLayouts : l.lines <= l.printable /\ l.top \in Nat}

LEMMA OutFacts ==
  ASSUME NEW l \in Placeable
  PROVE  /\ OutHeight(l) \in Nat \ {0} /\ OutTop(l) \in Nat
         /\ OutTop(l) + OutHeight(l) <= l.printable
         /\ l.printable \in Nat \ {0} /\ l.height \in Nat \ {0}
         /\ l.stride \in Nat /\ l.left \in Nat /\ l.lines \in Nat \ {0}
<1>1. /\ l.printable \in Int /\ l.height \in Nat \ {0} /\ l.top \in Nat
      /\ l.lines \in Nat \ {0} /\ l.lines <= l.printable
      /\ l.stride \in Nat /\ l.left \in Nat
  BY DEF Placeable, SoundLayouts
<1>2. /\ OutHeight(l) \in Nat \ {0} /\ OutHeight(l) <= l.printable
  BY <1>1 DEF OutHeight, Least, Apart
<1>3. OutTop(l) \in Nat /\ OutTop(l) + OutHeight(l) <= l.printable
  BY <1>1, <1>2 DEF OutTop, Least
<1> QED  BY <1>1, <1>2, <1>3

(* A later line is in no earlier block.                                    *)
LEMMA Ascending ==
  ASSUME NEW b \in Nat \ {0}
  PROVE  \A j \in Nat, k \in Nat : j <= k => j \div b <= k \div b
<1> SUFFICES ASSUME NEW j \in Nat, NEW k \in Nat, j <= k
             PROVE  j \div b <= k \div b
  OBVIOUS
<1> DEFINE q == j \div b
           r == j % b
           t == k \div b
           v == k % b
<1>1. /\ q \in Nat /\ r \in 0 .. b - 1 /\ j = b * q + r
      /\ t \in Nat /\ v \in 0 .. b - 1 /\ k = b * t + v
  BY SMT
<1> HIDE DEF q, r, t, v
<1>2. b * q \in Nat /\ b * t \in Nat
  BY <1>1, SMT
<1>3. CASE t < q
  <2>1. t + 1 <= q => b * (t + 1) <= b * q
    BY <1>1, SMT
  <2>2. b * (t + 1) = b * t + b
    BY <1>1, SMT
  <2> QED  BY <1>1, <1>2, <1>3, <2>1, <2>2
<1>4. q <= t
  BY <1>1, <1>3
<1> QED  BY <1>4 DEF q, t

(* The lines of the block that a line is in.                               *)
LEMMA SameBlock ==
  ASSUME NEW b \in Nat \ {0}, NEW m \in Nat, NEW l \in Nat
  PROVE  /\ m % b \in 0 .. b - 1 /\ m - (m % b) \in Nat
         /\ m \div b = l \div b
              <=> l >= m - (m % b) /\ l <= m - (m % b) + (b - 1)
<1> DEFINE q == m \div b
           r == m % b
           t == l \div b
           v == l % b
<1>1. /\ q \in Nat /\ r \in 0 .. b - 1 /\ m = b * q + r
      /\ t \in Nat /\ v \in 0 .. b - 1 /\ l = b * t + v
  BY SMT
<1> HIDE DEF q, r, t, v
<1>2. b * q \in Nat /\ b * t \in Nat
  BY <1>1, SMT
<1>3. m - r = b * q
  BY <1>1, <1>2
<1>4. q = t => l >= b * q /\ l <= b * q + (b - 1)
  BY <1>1, <1>2
<1>5. q < t => b * t >= b * q + b
  <2>1. q + 1 <= t => b * (q + 1) <= b * t
    BY <1>1, SMT
  <2>2. b * (q + 1) = b * q + b
    BY <1>1, SMT
  <2> QED  BY <1>1, <1>2, <2>1, <2>2
<1>6. t < q => b * q >= b * t + b
  <2>1. t + 1 <= q => b * (t + 1) <= b * q
    BY <1>1, SMT
  <2>2. b * (t + 1) = b * t + b
    BY <1>1, SMT
  <2> QED  BY <1>1, <1>2, <2>1, <2>2
<1>7. l >= b * q /\ l <= b * q + (b - 1) => q = t
  <2>1. q < t => ~(l <= b * q + (b - 1))
    BY <1>1, <1>2, <1>5
  <2>2. t < q => ~(l >= b * q)
    BY <1>1, <1>2, <1>6
  <2> QED  BY <1>1, <2>1, <2>2
<1>8. q = t <=> l >= b * q /\ l <= b * q + (b - 1)
  BY <1>4, <1>7
<1>9. q = t <=> l >= m - r /\ l <= m - r + (b - 1)
  BY <1>3, <1>8
<1> QED  BY <1>1, <1>2, <1>3, <1>9 DEF q, r, t

(* The lines that are sent are those of the blocks the picture touches.    *)
LEMMA ShownIsSent ==
  ASSUME NEW l \in Placeable, NEW driver \in Drivers
  PROVE  /\ FirstSent(l, driver) \in Nat /\ LastSent(l, driver) \in Nat
         /\ FirstSent(l, driver) <= LastSent(l, driver)
         /\ Shown(l, driver) = FirstSent(l, driver) .. LastSent(l, driver)
<1> DEFINE b      == driver.block
           top    == OutTop(l)
           bottom == OutTop(l) + OutHeight(l) - 1
           first  == FirstSent(l, driver)
           last   == LastSent(l, driver)
<1>1. b \in Nat \ {0} /\ driver.full \in BOOLEAN
  BY DriversAssumption
<1>2. /\ top \in Nat /\ bottom \in Nat /\ top <= bottom
      /\ bottom < l.printable /\ l.printable \in Nat \ {0}
  BY OutFacts
<1>3. CASE driver.full
  <2>1. first = 0 /\ last = l.printable - 1
    BY <1>3 DEF FirstSent, LastSent
  <2>2. Shown(l, driver) = 0 .. l.printable - 1
    BY <1>3 DEF Shown
  <2> QED  BY <1>2, <2>1, <2>2
<1>4. CASE ~driver.full
  <2>1. first = top - (top % b) /\ last = bottom + (b - 1) - (bottom % b)
    BY <1>4 DEF FirstSent, LastSent
  <2>2. Shown(l, driver) = {i \in 0 .. l.printable + b :
                              \E m \in top .. bottom : m \div b = i \div b}
    BY <1>4 DEF Shown
  <2> HIDE DEF top, bottom, first, last, b
  <2>3. /\ top % b \in 0 .. b - 1 /\ top - (top % b) \in Nat
        /\ bottom % b \in 0 .. b - 1 /\ bottom - (bottom % b) \in Nat
    BY <1>1, <1>2, SameBlock
  <2>4. /\ first \in Nat /\ last \in Nat /\ first <= top /\ bottom <= last
        /\ last <= bottom + (b - 1) /\ last = bottom - (bottom % b) + (b - 1)
    <3> DEFINE rt == top % b
               rb == bottom % b
    <3> HIDE DEF rt, rb
    <3>1. /\ rt \in 0 .. b - 1 /\ top - rt \in Nat
          /\ rb \in 0 .. b - 1 /\ bottom - rb \in Nat
          /\ first = top - rt /\ last = bottom + (b - 1) - rb
      BY <2>1, <2>3 DEF rt, rb
    <3>2. /\ first \in Nat /\ last \in Nat /\ first <= top /\ bottom <= last
          /\ last <= bottom + (b - 1) /\ last = bottom - rb + (b - 1)
      BY <1>1, <1>2, <3>1
    <3> QED  BY <3>2 DEF rb
  <2>5. ASSUME NEW i \in first .. last PROVE i \in Shown(l, driver)
    <3>1. i \in Nat /\ i \in 0 .. l.printable + b
      BY <1>1, <1>2, <2>4
    <3>2. CASE i < top
      <4>1. top \div b = i \div b
        <5>1. i >= top - (top % b) /\ i <= top - (top % b) + (b - 1)
          <6> DEFINE r == top % b
          <6> HIDE DEF r
          <6>1. r \in 0 .. b - 1 /\ i >= top - r
            BY <2>1, <2>3, <2>4 DEF r
          <6>2. i <= top - r + (b - 1)
            BY <1>1, <1>2, <3>1, <3>2, <6>1
          <6> QED  BY <6>1, <6>2 DEF r
        <5> QED  BY <1>1, <1>2, <3>1, <5>1, SameBlock
      <4>2. top \in top .. bottom
        BY <1>2
      <4> QED  BY <2>2, <3>1, <4>1, <4>2
    <3>3. CASE i \in top .. bottom
      BY <2>2, <3>1, <3>3
    <3>4. CASE i > bottom
      <4>1. bottom \div b = i \div b
        <5>1. i >= bottom - (bottom % b)
          <6> DEFINE r == bottom % b
          <6> HIDE DEF r
          <6>1. r \in 0 .. b - 1
            BY <2>3 DEF r
          <6>2. i >= bottom - r
            BY <1>1, <1>2, <3>1, <3>4, <6>1
          <6> QED  BY <6>2 DEF r
        <5>2. i <= bottom - (bottom % b) + (b - 1)
          BY <2>4
        <5> QED  BY <1>1, <1>2, <3>1, <5>1, <5>2, SameBlock
      <4>2. bottom \in top .. bottom
        BY <1>2
      <4> QED  BY <2>2, <3>1, <4>1, <4>2
    <3> QED  BY <1>2, <3>1, <3>2, <3>3, <3>4
  <2>6. ASSUME NEW i \in Shown(l, driver) PROVE i \in first .. last
    <3>1. PICK m \in top .. bottom : m \div b = i \div b
      BY <2>2
    <3>2. i \in Nat /\ m \in Nat
      BY <1>1, <1>2, <2>2
    <3>3. CASE i < top
      <4>1. i \div b <= top \div b /\ top \div b <= m \div b
        <5>1. \A j \in Nat, k \in Nat : j <= k => j \div b <= k \div b
          BY <1>1, Ascending
        <5> QED  BY <1>2, <3>2, <3>3, <5>1
      <4>2. top \div b = i \div b
        <5>1. top \div b \in Int /\ i \div b \in Int
          BY <1>1, <1>2, <3>2
        <5> QED  BY <3>1, <4>1, <5>1
      <4>3. i >= top - (top % b)
        BY <1>1, <1>2, <3>2, <4>2, SameBlock
      <4> QED  BY <1>2, <2>1, <2>4, <3>2, <3>3, <4>3
    <3>4. CASE i > bottom
      <4>1. m \div b <= bottom \div b /\ bottom \div b <= i \div b
        <5>1. \A j \in Nat, k \in Nat : j <= k => j \div b <= k \div b
          BY <1>1, Ascending
        <5> QED  BY <1>2, <3>2, <3>4, <5>1
      <4>2. bottom \div b = i \div b
        <5>1. bottom \div b \in Int /\ i \div b \in Int
          BY <1>1, <1>2, <3>2
        <5> QED  BY <3>1, <4>1, <5>1
      <4>3. i <= bottom - (bottom % b) + (b - 1)
        BY <1>1, <1>2, <3>2, <4>2, SameBlock
      <4> QED  BY <1>2, <2>4, <3>2, <3>4, <4>3
    <3> QED  BY <1>2, <2>4, <3>2, <3>3, <3>4
  <2>7. Shown(l, driver) = first .. last
    BY <2>5, <2>6
  <2>8. first <= last
    BY <1>2, <2>4
  <2> QED  BY <2>4, <2>7, <2>8 DEF first, last
<1> QED  BY <1>3, <1>4

-----------------------------------------------------------------------------
(* The pages of the document.                                              *)
LEMMA SourceIsPlace ==
  ASSUME NEW l \in Placeable, NEW turned \in BOOLEAN, NEW r \in Int
  PROVE  Source(l, turned, r) \in Int
<1> DEFINE k == IF turned THEN l.height - 1 - r ELSE r
<1>1. k \in Int /\ l.stride \in Nat /\ l.left \in Nat
  BY OutFacts
<1> HIDE DEF k
<1>2. k * l.stride + l.left \in Int
  BY <1>1
<1> QED  BY <1>2 DEF Source, k

LEMMA SpreadLines ==
  ASSUME NEW l \in Placeable, NEW turned \in BOOLEAN, NEW n \in Nat \ {0}
  PROVE  /\ Spread(l, turned, n) \in Seq(Int) /\ Len(Spread(l, turned, n)) = n
         /\ \A k \in 1 .. n :
              Spread(l, turned, n)[k] =
                Source(l, turned, ((k - 1) * l.height) \div n)
<1> DEFINE e(k) == Source(l, turned, ((k - 1) * l.height) \div n)
<1>1. ASSUME NEW k \in 1 .. n PROVE e(k) \in Int
  <2> DEFINE m == (k - 1) * l.height
  <2>1. m \in Int
    BY OutFacts
  <2> HIDE DEF m
  <2>2. m \div n \in Int
    BY <2>1
  <2> QED  BY <2>2, SourceIsPlace DEF m
<1>2. Spread(l, turned, n) = [k \in 1 .. n |-> e(k)]
  BY DEF Spread
<1> HIDE DEF e
<1>3. /\ [k \in 1 .. n |-> e(k)] \in Seq(Int)
      /\ Len([k \in 1 .. n |-> e(k)]) = n
  BY <1>1
<1>4. \A k \in 1 .. n : [i \in 1 .. n |-> e(i)][k] = e(k)
  OBVIOUS
<1> QED  BY <1>2, <1>3, <1>4 DEF e

(* A row of the picture, or nothing beside it.                             *)
RowOrBlank(l, turned, below) ==
  IF below \in 0 .. OutHeight(l) - 1
  THEN Source(l, turned, (below * l.height) \div OutHeight(l)) ELSE Blank

LEMMA PlacedLines ==
  ASSUME NEW l \in Placeable, NEW turned \in BOOLEAN, NEW driver \in Drivers
  PROVE  LET first == FirstSent(l, driver)
             count == LastSent(l, driver) - first + 1
             lines == Placed(l, turned, driver)
         IN  /\ lines \in Seq(Int) /\ Len(lines) = count /\ count \in Nat
             /\ \A k \in 1 .. count :
                  lines[k] = RowOrBlank(l, turned, first + k - 1 - OutTop(l))
<1> DEFINE first == FirstSent(l, driver)
           last  == LastSent(l, driver)
           count == last - first + 1
           lines == Placed(l, turned, driver)
           shown == Shown(l, driver)
           e(k)  == RowOrBlank(l, turned, first + k - 1 - OutTop(l))
<1>1. /\ first \in Nat /\ last \in Nat /\ first <= last
      /\ shown = first .. last
  BY ShownIsSent
<1>2. OutHeight(l) \in Nat \ {0} /\ OutTop(l) \in Nat /\ l.height \in Nat \ {0}
  BY OutFacts
<1>3. Cardinality(shown) = count
  BY <1>1, FS_Interval
<1>4. (CHOOSE i \in shown : \A m \in shown : i <= m) = first
  <2> HIDE DEF first, last, shown
  <2>1. first \in shown /\ \A m \in shown : first <= m
    BY <1>1
  <2>2. \A i \in shown : (\A m \in shown : i <= m) => i = first
    BY <1>1
  <2> QED  BY <2>1, <2>2
<1>5. lines = [k \in 1 .. count |->
                 LET below == first + k - 1 - OutTop(l)
                 IN IF below \in 0 .. OutHeight(l) - 1
                    THEN Spread(l, turned, OutHeight(l))[below + 1] ELSE Blank]
  <2> DEFINE least == CHOOSE i \in shown : \A m \in shown : i <= m
             size  == Cardinality(shown)
  <2>1. lines = [k \in 1 .. size |->
                   LET below == least + k - 1 - OutTop(l)
                   IN IF below \in 0 .. OutHeight(l) - 1
                      THEN Spread(l, turned, OutHeight(l))[below + 1]
                      ELSE Blank]
    BY DEF Placed
  <2>2. least = first /\ size = count
    BY <1>3, <1>4
  <2> HIDE DEF least, size, first, count, lines
  <2> QED  BY <2>1, <2>2
<1>6. ASSUME NEW k \in 1 .. count
      PROVE  lines[k] = e(k)
  <2> DEFINE below == first + k - 1 - OutTop(l)
  <2>1. lines[k] = IF below \in 0 .. OutHeight(l) - 1
                   THEN Spread(l, turned, OutHeight(l))[below + 1] ELSE Blank
    BY <1>5
  <2>2. CASE below \in 0 .. OutHeight(l) - 1
    <3>1. below + 1 \in 1 .. OutHeight(l) /\ (below + 1) - 1 = below
      <4> HIDE DEF below
      <4> QED  BY <1>2, <2>2
    <3> HIDE DEF below, lines
    <3>2. Spread(l, turned, OutHeight(l))[below + 1] =
            Source(l, turned, (below * l.height) \div OutHeight(l))
      <4> DEFINE n == OutHeight(l)
                 i == below + 1
      <4>1. n \in Nat \ {0} /\ i \in 1 .. n /\ i - 1 = below
        BY <1>2, <3>1
      <4> HIDE DEF n, i
      <4>2. Spread(l, turned, n)[i] =
              Source(l, turned, ((i - 1) * l.height) \div n)
        BY <4>1, SpreadLines
      <4>3. Spread(l, turned, n)[i] =
              Source(l, turned, (below * l.height) \div n)
        BY <4>1, <4>2, Zenon
      <4> QED  BY <4>3 DEF n, i
    <3>3. RowOrBlank(l, turned, below) =
            Source(l, turned, (below * l.height) \div OutHeight(l))
      BY <2>2 DEF RowOrBlank
    <3>4. lines[k] = RowOrBlank(l, turned, below)
      BY <2>1, <2>2, <3>2, <3>3
    <3> QED  BY <3>4 DEF below
  <2>3. CASE below \notin 0 .. OutHeight(l) - 1
    <3> HIDE DEF lines
    <3> QED  BY <2>1, <2>3 DEF RowOrBlank
  <2> QED  BY <2>2, <2>3
<1>7. ASSUME NEW k \in 1 .. count
      PROVE  e(k) \in Int
  <2> DEFINE below == first + k - 1 - OutTop(l)
  <2>1. CASE below \in 0 .. OutHeight(l) - 1
    <3> HIDE DEF below
    <3>1. below \in Nat
      BY <2>1
    <3> DEFINE m == below * l.height
    <3>2. m \in Int
      BY <1>2, <3>1
    <3> HIDE DEF m
    <3>3. m \div OutHeight(l) \in Int
      BY <1>2, <3>2
    <3>4. Source(l, turned, m \div OutHeight(l)) \in Int
      BY <3>3, SourceIsPlace
    <3> QED  BY <2>1, <3>4 DEF m, RowOrBlank, below
  <2>2. CASE below \notin 0 .. OutHeight(l) - 1
    BY <2>2 DEF RowOrBlank, Blank
  <2> QED  BY <2>1, <2>2
<1>8. count \in Nat
  BY <1>1
<1>9. DOMAIN lines = 1 .. count /\ lines = [k \in 1 .. count |-> lines[k]]
  BY <1>5
<1> HIDE DEF e, lines, count
<1>10. lines = [k \in 1 .. count |-> e(k)]
  BY <1>6, <1>9
<1>11. lines \in Seq(Int) /\ Len(lines) = count
  BY <1>7, <1>8, <1>10
<1> QED  BY <1>6, <1>8, <1>11 DEF e, lines, count

LEMMA ShowsLines ==
  ASSUME NEW l \in Placeable, NEW turned \in BOOLEAN, NEW driver \in Drivers
  PROVE  Shows(driver, l, turned) \in Seq(Int)
<1>1. l.lines \in Nat \ {0} /\ l.height \in Nat \ {0}
  BY OutFacts
<1>2. /\ Placed(l, turned, driver) \in Seq(Int)
      /\ Spread(l, turned, l.lines) \in Seq(Int)
      /\ Spread(l, turned, l.height) \in Seq(Int)
  BY <1>1, PlacedLines, SpreadLines
<1> QED  BY <1>2 DEF Shows

LEMMA LayoutIsPlaceable ==
  ASSUME NEW s \in Streams, NEW n \in DOMAIN s
  PROVE  Layout(s[n]) \in Placeable
BY LayoutIsSound, LayoutOnPaper DEF Placeable

LEMMA DocumentPages ==
  ASSUME NEW driver \in Drivers, NEW stream \in Streams,
         NEW duplex \in BOOLEAN
  PROVE  /\ Document(driver, stream, duplex) \in Seq(Seq(Int))
         /\ DOMAIN Document(driver, stream, duplex) = Accepted(stream)
<1> DEFINE shows(n) == Shows(driver, Layout(stream[n]),
                             duplex /\ driver.turns /\ n % 2 = 0)
<1>1. stream \in Seq(Headers)
  BY StreamsAssumption
<1>2. PICK k \in 0 .. Len(stream) : Accepted(stream) = 1 .. k
  BY <1>1, AcceptedFirst
<1>3. ASSUME NEW n \in 1 .. k PROVE shows(n) \in Seq(Int)
  <2>1. n \in DOMAIN stream
    BY <1>1, <1>2
  <2>2. Layout(stream[n]) \in Placeable
    BY <2>1, LayoutIsPlaceable
  <2>3. (duplex /\ driver.turns /\ n % 2 = 0) \in BOOLEAN
    OBVIOUS
  <2> QED  BY <2>2, <2>3, ShowsLines
<1>4. Document(driver, stream, duplex) = [n \in 1 .. k |-> shows(n)]
  BY <1>2 DEF Document
<1> HIDE DEF shows
<1>5. k \in Nat
  BY <1>1
<1>6. [n \in 1 .. k |-> shows(n)] \in Seq(Seq(Int))
  BY <1>3, <1>5
<1> QED  BY <1>2, <1>4, <1>6

-----------------------------------------------------------------------------
(* What must hold beside IInv for every step to be one of the promise.     *)

(* What the driver prints at the start and at the end of the job.          *)
Opens ==
  \/ job.driver.ends = "always" /\ job.stream # <<>>
  \/ job.driver.ends = "if verified" /\ 1 \in Accepted(job.stream)

Closes ==
  /\ job.stream # <<>>
  /\ \/ job.driver.ends = "always"
     \/ /\ job.driver.ends = "if verified"
        /\ Accepted(job.stream) = DOMAIN job.stream

(* The page under way has been begun at the printer ...                    *)
OnPaper == pc \in {"lines", "planes"} \/ (pc = "read" /\ ~job.driver.stores)

(* ... or the next page has not.                                           *)
Between ==
  pc \in {"header", "print", "end"} \/ (pc = "read" /\ job.driver.stores)

(* What is known of the pages: all but perhaps the last are accepted.      *)
Planned ==
  /\ job.duplex \in BOOLEAN
  /\ job.document = Document(job.driver, job.stream, job.duplex)
  /\ \A n \in 1 .. page : job.stream[n].verifies
  /\ pc = "planes" => job.driver.stores
  /\ pc = "print" \/ Begun => cups = Layout(job.stream[page + 1])
  /\ Begun \/ (pc = "header" /\ page > 0) => cups.verifies
  /\ pc = "end" => IF page = Len(job.stream) THEN page > 0 /\ cups.verifies
                   ELSE ~cups.verifies /\ ~job.stream[page + 1].verifies

Bracketed ==
  /\ opened = (Opens /\ ~(pc = "header" /\ page = 0))
  /\ pc # "ended" => ~closed

PaperPages == [number : Nat, lines : Seq(Int)]

(* Of the page under way the first y lines are at the printer, and of all  *)
(* the pages before it, unless there was a signal, everything.             *)
Papers ==
  /\ sent \in Seq(PaperPages)
  /\ pc = "header" /\ page = 0 => sent = <<>>
  /\ pc = "read" => y = 0
  /\ OnPaper =>
       /\ sent # <<>> /\ Promise!Number = page + 1
       /\ Len(Promise!Newest.lines) = y
       /\ y <= Len(job.document[page + 1])
       /\ \A k \in 1 .. y :
            Promise!Newest.lines[k] = job.document[page + 1][k]
  /\ Between => Promise!Number <= page
  /\ pc = "purge" => Promise!Number <= page + 1
  /\ ~Aborted =>
       /\ Between => Promise!Number = page /\ Promise!Whole
       /\ pc = "purge" => Promise!Number = page + 1 /\ Promise!Whole

(* After a signal only the page that it hit goes on.                       *)
Signalled ==
  /\ Aborted
  /\ \/ pc = "planes"
     \/ pc = "lines" /\ y > 0
     \/ pc \in {"lines", "read"} /\ store # <<>>
  => page + 1 <= status[1]

RInv == Planned /\ Bracketed /\ Papers /\ Signalled

Running == pc \notin {"ended", "crashed"}

-----------------------------------------------------------------------------
(* The pages at the printer.                                               *)
LEMMA PaperTypes ==
  ASSUME sent \in Seq(PaperPages)
  PROVE  /\ Promise!Number \in Nat
         /\ sent # <<>> => /\ Promise!Newest \in PaperPages
                           /\ Promise!Newest.lines \in Seq(Int)
                           /\ Len(Promise!Newest.lines) \in Nat
                           /\ Promise!Number = Promise!Newest.number
<1>1. CASE sent = <<>>
  BY <1>1 DEF Promise!Number
<1>2. CASE sent # <<>>
  <2>1. Len(sent) \in DOMAIN sent
    BY <1>2
  <2>2. sent[Len(sent)] \in PaperPages
    <3> HIDE DEF PaperPages
    <3> QED  BY <2>1
  <2>3. Promise!Newest \in PaperPages /\ Promise!Number = Promise!Newest.number
    BY <1>2, <2>2 DEF Promise!Newest, Promise!Number
  <2>4. Promise!Newest.lines \in Seq(Int) /\ Promise!Newest.number \in Nat
    BY <2>3 DEF PaperPages
  <2> QED  BY <2>3, <2>4
<1> QED  BY <1>1, <1>2

LEMMA SamePaper ==
  ASSUME sent' = sent, job' = job
  PROVE  /\ Promise!Number' = Promise!Number
         /\ Promise!Newest' = Promise!Newest
         /\ Promise!Whole' = Promise!Whole
BY DEF Promise!Number, Promise!Newest, Promise!Whole

LEMMA PaperBegun ==
  ASSUME sent \in Seq(PaperPages), StartPage, page \in Nat
  PROVE  /\ sent' \in Seq(PaperPages) /\ sent' # <<>>
         /\ Promise!Number' = page + 1
         /\ Promise!Newest'.lines = <<>>
<1> DEFINE paper == [number |-> page + 1, lines |-> <<>>]
<1>1. paper \in PaperPages /\ paper.number = page + 1 /\ paper.lines = <<>>
  BY DEF PaperPages
<1>2. sent' = Append(sent, paper)
  BY DEF StartPage
<1> HIDE DEF paper
<1>3. /\ sent' \in Seq(PaperPages) /\ Len(sent') = Len(sent) + 1
      /\ sent'[Len(sent) + 1] = paper
  BY <1>1, <1>2, OneMore
<1>4. Len(sent) \in Nat
  OBVIOUS
<1>5. sent' # <<>>
  BY <1>3, <1>4
<1>6. sent'[Len(sent')] = paper
  BY <1>3, Zenon
<1>7. Promise!Newest' = paper /\ Promise!Number' = paper.number
  BY <1>5, <1>6 DEF Promise!Newest, Promise!Number
<1> QED  BY <1>1, <1>3, <1>5, <1>7

LEMMA PaperGoesOn ==
  ASSUME sent \in Seq(PaperPages), sent # <<>>, NEW e \in Int, PrintLine(e)
  PROVE  /\ sent' \in Seq(PaperPages) /\ sent' # <<>>
         /\ Promise!Number' = Promise!Number
         /\ Promise!Newest'.lines = Append(Promise!Newest.lines, e)
<1> DEFINE n     == Len(sent)
           paper == [sent[n] EXCEPT !.lines = Append(sent[n].lines, e)]
<1>1. n \in DOMAIN sent /\ n \in Nat
  OBVIOUS
<1>2. sent[n] \in PaperPages
  <2> HIDE DEF PaperPages, n
  <2> QED  BY <1>1
<1>3. /\ paper \in PaperPages /\ paper.number = sent[n].number
      /\ paper.lines = Append(sent[n].lines, e)
  <2>1. sent[n].lines \in Seq(Int) /\ sent[n].number \in Nat
    BY <1>2 DEF PaperPages
  <2>2. Append(sent[n].lines, e) \in Seq(Int)
    BY <2>1
  <2> QED  BY <1>2, <2>1, <2>2 DEF PaperPages
<1>4. sent' = [sent EXCEPT ![n] = paper]
  BY DEF PrintLine
<1> HIDE DEF paper
<1>5. sent' \in Seq(PaperPages) /\ Len(sent') = n /\ sent'[n] = paper
  <2> HIDE DEF PaperPages
  <2> QED  BY <1>1, <1>3, <1>4
<1>6. sent' # <<>>
  BY <1>1, <1>5
<1>7. sent'[Len(sent')] = paper
  BY <1>5, Zenon
<1>8. Promise!Newest' = paper /\ Promise!Number' = paper.number
  BY <1>6, <1>7 DEF Promise!Newest, Promise!Number
<1>9. Promise!Newest = sent[n] /\ Promise!Number = sent[n].number
  BY DEF Promise!Newest, Promise!Number
<1> QED  BY <1>3, <1>5, <1>6, <1>8, <1>9

-----------------------------------------------------------------------------
(* The page under way is the next one of the document.                     *)
LEMMA PageOfDocument ==
  ASSUME IInv, Planned, Begun \/ (pc = "print" /\ cups.verifies)
  PROVE  /\ cups \in Placeable /\ Turned \in BOOLEAN
         /\ job.driver \in Drivers
         /\ job.document \in Seq(Seq(Int))
         /\ page + 1 \in DOMAIN job.document
         /\ job.document[page + 1] = Shows(job.driver, cups, Turned)
         /\ job.document[page + 1] \in Seq(Int)
<1> DEFINE n == page + 1
<1>1. /\ job.driver \in Drivers /\ job.stream \in Streams
      /\ page \in Nat /\ page < Len(job.stream) /\ Len(job.stream) \in Nat
      /\ job.stream \in Seq(Headers) /\ job.duplex \in BOOLEAN
  BY StreamFacts DEF IInv, Control, Planned
<1>2. n \in DOMAIN job.stream /\ n \in Nat
  BY <1>1
<1>3. cups = Layout(job.stream[n]) /\ cups.verifies
  BY DEF Planned
<1>4. cups \in Placeable
  BY <1>1, <1>2, <1>3, LayoutIsPlaceable
<1>5. job.stream[n].verifies
  BY <1>3 DEF Layout
<1>6. n \in Accepted(job.stream)
  <2>1. \A m \in 1 .. n : job.stream[m].verifies
    <3>1. \A m \in 1 .. page : job.stream[m].verifies
      BY DEF Planned
    <3>2. \A m \in 1 .. n : m \in 1 .. page \/ m = n
      BY <1>1
    <3> QED  BY <1>5, <3>1, <3>2
  <2> QED  BY <1>2, <2>1 DEF Accepted
<1>7. /\ job.document \in Seq(Seq(Int))
      /\ DOMAIN job.document = Accepted(job.stream)
  BY <1>1, DocumentPages DEF Planned
<1>8. Turned = (job.duplex /\ job.driver.turns /\ n % 2 = 0)
  <2>1. page % 2 = 1 <=> n % 2 = 0
    BY <1>1
  <2>2. job.driver.turns \in BOOLEAN
    BY <1>1, DriversAssumption
  <2> QED  BY <1>1, <2>1, <2>2 DEF Turned
<1>9. Turned \in BOOLEAN
  BY <1>8
<1>10. job.document[n] =
         Shows(job.driver, Layout(job.stream[n]),
               job.duplex /\ job.driver.turns /\ n % 2 = 0)
  <2> HIDE DEF n
  <2>1. job.document = Document(job.driver, job.stream, job.duplex)
    BY DEF Planned
  <2> QED  BY <1>6, <2>1 DEF Document
<1>11. job.document[n] = Shows(job.driver, cups, Turned)
  BY <1>3, <1>8, <1>10
<1>12. job.document[n] \in Seq(Int)
  BY <1>1, <1>4, <1>9, <1>11, ShowsLines
<1> QED  BY <1>1, <1>4, <1>6, <1>7, <1>9, <1>11, <1>12

LEMMA LinesOfPage ==
  ASSUME IInv, Planned, pc = "lines"
  PROVE  /\ Len(job.document[page + 1]) = LineCount
         /\ \A k \in 1 .. LineCount :
              job.document[page + 1][k] =
                Source(cups, Turned, ((k - 1) * cups.height) \div LineCount)
<1>1. Begun /\ ~job.driver.stores
  BY DEF IInv, Control, Begun
<1>2. /\ cups \in Placeable /\ Turned \in BOOLEAN
      /\ job.document[page + 1] = Shows(job.driver, cups, Turned)
  BY <1>1, PageOfDocument
<1>3. job.document[page + 1] = Spread(cups, Turned, LineCount)
  BY <1>1, <1>2 DEF Shows, LineCount
<1>4. LineCount \in Nat \ {0}
  BY <1>1, PageFacts
<1> QED  BY <1>2, <1>3, <1>4, SpreadLines

LEMMA PlanesOfPage ==
  ASSUME IInv, Planned, pc = "planes"
  PROVE  LET first == FirstSent(cups, job.driver)
             count == LastSent(cups, job.driver) - first + 1
         IN  /\ first \in Nat /\ LastSent(cups, job.driver) \in Nat
             /\ Len(job.document[page + 1]) = count
             /\ \A k \in 1 .. count :
                  job.document[page + 1][k] = StoredLine(first + k - 1)
<1> DEFINE first == FirstSent(cups, job.driver)
           count == LastSent(cups, job.driver) - first + 1
           lines == job.document[page + 1]
<1>1. Begun
  BY DEF Begun
<1>2. /\ cups \in Placeable /\ Turned \in BOOLEAN /\ job.driver \in Drivers
      /\ lines = Shows(job.driver, cups, Turned)
  BY <1>1, PageOfDocument
<1>3. lines = Placed(cups, Turned, job.driver)
  BY <1>2 DEF Shows, Planned
<1>4. /\ Len(lines) = count
      /\ \A k \in 1 .. count :
           lines[k] = RowOrBlank(cups, Turned, first + k - 1 - OutTop(cups))
  BY <1>2, <1>3, PlacedLines
<1>5. first \in Nat /\ LastSent(cups, job.driver) \in Nat
  BY <1>2, ShownIsSent
<1>6. /\ OutHeight(cups) \in Nat \ {0} /\ OutTop(cups) \in Nat
      /\ cups.height \in Nat \ {0}
  BY <1>2, OutFacts
<1>7. ASSUME NEW line \in Int
      PROVE  StoredLine(line) = RowOrBlank(cups, Turned, line - OutTop(cups))
  <2> DEFINE below == line - OutTop(cups)
             r     == (below * cups.height) \div OutHeight(cups)
  <2>1. below \in Int
    BY <1>6
  <2>2. CASE below \in 0 .. OutHeight(cups) - 1
    <3>1. r \in 0 .. cups.height - 1
      <4>1. below \in Nat /\ below < OutHeight(cups)
        <5> HIDE DEF below
        <5> QED  BY <1>6, <2>2
      <4> HIDE DEF below
      <4> QED  BY <1>6, <4>1, DividedInPicture
    <3>2. Len(store) = cups.height
      BY <1>1 DEF IInv, Stored
    <3>3. ~(below < 0 \/ below >= OutHeight(cups))
      <4> HIDE DEF below
      <4> QED  BY <1>6, <2>2
    <3>4. StoredLine(line) = IF Turned THEN Turn(store, r) ELSE store[r + 1]
      BY <3>3 DEF StoredLine
    <3>5. RowOrBlank(cups, Turned, below) = Source(cups, Turned, r)
      BY <2>2 DEF RowOrBlank
    <3> HIDE DEF r, below
    <3>6. /\ store[r + 1] = Source(cups, FALSE, r)
          /\ Turn(store, r) = Source(cups, TRUE, r)
      BY <1>1, <3>1, <3>2, StoredRow
    <3>7. StoredLine(line) = Source(cups, Turned, r)
      BY <1>2, <3>4, <3>6 DEF Source
    <3> QED  BY <3>5, <3>7 DEF below
  <2>3. CASE below \notin 0 .. OutHeight(cups) - 1
    <3>1. below < 0 \/ below >= OutHeight(cups)
      <4> HIDE DEF below
      <4> QED  BY <1>6, <2>1, <2>3
    <3>2. StoredLine(line) = Blank
      BY <3>1 DEF StoredLine
    <3>3. RowOrBlank(cups, Turned, below) = Blank
      <4> HIDE DEF below
      <4> QED  BY <2>3 DEF RowOrBlank
    <3> QED  BY <3>2, <3>3 DEF below
  <2> QED  BY <2>2, <2>3
<1> HIDE DEF first, count, lines
<1>8. ASSUME NEW k \in 1 .. count
      PROVE  lines[k] = StoredLine(first + k - 1)
  <2> DEFINE line == first + k - 1
  <2>1. line \in Int
    BY <1>5
  <2>2. lines[k] = RowOrBlank(cups, Turned, line - OutTop(cups))
    <3>1. first + k - 1 - OutTop(cups) = line - OutTop(cups)
      BY <1>5, <1>6
    <3>2. lines[k] = RowOrBlank(cups, Turned, first + k - 1 - OutTop(cups))
      BY <1>4
    <3> HIDE DEF line
    <3> QED  BY <3>1, <3>2, Zenon
  <2> HIDE DEF line
  <2>3. lines[k] = StoredLine(line)
    BY <1>7, <2>1, <2>2
  <2> QED  BY <2>3 DEF line
<1>9. /\ first \in Nat /\ LastSent(cups, job.driver) \in Nat
      /\ Len(lines) = count
      /\ \A k \in 1 .. count : lines[k] = StoredLine(first + k - 1)
  BY <1>4, <1>5, <1>8
<1> QED  BY <1>9, Zenon DEF first, count, lines

-----------------------------------------------------------------------------
(* Every step of the filter is one of the promise, or none of its.         *)
Promised == [Promise!Next]_(Promise!vars)

LEMMA Stutters ==
  ASSUME job' = job, sent' = sent, status' = status, opened' = opened,
         closed' = closed, Running, Running'
  PROVE  Promised
BY DEF Promised, Promise!vars, Running

LEMMA ByWork ==
  ASSUME Running, job' = job,
         \/ Promise!Open \/ Promise!PrintLine \/ Promise!End \/ Promise!Crash
         \/ \E n \in DOMAIN job.document : Promise!BeginPage(n)
  PROVE  Promised
<1>1. Promise!Works
  BY DEF Promise!Works, Running
<1> QED  BY <1>1 DEF Promised, Promise!Next

LEMMA PlanKept ==
  ASSUME Planned, Begun, job' = job, page' = page, cups' = cups,
         pc' \in {"lines", "read", "planes", "purge", "crashed"},
         pc' = "planes" => pc = "planes" \/ job.driver.stores
  PROVE  Planned'
<1>1. pc' \notin {"print", "end", "header"}
  OBVIOUS
<1> QED  BY <1>1 DEF Planned

(* Behind the first header the start of the job is printed, or never.      *)
LEMMA JobOpened ==
  ASSUME Bracketed, pc # "header" \/ page # 0
  PROVE  opened = Opens
<1>1. Opens \in BOOLEAN
  BY Zenon DEF Opens
<1>2. opened = (Opens /\ ~(pc = "header" /\ page = 0))
  BY Zenon DEF Bracketed
<1> QED  BY <1>1, <1>2

LEMMA BracketsKept ==
  ASSUME Bracketed, pc \notin {"header", "ended"},
         job' = job, opened' = opened, closed' = closed,
         pc' # "header" \/ page' # 0
  PROVE  Bracketed'
<1>1. Opens' = Opens
  BY DEF Opens
<1>2. opened = Opens /\ ~closed
  BY JobOpened DEF Bracketed
<1>3. Opens \in BOOLEAN
  BY Zenon DEF Opens
<1>4. opened' = (Opens' /\ ~(pc' = "header" /\ page' = 0))
  BY <1>1, <1>2, <1>3
<1>5. ~closed'
  BY <1>2
<1> QED  BY <1>4, <1>5, Zenon DEF Bracketed

LEMMA PapersKept ==
  ASSUME Papers, pc' = pc, job' = job, page' = page, y' = y, sent' = sent,
         Aborted => Aborted'
  PROVE  Papers'
<1>1. /\ Promise!Number' = Promise!Number
      /\ Promise!Newest' = Promise!Newest
      /\ Promise!Whole' = Promise!Whole
  BY SamePaper
<1>2. OnPaper' = OnPaper /\ Between' = Between /\ Begun' = Begun
  BY DEF OnPaper, Between, Begun
<1> HIDE DEF PaperPages
<1> QED  BY <1>1, <1>2 DEF Papers

LEMMA PapersStayOn ==
  ASSUME Papers, OnPaper, OnPaper', pc' = "read" => y = 0,
         job' = job, page' = page, y' = y, sent' = sent, status' = status
  PROVE  Papers'
<1>1. /\ Promise!Number' = Promise!Number
      /\ Promise!Newest' = Promise!Newest
      /\ Promise!Whole' = Promise!Whole
  BY SamePaper
<1>2. pc' \in {"lines", "planes", "read"} /\ ~Between'
  BY DEF OnPaper, Between
<1>3. /\ sent # <<>> /\ Promise!Number = page + 1
      /\ Len(Promise!Newest.lines) = y
      /\ y <= Len(job.document[page + 1])
      /\ \A k \in 1 .. y :
           Promise!Newest.lines[k] = job.document[page + 1][k]
  BY DEF Papers
<1>4. sent \in Seq(PaperPages)
  BY DEF Papers
<1> QED  BY <1>1, <1>2, <1>3, <1>4 DEF Papers

(* A page that is done is whole, unless it was cut short by the signal.    *)
LEMMA PageDone ==
  ASSUME IInv, Planned, Papers, Begun, pc # "purge", pc' = "purge",
         job' = job, page' = page, sent' = sent, status' = status,
         Aborted \/ (OnPaper /\ y = Len(job.document[page + 1]))
  PROVE  Papers'
<1>1. /\ Promise!Number' = Promise!Number
      /\ Promise!Newest' = Promise!Newest
      /\ Promise!Whole' = Promise!Whole
      /\ Aborted' = Aborted
  BY SamePaper DEF Aborted
<1>2. ~OnPaper' /\ ~Between'
  BY DEF OnPaper, Between
<1>3. sent \in Seq(PaperPages) /\ page \in Nat
  BY StreamFacts DEF Papers
<1>4. Promise!Number \in Nat
  BY <1>3, PaperTypes
<1>5. Promise!Number <= page + 1
  <2>1. CASE OnPaper
    BY <2>1, <1>3 DEF Papers
  <2>2. CASE Between
    BY <2>2, <1>3, <1>4 DEF Papers
  <2>3. OnPaper \/ Between
    <3>1. job.driver.stores \in BOOLEAN
      BY DriversAssumption DEF IInv, Control
    <3> QED  BY <3>1 DEF OnPaper, Between, Begun
  <2> QED  BY <2>1, <2>2, <2>3
<1>6. ~Aborted => Promise!Number = page + 1 /\ Promise!Whole
  <2> SUFFICES ASSUME ~Aborted
               PROVE  Promise!Number = page + 1 /\ Promise!Whole
    OBVIOUS
  <2> DEFINE a == Promise!Newest.lines
             b == job.document[page + 1]
  <2>1. /\ sent # <<>> /\ Promise!Number = page + 1
        /\ Len(a) = y /\ \A k \in 1 .. y : a[k] = b[k]
        /\ y = Len(b)
    BY DEF Papers
  <2>2. a \in Seq(Int) /\ b \in Seq(Int)
    BY <1>3, <2>1, PaperTypes, PageOfDocument
  <2> HIDE DEF a, b
  <2>3. a = b
    BY <2>1, <2>2
  <2>4. Promise!Whole
    BY <2>1, <2>3 DEF Promise!Whole, a, b
  <2> QED  BY <2>1, <2>4
<1>7. Promise!Number' <= page' + 1
  BY <1>1, <1>5
<1>8. ~Aborted' => Promise!Number' = page' + 1 /\ Promise!Whole'
  BY <1>1, <1>6
<1>9. sent' \in Seq(PaperPages)
  BY <1>3
<1> QED  BY <1>2, <1>7, <1>8, <1>9 DEF Papers

(* A page is begun when the one before it is whole.                        *)
LEMMA PageIsPromised ==
  ASSUME IInv, Planned, Bracketed, Papers, Between,
         pc = "read" \/ (pc = "print" /\ cups.verifies), StartPage,
         pc' \in {"lines", "planes"}, y' = 0,
         job' = job, page' = page, status' = status,
         opened' = opened, closed' = closed
  PROVE  Papers' /\ Promised
<1> DEFINE n == page + 1
<1>1. /\ sent \in Seq(PaperPages) /\ page \in Nat
      /\ Begun \/ (pc = "print" /\ cups.verifies)
  BY StreamFacts DEF Papers, Begun
<1>2. /\ sent' \in Seq(PaperPages) /\ sent' # <<>>
      /\ Promise!Number' = page + 1 /\ Promise!Newest'.lines = <<>>
  BY <1>1, PaperBegun
<1>3. n \in DOMAIN job.document /\ Len(job.document[n]) \in Nat
  BY <1>1, PageOfDocument
<1>4. Papers'
  <2>1. OnPaper' /\ ~Between' /\ pc' \notin {"header", "read", "purge"}
    BY DEF OnPaper, Between
  <2>2. Len(Promise!Newest'.lines) = 0 /\ 0 <= Len(job.document[n])
    BY <1>2, <1>3
  <2> QED  BY <1>2, <2>1, <2>2 DEF Papers
<1>5. Promise!BeginPage(n)
  <2>1. opened = Opens
    BY JobOpened
  <2>2. IF Promise!Cancelled THEN n > Promise!Number
        ELSE Promise!Whole /\ n = Promise!Number + 1
    <3>1. Promise!Number \in Nat /\ Promise!Number <= page
      BY <1>1, PaperTypes DEF Papers
    <3>2. Promise!Cancelled = Aborted
      BY DEF Promise!Cancelled, Aborted
    <3>3. ~Aborted => Promise!Number = page /\ Promise!Whole
      BY DEF Papers
    <3> QED  BY <1>1, <3>1, <3>2, <3>3
  <2>3. sent' = Append(sent, [number |-> n, lines |-> <<>>])
    BY DEF StartPage
  <2> HIDE DEF n
  <2> QED  BY <2>1, <2>2, <2>3 DEF Promise!BeginPage, Opens
<1> QED  BY <1>3, <1>4, <1>5, ByWork DEF Between, Running

(* The line that the document has there goes on the newest page.           *)
LEMMA LineIsPromised ==
  ASSUME IInv, Planned, Papers, pc \in {"lines", "planes"}, pc' = pc,
         job' = job, page' = page, status' = status,
         opened' = opened, closed' = closed,
         NEW e \in Int, PrintLine(e), y < Len(job.document[page + 1]),
         e = job.document[page + 1][y + 1],
         Aborted => page + 1 <= status[1]
  PROVE  Papers' /\ Promised
<1> DEFINE a == Promise!Newest.lines
           b == job.document[page + 1]
<1>1. /\ sent \in Seq(PaperPages) /\ sent # <<>>
      /\ Promise!Number = page + 1
      /\ Len(a) = y /\ \A k \in 1 .. y : a[k] = b[k]
  BY DEF Papers, OnPaper
<1>2. a \in Seq(Int)
  BY <1>1, PaperTypes
<1>3. b \in Seq(Int)
  BY PageOfDocument DEF Begun
<1>4. /\ sent' \in Seq(PaperPages) /\ sent' # <<>>
      /\ Promise!Number' = Promise!Number
      /\ Promise!Newest'.lines = Append(a, e)
  BY <1>1, PaperGoesOn
<1>5. y' = y + 1
  BY DEF PrintLine
<1>6. Papers'
  <2> HIDE DEF a, b
  <2>1. OnPaper' /\ ~Between' /\ pc' \notin {"header", "read", "purge"}
    BY DEF OnPaper, Between
  <2>2. /\ Len(Append(a, e)) = y + 1
        /\ Append(a, e)[y + 1] = e
        /\ \A k \in 1 .. y : Append(a, e)[k] = a[k]
    BY <1>1, <1>2, OneMore
  <2>3. y \in Nat /\ y + 1 <= Len(b)
    BY <1>1, <1>2, <1>3 DEF b
  <2>4. \A k \in 1 .. y + 1 : Append(a, e)[k] = b[k]
    <3>1. \A k \in 1 .. y + 1 : k \in 1 .. y \/ k = y + 1
      BY <2>3
    <3>2. e = b[y + 1]
      BY DEF b
    <3> QED  BY <1>1, <2>2, <3>1, <3>2
  <2>5. /\ Len(Promise!Newest'.lines) = y'
        /\ y' <= Len(b)
        /\ \A k \in 1 .. y' : Promise!Newest'.lines[k] = b[k]
    BY <1>4, <1>5, <2>2, <2>3, <2>4
  <2>6. job'.document[page' + 1] = b
    BY DEF b
  <2>7. Promise!Number' = page' + 1
    BY <1>1, <1>4
  <2> QED  BY <1>4, <2>1, <2>5, <2>6, <2>7 DEF Papers
<1>7. Promise!PrintLine
  <2>1. sent # <<>> /\ ~Promise!Whole
    <3>1. a # b
      BY <1>1
    <3> QED  BY <1>1, <3>1 DEF Promise!Whole
  <2>2. Promise!Cancelled => Promise!Number <= status[1]
    BY <1>1 DEF Promise!Cancelled, Aborted
  <2>3. e = job.document[Promise!Number][Len(sent[Len(sent)].lines) + 1]
    <3>1. Len(sent[Len(sent)].lines) = y
      BY <1>1 DEF Promise!Newest
    <3> QED  BY <1>1, <3>1
  <2>4. sent' = [sent EXCEPT ![Len(sent)].lines = Append(@, e)]
    BY DEF PrintLine
  <2>5. sent' = [sent EXCEPT ![Len(sent)].lines =
                   Append(@, job.document[Promise!Number][Len(@) + 1])]
    BY <2>3, <2>4, Zenon
  <2> QED  BY <2>1, <2>2, <2>5 DEF Promise!PrintLine
<1> QED  BY <1>6, <1>7, ByWork DEF Running

LEMMA HeaderIsPromised ==
  ASSUME IInv, RInv, ReadHeader
  PROVE  RInv' /\ Promised
<1> DEFINE n == page + 1
<1>1. /\ pc = "header" /\ pc' = "print" /\ ~Begun' /\ page' = page
      /\ page < Len(job.stream) /\ cups' = Layout(job.stream[n])
      /\ job' = job /\ sent' = sent /\ status' = status /\ closed' = closed
      /\ y' = y
  BY DEF ReadHeader, Begun, loop
<1>2. /\ job.stream \in Streams /\ job.stream \in Seq(Headers)
      /\ page \in Nat /\ n \in DOMAIN job.stream /\ job.stream # <<>>
  BY <1>1, StreamFacts DEF IInv, Control
<1>3. Planned'
  BY <1>1 DEF RInv, Planned
<1>4. Opens' = Opens /\ Opens \in BOOLEAN
  BY <1>1, Zenon DEF Opens
<1>5. opened' = Opens
  <2>1. CASE page > 0
    <3>1. opened = Opens
      BY <1>2, <2>1, JobOpened DEF RInv
    <3> QED  BY <2>1, <3>1 DEF ReadHeader
  <2>2. CASE page = 0
    <3>1. cups'.verifies = job.stream[1].verifies
      BY <1>1, <2>2 DEF Layout
    <3>2. 1 \in Accepted(job.stream) <=> job.stream[1].verifies
      <4>1. 1 \in DOMAIN job.stream
        BY <1>2, <2>2
      <4>2. \A m \in 1 .. 1 : m = 1
        OBVIOUS
      <4> QED  BY <4>1, <4>2 DEF Accepted
    <3>3. opened' = (\/ job.driver.ends = "always"
                     \/ job.driver.ends = "if verified" /\ cups'.verifies)
      <4>1. ~(page > 0)
        BY <2>2
      <4> QED  BY <4>1, Zenon DEF ReadHeader
    <3>4. opened' \in BOOLEAN
      BY <3>3
    <3>5. opened' <=> Opens
      BY <1>2, <3>1, <3>2, <3>3, Zenon DEF Opens
    <3> QED  BY <1>4, <3>4, <3>5
  <2> QED  BY <1>2, <2>1, <2>2
<1>6. Bracketed'
  <2>1. ~closed'
    BY <1>1 DEF RInv, Bracketed
  <2>2. opened' = (Opens' /\ ~(pc' = "header" /\ page' = 0))
    BY <1>1, <1>4, <1>5
  <2> QED  BY <2>1, <2>2, Zenon DEF Bracketed
<1>7. Papers'
  <2>1. /\ Promise!Number' = Promise!Number
        /\ Promise!Whole' = Promise!Whole
        /\ Aborted' = Aborted
    BY <1>1, SamePaper DEF Aborted
  <2>2. Between /\ Between' /\ ~OnPaper'
    BY <1>1 DEF Between, OnPaper
  <2> HIDE DEF PaperPages
  <2> QED  BY <1>1, <2>1, <2>2 DEF RInv, Papers
<1>8. Signalled'
  BY <1>1 DEF Signalled
<1>9. Promised
  <2>1. CASE opened' = opened
    BY <1>1, <2>1, Stutters DEF Running
  <2>2. CASE opened' # opened
    <3>1. pc = "header" /\ page = 0
      BY <1>1, <1>5, <2>2, JobOpened DEF RInv
    <3>2. ~opened /\ opened \in BOOLEAN
      <4>1. opened = (Opens /\ ~(pc = "header" /\ page = 0))
        BY Zenon DEF RInv, Bracketed
      <4> QED  BY <3>1, <4>1
    <3>3. opened' = TRUE /\ Opens
      BY <1>4, <1>5, <2>2, <3>2
    <3>4. sent = <<>>
      BY <3>1 DEF RInv, Papers
    <3>5. Promise!Open
      BY <1>1, <3>2, <3>3, <3>4 DEF Promise!Open, Opens
    <3> QED  BY <1>1, <3>5, ByWork DEF Running
  <2> QED  BY <2>1, <2>2
<1> QED  BY <1>3, <1>6, <1>7, <1>8, <1>9 DEF RInv

LEMMA EndOfStreamIsPromised ==
  ASSUME IInv, RInv, EndOfStream
  PROVE  RInv' /\ Promised
<1>1. /\ pc = "header" /\ page = Len(job.stream)
      /\ pc' = IF page = 0 THEN "ended" ELSE "end"
      /\ job' = job /\ page' = page /\ cups' = cups /\ sent' = sent
      /\ status' = status /\ opened' = opened /\ closed' = closed /\ y' = y
  BY DEF EndOfStream, IInv, ByRows, brackets, reader, loop
<1>2. /\ job.stream \in Streams /\ job.stream \in Seq(Headers)
      /\ job.driver \in Drivers /\ page \in Nat /\ ~Begun' /\ pc' # "header"
  BY <1>1, StreamFacts DEF IInv, Control, Begun
<1>3. ~closed
  BY <1>1 DEF RInv, Bracketed
<1>4. Opens' = Opens
  BY <1>1 DEF Opens
<1>5. Planned'
  <2>1. pc' = "end" => page > 0 /\ cups.verifies
    BY <1>1, <1>2 DEF RInv, Planned
  <2>2. pc' # "print"
    BY <1>1
  <2> QED  BY <1>1, <1>2, <2>1, <2>2 DEF RInv, Planned
<1>6. Papers'
  <2>1. /\ Promise!Number' = Promise!Number
        /\ Promise!Whole' = Promise!Whole
        /\ Aborted' = Aborted
    BY <1>1, SamePaper DEF Aborted
  <2>2. Between /\ ~OnPaper' /\ pc' \in {"end", "ended"}
    BY <1>1 DEF Between, OnPaper
  <2> HIDE DEF PaperPages
  <2> QED  BY <1>1, <2>1, <2>2 DEF RInv, Papers
<1>7. Signalled'
  BY <1>1 DEF Signalled
<1>8. CASE page > 0
  <2>1. pc' = "end"
    BY <1>1, <1>8
  <2>2. opened = Opens /\ Opens \in BOOLEAN
    <3>1. opened = Opens
      BY <1>8, JobOpened DEF RInv
    <3> QED  BY <3>1, Zenon DEF Opens
  <2>3. opened' = (Opens' /\ ~(pc' = "header" /\ page' = 0))
    BY <1>1, <1>4, <2>1, <2>2
  <2>4. Bracketed'
    BY <1>1, <1>3, <2>3, Zenon DEF Bracketed
  <2>5. Promised
    BY <1>1, <2>1, Stutters DEF Running
  <2> QED  BY <1>5, <1>6, <1>7, <2>4, <2>5 DEF RInv
<1>9. CASE page = 0
  <2>1. pc' = "ended" /\ job.stream = <<>>
    <3> DEFINE q == job.stream
    <3>1. q \in Seq(Headers) /\ Len(q) = 0
      BY <1>1, <1>2, <1>9
    <3> HIDE DEF q
    <3>2. q = <<>>
      BY <3>1
    <3> QED  BY <1>1, <1>9, <3>2 DEF q
  <2>2. Accepted(job.stream) = {}
    BY <2>1 DEF Accepted
  <2>3. ~Opens /\ ~Closes
    BY <2>1, <2>2 DEF Opens, Closes
  <2>4. opened = FALSE
    <3>1. opened = (Opens /\ ~(pc = "header" /\ page = 0))
      BY Zenon DEF RInv, Bracketed
    <3> QED  BY <2>3, <3>1
  <2>5. opened' = (Opens' /\ ~(pc' = "header" /\ page' = 0))
    BY <1>1, <1>4, <2>3, <2>4
  <2>6. Bracketed'
    BY <2>1, <2>5, Zenon DEF Bracketed
  <2>7. Len(job.document) = 0
    <3>1. job.document \in Seq(Seq(Int)) /\ DOMAIN job.document = {}
      BY <1>2, <2>2, DocumentPages DEF RInv, Planned
    <3> DEFINE d == job.document
    <3> HIDE DEF d
    <3>2. d \in Seq(Seq(Int)) /\ DOMAIN d = {}
      BY <3>1 DEF d
    <3>3. Len(d) \in Nat /\ DOMAIN d = 1 .. Len(d)
      BY <3>2
    <3>4. 1 \notin 1 .. Len(d)
      BY <3>2, <3>3
    <3>5. Len(d) = 0
      BY <3>3, <3>4
    <3> QED  BY <3>5 DEF d
  <2>8. sent = <<>>
    BY <1>1, <1>9 DEF RInv, Papers
  <2>9. Promise!Whole /\ Promise!Number = 0
    BY <2>8 DEF Promise!Whole, Promise!Number
  <2>10. closed' = FALSE /\ closed = FALSE
    <3>1. closed \in BOOLEAN
      BY DEF IInv, Control
    <3> QED  BY <1>1, <1>3, <3>1
  <2>11. Closes = FALSE
    BY <2>1, Zenon DEF Closes
  <2>12. closed' = Closes
    BY <2>10, <2>11
  <2>13. Promise!End
    BY <1>1, <2>1, <2>7, <2>9, <2>10, <2>12 DEF Promise!End, Closes
  <2>14. Promised
    BY <1>1, <2>13, ByWork DEF Running
  <2> QED  BY <1>5, <1>6, <1>7, <2>6, <2>14 DEF RInv
<1> QED  BY <1>2, <1>8, <1>9

LEMMA EndJobIsPromised ==
  ASSUME IInv, RInv, EndJob
  PROVE  RInv' /\ Promised
<1>1. /\ pc = "end" /\ pc' = "ended"
      /\ closed' = (\/ job.driver.ends = "always"
                    \/ job.driver.ends = "if verified" /\ cups.verifies)
      /\ job' = job /\ page' = page /\ cups' = cups /\ sent' = sent
      /\ status' = status /\ opened' = opened
  BY DEF EndJob, reader, loop
<1>2. /\ job.stream \in Streams /\ job.stream \in Seq(Headers)
      /\ job.driver \in Drivers
      /\ page \in 0 .. Len(job.stream) /\ Len(job.stream) \in Nat
  BY StreamFacts DEF IInv, Control
<1>3. ~closed /\ opened = Opens
  BY <1>1, JobOpened DEF RInv, Bracketed
<1>4. Planned'
  BY <1>1 DEF RInv, Planned, Begun
<1>5. Papers'
  BY <1>1 DEF RInv, Papers, OnPaper, Between
<1>6. Signalled'
  BY <1>1 DEF Signalled
<1>7. Bracketed'
  <2>1. Opens' = Opens /\ Opens \in BOOLEAN
    BY <1>1, Zenon DEF Opens
  <2>2. opened' = (Opens' /\ ~(pc' = "header" /\ page' = 0))
    BY <1>1, <1>3, <2>1
  <2> QED  BY <1>1, <2>2, Zenon DEF Bracketed
<1>8. Accepted(job.stream) = 1 .. page
  <2>1. \A m \in 1 .. page : job.stream[m].verifies
    BY DEF RInv, Planned
  <2>2. page < Len(job.stream) => ~job.stream[page + 1].verifies
    <3>1. page # Len(job.stream) => ~job.stream[page + 1].verifies
      BY <1>1, Zenon DEF RInv, Planned
    <3>2. page < Len(job.stream) => page # Len(job.stream)
      BY <1>2
    <3> QED  BY <3>1, <3>2
  <2> QED  BY <1>2, <2>1, <2>2, AcceptedUpTo
<1>9. Len(job.document) = page
  <2>1. /\ job.document \in Seq(Seq(Int))
        /\ DOMAIN job.document = Accepted(job.stream)
    BY <1>2, DocumentPages DEF RInv, Planned
  <2>2. Len(job.document) \in Nat /\ 1 .. Len(job.document) = 1 .. page
    BY <1>8, <2>1
  <2> QED  BY <1>2, <2>2
<1>10. closed' = Closes
  <2>1. job.stream # <<>>
    <3>1. page = Len(job.stream) => page > 0
      BY <1>1 DEF RInv, Planned
    <3>2. Len(job.stream) # 0
      BY <1>2, <3>1
    <3> QED  BY <3>2
  <2>2. cups.verifies <=> Accepted(job.stream) = DOMAIN job.stream
    <3>1. CASE page = Len(job.stream)
      <4>1. cups.verifies
        BY <1>1, <3>1 DEF RInv, Planned
      <4> QED  BY <1>2, <1>8, <3>1, <4>1
    <3>2. CASE page # Len(job.stream)
      <4>1. ~cups.verifies
        BY <1>1, <3>2 DEF RInv, Planned
      <4>2. page + 1 \in DOMAIN job.stream /\ page + 1 \notin 1 .. page
        BY <1>2, <3>2
      <4> QED  BY <1>8, <4>1, <4>2
    <3> QED  BY <3>1, <3>2
  <2>3. Closes \in BOOLEAN /\ closed' \in BOOLEAN
    BY <1>1, Zenon DEF Closes
  <2>4. closed' <=> Closes
    BY <1>1, <2>1, <2>2, Zenon DEF Closes
  <2> QED  BY <2>3, <2>4
<1>11. \/ Promise!Cancelled
       \/ Promise!Whole /\ Promise!Number = Len(job.document)
  <2>1. ~Aborted => Promise!Number = page /\ Promise!Whole
    BY <1>1 DEF RInv, Papers, Between
  <2> QED  BY <1>9, <2>1 DEF Promise!Cancelled, Aborted
<1>12. Promise!End
  BY <1>1, <1>10, <1>11 DEF Promise!End, Closes
<1>13. Promised
  BY <1>1, <1>12, ByWork DEF Running
<1> QED  BY <1>4, <1>5, <1>6, <1>7, <1>13 DEF RInv

LEMMA BeginIsPromised ==
  ASSUME IInv, RInv, BeginPrint
  PROVE  RInv' /\ Promised
<1>1. /\ pc = "print" /\ job' = job /\ page' = page /\ cups' = cups
      /\ status' = status /\ opened' = opened /\ closed' = closed
      /\ job.driver.stores \in BOOLEAN /\ Between /\ Running
  BY DriversAssumption DEF IInv, Control, BeginPrint, reader, brackets, Between,
       Running
<1>2. page \in Nat /\ page < Len(job.stream)
  BY <1>1, StreamFacts DEF IInv, Control
<1>3. cups = Layout(job.stream[page + 1])
  BY <1>1 DEF RInv, Planned
<1>4. CASE ~cups.verifies
  <2>1. pc' = "end" /\ sent' = sent /\ y' = y
    BY <1>4 DEF BeginPrint, loop
  <2>2. Planned'
    <3>1. ~job.stream[page + 1].verifies
      BY <1>3, <1>4 DEF Layout
    <3>2. page # Len(job.stream) /\ ~Begun'
      BY <1>2, <2>1 DEF Begun
    <3> QED  BY <1>1, <1>4, <2>1, <3>1, <3>2 DEF RInv, Planned
  <2>3. Bracketed'
    BY <1>1, <2>1, BracketsKept DEF RInv
  <2>4. Papers'
    <3>1. /\ Promise!Number' = Promise!Number
          /\ Promise!Whole' = Promise!Whole
          /\ Aborted' = Aborted
      BY <1>1, <2>1, SamePaper DEF Aborted
    <3>2. ~OnPaper'
      BY <2>1 DEF OnPaper
    <3> HIDE DEF PaperPages
    <3> QED  BY <1>1, <2>1, <3>1, <3>2 DEF RInv, Papers
  <2>5. Signalled'
    BY <2>1 DEF Signalled
  <2>6. Promised
    BY <1>1, <2>1, Stutters DEF Running
  <2> QED  BY <2>2, <2>3, <2>4, <2>5, <2>6 DEF RInv
<1>5. CASE cups.verifies
  <2>1. /\ pc' = IF job.driver.stores THEN "read" ELSE "lines"
        /\ IF job.driver.stores THEN sent' = sent ELSE StartPage
        /\ store' = <<>> /\ y' = 0
    BY <1>5 DEF BeginPrint
  <2>2. Planned'
    BY <1>1, <1>5, <2>1 DEF RInv, Planned
  <2>3. Bracketed'
    BY <1>1, <2>1, BracketsKept DEF RInv
  <2>4. Signalled'
    BY <2>1 DEF Signalled
  <2>5. CASE job.driver.stores
    <3>1. pc' = "read" /\ sent' = sent
      BY <2>1, <2>5
    <3>2. Papers'
      <4>1. /\ Promise!Number' = Promise!Number
            /\ Promise!Whole' = Promise!Whole
            /\ Aborted' = Aborted
        BY <1>1, <3>1, SamePaper DEF Aborted
      <4>2. ~OnPaper'
        BY <1>1, <2>5, <3>1 DEF OnPaper
      <4> HIDE DEF PaperPages
      <4> QED  BY <1>1, <2>1, <3>1, <4>1, <4>2 DEF RInv, Papers
    <3>3. Promised
      BY <1>1, <3>1, Stutters DEF Running
    <3> QED  BY <2>2, <2>3, <2>4, <3>2, <3>3 DEF RInv
  <2>6. CASE ~job.driver.stores
    <3>1. pc' = "lines" /\ StartPage
      BY <2>1, <2>6
    <3>2. Papers' /\ Promised
      BY <1>1, <1>5, <2>1, <3>1, PageIsPromised DEF RInv
    <3> QED  BY <2>2, <2>3, <2>4, <3>2 DEF RInv
  <2> QED  BY <1>1, <2>5, <2>6
<1> QED  BY <1>4, <1>5

LEMMA PurgeIsPromised ==
  ASSUME IInv, RInv, Purge
  PROVE  RInv' /\ Promised
<1>1. /\ pc = "purge" /\ pc' = "header" /\ Begun /\ ~Begun' /\ page' = page + 1
      /\ job' = job /\ cups' = cups /\ status' = status /\ sent' = sent
      /\ opened' = opened /\ closed' = closed /\ y' = y
  BY DEF Purge, Begun, brackets, loop
<1>2. page \in Nat
  BY StreamFacts
<1>3. Planned'
  <2>1. cups.verifies /\ job.stream[page + 1].verifies
    BY <1>1 DEF RInv, Planned, Layout
  <2>2. \A n \in 1 .. page + 1 : job.stream[n].verifies
    <3>1. \A n \in 1 .. page + 1 : n \in 1 .. page \/ n = page + 1
      BY <1>2
    <3>2. \A n \in 1 .. page : job.stream[n].verifies
      BY DEF RInv, Planned
    <3> QED  BY <2>1, <3>1, <3>2
  <2> QED  BY <1>1, <2>1, <2>2 DEF RInv, Planned
<1>4. Bracketed'
  BY <1>1, <1>2, BracketsKept DEF RInv
<1>5. Papers'
  <2>1. /\ Promise!Number' = Promise!Number
        /\ Promise!Whole' = Promise!Whole
        /\ Aborted' = Aborted
    BY <1>1, SamePaper DEF Aborted
  <2>2. ~OnPaper' /\ page' # 0
    BY <1>1, <1>2 DEF OnPaper
  <2> HIDE DEF PaperPages
  <2> QED  BY <1>1, <2>1, <2>2 DEF RInv, Papers
<1>6. Signalled'
  BY <1>1 DEF Signalled
<1>7. Promised
  BY <1>1, Stutters DEF Running
<1> QED  BY <1>3, <1>4, <1>5, <1>6, <1>7 DEF RInv

(* The row for a line is what the document has there.                      *)
LEMMA DocumentLine ==
  ASSUME IInv, Planned, pc = "lines", y < LineCount, NEW e,
         e = Source(cups, Turned, err.line),
         err.line = (y * cups.height) \div LineCount
  PROVE  /\ e = job.document[page + 1][y + 1] /\ e \in Int
         /\ y < Len(job.document[page + 1])
<1>1. Begun /\ y \in Nat /\ LineCount \in Nat \ {0} /\ err.line \in Nat
  BY PageFacts, ErrorFacts DEF Begun
<1>2. cups \in Placeable /\ Turned \in BOOLEAN
  BY <1>1, PageOfDocument
<1>3. e \in Int
  BY <1>1, <1>2, SourceIsPlace
<1> DEFINE k == y + 1
<1>4. k \in 1 .. LineCount /\ k - 1 = y
  BY <1>1
<1> HIDE DEF k
<1>5. job.document[page + 1][k] =
        Source(cups, Turned, ((k - 1) * cups.height) \div LineCount)
  BY <1>4, LinesOfPage
<1>6. job.document[page + 1][k] = e
  BY <1>4, <1>5, Zenon
<1>7. y < Len(job.document[page + 1])
  BY <1>1, LinesOfPage
<1> QED  BY <1>3, <1>6, <1>7 DEF k

LEMMA NewRowIsPromised ==
  ASSUME IInv, IInv', RInv, NewRow
  PROVE  RInv' /\ Promised
<1>1. /\ pc = "lines" /\ Begun /\ y < LineCount /\ ~Turned /\ GetRow(err.line)
      /\ job' = job /\ page' = page /\ cups' = cups /\ status' = status
      /\ opened' = opened /\ closed' = closed /\ OnPaper /\ Running
      /\ pc' \in {"lines", "purge"}
  BY DEF NewRow, Begun, brackets, OnPaper, Running, Return
<1>2. Planned' /\ Bracketed'
  BY <1>1, PlanKept, BracketsKept DEF RInv
<1>3. CASE Aborted
  <2>1. pc' = "purge" /\ sent' = sent
    BY <1>3 DEF NewRow, Return
  <2>2. Papers'
    BY <1>1, <1>3, <2>1, PageDone DEF RInv
  <2>3. Signalled'
    BY <2>1 DEF Signalled
  <2>4. Promised
    BY <1>1, <2>1, Stutters DEF Running
  <2> QED  BY <1>2, <2>2, <2>3, <2>4 DEF RInv
<1>4. CASE ~Aborted
  <2>1. pc' = "lines" /\ PrintLine(data') /\ y' = y + 1
    BY <1>1, <1>4 DEF NewRow, PrintLine
  <2>2. y \in Nat /\ LineCount \in Nat \ {0} /\ y' # y
    BY <1>1, <2>1, PageFacts
  <2>3. /\ data' = Source(cups, Turned, err.line)
        /\ err.line = (y * cups.height) \div LineCount /\ err.line \in Nat
    BY <1>1, <2>2, NewRowStep, ErrorFacts
  <2>4. data' = job.document[page + 1][y + 1] /\ data' \in Int
        /\ y < Len(job.document[page + 1])
    BY <1>1, <2>2, <2>3, DocumentLine DEF RInv
  <2> DEFINE e == data'
  <2>5. PrintLine(e) /\ e \in Int /\ e = job.document[page + 1][y + 1]
    BY <2>1, <2>4
  <2> HIDE DEF e
  <2>6. Papers' /\ Promised
    BY <1>1, <1>4, <2>1, <2>4, <2>5, LineIsPromised DEF RInv
  <2>7. Signalled'
    BY <1>1, <1>4 DEF Signalled, Aborted
  <2> QED  BY <1>2, <2>6, <2>7 DEF RInv
<1> QED  BY <1>3, <1>4

LEMMA SameRowIsPromised ==
  ASSUME IInv, IInv', RInv, SameRow
  PROVE  RInv' /\ Promised
<1>1. /\ pc = "lines" /\ pc' = "lines" /\ Begun /\ y < LineCount
      /\ err.line = err.last /\ PrintLine(data) /\ data' = data /\ y' = y + 1
      /\ job' = job /\ page' = page /\ cups' = cups /\ status' = status
      /\ opened' = opened /\ closed' = closed
  BY DEF SameRow, PrintLine, Begun, brackets, reader
<1>2. Planned' /\ Bracketed'
  BY <1>1, PlanKept, BracketsKept DEF RInv
<1>3. /\ data = Source(cups, Turned, err.line)
      /\ err.line = (y * cups.height) \div LineCount /\ err.line \in Nat
  BY <1>1, SameRowStep, ErrorFacts
<1>4. y > 0
  <2>1. y # 0
    BY <1>1, <1>3 DEF IInv, Divided
  <2>2. y \in Nat
    BY <1>1, PageFacts
  <2> QED  BY <2>1, <2>2
<1>5. data = job.document[page + 1][y + 1] /\ data \in Int
      /\ y < Len(job.document[page + 1])
  BY <1>1, <1>3, DocumentLine DEF RInv
<1>6. Aborted => page + 1 <= status[1]
  BY <1>1, <1>4 DEF RInv, Signalled
<1>7. Papers' /\ Promised
  BY <1>1, <1>5, <1>6, LineIsPromised DEF RInv
<1>8. Signalled'
  BY <1>1, <1>6 DEF Signalled, Aborted
<1> QED  BY <1>2, <1>7, <1>8 DEF RInv

LEMMA BackRowIsPromised ==
  ASSUME IInv, IInv', RInv, BackRow
  PROVE  RInv' /\ Promised
<1>1. /\ pc = "lines" /\ pc' = "lines" /\ Begun /\ y < LineCount
      /\ store # <<>> /\ PrintLine(data') /\ y' = y + 1
      /\ job' = job /\ page' = page /\ cups' = cups /\ status' = status
      /\ opened' = opened /\ closed' = closed
  BY DEF BackRow, PrintLine, Begun, brackets, reader
<1>2. Planned' /\ Bracketed'
  BY <1>1, PlanKept, BracketsKept DEF RInv
<1>3. /\ data' = Source(cups, Turned, err.line)
      /\ err.line = (y * cups.height) \div LineCount /\ err.line \in Nat
  BY <1>1, BackRowStep, ErrorFacts
<1> DEFINE e == data'
<1>4. e = job.document[page + 1][y + 1] /\ e \in Int
      /\ y < Len(job.document[page + 1])
  BY <1>1, <1>3, DocumentLine DEF RInv
<1>5. PrintLine(e)
  BY <1>1
<1> HIDE DEF e
<1>6. Aborted => page + 1 <= status[1]
  BY <1>1 DEF RInv, Signalled
<1>7. Papers' /\ Promised
  BY <1>1, <1>4, <1>5, <1>6, LineIsPromised DEF RInv
<1>8. Signalled'
  BY <1>1, <1>6 DEF Signalled, Aborted
<1> QED  BY <1>2, <1>7, <1>8 DEF RInv

LEMMA PlaneIsPromised ==
  ASSUME IInv, RInv, Plane
  PROVE  RInv' /\ Promised
<1> DEFINE first == FirstSent(cups, job.driver)
           last  == LastSent(cups, job.driver)
           line  == first + y
           e     == StoredLine(line)
           lines == job.document[page + 1]
<1>1. /\ pc = "planes" /\ pc' = "planes" /\ Begun /\ line <= last
      /\ PrintLine(e) /\ y' = y + 1
      /\ job' = job /\ page' = page /\ cups' = cups /\ status' = status
      /\ opened' = opened /\ closed' = closed
  BY DEF Plane, PrintLine, Begun, brackets, reader
<1>2. Planned' /\ Bracketed'
  BY <1>1, PlanKept, BracketsKept DEF RInv
<1>3. /\ first \in Nat /\ last \in Nat
      /\ Len(lines) = last - first + 1
      /\ \A k \in 1 .. last - first + 1 : lines[k] = StoredLine(first + k - 1)
  BY <1>1, PlanesOfPage DEF RInv
<1>4. y \in Nat
  BY <1>1, PageFacts
<1>5. e \in Int
  <2> HIDE DEF line
  <2>1. line \in Int
    BY <1>3, <1>4 DEF line
  <2> QED  BY <1>1, <2>1, StoredLineFacts
<1>6. y < Len(lines) /\ e = lines[y + 1]
  <2> DEFINE k == y + 1
  <2> HIDE DEF first, last, lines
  <2>1. k \in 1 .. last - first + 1 /\ first + k - 1 = line
    BY <1>1, <1>3, <1>4
  <2>2. y < Len(lines)
    BY <1>1, <1>3, <1>4
  <2> HIDE DEF k, line
  <2>3. lines[k] = StoredLine(first + k - 1)
    BY <1>3, <2>1
  <2>4. lines[k] = StoredLine(line)
    BY <2>1, <2>3, Zenon
  <2> QED  BY <2>2, <2>4 DEF k
<1> HIDE DEF e
<1>7. Aborted => page + 1 <= status[1]
  BY <1>1 DEF RInv, Signalled
<1>8. Papers' /\ Promised
  BY <1>1, <1>5, <1>6, <1>7, LineIsPromised DEF RInv
<1>9. Signalled'
  BY <1>1, <1>7 DEF Signalled, Aborted
<1> QED  BY <1>2, <1>8, <1>9 DEF RInv

LEMMA ReadBackIsPromised ==
  ASSUME IInv, RInv, ReadBack
  PROVE  RInv' /\ Promised
<1>1. /\ pc = "lines" /\ pc' = "read" /\ Begun /\ Turned /\ store = <<>>
      /\ job' = job /\ page' = page /\ cups' = cups /\ store' = store
      /\ y' = y /\ sent' = sent /\ status' = status
      /\ opened' = opened /\ closed' = closed
  BY DEF ReadBack, Begun, brackets, reader, loop
<1>2. y = 0 /\ ~job.driver.stores
  BY <1>1 DEF IInv, Divided, Control
<1>3. Planned' /\ Bracketed'
  BY <1>1, PlanKept, BracketsKept DEF RInv
<1>4. OnPaper /\ OnPaper'
  BY <1>1, <1>2 DEF OnPaper
<1>5. Papers'
  BY <1>1, <1>2, <1>4, PapersStayOn DEF RInv
<1>6. Signalled'
  BY <1>1 DEF Signalled
<1>7. Promised
  BY <1>1, Stutters DEF Running
<1> QED  BY <1>3, <1>5, <1>6, <1>7 DEF RInv

LEMMA DoneIsPromised ==
  ASSUME IInv, RInv, EndOfLines \/ EndOfPlanes
  PROVE  RInv' /\ Promised
<1>1. /\ pc \in {"lines", "planes"} /\ pc' = "purge" /\ Begun /\ OnPaper
      /\ job' = job /\ page' = page /\ cups' = cups
      /\ y' = y /\ sent' = sent /\ status' = status
      /\ opened' = opened /\ closed' = closed
  BY DEF EndOfLines, EndOfPlanes, Return, Begun, brackets, reader, loop, OnPaper
<1>2. Planned' /\ Bracketed'
  BY <1>1, PlanKept, BracketsKept DEF RInv
<1>3. y = Len(job.document[page + 1])
  <2>1. CASE EndOfLines
    <3>1. pc = "lines" /\ y = LineCount
      BY <2>1 DEF EndOfLines
    <3> QED  BY <3>1, LinesOfPage DEF RInv
  <2>2. CASE EndOfPlanes
    <3> DEFINE first == FirstSent(cups, job.driver)
               last  == LastSent(cups, job.driver)
               lines == job.document[page + 1]
    <3>1. pc = "planes" /\ first + y > last
      BY <2>2 DEF EndOfPlanes
    <3>2. /\ first \in Nat /\ last \in Nat
          /\ Len(lines) = last - first + 1
      BY <3>1, PlanesOfPage DEF RInv
    <3>3. y \in Nat /\ y <= Len(lines)
      BY <1>1, PageFacts DEF RInv, Papers
    <3> HIDE DEF first, last, lines
    <3>4. y = Len(lines)
      BY <3>1, <3>2, <3>3
    <3> QED  BY <3>4 DEF lines
  <2> QED  BY <2>1, <2>2
<1>4. Papers'
  BY <1>1, <1>3, PageDone DEF RInv
<1>5. Signalled'
  BY <1>1 DEF Signalled
<1>6. Promised
  BY <1>1, Stutters DEF Running
<1> QED  BY <1>2, <1>4, <1>5, <1>6 DEF RInv

LEMMA ReadRowIsPromised ==
  ASSUME IInv, RInv, ReadRow
  PROVE  RInv' /\ Promised
<1>1. /\ pc = "read" /\ pc' \in {"read", "purge", "crashed"} /\ Begun
      /\ job' = job /\ page' = page /\ cups' = cups
      /\ y' = y /\ sent' = sent /\ status' = status
      /\ opened' = opened /\ closed' = closed
      /\ pc' = "crashed" => job.driver.stores
      /\ IF Aborted THEN pc' # "read" ELSE pc' = "read"
  BY DEF ReadRow, Begun, brackets
<1>2. Planned' /\ Bracketed'
  BY <1>1, PlanKept, BracketsKept DEF RInv
<1>3. CASE pc' = "read"
  <2>1. Papers'
    BY <1>1, <1>3, PapersKept DEF RInv, Aborted
  <2>2. Signalled'
    BY <1>1, <1>3 DEF Signalled, Aborted
  <2>3. Promised
    BY <1>1, <1>3, Stutters DEF Running
  <2> QED  BY <1>2, <2>1, <2>2, <2>3 DEF RInv
<1>4. CASE pc' = "purge"
  <2>1. Papers'
    BY <1>1, <1>4, PageDone DEF RInv
  <2>2. Signalled'
    BY <1>4 DEF Signalled
  <2>3. Promised
    BY <1>1, <1>4, Stutters DEF Running
  <2> QED  BY <1>2, <2>1, <2>2, <2>3 DEF RInv
<1>5. CASE pc' = "crashed"
  <2>1. Papers'
    <3>1. ~OnPaper' /\ ~Between'
      BY <1>5 DEF OnPaper, Between
    <3> HIDE DEF PaperPages
    <3> QED  BY <1>1, <1>5, <3>1 DEF RInv, Papers
  <2>2. Signalled'
    BY <1>5 DEF Signalled
  <2>3. Aborted /\ job.driver.stores
    BY <1>1, <1>5
  <2>4. Promise!Crash
    BY <1>1, <1>5, <2>3 DEF Promise!Crash, Promise!Cancelled, Aborted
  <2>5. Promised
    BY <1>1, <2>4, ByWork DEF Running
  <2> QED  BY <1>2, <2>1, <2>2, <2>5 DEF RInv
<1> QED  BY <1>1, <1>3, <1>4, <1>5

LEMMA WholeReadIsPromised ==
  ASSUME IInv, RInv, WholeRead
  PROVE  RInv' /\ Promised
<1>1. /\ pc = "read" /\ Begun /\ Len(store) = cups.height
      /\ pc' = IF job.driver.stores THEN "planes" ELSE "lines"
      /\ IF job.driver.stores THEN StartPage ELSE sent' = sent
      /\ job' = job /\ page' = page /\ cups' = cups /\ store' = store
      /\ y' = y /\ status' = status /\ opened' = opened /\ closed' = closed
  BY DEF WholeRead, Begun, brackets, reader, loop
<1>2. y = 0
  BY <1>1 DEF RInv, Papers
<1>3. store # <<>>
  <2>1. cups.height # 0
    BY <1>1, PageFacts
  <2> QED  BY <1>1, <2>1
<1>4. Planned' /\ Bracketed'
  BY <1>1, PlanKept, BracketsKept DEF RInv
<1>5. Signalled'
  <2>1. Aborted => page + 1 <= status[1]
    BY <1>1, <1>3 DEF RInv, Signalled
  <2> QED  BY <1>1, <2>1 DEF Signalled, Aborted
<1>6. CASE job.driver.stores
  <2>1. Between /\ StartPage /\ pc' = "planes"
    BY <1>1, <1>6 DEF Between
  <2>2. Papers' /\ Promised
    BY <1>1, <1>2, <2>1, PageIsPromised DEF RInv
  <2> QED  BY <1>4, <1>5, <2>2 DEF RInv
<1>7. CASE ~job.driver.stores
  <2>1. OnPaper /\ OnPaper' /\ sent' = sent /\ pc' = "lines"
    BY <1>1, <1>7 DEF OnPaper
  <2>2. Papers'
    BY <1>1, <2>1, PapersStayOn DEF RInv
  <2>3. Promised
    BY <1>1, <2>1, Stutters DEF Running
  <2> QED  BY <1>4, <1>5, <2>2, <2>3 DEF RInv
<1> QED  BY <1>6, <1>7

(* The signal comes to the page that is begun, or is next to be.           *)
LEMMA CancelIsPromised ==
  ASSUME IInv, RInv, Cancel
  PROVE  RInv' /\ Promised
<1> DEFINE n == IF Begun THEN page + 1 ELSE page
<1>1. /\ Running /\ ~Aborted /\ status' = <<n>> /\ pc' = pc
      /\ job' = job /\ page' = page /\ cups' = cups /\ store' = store
      /\ y' = y /\ sent' = sent /\ opened' = opened /\ closed' = closed
  BY DEF Cancel, Running, reader, loop, brackets
<1>2. Planned'
  BY <1>1 DEF RInv, Planned, Begun
<1>3. Bracketed'
  <2>1. Opens' = Opens
    BY <1>1 DEF Opens
  <2> QED  BY <1>1, <2>1 DEF RInv, Bracketed
<1>4. Papers'
  BY <1>1, PapersKept DEF RInv
<1>5. Signalled'
  <2>1. status'[1] = n
    BY <1>1
  <2>2. pc \in {"planes", "lines", "read"} => n = page + 1
    BY DEF Begun
  <2>3. page + 1 \in Int
    BY StreamFacts
  <2> HIDE DEF n
  <2> QED  BY <1>1, <2>1, <2>2, <2>3 DEF Signalled
<1>6. n \in {Promise!Number, Promise!Number + 1}
  <2>1. job.driver.stores \in BOOLEAN
    BY DriversAssumption DEF IInv, Control
  <2>2. OnPaper \/ Between \/ pc = "purge"
    BY <1>1, <2>1 DEF OnPaper, Between, IInv, Control, Running
  <2>3. CASE OnPaper
    BY <2>3 DEF RInv, Papers, Begun, OnPaper
  <2>4. CASE Between
    <3>1. Promise!Number = page
      BY <1>1, <2>4 DEF RInv, Papers
    <3> QED  BY <3>1
  <2>5. CASE pc = "purge"
    BY <1>1, <2>5 DEF RInv, Papers, Begun
  <2> QED  BY <2>2, <2>3, <2>4, <2>5
<1>7. Promise!Cancel(n)
  <2> HIDE DEF n
  <2> QED  BY <1>1 DEF Promise!Cancel, Promise!Cancelled, Aborted, Running
<1>8. Promised
  <2> HIDE DEF n
  <2> QED  BY <1>1, <1>6, <1>7 DEF Promised, Promise!Next, Running
<1> QED  BY <1>2, <1>3, <1>4, <1>5, <1>8 DEF RInv

LEMMA StillPromised ==
  ASSUME RInv, UNCHANGED vars
  PROVE  RInv' /\ Promised
<1>1. /\ job' = job /\ pc' = pc /\ page' = page /\ cups' = cups
      /\ status' = status /\ store' = store /\ y' = y /\ sent' = sent
      /\ opened' = opened /\ closed' = closed
  BY DEF vars, reader, loop, brackets
<1>2. Papers'
  BY <1>1, PapersKept DEF RInv, Aborted
<1>3. Planned'
  BY <1>1 DEF RInv, Planned, Begun
<1>4. Bracketed'
  BY <1>1 DEF RInv, Bracketed, Opens
<1>5. Signalled'
  BY <1>1 DEF RInv, Signalled, Aborted
<1>6. Promised
  BY <1>1 DEF Promised, Promise!vars
<1> QED  BY <1>2, <1>3, <1>4, <1>5, <1>6 DEF RInv

LEMMA EveryStepPromised ==
  ASSUME IInv, IInv', RInv, [Next]_vars
  PROVE  RInv' /\ Promised
<1>1. CASE ReadHeader
  BY <1>1, HeaderIsPromised
<1>2. CASE EndOfStream
  BY <1>2, EndOfStreamIsPromised
<1>3. CASE EndJob
  BY <1>3, EndJobIsPromised
<1>4. CASE BeginPrint
  BY <1>4, BeginIsPromised
<1>5. CASE Purge
  BY <1>5, PurgeIsPromised
<1>6. CASE NewRow
  BY <1>6, NewRowIsPromised
<1>7. CASE SameRow
  BY <1>7, SameRowIsPromised
<1>8. CASE BackRow
  BY <1>8, BackRowIsPromised
<1>9. CASE ReadBack
  BY <1>9, ReadBackIsPromised
<1>10. CASE EndOfLines \/ EndOfPlanes
  BY <1>10, DoneIsPromised
<1>11. CASE ReadRow
  BY <1>11, ReadRowIsPromised
<1>12. CASE WholeRead
  BY <1>12, WholeReadIsPromised
<1>13. CASE Plane
  BY <1>13, PlaneIsPromised
<1>14. CASE Cancel
  BY <1>14, CancelIsPromised
<1>15. CASE Finished \/ UNCHANGED vars
  BY <1>15, StillPromised DEF Finished
<1> QED  BY <1>1, <1>2, <1>3, <1>4, <1>5, <1>6, <1>7, <1>8, <1>9, <1>10,
           <1>11, <1>12, <1>13, <1>14, <1>15 DEF Next, Step

LEMMA PromisedAtFirst == Init => RInv /\ Promise!Init
<1> SUFFICES ASSUME Init PROVE RInv /\ Promise!Init
  OBVIOUS
<1>1. /\ pc = "header" /\ page = 0 /\ status = <<>> /\ sent = <<>> /\ ~Begun
      /\ opened = FALSE /\ closed = FALSE
  BY Zenon DEF Init, Begun
<1>2. PICK driver \in Drivers, stream \in Streams, duplex \in BOOLEAN :
        job = [driver |-> driver, stream |-> stream, duplex |-> duplex,
               document |-> Document(driver, stream, duplex)]
  BY DEF Init
<1>3. /\ job.driver \in Drivers /\ job.stream \in Streams
      /\ job.duplex \in BOOLEAN
      /\ job.document = Document(job.driver, job.stream, job.duplex)
  BY <1>2
<1>4. Planned
  BY <1>1, <1>3 DEF Planned
<1>5. Bracketed
  BY <1>1, Zenon DEF Bracketed
<1>6. Papers
  <2>1. Promise!Number = 0 /\ Promise!Whole
    BY <1>1 DEF Promise!Number, Promise!Whole
  <2>2. ~OnPaper
    BY <1>1 DEF OnPaper
  <2> QED  BY <1>1, <2>1, <2>2 DEF Papers
<1>7. Signalled
  BY <1>1 DEF Signalled
<1>8. Promise!Init
  <2>1. job.document \in Seq(Seq(Int))
    BY <1>3, DocumentPages
  <2>2. job.driver.stores \in BOOLEAN
    BY <1>3, DriversAssumption
  <2>3. Opens \in BOOLEAN /\ Closes \in BOOLEAN
    BY Zenon DEF Opens, Closes
  <2> QED  BY <1>1, <2>1, <2>2, <2>3 DEF Promise!Init, Opens, Closes
<1> QED  BY <1>4, <1>5, <1>6, <1>7, <1>8 DEF RInv

(* The printer gets the document (the rastertoprinter loop with any of the *)
(* drivers' loops): page after page and line after line, each page whole   *)
(* before the next, whatever rows the driver repeats, leaves out, turns    *)
(* round or keeps in memory; the job is opened before the first page and   *)
(* closed behind the last; a SIGTERM cuts short the page that it hits and  *)
(* no line of a later page is printed.                                     *)
THEOREM FilterKeepsPromise ==
  Spec => Promise!Init /\ [][Promise!Next]_(Promise!vars)
<1>1. Init => IInv /\ RInv /\ Promise!Init
  BY Initially, PromisedAtFirst
<1>2. IInv /\ RInv /\ [Next]_vars => (IInv /\ RInv)' /\ [Promise!Next]_(Promise!vars)
  BY EveryStep, EveryStepPromised DEF Promised
<1> QED  BY <1>1, <1>2, PTL DEF Spec
=============================================================================
