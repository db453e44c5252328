------------------------------ MODULE RawWeave ------------------------------
(***************************************************************************)
(* The raw weave of src/main/print-weave.c: which pass of an infinitely    *)
(* tall page prints a given (row, subpass), with which jet, and where the  *)
(* head stands for that pass.  Rows are counted from one head height above *)
(* the page, so they are never negative.                                   *)
(*                                                                         *)
(* A raw weave w is a record with the fields separation (rows between two  *)
(* jets), jets, oversampling (passes over each row) and strategy.          *)
(***************************************************************************)
EXTENDS Integers

Strategies == {"zigzag", "ascending", "descending", "ascending2x",
               "staggered", "ascending3x"}

(* C's division and remainder, which truncate towards zero.  The post-map  *)
(* of a short page asks for passes with a negative number.                 *)
CDiv(a, b) == IF a >= 0 THEN a \div b ELSE -((-a) \div b)
CMod(a, b) == a - b * CDiv(a, b)

(* gcd() by what it computes: Euclid's loop on two positive integers.      *)
Gcd(x, y) ==
  LET Common == {d \in 1 .. x : x % d = 0 /\ y % d = 0}
  IN  CHOOSE d \in Common : \A e \in Common : e <= d

AdvanceBasis(w) ==
  LET a == w.jets \div w.oversampling IN IF a = 0 THEN 1 ELSE a

SubblocksPerPassblock(w) == Gcd(w.separation, AdvanceBasis(w))

PassesPerSubblock(w) == w.separation \div SubblocksPerPassblock(w)

(* A band is one head height of rows; it takes this many passes to fill.   *)
BandRows(w)   == w.separation * w.jets
BandPasses(w) == w.separation * w.oversampling

-----------------------------------------------------------------------------
(* Mutant of SubpassOffset: every strategy visits the rows in order.       *)
InOrderOffset(w, s, b) == b

(* Each strategy visits the s subblocks of a pass block in its own order:  *)
(* the row offset inside the pass block of the b-th subblock visited...    *)
SubpassOffset(w, s, b) ==
  LET t3 == b - (s + 2) \div 3
  IN  CASE w.strategy = "zigzag" ->
             IF 2 * b < s THEN 2 * b ELSE 2 * (s - b) - 1
        [] w.strategy = "ascending"  -> b
        [] w.strategy = "descending" -> s - 1 - b
        [] w.strategy = "ascending2x" ->
             IF 2 * b < s THEN 2 * b ELSE 1 + 2 * (b - (s + 1) \div 2)
        [] w.strategy = "ascending3x" ->
             IF 3 * b < s THEN 3 * b
             ELSE IF 3 * t3 < s - 2 THEN 2 + 3 * t3
             ELSE 1 + 3 * (t3 - s \div 3)
        [] w.strategy = "staggered" ->
             IF 2 * b < s THEN 2 * b
             ELSE IF 2 * b < s + 2 THEN 1
             ELSE 2 * (s - b) + 1

(* ... and the subblock that visits the row at offset o of the pass block. *)
SubpassBlock(w, s, o) ==
  CASE w.strategy = "zigzag" ->
         IF o % 2 = 0 THEN o \div 2 ELSE s - (o + 1) \div 2
    [] w.strategy = "ascending"  -> o
    [] w.strategy = "descending" -> s - 1 - o
    [] w.strategy = "ascending2x" ->
         IF o % 2 = 0 THEN o \div 2 ELSE (o - 1) \div 2 + (s + 1) \div 2
    [] w.strategy = "ascending3x" ->
         IF o % 3 = 0 THEN o \div 3
         ELSE IF o % 3 = 1 THEN (o - 1) \div 3 + (s + 2) \div 3
         ELSE (o - 2) \div 3 + (s + 2) \div 3 + (s + 1) \div 3
    [] w.strategy = "staggered" ->
         IF o % 2 = 0 THEN o \div 2
         ELSE IF o = 1 THEN (s + 1) \div 2
         ELSE s - (o - 1) \div 2

-----------------------------------------------------------------------------
(* calculate_raw_pass_parameters: where the head stands for a pass, and    *)
(* which subpass of its rows the pass prints.                              *)
RawStartRow(w, pass) ==
  LET inBand == CMod(pass, BandPasses(w))
      block  == CDiv(CMod(pass, w.separation) * SubblocksPerPassblock(w),
                     w.separation)
  IN  BandRows(w) * CDiv(pass, BandPasses(w)) + AdvanceBasis(w) * inBand
        + SubpassOffset(w, SubblocksPerPassblock(w), block)

RawSubpass(w, pass) == CDiv(CMod(pass, BandPasses(w)), w.separation)

(* calculate_raw_row_parameters: the pass and the jet that print a row in  *)
(* a subpass.  The code starts at the last pass whose head has reached the *)
(* row and steps back one pass at a time until a jet lies on the row, the  *)
(* pass prints this subpass and it visits the row's subblock; the result   *)
(* is the latest such pass.                                                *)

(* The distance, the code's `offset`, from the pass block at the head in   *)
(* pass p to the pass block that starts at blockRow.                       *)
Reach(w, blockRow, p) ==
  blockRow - (p \div BandPasses(w)) * BandRows(w)
    - AdvanceBasis(w) * (p % BandPasses(w))

(* Does pass p print this subpass of the subblock that lies at o in the    *)
(* pass block?                                                             *)
Prints(w, reach, o, subpass, p) ==
  LET inBand == p % BandPasses(w)
  IN  /\ reach >= 0
      /\ reach % w.separation = 0
      /\ inBand \div w.separation = subpass
      /\ (inBand % w.separation) \div PassesPerSubblock(w)
           = SubpassBlock(w, SubblocksPerPassblock(w), o)

RawPass(w, blockRow, o, subpass) ==
  LET candidates ==
        {p \in 0 .. (blockRow \div BandRows(w) + 1) * BandPasses(w) - 1 :
           Prints(w, Reach(w, blockRow, p), o, subpass, p)}
  IN  CHOOSE p \in candidates : \A q \in candidates : q <= p

RawRow(w, row, pass, reach) ==
  LET jet == (reach \div w.separation) % w.jets
  IN  [pass |-> pass, jet |-> jet, startrow |-> row - jet * w.separation]

RawRowParameters(w, row, subpass) ==
  LET o        == row % SubblocksPerPassblock(w)
      blockRow == row - o
      pass     == RawPass(w, blockRow, o, subpass)
  IN  RawRow(w, row, pass, Reach(w, blockRow, pass))
=============================================================================
