--------------------------- MODULE WeaveRequests ---------------------------
(***************************************************************************)
(* Pages small enough for TLC: heads of a few jets, one to three colours,  *)
(* one to four passes over a row, every strategy of the ESC/P2 driver.     *)
(***************************************************************************)
EXTENDS Weave, SequencesExt

(* Room below the image for the colours that lag behind.                   *)
SumSeq(s) == FoldSeq(LAMBDA a, b : a + b, 0, s)

(* An image of the given height on a page, with margins at its top and its *)
(* bottom; a page holds at least two head heights.                         *)
Request(head, height, top, bottom, offsets, strategy) ==
  LET tall   == head.jets * head.sep
      length == top + height + SumSeq(offsets) + bottom
  IN  [jets |-> head.jets, sep |-> head.sep, osample |-> head.osample,
       v_subpasses |-> head.vsub, v_subsample |-> head.vsample,
       line_count |-> height, first_line |-> top,
       page_height |-> IF length < 2 * tall THEN 2 * tall ELSE length,
       head_offset |-> offsets, strategy |-> strategy]

PrintHead(jets, sep, osample, vsub, vsample) ==
  [jets |-> jets, sep |-> sep, osample |-> osample, vsub |-> vsub,
   vsample |-> vsample]

Heads == {PrintHead(2, 3, 1, 1, 1), PrintHead(3, 3, 1, 1, 1),
          PrintHead(3, 2, 2, 1, 1), PrintHead(4, 2, 1, 2, 1),
          PrintHead(2, 2, 1, 1, 2), PrintHead(4, 4, 1, 1, 1)}

(* The driver's strategies: escp2_print_page knows all but ascending3x.    *)
DriverStrategies == Strategies \ {"ascending3x"}

(* Images of one head height and of nearly three, in one colour.           *)
MonoRequests ==
  UNION {{Request(h, height, top, bottom, <<0>>, s) :
            height \in {h.jets * h.sep, 3 * h.jets * h.sep - 2}, top \in {0, 5},
            bottom \in {0, 9}, s \in DriverStrategies} : h \in Heads}

(* Two or three colours: level with each other, or lagging behind as on    *)
(* the C80 and F360.                                                       *)
ColorHeads == {PrintHead(2, 3, 1, 1, 1), PrintHead(3, 2, 2, 1, 1)}

Offsets == {<<0, 0>>, <<0, 2>>, <<0, 3>>, <<6, 0, 12>>}

ColorRequests ==
  {Request(h, 12, top, bottom, offsets, s) :
     h \in ColorHeads, top \in {0, 5}, bottom \in {0, 9}, offsets \in Offsets,
     s \in {"zigzag", "descending"}}
=============================================================================
