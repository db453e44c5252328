------------------------------- MODULE Weave -------------------------------
(***************************************************************************)
(* The set-up of a softweave (stp_initialize_weave) and its weave          *)
(* parameters by row, in src/main/print-weave.c.                           *)
(*                                                                         *)
(* A request rq holds the arguments of stp_initialize_weave: jets, sep,    *)
(* osample, v_subpasses, v_subsample, line_count, first_line, page_height, *)
(* head_offset (a sequence, one entry per colour) and strategy.            *)
(***************************************************************************)
EXTENDS PassMap

(* How many times a pass is repeated: more passes over a row than the head *)
(* has jets are folded by the first divisor of osample that makes them fit.*)
RepeatCounts(rq) ==
  LET all == rq.osample * rq.v_subpasses * rq.v_subsample
  IN  IF all <= rq.jets THEN {1}
      ELSE {i \in 2 .. rq.osample : /\ rq.osample % i = 0
                                    /\ all \div i <= rq.jets
                                    /\ (rq.osample \div i) * rq.v_subpasses
                                         * rq.v_subsample <= rq.jets}

(* The requests stp_initialize_weave accepts; it refuses the others.       *)
Accepted(rq) == RepeatCounts(rq) # {}

(* Numbers below 1 stand for 1; requests are given with such made 1, but   *)
(* for the separation, which a single jet does not have.                   *)
Separation(rq) == IF rq.jets = 1 \/ rq.sep < 1 THEN 1 ELSE rq.sep

RepeatCount(rq) ==
  CHOOSE i \in RepeatCounts(rq) : \A k \in RepeatCounts(rq) : i <= k

Oversample(rq) ==
  (rq.osample \div RepeatCount(rq)) * rq.v_subpasses * rq.v_subsample

NColors(rq) == Len(rq.head_offset)

(* Monochrome printing ignores the head offset.                            *)
HeadOffset(rq, j) == IF NColors(rq) > 1 THEN rq.head_offset[j] ELSE 0

MaxHeadOffset(rq) ==
  CHOOSE m \in {0} \union {HeadOffset(rq, j) : j \in 1 .. NColors(rq)} :
    \A j \in 1 .. NColors(rq) : HeadOffset(rq, j) <= m

(* The jets of a line buffer: enough for the colour that lags most.        *)
VirtualJets(rq) ==
  LET sep == Separation(rq)
  IN  rq.jets + (MaxHeadOffset(rq) + sep - 1) \div sep

(* Mutant of VMod: no room for the next head height's passes.              *)
HalfVMod(rq) == Separation(rq) * Oversample(rq) * RepeatCount(rq)

(* The number of passes that may be unfinished at a time.                  *)
VMod(rq) ==
  LET banks == (VirtualJets(rq) + rq.jets - 1) \div rq.jets
  IN  2 * Separation(rq) * Oversample(rq) * RepeatCount(rq)
        * (IF VirtualJets(rq) > rq.jets THEN banks ELSE 1)

LastLine(rq) == rq.first_line + rq.line_count - 1 + MaxHeadOffset(rq)

(* initialize_weave_params *)
PageOf(rq) ==
  [separation |-> Separation(rq), jets |-> rq.jets,
   oversampling |-> Oversample(rq), strategy |-> rq.strategy,
   first |-> rq.first_line, last |-> LastLine(rq), height |-> rq.page_height]

-----------------------------------------------------------------------------
(* Mutant of JetsOver: a jet level with the edge counts as over it.        *)
JetsLevel(sep, rows) == IF rows >= 0 THEN (rows + sep) \div sep ELSE 0

(* How many jets reach out over an edge by this many rows.                 *)
JetsOver(sep, rows) == IF rows > 0 THEN (rows + sep - 1) \div sep ELSE 0

(* The page's number of a raw pass, and its stagger: map is the page's     *)
(* PassMap.                                                                *)
Cooked(map, pass) ==
  IF pass < map.normal THEN map.premap[pass]
  ELSE IF pass >= map.postmapped THEN map.postmap[pass]
  ELSE [pass |-> pass - map.premapped, stagger |-> 0]

(* stpi_calculate_row_parameters and the part of weave_parameters_by_row   *)
(* behind its cache, for a row printed by the raw pass and jet raw.        *)
(* missing counts the jets above the first row that this pass prints.      *)
PassParameters(pg, raw, cooked) ==
  LET sep   == pg.separation
      start == raw.startrow - BandRows(pg) + cooked.stagger * sep
      up    == IF cooked.stagger < 0 THEN -cooked.stagger ELSE 0
      down  == IF cooked.stagger > 0 THEN cooked.stagger ELSE 0
      above == JetsOver(sep, pg.first - (start + sep * up))
      last  == start + sep * (pg.jets - down - 1)
  IN  [pass             |-> cooked.pass,
       jet              |-> raw.jet - cooked.stagger,
       missingstartrows |-> up + above,
       logicalpassstart |-> start,
       physpassstart    |-> start + sep * (up + above),
       physpassend      |-> last - sep * JetsOver(sep, last - pg.last)]

RowParameters(pg, map, row, subpass) ==
  LET raw == RawRowParameters(pg, row + BandRows(pg), subpass)
  IN  PassParameters(pg, raw, Cooked(map, raw.pass))

(* weave_parameters_by_row over the whole page: the cache it keeps of its  *)
(* last answer is keyed by both arguments and changes no answer.  A        *)
(* repeated pass takes a page pass number of its own per repetition.       *)
WeaveTable(rq) ==
  LET pg   == PageOf(rq)
      map  == PassMap(pg)
      rep  == RepeatCount(rq)
      rows == rq.first_line .. LastLine(rq)
      base == [l \in rows \X (0 .. Oversample(rq) - 1) |->
                 RowParameters(pg, map, l[1], l[2])]
  IN  [l \in rows \X (0 .. Oversample(rq) * rep - 1) |->
         [base[<<l[1], l[2] \div rep>>] EXCEPT !.pass = @ * rep + (l[2] % rep)]]

-----------------------------------------------------------------------------
(* What the softweave keeps of a request: cols are the colours the driver  *)
(* hands data for (cols[j] is not NULL), ink the rows with dots on them.   *)
JobOf(rq, cols, ink) ==
  [separation |-> Separation(rq), jets |-> rq.jets,
   virtual_jets |-> VirtualJets(rq), vmod |-> VMod(rq),
   oversample |-> Oversample(rq), h_passes |-> rq.osample * rq.v_subpasses,
   vertical_oversample |-> rq.v_subsample, ncolors |-> NColors(rq),
   head_offset |-> [j \in 1 .. NColors(rq) |-> HeadOffset(rq, j)],
   firstline |-> rq.first_line,
   lastline |-> rq.first_line + rq.line_count - 1,
   cols |-> cols, ink |-> ink, weave |-> WeaveTable(rq)]
=============================================================================
