----------------------------- MODULE WeaveRows -----------------------------
(***************************************************************************)
(* The weave parameters of a page, asked for row by row as the softweave   *)
(* and test/escp2-weavetest.c ask for them.  The properties are those the  *)
(* weave test looks for (its legend's letters are given), each said of the *)
(* whole page at once, and those the softweave's buffers depend on.        *)
(***************************************************************************)
EXTENDS Weave

CONSTANT Requests   (* the arguments stp_initialize_weave is called with *)

Positive == Nat \ {0}

ASSUME RequestsAssumption ==
  \A rq \in Requests :
    /\ {rq.jets, rq.osample, rq.v_subpasses, rq.v_subsample} \subseteq Positive
    /\ rq.sep \in Int /\ rq.first_line \in Nat
    /\ rq.line_count \in Positive /\ rq.page_height \in Int
    /\ rq.head_offset \in Seq(Nat)
    /\ rq.strategy \in Strategies
    /\ Accepted(rq)

VARIABLES
  request,  (* the page                                                    *)
  table,    (* its weave parameters, by row and subpass                    *)
  row       (* the row asked for                                           *)

vars == <<request, table, row>>

Init ==
  /\ request \in Requests
  /\ table = WeaveTable(request)
  /\ row = request.first_line

NextRow ==
  /\ row < LastLine(request)
  /\ row' = row + 1
  /\ UNCHANGED <<request, table>>

Next == NextRow

Spec == Init /\ [][Next]_vars

Lines == DOMAIN table

(* The lines of the row asked for.                                         *)
Here  == {l \in Lines : l[1] = row}

(* An image as tall as that many heads.                                    *)
Tall(rq, heads) == rq.line_count >= heads * (Separation(rq) * rq.jets)

(* The passes mapped at the top are none of those mapped at the bottom,    *)
(* which calculate_pass_map does not make sure of (its FIXME), or nothing  *)
(* has to be pulled up at the bottom.                                      *)
MapsApart(rq) ==
  LET pg  == PageOf(rq)
      map == PassMap(pg)
  IN  map.normal <= map.postmapped \/ ScanPostmapped(pg) = FirstUnusedPass(pg)

(* The pages on which the weave is proved to work (WeaveRowsProofs).       *)
Regular(rq, heads) ==
  rq.strategy # "ascending3x" /\ Tall(rq, heads) /\ MapsApart(rq)

(* A page printed once over, with data for a colour that does not lag      *)
(* behind and for the one that lags most, by no more than the image.       *)
AllRows(rq, cols) ==
  /\ RepeatCount(rq) = 1
  /\ cols \subseteq 1 .. NColors(rq)
  /\ MaxHeadOffset(rq) <= rq.line_count
  /\ \E c \in cols : HeadOffset(rq, c) = 0
  /\ \E c \in cols : HeadOffset(rq, c) = MaxHeadOffset(rq)
-----------------------------------------------------------------------------
(* Every line is printed by a jet of the head that lies on it while the    *)
(* head stands at the start of the pass, and not by one of the jets above  *)
(* the first row of the pass; the pass covers the line, and no jet of it   *)
(* leaves the page at the top or at the bottom (B, C, D, H, I, J, K, P).   *)
RowOnItsJet ==
  \A l \in Here :
    LET w == table[l]
    IN  /\ w.jet \in 0 .. request.jets - 1
        /\ w.logicalpassstart + Separation(request) * w.jet = row
        /\ w.missingstartrows \in 0 .. w.jet
        /\ row \in w.physpassstart .. w.physpassend
        /\ w.logicalpassstart >= 0
        /\ w.logicalpassstart + Separation(request) * (request.jets - 1)
             < request.page_height

(* All lines of a pass agree on where the pass starts and ends, on its     *)
(* ghost rows and on the subpass it prints: whichever line comes first     *)
(* stores them for the pass (F, G, L).                                     *)
PassAgrees ==
  \A l \in Here, m \in Lines :
    table[l].pass = table[m].pass =>
      /\ [table[l] EXCEPT !.jet = 0] = [table[m] EXCEPT !.jet = 0]
      /\ l[2] = m[2]

(* No jet of a pass prints two lines: no dots are printed over each other  *)
(* and none are left to a pass that has already used the jet (M).          *)
LinesApart ==
  \A l \in Here, m \in Lines :
    l # m => \/ table[l].pass # table[m].pass
             \/ table[l].jet # table[m].jet

(* "each pass must logically start at no smaller a row number than the     *)
(* previous pass, as the printer cannot advance by a negative amount" (Q). *)
StartsForward ==
  \A l \in Here, m \in Lines :
    table[l].pass < table[m].pass =>
      table[l].logicalpassstart <= table[m].logicalpassstart

(* "If pass x is not yet printed, pass x+vmod cannot be started": a bank   *)
(* is wanted by a later pass only after the last row of the pass that has  *)
(* it, in the order in which the rows come, the head offsets included (N). *)
BankFreeInTime ==
  \A l \in Here, m \in Lines :
    (/\ table[l].pass < table[m].pass
     /\ table[l].pass % VMod(request) = table[m].pass % VMod(request))
      => table[l].physpassend < m[1] - MaxHeadOffset(request)

(* The two halves of the raw weave, written independently of each other,   *)
(* agree: the pass that the row's formula names starts where the pass's    *)
(* formula says and prints that subpass; PassMap relies on it when it cuts *)
(* and sorts passes by their starts.                                       *)
RawHalvesAgree ==
  LET pg == PageOf(request)
  IN  \A s \in 0 .. Oversample(request) - 1 :
        LET raw == RawRowParameters(pg, row + BandRows(pg), s)
        IN  /\ RawStartRow(pg, raw.pass) = raw.startrow
            /\ RawSubpass(pg, raw.pass) = s
=============================================================================
