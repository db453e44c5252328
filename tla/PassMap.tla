------------------------------ MODULE PassMap ------------------------------
(***************************************************************************)
(* The cooked weave of src/main/print-weave.c: the raw weave cut to one    *)
(* page.  Passes that would need the head above the top or below the       *)
(* bottom of the page are pulled back onto it by whole jet separations     *)
(* (their stagger), and the passes of the page are renumbered from 0 in    *)
(* the order in which the head reaches them.                               *)
(*                                                                         *)
(* A page pg is a raw weave (RawWeave) with the fields first, last (the    *)
(* rows printed) and height (the rows of the page) besides.                *)
(***************************************************************************)
EXTENDS RawWeave, Sequences, FiniteSets

(* The loops of calculate_pass_map: the first pass from p on whose start   *)
(* row satisfies Stop.                                                     *)
ScanPasses(pg, p, Stop(_)) ==
  LET scan[q \in Nat] == IF Stop(RawStartRow(pg, q)) THEN q ELSE scan[q + 1]
  IN  scan[p]

(* Mutant of PageHeight: the page is one row taller than it is.            *)
TallerPage(pg) == pg.height + 1

PageHeight(pg) == IF pg.height <= pg.last THEN pg.last + 1 ELSE pg.height

FirstPremappedPass(pg) ==
  LET Stop(start) == start - pg.separation >= pg.first
  IN  ScanPasses(pg, 0, Stop)

BelowPage(pg, start) == start - pg.separation >= PageHeight(pg)
Unused(pg, start)    == start > pg.last + BandRows(pg)

(* The scans' results, before calculate_pass_map widens the two maps.      *)
ScanNormal(pg) ==
  LET Stop(start) == \/ start >= BandRows(pg)
                     \/ BelowPage(pg, start)
                     \/ Unused(pg, start)
  IN  ScanPasses(pg, FirstPremappedPass(pg), Stop)

ScanPostmapped(pg) ==
  LET Stop(start) == BelowPage(pg, start) \/ Unused(pg, start)
  IN  ScanPasses(pg, ScanNormal(pg), Stop)

FirstUnusedPass(pg) ==
  LET Stop(start) == Unused(pg, start)
  IN  ScanPasses(pg, ScanPostmapped(pg), Stop)

-----------------------------------------------------------------------------
(* Mutant of SortByStartRow: the passes keep the order of the raw weave.   *)
Unsorted(s) == s

(* sort_by_start_row: a stable sort on the start row; as many entries come *)
(* before one as have a smaller start, or the same and a smaller index.    *)
SortByStartRow(s) ==
  LET Before(a, b) == \/ s[a].start < s[b].start
                      \/ s[a].start = s[b].start /\ a < b
      place == [k \in DOMAIN s |->
                  Cardinality({a \in DOMAIN s : Before(a, k)}) + 1]
  IN  [i \in DOMAIN s |-> s[CHOOSE k \in DOMAIN s : place[k] = i]]

(* calculate_stagger: how many jet separations an entry was pulled back.   *)
Stagger(pg, entry) ==
  CDiv(entry.start - (RawStartRow(pg, entry.raw) - BandRows(pg)), pg.separation)

(* Mutants of InvertMap: the passes are numbered as if the first raw pass  *)
(* were the page's first; from 1 and not from 0.                           *)
InvertMapUnshifted(pg, placed, lo) ==
  [p \in lo .. lo + Len(placed) - 1 |->
    LET i == CHOOSE k \in DOMAIN placed : placed[k].raw = p
    IN  [pass |-> (i - 1) + lo, stagger |-> Stagger(pg, placed[i])]]
InvertMapFromOne(pg, placed, lo) ==
  [p \in lo .. lo + Len(placed) - 1 |->
    LET i == CHOOSE k \in DOMAIN placed : placed[k].raw = p
    IN  [pass |-> i + lo - FirstPremappedPass(pg),
         stagger |-> Stagger(pg, placed[i])]]

(* invert_map: gives the raw passes, which start with lo, the page pass    *)
(* number of their place in the order of the starts, and their stagger.    *)
InvertMap(pg, placed, lo) ==
  [p \in lo .. lo + Len(placed) - 1 |->
    LET i == CHOOSE k \in DOMAIN placed : placed[k].raw = p
    IN  [pass    |-> (i - 1) + lo - FirstPremappedPass(pg),
         stagger |-> Stagger(pg, placed[i])]]

(* Where the head would have to stand for a pass, pulled onto the page;    *)
(* counted upwards from maximal, the lowest row it may stand on, or down   *)
(* from the top of the page if maximal is -1.                              *)
OnPage(pg, maximal, p) ==
  LET start == RawStartRow(pg, p) - BandRows(pg)
      s     == IF maximal >= 0 THEN maximal - start ELSE start
  IN  IF s < 0 THEN s % pg.separation ELSE s

(* The entries from the first to the last are spread over separations + 1  *)
(* jet separations, turn and turn about.                                   *)
SpreadOut(pg, entries, first, last, separations) ==
  [i \in DOMAIN entries |->
    LET slot == (i - first) % (separations + 1)
        s    == entries[i].start
    IN  IF i \in first .. last /\ s \div pg.separation < slot
        THEN [entries[i] EXCEPT !.start = (s % pg.separation) + pg.separation * slot]
        ELSE entries[i]]

FromMaximal(entries, maximal) ==
  [i \in DOMAIN entries |->
    IF maximal >= 0 THEN [entries[i] EXCEPT !.start = maximal - @]
                    ELSE entries[i]]

(* make_passmap: maps the raw passes lo .. hi-1, spreading the ones from   *)
(* sLo up to sHi-1.                                                        *)
MakePassMap(pg, lo, hi, sLo, sHi, maximal, separations) ==
  LET entries == SortByStartRow([i \in 1 .. hi - lo |->
                   [raw |-> lo + i - 1, start |-> OnPage(pg, maximal, lo + i - 1)]])
      spread  == SpreadOut(pg, entries, sLo - lo + 1, sHi - lo, separations)
  IN  InvertMap(pg, SortByStartRow(FromMaximal(spread, maximal)), lo)

(* calculate_pass_map.  normal and postmapped are the bounds after the     *)
(* passes that the spread rows displace have joined the maps.              *)
PassMap(pg) ==
  LET adv        == AdvanceBasis(pg)
      premapped  == FirstPremappedPass(pg)
      scanNormal == ScanNormal(pg)
      scanPost   == ScanPostmapped(pg)
      unused     == FirstUnusedPass(pg)
      topSeps    == pg.first \div pg.separation
      botSeps    == (PageHeight(pg) - pg.last - 1) \div pg.separation
      topMapped  == ((topSeps + 1) * pg.separation + adv - 1) \div adv
      botMapped  == ((botSeps + 1) * pg.separation + adv) \div adv
      hasPremap  == scanNormal > premapped
      normal     == IF hasPremap THEN scanNormal + topMapped ELSE scanNormal
      post       == scanPost - botMapped
      maximal    == PageHeight(pg) - 1 - pg.separation * (pg.jets - 1)
  IN  [premapped  |-> premapped,
       normal     |-> normal,
       postmapped |-> post,
       premap     |-> IF hasPremap
                      THEN MakePassMap(pg, premapped, normal, premapped,
                                       scanNormal, -1, topSeps)
                      ELSE << >>,
       postmap    |-> MakePassMap(pg, post, unused, scanPost, unused,
                                  maximal, botSeps)]
=============================================================================
