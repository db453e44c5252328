---------------------------- MODULE MCWeaveRows ----------------------------
(***************************************************************************)
(* The weave parameters of the pages of WeaveRequests, and of taller heads *)
(* on which the strategies differ more.                                    *)
(***************************************************************************)
EXTENDS WeaveRows, WeaveRequests

TallHeads == {PrintHead(5, 5, 1, 1, 1), PrintHead(6, 6, 1, 1, 1),
              PrintHead(6, 4, 3, 1, 1), PrintHead(8, 6, 2, 2, 1)}

TallRequests ==
  {Request(h, h.jets * h.sep + 20, top, bottom, <<0>>, s) :
     h \in TallHeads, top \in {0, 17}, bottom \in {0, 40}, s \in DriverStrategies}

(* The head of the Stylus Color 440, in single-pass printing.              *)
StylusColor440 ==
  {Request(PrintHead(21, 8, 1, 1, 1), 200, top, 0, <<0>>, "zigzag") : top \in {0, 30}}

(* Colours that lag behind, on images of three heads.                      *)
LaggingRequests ==
  {Request(PrintHead(2, 3, 1, 1, 1), 18, top, bottom, offsets, s) :
     top \in {0, 5}, bottom \in {0, 9}, offsets \in Offsets,
     s \in {"zigzag", "staggered"}}

PageRequests == StylusColor440 \union MonoRequests \union
                  ColorRequests \union LaggingRequests \union TallRequests

(* The theorems of WeaveRowsProofs are about most of these pages, and of   *)
(* the pages two heads tall about all.                                     *)
ASSUME PagesAreRegular ==
  /\ \A rq \in PageRequests :
       Tall(rq, 2) => Regular(rq, 2) /\ LastLine(rq) < rq.page_height
  /\ \E rq \in PageRequests : Tall(rq, 2)
  /\ \E rq \in PageRequests : ~Tall(rq, 2) /\ Regular(rq, 1)

(* The theorem that makes jobs of them, about all those whose colours lag. *)
ASSUME PagesMakeGoodJobs ==
  /\ \A rq \in LaggingRequests :
       /\ Regular(rq, 2)
       /\ rq.line_count >= Separation(rq) * (2 * rq.jets + 1)
       /\ AllRows(rq, DOMAIN rq.head_offset)
  /\ \E rq \in LaggingRequests : MaxHeadOffset(rq) > 0
=============================================================================
