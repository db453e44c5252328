----------------------------- MODULE ListProofs -----------------------------
(***************************************************************************)
(* What TLAPS proves of the linked list, for lists of any length that are  *)
(* only appended to, as all the callers do: the links are those of a       *)
(* sequence, and every look-up, whatever is cached and wherever a walk     *)
(* begins, answers as that sequence does.                                  *)
(*                                                                         *)
(* The walks are recursive functions.  Each is shown to be a function that *)
(* is written down without recursion: that one solves the equation, and a  *)
(* solution that were another would differ from it in a least place.       *)
(***************************************************************************)
EXTENDS List, SequenceTheorems, FiniteSetTheorems, WellFoundedInduction, TLAPS

(* The sequence q is the list: its items are linked in this order.         *)
Linked(q) ==
  /\ q \in Seq(Items) /\ Len(q) = length
  /\ Live = {q[k] : k \in 1 .. length}
  /\ \A j, k \in 1 .. length : q[j] = q[k] => j = k
  /\ start = IF length = 0 THEN NULL ELSE q[1]
  /\ end = IF length = 0 THEN NULL ELSE q[length]
  /\ \A k \in 1 .. length :
       /\ node[q[k]].prev = IF k = 1 THEN NULL ELSE q[k - 1]
       /\ node[q[k]].next = IF k = length THEN NULL ELSE q[k + 1]

Node == [data : Names, prev : ItemOrNull, next : ItemOrNull]

Typed ==
  /\ node \in [Live -> Node]
  /\ name_cache \in Names \union {NULL}
  /\ name_cache_node \in Live \union {NULL}
  /\ answer \in Live \union {NULL}

(* What the index cache holds is right, or nothing that a walk begins at.  *)
IndexCached ==
  IF index_cache_node = NULL THEN index_cache \in {-1, 0, length}
  ELSE /\ index_cache \in 0 .. length - 1
       /\ index_cache_node = Order[index_cache + 1]

IInv == Typed /\ Linked(Order) /\ IndexCached

-----------------------------------------------------------------------------
(* Recursive functions.                                                    *)

(* A set of naturals that is not empty has a least element.                *)
LEMMA LeastMember ==
  ASSUME NEW S \in SUBSET Nat, S # {}
  PROVE  \E x \in S : \A z \in S : x <= z
<1> DEFINE R == StrictSubsetOrdering(Nat)
           T == {0 .. x : x \in S}
<1>1. IsWellFoundedOn(R, FiniteSubsetsOf(Nat))
  BY FS_StrictSubsetOrderingWellFounded
<1>2. T \subseteq FiniteSubsetsOf(Nat)
  <2>1. \A x \in S : 0 .. x \subseteq Nat /\ IsFiniteSet(0 .. x)
    BY FS_Interval
  <2> QED  BY <2>1 DEF FiniteSubsetsOf
<1>3. T # {}
  OBVIOUS
<1> HIDE DEF R
<1>4. PICK t \in T : \A u \in T : <<u, t>> \notin R
  BY <1>1, <1>2, <1>3, WFMin
<1>5. PICK x \in S : t = 0 .. x
  BY <1>4
<1>6. ASSUME NEW z \in S, z < x PROVE FALSE
  <2>1. x \in 0 .. x /\ x \notin 0 .. z
    BY <1>6
  <2>2. 0 .. z \subseteq 0 .. x /\ 0 .. z # 0 .. x
    BY <1>6, <2>1
  <2>3. <<0 .. z, 0 .. x>> \in R
    BY <2>2 DEF R, StrictSubsetOrdering
  <2> QED  BY <2>3, <1>4, <1>5
<1> QED  BY <1>6

(* f and g agree at a place if they agree at the one before.               *)
GoAlike(low, n, f, g) ==
  /\ f = [k \in low .. n |-> f[k]]
  /\ g = [k \in low .. n |-> g[k]]
  /\ \A k \in low .. n : (k > low => f[k - 1] = g[k - 1]) => f[k] = g[k]

(* Functions that go alike are the same.                                   *)
LEMMA SameFunction ==
  ASSUME NEW low \in Nat, NEW n \in Nat, NEW f, NEW g, GoAlike(low, n, f, g)
  PROVE  f = g
<1> USE DEF GoAlike
<1> DEFINE S == {k \in low .. n : f[k] # g[k]}
<1>1. CASE S # {}
  <2>1. S \in SUBSET Nat
    OBVIOUS
  <2>2. PICK x \in S : \A z \in S : x <= z
    BY <1>1, <2>1, LeastMember
  <2>3. x \in low .. n /\ f[x] # g[x]
    OBVIOUS
  <2>4. x > low => f[x - 1] = g[x - 1]
    <3>1. x > low => x - 1 \in low .. n /\ ~(x <= x - 1)
      BY <2>3
    <3>2. x > low => x - 1 \notin S
      BY <2>2, <3>1
    <3> QED  BY <3>1, <3>2
  <2> QED  BY <2>3, <2>4
<1>2. CASE S = {}
  <2>1. \A k \in low .. n : f[k] = g[k]
    BY <1>2
  <2>2. [k \in low .. n |-> f[k]] = [k \in low .. n |-> g[k]]
    BY <2>1
  <2> QED  BY <2>2, Zenon
<1> QED  BY <1>1, <1>2

-----------------------------------------------------------------------------
(* The items in the order of their next pointers.                          *)
OrderFrom(links, first, n) ==
  LET at[k \in 1 .. n] ==
        IF k = 1 THEN first
        ELSE IF at[k - 1] = NULL THEN NULL ELSE links[at[k - 1]].next
  IN  at

(* In q, each item's next is the one after it.                             *)
Chain(links, first, n, q) ==
  /\ q = [k \in 1 .. n |-> q[k]]
  /\ n > 0 => q[1] = first
  /\ \A k \in 1 .. n : q[k] # NULL
  /\ \A k \in 1 .. n : k < n => links[q[k]].next = q[k + 1]

(* A chain is what Order makes of the links.                               *)
LEMMA OrderOfChain ==
  ASSUME NEW links, NEW first, NEW n \in Nat, NEW q, Chain(links, first, n, q)
  PROVE  OrderFrom(links, first, n) = q
<1> USE DEF Chain
<1> DEFINE Right(f) ==
             f = [k \in 1 .. n |->
                   IF k = 1 THEN first
                   ELSE IF f[k - 1] = NULL THEN NULL ELSE links[f[k - 1]].next]
           f == OrderFrom(links, first, n)
<1>1. f = CHOOSE g : Right(g)
  BY Zenon DEF OrderFrom
<1>2. Right(q)
  <2>1. ASSUME NEW k \in 1 .. n
        PROVE  q[k] = IF k = 1 THEN first
                      ELSE IF q[k - 1] = NULL THEN NULL
                           ELSE links[q[k - 1]].next
    <3>1. CASE k = 1
      BY <3>1
    <3>2. CASE k # 1
      <4> DEFINE j == k - 1
      <4>1. j \in 1 .. n /\ j < n /\ j + 1 = k
        BY <3>2
      <4> HIDE DEF j
      <4>2. q[j] # NULL /\ links[q[j]].next = q[j + 1]
        BY <4>1
      <4>3. q[j] # NULL /\ links[q[j]].next = q[k]
        BY <4>1, <4>2, Zenon
      <4> QED  BY <3>2, <4>3 DEF j
    <3> QED  BY <3>1, <3>2
  <2>2. [k \in 1 .. n |-> q[k]] =
          [k \in 1 .. n |-> IF k = 1 THEN first
                            ELSE IF q[k - 1] = NULL THEN NULL
                                 ELSE links[q[k - 1]].next]
    BY <2>1, Zenon
  <2> QED  BY <2>2, Zenon
<1> HIDE DEF f
<1>3. Right(f)
  <2> HIDE DEF Right
  <2> QED  BY <1>1, <1>2
<1>4. \A k \in 1 .. n :
        f[k] = IF k = 1 THEN first
               ELSE IF f[k - 1] = NULL THEN NULL ELSE links[f[k - 1]].next
  <2>1. f = [k \in 1 .. n |->
                   IF k = 1 THEN first
                   ELSE IF f[k - 1] = NULL THEN NULL ELSE links[f[k - 1]].next]
    BY <1>3
  <2> QED  BY <2>1, Zenon
<1>5. \A k \in 1 .. n :
        q[k] = IF k = 1 THEN first
               ELSE IF q[k - 1] = NULL THEN NULL ELSE links[q[k - 1]].next
  <2>1. q = [k \in 1 .. n |->
                   IF k = 1 THEN first
                   ELSE IF q[k - 1] = NULL THEN NULL ELSE links[q[k - 1]].next]
    BY <1>2
  <2> QED  BY <2>1, Zenon
<1>6. f = [k \in 1 .. n |-> f[k]]
  <2>1. DOMAIN f = 1 .. n
    BY <1>3, Zenon
  <2>2. f = [k \in DOMAIN f |-> f[k]]
    BY <1>3
  <2> QED  BY <2>1, <2>2, Zenon
<1> HIDE DEF Right
<1>7. \A k \in 1 .. n : (k > 1 => f[k - 1] = q[k - 1]) => f[k] = q[k]
  <2> TAKE k \in 1 .. n
  <2>1. CASE k = 1
    BY <1>4, <1>5, <2>1
  <2>2. CASE k # 1
    <3>1. k > 1
      BY <2>2
    <3>2. f[k] = IF f[k - 1] = NULL THEN NULL ELSE links[f[k - 1]].next
      BY <1>4, <2>2, Zenon
    <3>3. q[k] = IF q[k - 1] = NULL THEN NULL ELSE links[q[k - 1]].next
      BY <1>5, <2>2, Zenon
    <3> QED  BY <3>1, <3>2, <3>3, Zenon
  <2> QED  BY <2>1, <2>2
<1>8. f = q
  <2>1. GoAlike(1, n, f, q)
    BY <1>6, <1>7, Zenon DEF GoAlike
  <2> QED  BY <2>1, SameFunction
<1> QED  BY <1>8 DEF f

(* The sequence that the items are linked in is their order.               *)
LEMMA OrderOfLinks ==
  ASSUME NEW links, NEW first, NEW n \in Nat, NEW q \in Seq(Items), Len(q) = n,
         first = IF n = 0 THEN NULL ELSE q[1],
         \A k \in 1 .. n : links[q[k]].next = IF k = n THEN NULL ELSE q[k + 1]
  PROVE  OrderFrom(links, first, n) = q
<1>1. q = [k \in 1 .. n |-> q[k]]
  <2>1. q = [k \in DOMAIN q |-> q[k]]
    OBVIOUS
  <2> QED  BY <2>1
<1>2. n > 0 => q[1] = first
  OBVIOUS
<1>3. \A k \in 1 .. n : q[k] # NULL
  BY ListAssumption
<1>4. \A k \in 1 .. n : k < n => links[q[k]].next = q[k + 1]
  OBVIOUS
<1>5. Chain(links, first, n, q)
  BY <1>1, <1>2, <1>3, <1>4, Zenon DEF Chain
<1> QED  BY <1>5, OrderOfChain

(* Order is the sequence that the items are linked in.                     *)
LEMMA OrderIs ==
  ASSUME NEW q, Linked(q)
  PROVE  Order = q /\ length \in Nat
<1>1. Order = OrderFrom(node, start, length)
  BY DEF Order, OrderFrom
<1>2. length \in Nat /\ q \in Seq(Items) /\ Len(q) = length
  BY DEF Linked
<1>3. start = IF length = 0 THEN NULL ELSE q[1]
  BY DEF Linked
<1>4. \A k \in 1 .. length :
        node[q[k]].next = IF k = length THEN NULL ELSE q[k + 1]
  BY DEF Linked
<1>5. OrderFrom(node, start, length) = q
  BY <1>2, <1>3, <1>4, OrderOfLinks
<1> QED  BY <1>1, <1>2, <1>5

(* So it is after a step.                                                  *)
LEMMA OrderWillBe ==
  ASSUME NEW CONSTANT q, Linked(q)'
  PROVE  Order' = q /\ length' \in Nat
<1>1. Order' = OrderFrom(node', start', length')
  BY DEF Order, OrderFrom
<1>2. length' \in Nat /\ q \in Seq(Items) /\ Len(q) = length'
  BY DEF Linked
<1>3. start' = IF length' = 0 THEN NULL ELSE q[1]
  BY DEF Linked
<1>4. \A k \in 1 .. length' :
        node'[q[k]].next = IF k = length' THEN NULL ELSE q[k + 1]
  BY DEF Linked
<1>5. OrderFrom(node', start', length') = q
  BY <1>2, <1>3, <1>4, OrderOfLinks
<1> QED  BY <1>1, <1>2, <1>5

-----------------------------------------------------------------------------
(* The walks by index.                                                     *)
WalkFrom(links, n, i, item, idx, back) ==
  LET at[k \in 0 .. n + 1] ==
        IF k = 0 THEN [index |-> i, item |-> item]
        ELSE LET p == at[k - 1]
             IN  IF p.item = NULL \/ p.index = idx THEN p
                 ELSE IF back
                 THEN [index |-> p.index - 1, item |-> links[p.item].prev]
                 ELSE [index |-> p.index + 1, item |-> links[p.item].next]
  IN  at[n + 1]

(* One round of the walk.                                                  *)
Round(links, p, idx, back) ==
  IF p.item = NULL \/ p.index = idx THEN p
  ELSE IF back THEN [index |-> p.index - 1, item |-> links[p.item].prev]
  ELSE [index |-> p.index + 1, item |-> links[p.item].next]

(* The function w goes round by round.                                     *)
GoesRound(links, n, i, item, idx, back, w) ==
  /\ w = [k \in 0 .. n + 1 |-> w[k]]
  /\ w[0] = [index |-> i, item |-> item]
  /\ \A k \in 1 .. n + 1 : w[k] = Round(links, w[k - 1], idx, back)

(* A function that goes round by round is the walk.                        *)
LEMMA WalkOfRounds ==
  ASSUME NEW links, NEW n \in Nat, NEW i, NEW item, NEW idx, NEW back, NEW w,
         GoesRound(links, n, i, item, idx, back, w)
  PROVE  WalkFrom(links, n, i, item, idx, back) = w[n + 1]
<1> DEFINE Right(f) ==
             f = [k \in 0 .. n + 1 |->
                   IF k = 0 THEN [index |-> i, item |-> item]
                   ELSE Round(links, f[k - 1], idx, back)]
           f == CHOOSE g : Right(g)
<1> USE DEF GoesRound
<1>1. WalkFrom(links, n, i, item, idx, back) = f[n + 1]
  BY Zenon DEF WalkFrom, Round
<1>2. Right(w)
  <2>1. \A k \in 0 .. n + 1 :
          w[k] = IF k = 0 THEN [index |-> i, item |-> item]
                 ELSE Round(links, w[k - 1], idx, back)
    <3> TAKE k \in 0 .. n + 1
    <3>1. CASE k = 0
      BY <3>1
    <3>2. CASE k # 0
      <4>1. k \in 1 .. n + 1
        BY <3>2
      <4> QED  BY <3>2, <4>1, Zenon
    <3> QED  BY <3>1, <3>2
  <2>2. [k \in 0 .. n + 1 |-> w[k]] =
          [k \in 0 .. n + 1 |->
            IF k = 0 THEN [index |-> i, item |-> item]
            ELSE Round(links, w[k - 1], idx, back)]
    BY <2>1, Zenon
  <2> QED  BY <2>2, Zenon
<1>3. Right(f)
  <2> HIDE DEF Right
  <2> QED  BY <1>2
<1> HIDE DEF f
<1>4. \A k \in 0 .. n + 1 :
        f[k] = IF k = 0 THEN [index |-> i, item |-> item]
               ELSE Round(links, f[k - 1], idx, back)
  <2>1. f = [k \in 0 .. n + 1 |->
                   IF k = 0 THEN [index |-> i, item |-> item]
                   ELSE Round(links, f[k - 1], idx, back)]
    BY <1>3
  <2> QED  BY <2>1, Zenon
<1>5. f = [k \in 0 .. n + 1 |-> f[k]]
  <2>1. DOMAIN f = 0 .. n + 1
    BY <1>3, Zenon
  <2>2. f = [k \in DOMAIN f |-> f[k]]
    BY <1>3
  <2> QED  BY <2>1, <2>2, Zenon
<1> HIDE DEF Right
<1>6. \A k \in 0 .. n + 1 : (k > 0 => f[k - 1] = w[k - 1]) => f[k] = w[k]
  <2> TAKE k \in 0 .. n + 1
  <2>1. CASE k = 0
    BY <1>4, <2>1
  <2>2. CASE k # 0
    <3>1. k > 0 /\ k \in 1 .. n + 1
      BY <2>2
    <3>2. f[k] = Round(links, f[k - 1], idx, back)
      BY <1>4, <2>2, Zenon
    <3>3. w[k] = Round(links, w[k - 1], idx, back)
      BY <3>1
    <3> QED  BY <3>1, <3>2, <3>3, Zenon
  <2> QED  BY <2>1, <2>2
<1>7. GoAlike(0, n + 1, f, w)
  BY <1>5, <1>6, Zenon DEF GoAlike
<1>8. f = w
  BY <1>7, SameFunction
<1> QED  BY <1>1, <1>8

(* The item of q at an index from 0; NULL before the first, after the last. *)
At(q, j) == IF j \in 0 .. Len(q) - 1 THEN q[j + 1] ELSE NULL

(* The links of q, by At.                                                  *)
LEMMA LinksOfItems ==
  ASSUME NEW q, Linked(q), NEW j \in 0 .. length - 1
  PROVE  /\ At(q, j) \in Items /\ At(q, j) \in Live /\ At(q, j) # NULL
         /\ node[At(q, j)].prev = At(q, j - 1)
         /\ node[At(q, j)].next = At(q, j + 1)
<1> DEFINE k == j + 1
<1>1. q \in Seq(Items) /\ Len(q) = length /\ length \in Nat
  BY DEF Linked
<1>2. k \in 1 .. length /\ (k = 1 <=> j = 0) /\ (k = length <=> j = length - 1)
  BY <1>1
<1>3. At(q, j) = q[k]
  BY <1>1 DEF At
<1>4. At(q, j - 1) = IF k = 1 THEN NULL ELSE q[k - 1]
  <2>1. (j - 1 \in 0 .. Len(q) - 1) <=> k # 1
    BY <1>1
  <2>2. k - 1 = (j - 1) + 1
    BY <1>1
  <2> HIDE DEF k
  <2> QED  BY <2>1, <2>2, Zenon DEF At
<1>5. At(q, j + 1) = IF k = length THEN NULL ELSE q[k + 1]
  <2>1. (j + 1 \in 0 .. Len(q) - 1) <=> k # length
    BY <1>1
  <2>2. k + 1 = (j + 1) + 1
    BY <1>1
  <2> HIDE DEF k
  <2> QED  BY <2>1, <2>2, Zenon DEF At
<1> HIDE DEF k
<1>6. /\ node[q[k]].prev = IF k = 1 THEN NULL ELSE q[k - 1]
      /\ node[q[k]].next = IF k = length THEN NULL ELSE q[k + 1]
      /\ q[k] \in Live
  BY <1>2, Zenon DEF Linked
<1>7. q[k] \in Items
  BY <1>1, <1>2
<1> QED  BY <1>3, <1>4, <1>5, <1>6, <1>7, ListAssumption, Zenon

(* Where a walk that looks for index idx ends.                             *)
Stop(i, idx, back) ==
  IF back THEN IF idx <= i THEN idx ELSE -1
  ELSE IF idx >= i THEN idx ELSE length

(* A walk from the item at index i ends at that index, with its item.      *)
LEMMA WalkEnds ==
  ASSUME NEW q, Linked(q), NEW i \in 0 .. length, NEW idx \in -1 .. length - 1,
         NEW back \in BOOLEAN, i < length \/ (length = 0 /\ ~back)
  PROVE  Walk(i, At(q, i), idx, back) =
           [index |-> Stop(i, idx, back), item |-> At(q, Stop(i, idx, back))]
<1> DEFINE stop == Stop(i, idx, back)
           Pos(k) == IF back THEN IF i - k >= stop THEN i - k ELSE stop
                     ELSE IF i + k <= stop THEN i + k ELSE stop
           w == [k \in 0 .. length + 1 |->
                  [index |-> Pos(k), item |-> At(q, Pos(k))]]
<1>1. length \in Nat /\ Len(q) = length
  BY DEF Linked
<1>2. Walk(i, At(q, i), idx, back) =
        WalkFrom(node, length, i, At(q, i), idx, back)
  BY Zenon DEF Walk, WalkFrom
<1>3. /\ stop \in Int /\ stop <= length /\ stop >= -1
      /\ back => stop <= i
      /\ ~back => i <= stop
      /\ stop = idx \/ At(q, stop) = NULL
  BY <1>1 DEF Stop, At
<1> HIDE DEF stop
<1>4. Pos(0) = i /\ Pos(length + 1) = stop
  BY <1>1, <1>3
<1>5. w[0] = [index |-> i, item |-> At(q, i)]
  <2>1. w[0] = [index |-> Pos(0), item |-> At(q, Pos(0))]
    BY <1>1
  <2> HIDE DEF w, Pos
  <2> QED  BY <1>4, <2>1, Zenon
<1>6. w[length + 1] = [index |-> stop, item |-> At(q, stop)]
  <2>1. w[length + 1] =
          [index |-> Pos(length + 1), item |-> At(q, Pos(length + 1))]
    BY <1>1
  <2> HIDE DEF w, Pos
  <2> QED  BY <1>4, <2>1, Zenon
<1>7. ASSUME NEW k \in 1 .. length + 1
      PROVE  w[k] = Round(node, w[k - 1], idx, back)
  <2> DEFINE j == Pos(k - 1)
  <2>1. /\ w[k] = [index |-> Pos(k), item |-> At(q, Pos(k))]
        /\ w[k - 1] = [index |-> j, item |-> At(q, j)]
    BY <1>1
  <2>2. j = stop => Pos(k) = stop
    BY <1>1, <1>3
  <2>3. j # stop => /\ j \in 0 .. length - 1
                    /\ back => Pos(k) = j - 1 /\ j > stop
                    /\ ~back => Pos(k) = j + 1 /\ j < stop
    BY <1>1, <1>3
  <2>4. j # stop => j # idx
    BY <2>3, <1>1 DEF stop, Stop
  <2> HIDE DEF w, Pos, j
  <2>5. CASE j = stop
    <3>1. w[k] = w[k - 1]
      BY <2>1, <2>2, <2>5, Zenon
    <3>2. w[k - 1].index = j /\ w[k - 1].item = At(q, j)
      BY <2>1
    <3>3. w[k - 1].item = NULL \/ w[k - 1].index = idx
      BY <1>3, <2>5, <3>2, Zenon
    <3> QED  BY <3>1, <3>3, Zenon DEF Round
  <2>6. CASE j # stop
    <3>1. /\ At(q, j) # NULL
          /\ node[At(q, j)].prev = At(q, j - 1)
          /\ node[At(q, j)].next = At(q, j + 1)
      BY <2>3, <2>6, LinksOfItems
    <3>2. w[k - 1].index = j /\ w[k - 1].item = At(q, j)
      BY <2>1
    <3>3. ~(w[k - 1].item = NULL \/ w[k - 1].index = idx)
      BY <2>4, <2>6, <3>1, <3>2, Zenon
    <3>4. CASE back
      <4>1. Round(node, w[k - 1], idx, back) =
              [index |-> j - 1, item |-> At(q, j - 1)]
        BY <3>1, <3>2, <3>3, <3>4, Zenon DEF Round
      <4>2. Pos(k) = j - 1
        BY <2>3, <2>6, <3>4
      <4> QED  BY <2>1, <4>1, <4>2, Zenon
    <3>5. CASE ~back
      <4>1. Round(node, w[k - 1], idx, back) =
              [index |-> j + 1, item |-> At(q, j + 1)]
        BY <3>1, <3>2, <3>3, <3>5, Zenon DEF Round
      <4>2. Pos(k) = j + 1
        BY <2>3, <2>6, <3>5
      <4> QED  BY <2>1, <4>1, <4>2, Zenon
    <3> QED  BY <3>4, <3>5
  <2> QED  BY <2>5, <2>6
<1>8. w = [k \in 0 .. length + 1 |-> w[k]]
  <2>1. DOMAIN w = 0 .. length + 1
    OBVIOUS
  <2>2. w = [k \in DOMAIN w |-> w[k]]
    OBVIOUS
  <2> HIDE DEF w
  <2> QED  BY <2>1, <2>2, Zenon
<1> HIDE DEF w
<1>9. WalkFrom(node, length, i, At(q, i), idx, back) = w[length + 1]
  <2>1. GoesRound(node, length, i, At(q, i), idx, back, w)
    BY <1>5, <1>7, <1>8, Zenon DEF GoesRound
  <2> QED  BY <1>1, <2>1, WalkOfRounds
<1> QED  BY <1>2, <1>6, <1>9, Zenon DEF stop

(* What is found for an index is the item at it; the index cached with it. *)
LEMMA FoundAt ==
  ASSUME NEW q, Linked(q), IndexCached, NEW idx \in -1 .. length - 1
  PROVE  /\ Found(idx).item = At(q, idx)
         /\ Found(idx).index = idx
              \/ (At(q, idx) = NULL /\ Found(idx).index \in {-1, 0, length})
<1>1. Order = q /\ length \in Nat /\ Len(q) = length
  BY OrderIs DEF Linked
<1>2. /\ index_cache_node = NULL => index_cache \in {-1, 0, length}
      /\ index_cache_node # NULL =>
           /\ index_cache \in 0 .. length - 1
           /\ index_cache_node = At(q, index_cache)
  <2>1. CASE index_cache_node = NULL
    BY <2>1 DEF IndexCached
  <2>2. CASE index_cache_node # NULL
    <3>1. /\ index_cache \in 0 .. length - 1
          /\ index_cache_node = q[index_cache + 1]
      BY <1>1, <2>2, Zenon DEF IndexCached
    <3> QED  BY <1>1, <2>2, <3>1 DEF At
  <2> QED  BY <2>1, <2>2
<1>3. start = At(q, 0) /\ end = At(q, length - 1)
  BY <1>1 DEF At, Linked
<1>4. idx = -1 => At(q, idx) = NULL
  BY DEF At
<1>5. index_cache \in Int
  BY <1>1, <1>2
<1>6. CASE index_cache_node # NULL /\ Distance(idx - index_cache) <= 1
  <2>1. Found(idx).index = idx
    BY <1>6 DEF Found
  <2>2. Found(idx).item = IF idx = index_cache THEN index_cache_node
                  ELSE IF idx > index_cache THEN node[index_cache_node].next
                  ELSE node[index_cache_node].prev
    BY <1>6 DEF Found
  <2> DEFINE c == index_cache
  <2>3. /\ node[At(q, c)].prev = At(q, c - 1)
        /\ node[At(q, c)].next = At(q, c + 1)
    BY <1>2, <1>6, LinksOfItems
  <2>4. idx = c \/ (idx > c /\ idx = c + 1) \/ (~(idx > c) /\ idx # c /\ idx = c - 1)
    BY <1>5, <1>6 DEF Distance
  <2>5. index_cache_node = At(q, c)
    BY <1>2, <1>6
  <2> HIDE DEF c
  <2>6. Found(idx).item = IF idx = c THEN index_cache_node
                  ELSE IF idx > c THEN node[index_cache_node].next
                  ELSE node[index_cache_node].prev
    BY <2>2 DEF c
  <2>7. Found(idx).item = At(q, idx)
    BY <2>3, <2>4, <2>5, <2>6, Zenon
  <2> QED  BY <2>1, <2>7
<1>7. CASE /\ ~(index_cache_node # NULL /\ Distance(idx - index_cache) <= 1)
           /\ FromCache(idx)
  <2>1. index_cache_node # NULL
    BY <1>1, <1>2, <1>5, <1>7 DEF FromCache, Distance
  <2>2. Found(idx) = Walk(index_cache, index_cache_node, idx, Back(idx))
    BY <1>7, Zenon DEF Found
  <2>3. Back(idx) \in BOOLEAN /\ Stop(index_cache, idx, Back(idx)) = idx
    BY <1>5 DEF Back, Stop
  <2>4. /\ index_cache \in 0 .. length /\ index_cache < length
        /\ index_cache_node = At(q, index_cache)
    BY <1>2, <1>1, <2>1
  <2> DEFINE c == index_cache
             b == Back(idx)
  <2> HIDE DEF c, b
  <2>5. Walk(c, At(q, c), idx, b) =
          [index |-> Stop(c, idx, b), item |-> At(q, Stop(c, idx, b))]
    BY <2>3, <2>4, WalkEnds DEF c, b
  <2>6. Found(idx) = [index |-> idx, item |-> At(q, idx)]
    BY <2>2, <2>3, <2>4, <2>5, Zenon DEF c, b
  <2> QED  BY <2>6
<1>8. CASE /\ ~(index_cache_node # NULL /\ Distance(idx - index_cache) <= 1)
           /\ ~FromCache(idx)
           /\ index_cache # 0 /\ idx >= length \div 2
  <2>1. Found(idx) = Walk(length - 1, end, idx, TRUE)
    BY <1>8, Zenon DEF Found
  <2> DEFINE l == length - 1
  <2>2. l \in 0 .. length /\ l < length /\ Stop(l, idx, TRUE) = idx
    BY <1>1, <1>8 DEF Stop
  <2>3. Found(idx) = Walk(l, At(q, l), idx, TRUE)
    BY <1>3, <2>1
  <2> HIDE DEF l
  <2>4. Walk(l, At(q, l), idx, TRUE) =
          [index |-> Stop(l, idx, TRUE), item |-> At(q, Stop(l, idx, TRUE))]
    BY <2>2, WalkEnds
  <2>5. Found(idx) = [index |-> idx, item |-> At(q, idx)]
    BY <2>2, <2>3, <2>4, Zenon
  <2> QED  BY <2>5
<1>9. CASE /\ ~(index_cache_node # NULL /\ Distance(idx - index_cache) <= 1)
           /\ ~FromCache(idx)
           /\ ~(index_cache # 0 /\ idx >= length \div 2)
  <2>1. Found(idx) = Walk(0, start, idx, FALSE)
    BY <1>9, Zenon DEF Found
  <2>2. 0 \in 0 .. length /\ (0 < length \/ (length = 0 /\ ~FALSE))
    BY <1>1
  <2>3. Walk(0, At(q, 0), idx, FALSE) =
          [index |-> Stop(0, idx, FALSE), item |-> At(q, Stop(0, idx, FALSE))]
    BY <2>2, WalkEnds
  <2>4. idx >= 0 => Stop(0, idx, FALSE) = idx
    BY DEF Stop
  <2>5. idx = -1 => Stop(0, idx, FALSE) = length /\ At(q, length) = NULL
    BY <1>1 DEF Stop, At
  <2> DEFINE s == Stop(0, idx, FALSE)
  <2> HIDE DEF s
  <2>6. Found(idx) = [index |-> s, item |-> At(q, s)]
    BY <1>3, <2>1, <2>3, Zenon DEF s
  <2>7. Found(idx).index = s /\ Found(idx).item = At(q, s)
    BY <2>6
  <2>8. CASE idx >= 0
    <3>1. s = idx
      BY <2>4, <2>8 DEF s
    <3> QED  BY <2>7, <3>1
  <2>9. CASE idx = -1
    <3>1. s = length /\ At(q, length) = NULL
      BY <2>5, <2>9 DEF s
    <3> QED  BY <1>4, <2>7, <2>9, <3>1
  <2> QED  BY <2>8, <2>9
<1> QED  BY <1>6, <1>7, <1>8, <1>9

-----------------------------------------------------------------------------
(* The search by name.                                                     *)
Tells(links, item, name) == item # NULL /\ links[item].data = name

SearchFrom(links, n, first, name) ==
  LET at[k \in 0 .. n] ==
        IF k = 0 THEN first
        ELSE IF at[k - 1] = NULL \/ Tells(links, at[k - 1], name) THEN at[k - 1]
        ELSE links[at[k - 1]].next
  IN  at[n]

(* One round of the search.                                                *)
Look(links, item, name) ==
  IF item = NULL \/ Tells(links, item, name) THEN item ELSE links[item].next

(* The function w goes look by look.                                       *)
GoesOn(links, n, first, name, w) ==
  /\ w = [k \in 0 .. n |-> w[k]]
  /\ w[0] = first
  /\ \A k \in 1 .. n : w[k] = Look(links, w[k - 1], name)

(* A function that goes look by look is the search.                        *)
LEMMA SearchOfLooks ==
  ASSUME NEW links, NEW n \in Nat, NEW first, NEW name, NEW w,
         GoesOn(links, n, first, name, w)
  PROVE  SearchFrom(links, n, first, name) = w[n]
<1> DEFINE Right(f) ==
             f = [k \in 0 .. n |->
                   IF k = 0 THEN first ELSE Look(links, f[k - 1], name)]
           f == CHOOSE g : Right(g)
<1> USE DEF GoesOn
<1>1. SearchFrom(links, n, first, name) = f[n]
  BY Zenon DEF SearchFrom, Look
<1>2. Right(w)
  <2>1. \A k \in 0 .. n :
          w[k] = IF k = 0 THEN first ELSE Look(links, w[k - 1], name)
    <3> TAKE k \in 0 .. n
    <3>1. CASE k = 0
      BY <3>1
    <3>2. CASE k # 0
      <4>1. k \in 1 .. n
        BY <3>2
      <4> QED  BY <3>2, <4>1, Zenon
    <3> QED  BY <3>1, <3>2
  <2>2. [k \in 0 .. n |-> w[k]] =
          [k \in 0 .. n |->
            IF k = 0 THEN first ELSE Look(links, w[k - 1], name)]
    BY <2>1, Zenon
  <2> QED  BY <2>2, Zenon
<1>3. Right(f)
  <2> HIDE DEF Right
  <2> QED  BY <1>2
<1> HIDE DEF f
<1>4. \A k \in 0 .. n :
        f[k] = IF k = 0 THEN first ELSE Look(links, f[k - 1], name)
  <2>1. f = [k \in 0 .. n |->
                   IF k = 0 THEN first ELSE Look(links, f[k - 1], name)]
    BY <1>3
  <2> QED  BY <2>1, Zenon
<1>5. f = [k \in 0 .. n |-> f[k]]
  <2>1. DOMAIN f = 0 .. n
    BY <1>3, Zenon
  <2>2. f = [k \in DOMAIN f |-> f[k]]
    BY <1>3
  <2> QED  BY <2>1, <2>2, Zenon
<1> HIDE DEF Right
<1>6. \A k \in 0 .. n : (k > 0 => f[k - 1] = w[k - 1]) => f[k] = w[k]
  <2> TAKE k \in 0 .. n
  <2>1. CASE k = 0
    BY <1>4, <2>1
  <2>2. CASE k # 0
    <3>1. k > 0 /\ k \in 1 .. n
      BY <2>2
    <3>2. f[k] = Look(links, f[k - 1], name)
      BY <1>4, <2>2, Zenon
    <3>3. w[k] = Look(links, w[k - 1], name)
      BY <3>1
    <3> QED  BY <3>1, <3>2, <3>3, Zenon
  <2> QED  BY <2>1, <2>2
<1>7. GoAlike(0, n, f, w)
  BY <1>5, <1>6, Zenon DEF GoAlike
<1>8. f = w
  BY <1>7, SameFunction
<1> QED  BY <1>1, <1>8

(* The place of the first item with the name; length if there is none.     *)
LEMMA FirstWithName ==
  ASSUME NEW q, Linked(q), NEW name
  PROVE  \E stop \in 0 .. length :
           /\ \A j \in 0 .. stop - 1 : node[At(q, j)].data # name
           /\ stop < length => node[At(q, stop)].data = name
<1> DEFINE S == {j \in 0 .. length - 1 : node[At(q, j)].data = name}
<1>1. length \in Nat
  BY OrderIs
<1>2. CASE S = {}
  <2>1. \A j \in 0 .. length - 1 : node[At(q, j)].data # name
    BY <1>2
  <2> QED  BY <1>1, <2>1
<1>3. CASE S # {}
  <2>1. S \in SUBSET Nat
    BY <1>1
  <2>2. PICK x \in S : \A z \in S : x <= z
    BY <1>3, <2>1, LeastMember
  <2>3. x \in 0 .. length /\ x < length /\ node[At(q, x)].data = name
    BY <1>1
  <2>4. \A j \in 0 .. x - 1 : node[At(q, j)].data # name
    <3> TAKE j \in 0 .. x - 1
    <3>1. j \in 0 .. length - 1 /\ ~(x <= j)
      BY <2>3, <1>1
    <3>2. j \notin S
      BY <2>2, <3>1
    <3> QED  BY <3>1, <3>2
  <2> QED  BY <2>3, <2>4
<1> QED  BY <1>2, <1>3

(* A search finds an item with the name, unless there is none.             *)
LEMMA SearchFinds ==
  ASSUME NEW q, Linked(q), NEW name
  PROVE  \/ Search(name) = NULL /\ \A i \in Live : node[i].data # name
         \/ /\ Search(name) \in Live /\ Search(name) # NULL
            /\ node[Search(name)].data = name
<1>1. length \in Nat /\ Len(q) = length
  BY OrderIs DEF Linked
<1>2. PICK stop \in 0 .. length :
        /\ \A j \in 0 .. stop - 1 : node[At(q, j)].data # name
        /\ stop < length => node[At(q, stop)].data = name
  BY FirstWithName
<1> DEFINE Pos(k) == IF k <= stop THEN k ELSE stop
           w == [k \in 0 .. length |-> At(q, Pos(k))]
<1>3. Search(name) = SearchFrom(node, length, start, name)
  BY Zenon DEF Search, SearchFrom, Called, Tells
<1>4. start = At(q, 0)
  BY <1>1 DEF At, Linked
<1>5. Pos(0) = 0 /\ Pos(length) = stop
  BY <1>1
<1>6. w[0] = start
  <2>1. w[0] = At(q, Pos(0))
    BY <1>1
  <2> QED  BY <1>4, <1>5, <2>1
<1>7. w[length] = At(q, stop)
  <2>1. w[length] = At(q, Pos(length))
    BY <1>1
  <2> QED  BY <1>5, <2>1
<1>8. ASSUME NEW k \in 1 .. length
      PROVE  w[k] = Look(node, w[k - 1], name)
  <2> DEFINE j == Pos(k - 1)
  <2>1. w[k] = At(q, Pos(k)) /\ w[k - 1] = At(q, j)
    BY <1>1
  <2>2. j = stop \/ (j \in 0 .. stop - 1 /\ j \in 0 .. length - 1)
    BY <1>1
  <2>3. j = stop => Pos(k) = stop
    BY <1>1
  <2>4. j # stop => Pos(k) = j + 1
    BY <1>1
  <2> HIDE DEF w, Pos, j
  <2>5. CASE j = stop
    <3>1. CASE stop < length
      <4>1. stop \in 0 .. length - 1
        BY <1>1, <3>1
      <4>2. At(q, stop) # NULL
        BY <4>1, LinksOfItems
      <4> QED  BY <1>2, <2>1, <2>3, <2>5, <3>1, <4>2, Zenon DEF Look, Tells
    <3>2. CASE ~(stop < length)
      <4>1. At(q, stop) = NULL
        BY <1>1, <3>2 DEF At
      <4> QED  BY <2>1, <2>3, <2>5, <4>1, Zenon DEF Look
    <3> QED  BY <3>1, <3>2
  <2>6. CASE j # stop
    <3>1. /\ At(q, j) # NULL
          /\ node[At(q, j)].next = At(q, j + 1)
      BY <2>2, <2>6, LinksOfItems
    <3>2. node[At(q, j)].data # name
      BY <1>2, <2>2, <2>6
    <3> QED  BY <2>1, <2>4, <2>6, <3>1, <3>2, Zenon DEF Look, Tells
  <2> QED  BY <2>5, <2>6
<1>9. w = [k \in 0 .. length |-> w[k]]
  <2>1. DOMAIN w = 0 .. length
    OBVIOUS
  <2>2. w = [k \in DOMAIN w |-> w[k]]
    OBVIOUS
  <2> HIDE DEF w
  <2> QED  BY <2>1, <2>2, Zenon
<1> HIDE DEF w
<1>10. Search(name) = At(q, stop)
  <2>1. GoesOn(node, length, start, name, w)
    BY <1>6, <1>8, <1>9, Zenon DEF GoesOn
  <2>2. SearchFrom(node, length, start, name) = w[length]
    BY <1>1, <2>1, SearchOfLooks
  <2> QED  BY <1>3, <1>7, <2>2
<1>11. CASE stop < length
  <2>1. stop \in 0 .. length - 1
    BY <1>1, <1>11
  <2>2. At(q, stop) \in Live /\ At(q, stop) # NULL
    BY <2>1, LinksOfItems
  <2> QED  BY <1>2, <1>10, <1>11, <2>2, Zenon
<1>12. CASE ~(stop < length)
  <2>1. At(q, stop) = NULL /\ stop = length
    BY <1>1, <1>12 DEF At
  <2>2. ASSUME NEW i \in Live PROVE node[i].data # name
    <3>1. PICK k \in 1 .. length : i = q[k]
      BY DEF Linked
    <3> DEFINE j == k - 1
    <3>2. j \in 0 .. stop - 1 /\ i = At(q, j)
      BY <1>1, <2>1, <3>1 DEF At
    <3> HIDE DEF j
    <3> QED  BY <1>2, <3>2
  <2> QED  BY <1>10, <2>1, <2>2
<1> QED  BY <1>11, <1>12

-----------------------------------------------------------------------------
(* What each operation makes of the sequence.                              *)

(* Creating an item at the end appends it.                                 *)
LEMMA CreateAppends ==
  ASSUME NEW CONSTANT q, Linked(q), Typed, NEW ln \in Items, NEW name \in Names,
         Create(ln, name, NULL)
  PROVE  /\ Linked(Append(q, ln))' /\ Typed'
         /\ Live' = Live \union {ln} /\ ln \notin Live
         /\ node'[ln].data = name
         /\ \A i \in Live : node'[i].data = node[i].data
         /\ index_cache' = 0 /\ index_cache_node' = NULL
<1> DEFINE p == Append(q, ln)
           n == length
           last == IF n = 0 THEN NULL ELSE q[n]
<1>1. /\ n \in Nat /\ q \in Seq(Items) /\ Len(q) = n
      /\ Live = {q[k] : k \in 1 .. n}
      /\ \A j, k \in 1 .. n : q[j] = q[k] => j = k
      /\ \A k \in 1 .. n : q[k] \in Items /\ q[k] \in Live
  BY DEF Linked
<1>2. /\ start = IF n = 0 THEN NULL ELSE q[1]
      /\ end = last
  BY DEF Linked
<1>3. (IF start # NULL THEN end ELSE NULL) = last
  BY <1>1, <1>2, ListAssumption
<1>4. last # NULL => last \in Live
  BY <1>1
<1>5. ln \notin Live /\ ln # NULL /\ Live \subseteq Items
  BY <1>1, ListAssumption DEF Create
<1>6. node \in [Live -> Node]
  BY DEF Typed
<1> HIDE DEF last
<1> DEFINE base == [i \in Live \union {ln} |->
                  IF i = ln THEN [data |-> name, prev |-> last, next |-> NULL]
                  ELSE node[i]]
<1>7. node' = IF last = NULL THEN base ELSE [base EXCEPT ![last].next = ln]
  <2> DEFINE before == [i \in Live \union {ln} |->
                  IF i = ln THEN [data |-> name, prev |-> last, next |-> NULL]
                  ELSE IF i = NULL THEN [node[i] EXCEPT !.prev = ln]
                  ELSE node[i]]
  <2>1. node' = IF last = NULL THEN before
                ELSE [before EXCEPT ![last].next = ln]
    BY <1>3, Zenon DEF Create
  <2>2. \A i \in Live \union {ln} : i # NULL
    BY <1>5, ListAssumption
  <2>3. before = base
    BY <2>2
  <2> QED  BY <2>1, <2>3, Zenon
<1> HIDE DEF base
<1>8. /\ DOMAIN base = Live \union {ln}
      /\ base[ln] = [data |-> name, prev |-> last, next |-> NULL]
      /\ \A i \in Live : base[i] = node[i]
      /\ base = [i \in Live \union {ln} |-> base[i]]
  BY <1>5 DEF base
<1>9. Live' = DOMAIN node'
  BY DEF Live
<1>10. /\ Live' = Live \union {ln}
       /\ node'[ln] = [data |-> name, prev |-> last, next |-> NULL]
       /\ \A i \in Live : node'[i] = IF i = last THEN [node[i] EXCEPT !.next = ln]
                                     ELSE node[i]
       /\ node' = [i \in Live' |-> node'[i]]
  <2>1. CASE last = NULL
    <3>1. node' = base
      BY <1>7, <2>1
    <3>2. \A i \in Live : i # last
      BY <1>5, <2>1, ListAssumption
    <3>3. Live' = Live \union {ln}
      BY <1>8, <1>9, <3>1
    <3> QED  BY <1>8, <3>1, <3>2, <3>3, Zenon
  <2>2. CASE last # NULL
    <3>1. node' = [base EXCEPT ![last].next = ln]
      BY <1>7, <2>2
    <3>2. last \in Live /\ last # ln
      BY <1>4, <1>5, <2>2
    <3>3. Live' = Live \union {ln}
      BY <1>8, <1>9, <3>1
    <3>4. node'[ln] = [data |-> name, prev |-> last, next |-> NULL]
      BY <1>8, <3>1, <3>2
    <3>5. \A i \in Live : node'[i] = IF i = last THEN [node[i] EXCEPT !.next = ln]
                                    ELSE node[i]
      BY <1>8, <3>1, <3>2
    <3>6. node' = [i \in Live' |-> node'[i]]
      BY <1>8, <3>1, <3>3
    <3> QED  BY <3>3, <3>4, <3>5, <3>6
  <2> QED  BY <2>1, <2>2
<1>11. /\ length' = n + 1 /\ end' = ln
       /\ start' = IF start = NULL \/ start = NULL THEN ln ELSE start
       /\ name_cache' = NULL /\ name_cache_node' = NULL
       /\ index_cache' = 0 /\ index_cache_node' = NULL
       /\ answer' = NULL
  BY Zenon DEF Create, ClearCache, NoAnswer
<1>12. /\ p \in Seq(Items) /\ Len(p) = n + 1
       /\ \A k \in 1 .. n : p[k] = q[k]
       /\ p[n + 1] = ln
  BY <1>1
<1> HIDE DEF p
<1>13. node' \in [Live' -> Node]
  <2>1. last \in ItemOrNull /\ ln \in ItemOrNull /\ NULL \in ItemOrNull
    BY <1>4, <1>5 DEF ItemOrNull
  <2>2. node'[ln] \in Node
    BY <1>10, <2>1 DEF Node
  <2>3. ASSUME NEW i \in Live PROVE node'[i] \in Node
    <3>1. node[i] \in Node
      BY <1>6
    <3>2. [node[i] EXCEPT !.next = ln] \in Node
      BY <2>1, <3>1 DEF Node
    <3> QED  BY <1>10, <3>1, <3>2
  <2> QED  BY <1>10, <2>2, <2>3
<1>14. Typed'
  BY <1>11, <1>13 DEF Typed
<1>15. /\ node'[ln].data = name
       /\ \A i \in Live : node'[i].data = node[i].data
  <2>1. node'[ln].data = name
    BY <1>10
  <2>2. ASSUME NEW i \in Live PROVE node'[i].data = node[i].data
    <3>1. node[i] \in Node
      BY <1>6
    <3>2. [node[i] EXCEPT !.next = ln].data = node[i].data
      BY <3>1 DEF Node
    <3> QED  BY <1>10, <3>2
  <2> QED  BY <2>1, <2>2
<1>16. Live' = {p[k] : k \in 1 .. n + 1}
  <2>1. \A k \in 1 .. n + 1 : p[k] \in Live'
    BY <1>1, <1>10, <1>12
  <2>2. \A i \in Live' : \E k \in 1 .. n + 1 : i = p[k]
    <3>1. n + 1 \in 1 .. n + 1 /\ \A k \in 1 .. n : k \in 1 .. n + 1
      BY <1>1
    <3> QED  BY <1>1, <1>10, <1>12, <3>1
  <2> QED  BY <2>1, <2>2
<1>17. \A j, k \in 1 .. n + 1 : p[j] = p[k] => j = k
  <2>1. \A k \in 1 .. n : p[k] # p[n + 1] /\ p[k] \in Live
    BY <1>1, <1>5, <1>12
  <2>2. \A k \in 1 .. n + 1 : k \in 1 .. n \/ k = n + 1
    BY <1>1
  <2> QED  BY <1>1, <1>12, <2>1, <2>2
<1>18. start' = p[1]
  <2>1. CASE n = 0
    BY <1>2, <1>11, <1>12, <2>1
  <2>2. CASE n # 0
    <3>1. 1 \in 1 .. n /\ start = q[1] /\ start # NULL
      BY <1>1, <1>2, <2>2, ListAssumption
    <3> QED  BY <1>11, <1>12, <3>1
  <2> QED  BY <2>1, <2>2
<1>19. ASSUME NEW k \in 1 .. n + 1
       PROVE  /\ node'[p[k]].prev = IF k = 1 THEN NULL ELSE p[k - 1]
              /\ node'[p[k]].next = IF k = n + 1 THEN NULL ELSE p[k + 1]
  <2>1. CASE k = n + 1
    <3>1. node'[p[k]].prev = last /\ node'[p[k]].next = NULL
      BY <1>10, <1>12, <2>1
    <3>2. last = IF k = 1 THEN NULL ELSE p[k - 1]
      BY <1>1, <1>12, <2>1 DEF last
    <3> QED  BY <2>1, <3>1, <3>2
  <2>2. CASE k # n + 1
    <3>1. k \in 1 .. n /\ p[k] = q[k] /\ q[k] \in Live
      BY <1>1, <1>12, <2>2
    <3>2. /\ node[q[k]].prev = IF k = 1 THEN NULL ELSE q[k - 1]
          /\ node[q[k]].next = IF k = n THEN NULL ELSE q[k + 1]
      BY <3>1, Zenon DEF Linked
    <3>3. k # 1 => p[k - 1] = q[k - 1]
      <4>1. k # 1 => k - 1 \in 1 .. n
        BY <1>1, <3>1
      <4> QED  BY <1>12, <4>1
    <3>4. k # n => p[k + 1] = q[k + 1]
      <4>1. k # n => k + 1 \in 1 .. n
        BY <1>1, <3>1
      <4> QED  BY <1>12, <4>1
    <3>5. last = q[k] <=> k = n
      BY <1>1, <3>1 DEF last
    <3>6. node[q[k]] \in Node
      BY <1>6, <3>1
    <3>7. CASE k = n
      <4>1. node'[p[k]] = [node[q[k]] EXCEPT !.next = ln]
        BY <1>10, <3>1, <3>5, <3>7
      <4>2. node'[p[k]].next = ln /\ node'[p[k]].prev = node[q[k]].prev
        BY <3>6, <4>1 DEF Node
      <4>3. p[k + 1] = ln
        BY <1>12, <3>7
      <4> QED  BY <2>2, <3>2, <3>3, <4>2, <4>3, Zenon
    <3>8. CASE k # n
      <4>1. node'[p[k]] = node[q[k]]
        BY <1>10, <3>1, <3>5, <3>8
      <4> QED  BY <2>2, <3>2, <3>3, <3>4, <3>8, <4>1, Zenon
    <3> QED  BY <3>7, <3>8
  <2> QED  BY <2>1, <2>2
<1>20. Linked(p)'
  <2>1. n + 1 # 0
    BY <1>1
  <2>2. /\ p \in Seq(Items) /\ Len(p) = length'
        /\ Live' = {p[k] : k \in 1 .. length'}
        /\ \A j, k \in 1 .. length' : p[j] = p[k] => j = k
    BY <1>11, <1>12, <1>16, <1>17
  <2>3. /\ start' = IF length' = 0 THEN NULL ELSE p[1]
        /\ end' = IF length' = 0 THEN NULL ELSE p[length']
    BY <1>11, <1>12, <1>18, <2>1
  <2>4. \A k \in 1 .. length' :
          /\ node'[p[k]].prev = IF k = 1 THEN NULL ELSE p[k - 1]
          /\ node'[p[k]].next = IF k = length' THEN NULL ELSE p[k + 1]
    BY <1>11, <1>19, Zenon
  <2> QED  BY <2>2, <2>3, <2>4, Zenon DEF Linked
<1> QED  BY <1>5, <1>10, <1>11, <1>14, <1>15, <1>20 DEF p

(* The sequence q without its item m.                                      *)
Without(q, m) == [k \in 1 .. Len(q) - 1 |-> IF k < m THEN q[k] ELSE q[k + 1]]

(* Destroying an item takes it out.                                        *)
LEMMA DestroyTakesOut ==
  ASSUME NEW CONSTANT q, Linked(q), Typed, NEW CONSTANT m \in 1 .. length,
         Destroy(q[m])
  PROVE  /\ Linked(Without(q, m))' /\ Typed'
         /\ Live' = Live \ {q[m]}
         /\ \A i \in Live' : node'[i].data = node[i].data
         /\ index_cache' = 0 /\ index_cache_node' = NULL
<1> DEFINE n == length
           item == q[m]
           p == Without(q, m)
           before == IF m = 1 THEN NULL ELSE q[m - 1]
           after == IF m = n THEN NULL ELSE q[m + 1]
<1>1. /\ n \in Nat /\ q \in Seq(Items) /\ Len(q) = n /\ m \in 1 .. n
      /\ Live = {q[k] : k \in 1 .. n}
      /\ \A j, k \in 1 .. n : q[j] = q[k] => j = k
      /\ \A k \in 1 .. n : q[k] \in Items /\ q[k] \in Live /\ q[k] # NULL
  BY ListAssumption DEF Linked
<1>2. /\ start = IF n = 0 THEN NULL ELSE q[1]
      /\ end = IF n = 0 THEN NULL ELSE q[n]
  BY DEF Linked
<1>3. /\ node[item].prev = before
      /\ node[item].next = after
  BY DEF Linked
<1>4. node \in [Live -> Node]
  BY DEF Typed
<1>5. /\ p \in Seq(Items) /\ Len(p) = n - 1
      /\ \A k \in 1 .. n - 1 : p[k] = IF k < m THEN q[k] ELSE q[k + 1]
  <2>1. \A k \in 1 .. n - 1 : k \in 1 .. n /\ k + 1 \in 1 .. n
    BY <1>1
  <2>2. p \in [1 .. n - 1 -> Items]
    BY <1>1, <2>1 DEF Without
  <2>3. n - 1 \in Nat
    BY <1>1
  <2>4. \A k \in 1 .. n - 1 : p[k] = IF k < m THEN q[k] ELSE q[k + 1]
    BY <1>1 DEF Without
  <2> HIDE DEF p
  <2> QED  BY <2>2, <2>3, <2>4
<1>6. /\ before = NULL <=> m = 1
      /\ after = NULL <=> m = n
      /\ before \in Live \union {NULL} /\ after \in Live \union {NULL}
  BY <1>1
<1>7. \A j \in 1 .. n : /\ q[j] = before <=> j = m - 1
                        /\ q[j] = after <=> j = m + 1
  BY <1>1
<1> HIDE DEF before, after, item, p
<1>8. /\ node' = [i \in Live \ {item} |->
                   [node[i] EXCEPT !.next = IF i = before THEN after ELSE @,
                                   !.prev = IF i = after THEN before ELSE @]]
      /\ start' = IF before = NULL THEN after ELSE start
      /\ end' = IF after = NULL THEN before ELSE end
      /\ length' = n - 1
      /\ name_cache' = NULL /\ name_cache_node' = NULL
      /\ index_cache' = 0 /\ index_cache_node' = NULL
      /\ answer' = NULL
  BY <1>3, Zenon DEF Destroy, Unlinked, ClearCache, NoAnswer, item
<1>9. Live' = Live \ {item}
  <2>1. Live' = DOMAIN node'
    BY DEF Live
  <2> QED  BY <1>8, <2>1
<1>10. ASSUME NEW i \in Live \ {item}
       PROVE  /\ node'[i] \in Node
              /\ node'[i].data = node[i].data
              /\ node'[i].prev = IF i = after THEN before ELSE node[i].prev
              /\ node'[i].next = IF i = before THEN after ELSE node[i].next
  <2>1. node[i] \in Node
    BY <1>4
  <2>2. node'[i] = [node[i] EXCEPT !.next = IF i = before THEN after ELSE @,
                                   !.prev = IF i = after THEN before ELSE @]
    BY <1>8
  <2>3. before \in ItemOrNull /\ after \in ItemOrNull
    BY <1>1, <1>6 DEF ItemOrNull
  <2> QED  BY <2>1, <2>2, <2>3 DEF Node
<1>11. Typed'
  <2>1. node' = [i \in Live' |-> node'[i]]
    BY <1>8, <1>9
  <2>2. node' \in [Live' -> Node]
    BY <1>9, <1>10, <2>1
  <2> QED  BY <1>8, <2>2 DEF Typed
<1>12. ASSUME NEW k \in 1 .. n - 1
       PROVE  \E j \in 1 .. n :
                /\ j = IF k < m THEN k ELSE k + 1
                /\ j # m /\ p[k] = q[j] /\ q[j] \in Live \ {item}
  <2>1. CASE k < m
    <3>1. k \in 1 .. n /\ k # m /\ p[k] = q[k]
      BY <1>1, <1>5, <2>1
    <3>2. q[k] \in Live /\ q[k] # item
      BY <1>1, <3>1 DEF item
    <3> QED  BY <2>1, <3>1, <3>2
  <2>2. CASE ~(k < m)
    <3>1. k + 1 \in 1 .. n /\ k + 1 # m /\ p[k] = q[k + 1]
      BY <1>1, <1>5, <2>2
    <3>2. q[k + 1] \in Live /\ q[k + 1] # item
      BY <1>1, <3>1 DEF item
    <3> QED  BY <2>2, <3>1, <3>2
  <2> QED  BY <2>1, <2>2
<1>13. Live' = {p[k] : k \in 1 .. n - 1}
  <2>1. \A k \in 1 .. n - 1 : p[k] \in Live'
    BY <1>9, <1>12
  <2>2. ASSUME NEW i \in Live' PROVE \E k \in 1 .. n - 1 : i = p[k]
    <3>1. PICK j \in 1 .. n : i = q[j] /\ j # m
      BY <1>1, <1>9 DEF item
    <3>2. CASE j < m
      <4>1. j \in 1 .. n - 1 /\ p[j] = q[j]
        BY <1>1, <1>5, <3>2
      <4> QED  BY <3>1, <4>1
    <3>3. CASE ~(j < m)
      <4> DEFINE k == j - 1
      <4>1. k \in 1 .. n - 1 /\ ~(k < m) /\ k + 1 = j
        BY <1>1, <3>1, <3>3
      <4> HIDE DEF k
      <4>2. p[k] = q[j]
        BY <1>5, <4>1, Zenon
      <4> QED  BY <3>1, <4>1, <4>2
    <3> QED  BY <3>2, <3>3
  <2> QED  BY <2>1, <2>2
<1>14. \A j, k \in 1 .. n - 1 : p[j] = p[k] => j = k
  <2> TAKE j, k \in 1 .. n - 1
  <2> HAVE p[j] = p[k]
  <2>1. PICK a \in 1 .. n : a = (IF j < m THEN j ELSE j + 1) /\ p[j] = q[a]
    BY <1>12
  <2>2. PICK b \in 1 .. n : b = (IF k < m THEN k ELSE k + 1) /\ p[k] = q[b]
    BY <1>12
  <2>3. a = b
    BY <1>1, <2>1, <2>2
  <2> QED  BY <1>1, <2>1, <2>2, <2>3
<1>15. start' = IF n - 1 = 0 THEN NULL ELSE p[1]
  <2>1. CASE m = 1
    <3>1. start' = after
      BY <1>6, <1>8, <2>1
    <3>2. n - 1 # 0 => 1 \in 1 .. n - 1 /\ p[1] = q[m + 1]
      BY <1>1, <1>5, <2>1
    <3> QED  BY <1>1, <2>1, <3>1, <3>2 DEF after
  <2>2. CASE m # 1
    <3>1. n # 0 /\ n - 1 # 0 /\ 1 \in 1 .. n - 1 /\ 1 < m
      BY <1>1, <2>2
    <3>2. start' = q[1]
      BY <1>2, <1>6, <1>8, <2>2, <3>1, Zenon
    <3>3. p[1] = q[1]
      BY <1>5, <3>1
    <3> QED  BY <3>1, <3>2, <3>3, Zenon
  <2> QED  BY <2>1, <2>2
<1>16. end' = IF n - 1 = 0 THEN NULL ELSE p[n - 1]
  <2>1. CASE m = n
    <3>1. end' = before
      BY <1>6, <1>8, <2>1
    <3>2. n - 1 # 0 => n - 1 \in 1 .. n - 1 /\ n - 1 < m /\ p[n - 1] = q[n - 1]
      BY <1>1, <1>5, <2>1
    <3> QED  BY <1>1, <2>1, <3>1, <3>2 DEF before
  <2>2. CASE m # n
    <3> DEFINE l == n - 1
    <3>1. n # 0 /\ l # 0 /\ l \in 1 .. n - 1 /\ ~(l < m) /\ l + 1 = n
      BY <1>1, <2>2
    <3>2. l = n - 1
      OBVIOUS
    <3> HIDE DEF l
    <3>3. p[l] = q[n]
      BY <1>5, <3>1, Zenon
    <3>4. end' = q[n]
      BY <1>2, <1>6, <1>8, <2>2, <3>1, Zenon
    <3> QED  BY <3>1, <3>2, <3>3, <3>4, Zenon
  <2> QED  BY <2>1, <2>2
<1>17. ASSUME NEW k \in 1 .. n - 1
       PROVE  /\ node'[p[k]].prev = IF k = 1 THEN NULL ELSE p[k - 1]
              /\ node'[p[k]].next = IF k = n - 1 THEN NULL ELSE p[k + 1]
  <2>1. PICK j \in 1 .. n :
          /\ j = IF k < m THEN k ELSE k + 1
          /\ j # m /\ p[k] = q[j] /\ q[j] \in Live \ {item}
    BY <1>12
  <2>2. /\ node[q[j]].prev = IF j = 1 THEN NULL ELSE q[j - 1]
        /\ node[q[j]].next = IF j = n THEN NULL ELSE q[j + 1]
    BY Zenon DEF Linked
  <2>3. /\ node'[q[j]].prev =
             IF j = m + 1 THEN before ELSE IF j = 1 THEN NULL ELSE q[j - 1]
        /\ node'[q[j]].next =
             IF j = m - 1 THEN after ELSE IF j = n THEN NULL ELSE q[j + 1]
    BY <1>7, <1>10, <2>1, <2>2, Zenon
  <2>4. k # 1 => p[k - 1] = IF k - 1 < m THEN q[k - 1] ELSE q[(k - 1) + 1]
    <3>1. k # 1 => k - 1 \in 1 .. n - 1
      BY <1>1
    <3> QED  BY <1>5, <3>1
  <2>5. k # n - 1 => p[k + 1] = IF k + 1 < m THEN q[k + 1] ELSE q[(k + 1) + 1]
    <3>1. k # n - 1 => k + 1 \in 1 .. n - 1
      BY <1>1
    <3> QED  BY <1>5, <3>1
  <2>6. node'[q[j]].prev = IF k = 1 THEN NULL ELSE p[k - 1]
    <3>1. CASE k < m
      BY <1>1, <2>1, <2>3, <2>4, <3>1
    <3>2. CASE k = m
      BY <1>1, <2>1, <2>3, <2>4, <3>2 DEF before
    <3>3. CASE k > m
      BY <1>1, <2>1, <2>3, <2>4, <3>3
    <3> QED  BY <1>1, <3>1, <3>2, <3>3
  <2>7. node'[q[j]].next = IF k = n - 1 THEN NULL ELSE p[k + 1]
    <3>1. CASE k < m - 1
      BY <1>1, <2>1, <2>3, <2>5, <3>1
    <3>2. CASE k = m - 1
      BY <1>1, <2>1, <2>3, <2>5, <3>2 DEF after
    <3>3. CASE k > m - 1
      BY <1>1, <2>1, <2>3, <2>5, <3>3
    <3> QED  BY <1>1, <3>1, <3>2, <3>3
  <2> QED  BY <2>1, <2>6, <2>7
<1>18. Linked(p)'
  <2>1. /\ p \in Seq(Items) /\ Len(p) = length'
        /\ Live' = {p[k] : k \in 1 .. length'}
        /\ \A j, k \in 1 .. length' : p[j] = p[k] => j = k
    BY <1>5, <1>8, <1>13, <1>14
  <2>2. /\ start' = IF length' = 0 THEN NULL ELSE p[1]
        /\ end' = IF length' = 0 THEN NULL ELSE p[length']
    BY <1>8, <1>15, <1>16
  <2>3. \A k \in 1 .. length' :
          /\ node'[p[k]].prev = IF k = 1 THEN NULL ELSE p[k - 1]
          /\ node'[p[k]].next = IF k = length' THEN NULL ELSE p[k + 1]
    BY <1>8, <1>17, Zenon
  <2> QED  BY <2>1, <2>2, <2>3, Zenon DEF Linked
<1> QED  BY <1>8, <1>9, <1>10, <1>11, <1>18 DEF p, item

(* Renaming an item changes no link.                                       *)
LEMMA SetDataRenames ==
  ASSUME NEW CONSTANT q, Linked(q), Typed, NEW item \in Live, NEW name \in Names,
         SetData(item, name)
  PROVE  /\ Linked(q)' /\ Typed' /\ Live' = Live
         /\ \A i \in Live : node'[i].data = IF i = item THEN name ELSE node[i].data
<1>1. /\ node' = [node EXCEPT ![item].data = name]
      /\ start' = start /\ end' = end /\ length' = length
      /\ name_cache' = name_cache /\ name_cache_node' = name_cache_node
      /\ answer' = NULL
  BY DEF SetData, caches, NoAnswer
<1>2. node \in [Live -> Node] /\ Live = DOMAIN node /\ Live' = DOMAIN node'
  BY DEF Typed, Live
<1>3. Live' = Live
  BY <1>1, <1>2
<1>4. ASSUME NEW i \in Live
      PROVE  /\ node'[i] \in Node
             /\ node'[i].data = IF i = item THEN name ELSE node[i].data
             /\ node'[i].prev = node[i].prev /\ node'[i].next = node[i].next
  <2>1. node[i] \in Node
    BY <1>2
  <2>2. node'[i] = IF i = item THEN [node[i] EXCEPT !.data = name] ELSE node[i]
    BY <1>1, <1>2
  <2>3. [node[i] EXCEPT !.data = name] \in Node
    BY <2>1 DEF Node
  <2>4. /\ [node[i] EXCEPT !.data = name].data = name
        /\ [node[i] EXCEPT !.data = name].prev = node[i].prev
        /\ [node[i] EXCEPT !.data = name].next = node[i].next
    BY <2>1 DEF Node
  <2> QED  BY <2>1, <2>2, <2>3, <2>4, Zenon
<1>5. node' \in [Live' -> Node]
  <2>1. node' = [i \in Live |-> node'[i]]
    BY <1>1, <1>2
  <2> QED  BY <1>3, <1>4, <2>1
<1>6. Typed'
  BY <1>1, <1>3, <1>5 DEF Typed
<1>7. Linked(q)'
  <2>1. /\ q \in Seq(Items) /\ Len(q) = length'
        /\ Live' = {q[k] : k \in 1 .. length'}
        /\ \A j, k \in 1 .. length' : q[j] = q[k] => j = k
        /\ start' = IF length' = 0 THEN NULL ELSE q[1]
        /\ end' = IF length' = 0 THEN NULL ELSE q[length']
    BY <1>1, <1>3 DEF Linked
  <2>2. \A k \in 1 .. length :
          /\ node[q[k]].prev = IF k = 1 THEN NULL ELSE q[k - 1]
          /\ node[q[k]].next = IF k = length THEN NULL ELSE q[k + 1]
    BY DEF Linked
  <2>3. \A k \in 1 .. length : q[k] \in Live
    BY DEF Linked
  <2>4. \A k \in 1 .. length :
          /\ node'[q[k]].prev = IF k = 1 THEN NULL ELSE q[k - 1]
          /\ node'[q[k]].next = IF k = length THEN NULL ELSE q[k + 1]
    BY <1>4, <2>2, <2>3, Zenon
  <2>5. \A k \in 1 .. length' :
          /\ node'[q[k]].prev = IF k = 1 THEN NULL ELSE q[k - 1]
          /\ node'[q[k]].next = IF k = length' THEN NULL ELSE q[k + 1]
    BY <1>1, <2>4
  <2> QED  BY <2>1, <2>5, Zenon DEF Linked
<1> QED  BY <1>3, <1>4, <1>6, <1>7

(* The links are those of q as long as nothing that has them changes.      *)
LEMMA SameLinks ==
  ASSUME NEW CONSTANT q, Linked(q), UNCHANGED <<node, start, end, length>>
  PROVE  Linked(q)' /\ Live' = Live
BY DEF Linked, Live

(* A look-up by index answers with the item at it.                         *)
LEMMA ByIndexRight ==
  ASSUME NEW CONSTANT q, Linked(q), Typed, IndexCached,
         NEW idx \in -1 .. length, GetItemByIndex(idx)
  PROVE  /\ Linked(q)' /\ Typed' /\ IndexCached'
         /\ answer' = At(q, idx)
<1>1. UNCHANGED <<node, start, end, length, name_cache, name_cache_node>>
  BY DEF GetItemByIndex
<1>2. Linked(q)' /\ Live' = Live
  BY <1>1, SameLinks
<1>3. Order = q /\ Order' = q /\ length \in Nat /\ Len(q) = length
  BY <1>2, OrderIs, OrderWillBe DEF Linked
<1>4. At(q, idx) \in Live \union {NULL}
  BY <1>3 DEF At, Linked
<1>5. CASE idx >= length
  <2>1. /\ answer' = NULL
        /\ index_cache' = index_cache /\ index_cache_node' = index_cache_node
    BY <1>5 DEF GetItemByIndex
  <2>2. At(q, idx) = NULL
    BY <1>3, <1>5 DEF At
  <2>3. Typed'
    BY <1>1, <1>2, <2>1 DEF Typed
  <2>4. IndexCached'
    BY <1>1, <1>3, <2>1, Zenon DEF IndexCached
  <2> QED  BY <1>2, <2>1, <2>2, <2>3, <2>4
<1>6. CASE ~(idx >= length)
  <2>1. /\ index_cache' = Found(idx).index
        /\ index_cache_node' = Found(idx).item
        /\ answer' = Found(idx).item
    BY <1>6, Zenon DEF GetItemByIndex
  <2>2. idx \in -1 .. length - 1
    BY <1>3, <1>6
  <2>3. /\ Found(idx).item = At(q, idx)
        /\ Found(idx).index = idx
             \/ (At(q, idx) = NULL /\ Found(idx).index \in {-1, 0, length})
    BY <2>2, FoundAt
  <2>4. Typed'
    BY <1>1, <1>2, <1>4, <2>1, <2>3 DEF Typed
  <2>5. CASE At(q, idx) = NULL
    <3>1. idx = -1
      <4>1. idx \in 0 .. length - 1 => At(q, idx) # NULL
        BY LinksOfItems
      <4> QED  BY <2>2, <2>5, <4>1
    <3>2. index_cache_node' = NULL /\ index_cache' \in {-1, 0, length'}
      BY <1>1, <2>1, <2>3, <2>5, <3>1
    <3> QED  BY <1>2, <2>1, <2>3, <2>4, <3>2 DEF IndexCached
  <2>6. CASE At(q, idx) # NULL
    <3>1. idx \in 0 .. length - 1 /\ At(q, idx) = q[idx + 1]
      BY <1>3, <2>2, <2>6 DEF At
    <3>2. /\ index_cache' = idx /\ index_cache_node' = q[idx + 1]
          /\ index_cache_node' # NULL
      BY <2>1, <2>3, <2>6, <3>1
    <3>3. IndexCached'
      BY <1>1, <1>3, <3>1, <3>2, Zenon DEF IndexCached
    <3> QED  BY <1>2, <2>1, <2>3, <2>4, <3>3
  <2> QED  BY <2>5, <2>6
<1> QED  BY <1>5, <1>6

(* A look-up by name answers with an item of that name, if there is one.   *)
LEMMA ByNameRight ==
  ASSUME NEW CONSTANT q, Linked(q), Typed, IndexCached,
         NEW name \in Names, GetItemByName(name)
  PROVE  /\ Linked(q)' /\ Typed' /\ IndexCached'
         /\ \/ answer' = NULL /\ \A i \in Live : node[i].data # name
            \/ answer' \in Live /\ node[answer'].data = name
<1> DEFINE cached == name_cache # NULL /\ name_cache_node # NULL
           after == node[name_cache_node].next
<1>1. /\ UNCHANGED <<node, start, end, length, index_cache, index_cache_node>>
      /\ IF answer' = NULL THEN UNCHANGED <<name_cache, name_cache_node>>
         ELSE name_cache' = name /\ name_cache_node' = answer'
  BY Zenon DEF GetItemByName
<1>2. answer' = IF cached /\ name_cache = name /\ Called(name_cache_node, name)
                THEN name_cache_node
                ELSE IF cached /\ Called(after, name) THEN after
                ELSE IF cached /\ Called(index_cache_node, name)
                THEN index_cache_node
                ELSE Search(name)
  BY Zenon DEF GetItemByName
<1>3. Linked(q)' /\ Live' = Live
  BY <1>1, SameLinks
<1>4. Order = q /\ Order' = q /\ length \in Nat /\ Len(q) = length
  BY <1>3, OrderIs, OrderWillBe DEF Linked
<1>5. name_cache_node \in Live \union {NULL}
  BY DEF Typed
<1>6. cached => after \in Live \union {NULL}
  <2> SUFFICES ASSUME cached PROVE after \in Live \union {NULL}
    OBVIOUS
  <2>1. name_cache_node \in Live
    BY <1>5
  <2>2. PICK k \in 1 .. length : name_cache_node = q[k]
    BY <2>1 DEF Linked
  <2>3. after = IF k = length THEN NULL ELSE q[k + 1]
    BY <2>2, Zenon DEF Linked
  <2>4. k # length => q[k + 1] \in Live
    <3>1. k # length => k + 1 \in 1 .. length
      BY <1>4
    <3> QED  BY <3>1 DEF Linked
  <2> QED  BY <2>3, <2>4, Zenon
<1>7. index_cache_node \in Live \union {NULL}
  <2>1. CASE index_cache_node # NULL
    <3>1. index_cache \in 0 .. length - 1 /\ index_cache_node = q[index_cache + 1]
      BY <1>4, <2>1, Zenon DEF IndexCached
    <3>2. index_cache + 1 \in 1 .. length
      BY <1>4, <3>1
    <3> QED  BY <3>1, <3>2 DEF Linked
  <2> QED  BY <2>1
<1>8. \/ Search(name) = NULL /\ \A i \in Live : node[i].data # name
      \/ /\ Search(name) \in Live /\ Search(name) # NULL
         /\ node[Search(name)].data = name
  BY SearchFinds
<1> HIDE DEF cached, after
<1>9. \/ answer' = NULL /\ \A i \in Live : node[i].data # name
      \/ answer' \in Live /\ node[answer'].data = name
  <2>1. CASE cached /\ name_cache = name /\ Called(name_cache_node, name)
    <3>1. answer' = name_cache_node
      BY <1>2, <2>1, Zenon
    <3> QED  BY <1>5, <2>1, <3>1 DEF Called
  <2>2. CASE /\ ~(cached /\ name_cache = name /\ Called(name_cache_node, name))
             /\ cached /\ Called(after, name)
    <3>1. answer' = after
      BY <1>2, <2>2, Zenon
    <3> QED  BY <1>6, <2>2, <3>1 DEF Called
  <2>3. CASE /\ ~(cached /\ name_cache = name /\ Called(name_cache_node, name))
             /\ ~(cached /\ Called(after, name))
             /\ cached /\ Called(index_cache_node, name)
    <3>1. answer' = index_cache_node
      BY <1>2, <2>3, Zenon
    <3> QED  BY <1>7, <2>3, <3>1 DEF Called
  <2>4. CASE /\ ~(cached /\ name_cache = name /\ Called(name_cache_node, name))
             /\ ~(cached /\ Called(after, name))
             /\ ~(cached /\ Called(index_cache_node, name))
    <3>1. answer' = Search(name)
      BY <1>2, <2>4, Zenon
    <3> QED  BY <1>8, <3>1
  <2> QED  BY <2>1, <2>2, <2>3, <2>4, Zenon
<1>10. Typed'
  <2>1. node' \in [Live' -> Node]
    BY <1>1, <1>3 DEF Typed
  <2>2. answer' \in Live' \union {NULL}
    BY <1>3, <1>9
  <2>3. name_cache' \in Names \union {NULL} /\ name_cache_node' \in Live' \union {NULL}
    BY <1>1, <1>3, <2>2 DEF Typed
  <2> QED  BY <2>1, <2>2, <2>3 DEF Typed
<1>11. IndexCached'
  BY <1>1, <1>4, Zenon DEF IndexCached
<1> QED  BY <1>3, <1>9, <1>10, <1>11

-----------------------------------------------------------------------------
(* The invariant, and what each step is of ItemList.                       *)

(* The items of the sequence are the items allocated.                      *)
LEMMA ItemsAreLive ==
  ASSUME NEW q, Linked(q)
  PROVE  TheItems!ToSet(q) = Live /\ DOMAIN q = 1 .. length
BY DEF TheItems!ToSet, Linked

(* An empty list.                                                          *)
LEMMA InitKeeps == Init => IInv /\ TheItems!Init
<1> SUFFICES ASSUME Init PROVE IInv /\ TheItems!Init
  OBVIOUS
<1>1. /\ node = << >> /\ start = NULL /\ end = NULL /\ length = 0
      /\ index_cache = 0 /\ index_cache_node = NULL
      /\ name_cache = NULL /\ name_cache_node = NULL
      /\ asked = NULL /\ answer = NULL
  BY DEF Init
<1>2. Live = {}
  BY <1>1 DEF Live
<1>3. Linked(<< >>)
  BY <1>1, <1>2 DEF Linked
<1>4. Order = << >>
  BY <1>3, OrderIs
<1>5. Typed
  BY <1>1, <1>2 DEF Typed
<1>6. IndexCached
  BY <1>1 DEF IndexCached
<1>7. [i \in Live |-> node[i].data] = << >>
  BY <1>2
<1> QED  BY <1>1, <1>3, <1>4, <1>5, <1>6, <1>7, Zenon DEF IInv, TheItems!Init

(* A list whose caches are cleared remembers nothing wrong.                *)
LEMMA ClearedCache ==
  ASSUME index_cache' = 0, index_cache_node' = NULL
  PROVE  IndexCached'
BY DEF IndexCached

(* Each operation keeps the invariant and is the one of ItemList.          *)
LEMMA CreateStep ==
  ASSUME IInv, NEW ln \in Items, NEW name \in Names, Create(ln, name, NULL)
  PROVE  IInv' /\ TheItems!Create(ln, name)
<1>1. PICK q : q = Order
  OBVIOUS
<1>2. Linked(q) /\ Typed
  BY <1>1 DEF IInv
<1>3. /\ Linked(Append(q, ln))' /\ Typed'
      /\ Live' = Live \union {ln} /\ ln \notin Live
      /\ node'[ln].data = name
      /\ \A i \in Live : node'[i].data = node[i].data
      /\ IndexCached'
  BY <1>2, CreateAppends, ClearedCache
<1>4. Order' = Append(q, ln)
  BY <1>3, OrderWillBe
<1>5. TheItems!ToSet(Order) = Live
  BY <1>1, <1>2, ItemsAreLive
<1>6. [i \in Live' |-> node'[i].data] =
        [i \in Live \union {ln} |->
          IF i = ln THEN name ELSE [j \in Live |-> node[j].data][i]]
  BY <1>3
<1>7. asked' = NULL /\ answer' = NULL
  BY DEF Create, NoAnswer
<1>8. TheItems!Create(ln, name)
  BY <1>1, <1>3, <1>4, <1>5, <1>6, <1>7, Zenon
     DEF TheItems!Create, TheItems!NoAnswer
<1> QED  BY <1>3, <1>4, <1>8, Zenon DEF IInv

(* stp_list_item_destroy.                                                  *)
LEMMA DestroyStep ==
  ASSUME IInv, NEW item \in Live, Destroy(item)
  PROVE  IInv' /\ TheItems!Destroy(item)
<1>1. PICK q : q = Order
  OBVIOUS
<1>2. Linked(q) /\ Typed
  BY <1>1 DEF IInv
<1>3. length \in Nat /\ q \in Seq(Items) /\ Len(q) = length
  BY <1>2, OrderIs DEF Linked
<1>4. PICK m \in 1 .. length : item = q[m]
  BY <1>2 DEF Linked
<1>5. /\ Linked(Without(q, m))' /\ Typed'
      /\ Live' = Live \ {q[m]}
      /\ \A i \in Live' : node'[i].data = node[i].data
      /\ IndexCached'
  BY <1>2, <1>4, DestroyTakesOut, ClearedCache
<1>6. Order' = Without(q, m)
  BY <1>5, OrderWillBe
<1>7. TheItems!RemoveAt(q, m) = Without(q, m)
  <2> DEFINE s == SubSeq(q, 1, m - 1)
             t == SubSeq(q, m + 1, Len(q))
  <2>1. /\ s \in Seq(Items) /\ Len(s) = m - 1
        /\ \A k \in 1 .. m - 1 : s[k] = q[k]
    BY <1>3
  <2>2. /\ t \in Seq(Items) /\ Len(t) = length - m
        /\ \A k \in 1 .. length - m : t[k] = q[k + m]
    BY <1>3
  <2> HIDE DEF s, t
  <2>3. /\ s \o t \in Seq(Items) /\ Len(s \o t) = length - 1
        /\ \A k \in 1 .. length - 1 :
             (s \o t)[k] = IF k < m THEN s[k] ELSE t[k - (m - 1)]
    <3> DEFINE l == m - 1
               r == length - m
    <3>1. l \in Nat /\ r \in Nat /\ l + r = length - 1
      BY <1>3
    <3>2. Len(s) = l /\ Len(t) = r
      BY <2>1, <2>2
    <3> HIDE DEF l, r
    <3>3. /\ s \o t \in Seq(Items) /\ Len(s \o t) = l + r
          /\ \A k \in 1 .. l + r : (s \o t)[k] = IF k <= l THEN s[k] ELSE t[k - l]
      BY <2>1, <2>2, <3>1, <3>2, ConcatProperties
    <3>4. \A k \in 1 .. length - 1 : k <= l <=> k < m
      BY <1>3 DEF l
    <3> QED  BY <3>1, <3>3, <3>4 DEF l
  <2>4. \A k \in 1 .. length - 1 : (s \o t)[k] = IF k < m THEN q[k] ELSE q[k + 1]
    <3> TAKE k \in 1 .. length - 1
    <3>1. CASE k < m
      BY <2>1, <2>3, <3>1
    <3>2. CASE ~(k < m)
      <4> DEFINE j == k - (m - 1)
      <4>1. j \in 1 .. length - m /\ j + m = k + 1
        BY <1>3, <3>2
      <4>2. (s \o t)[k] = t[j]
        BY <2>3, <3>2
      <4> HIDE DEF j
      <4>3. t[j] = q[k + 1]
        BY <2>2, <4>1
      <4> QED  BY <3>2, <4>2, <4>3
    <3> QED  BY <3>1, <3>2
  <2>5. s \o t = Without(q, m)
    <3>1. s \o t = [k \in 1 .. length - 1 |-> (s \o t)[k]]
      <4> DEFINE u == s \o t
      <4>1. u \in Seq(Items) /\ Len(u) = length - 1
        BY <2>3
      <4> HIDE DEF u
      <4>2. u = [k \in 1 .. length - 1 |-> u[k]]
        BY <4>1
      <4> QED  BY <4>2 DEF u
    <3>2. Without(q, m) =
            [k \in 1 .. length - 1 |-> IF k < m THEN q[k] ELSE q[k + 1]]
      BY <1>3, Zenon DEF Without
    <3>3. [k \in 1 .. length - 1 |-> (s \o t)[k]] =
            [k \in 1 .. length - 1 |-> IF k < m THEN q[k] ELSE q[k + 1]]
      BY <2>4, Zenon
    <3> QED  BY <3>1, <3>2, <3>3, Zenon
  <2> QED  BY <2>5 DEF TheItems!RemoveAt, s, t
<1>8. TheItems!ToSet(Order) = Live /\ DOMAIN q = 1 .. length
  BY <1>1, <1>2, ItemsAreLive
<1>9. [i \in Live' |-> node'[i].data] =
        [i \in Live \ {item} |-> [j \in Live |-> node[j].data][i]]
  BY <1>4, <1>5
<1>10. asked' = NULL /\ answer' = NULL
  BY DEF Destroy, NoAnswer
<1>11. \E k \in DOMAIN Order :
         Order[k] = item /\ Order' = TheItems!RemoveAt(Order, k)
  BY <1>1, <1>4, <1>6, <1>7, <1>8, Zenon
<1>12. TheItems!Destroy(item)
  BY <1>8, <1>9, <1>10, <1>11, Zenon DEF TheItems!Destroy, TheItems!NoAnswer
<1> QED  BY <1>5, <1>6, <1>12, Zenon DEF IInv

(* stp_list_item_set_data.                                                 *)
LEMMA SetDataStep ==
  ASSUME IInv, NEW item \in Live, NEW name \in Names, SetData(item, name)
  PROVE  IInv' /\ TheItems!SetName(item, name)
<1>1. PICK q : q = Order
  OBVIOUS
<1>2. Linked(q) /\ Typed
  BY <1>1 DEF IInv
<1>3. /\ Linked(q)' /\ Typed' /\ Live' = Live
      /\ \A i \in Live :
           node'[i].data = IF i = item THEN name ELSE node[i].data
  BY <1>2, SetDataRenames
<1>4. Order' = q
  BY <1>3, OrderWillBe
<1>5. IndexCached'
  <2>1. UNCHANGED <<length, index_cache, index_cache_node>>
    BY DEF SetData, caches
  <2> QED  BY <1>1, <1>4, <2>1, Zenon DEF IInv, IndexCached
<1>6. TheItems!ToSet(Order) = Live
  BY <1>1, <1>2, ItemsAreLive
<1>7. [i \in Live' |-> node'[i].data] =
        [[i \in Live |-> node[i].data] EXCEPT ![item] = name]
  BY <1>3
<1>8. asked' = NULL /\ answer' = NULL
  BY DEF SetData, NoAnswer
<1>9. TheItems!SetName(item, name)
  BY <1>1, <1>4, <1>6, <1>7, <1>8, Zenon DEF TheItems!SetName, TheItems!NoAnswer
<1> QED  BY <1>1, <1>3, <1>4, <1>5, <1>9, Zenon DEF IInv

(* stp_list_get_item_by_index.                                             *)
LEMMA ByIndexStep ==
  ASSUME IInv, NEW idx \in -1 .. length, GetItemByIndex(idx)
  PROVE  IInv' /\ asked' = idx /\ TheItems!ByIndex(idx)
<1>1. PICK q : q = Order
  OBVIOUS
<1>2. Linked(q) /\ Typed /\ IndexCached
  BY <1>1 DEF IInv
<1>3. Linked(q)' /\ Typed' /\ IndexCached' /\ answer' = At(q, idx)
  BY <1>2, ByIndexRight
<1>4. Order' = q
  BY <1>3, OrderWillBe
<1>5. asked' = idx /\ UNCHANGED node
  BY DEF GetItemByIndex
<1>6. [i \in Live' |-> node'[i].data] = [i \in Live |-> node[i].data]
  BY <1>5 DEF Live
<1>7. TheItems!ByIndex(idx)
  BY <1>1, <1>3, <1>4, <1>5, <1>6, Zenon DEF TheItems!ByIndex, At
<1> QED  BY <1>1, <1>3, <1>4, <1>5, <1>7, Zenon DEF IInv

(* stp_list_get_item_by_name: the cached item, the one after it and the    *)
(* one in the index cache may come before the first with the name, but are *)
(* the first when no other has the name.                                   *)
LEMMA ByNameStep ==
  ASSUME IInv, NEW name \in Names, GetItemByName(name)
  PROVE  IInv' /\ (Unambiguous(name) => TheItems!ByName(name))
<1>1. PICK q : q = Order
  OBVIOUS
<1>2. Linked(q) /\ Typed /\ IndexCached
  BY <1>1 DEF IInv
<1>3. /\ Linked(q)' /\ Typed' /\ IndexCached'
      /\ \/ answer' = NULL /\ \A i \in Live : node[i].data # name
         \/ answer' \in Live /\ node[answer'].data = name
  BY <1>2, ByNameRight
<1>4. Order' = q
  BY <1>3, OrderWillBe
<1>5. asked' = name /\ UNCHANGED node
  BY Zenon DEF GetItemByName
<1>6. [i \in Live' |-> node'[i].data] = [i \in Live |-> node[i].data]
  BY <1>5 DEF Live
<1>7. /\ length \in Nat /\ DOMAIN q = 1 .. length
      /\ \A k \in 1 .. length : q[k] \in Live /\ q[k] # NULL
      /\ \A j, k \in 1 .. length : q[j] = q[k] => j = k
      /\ Live = {q[k] : k \in 1 .. length}
  BY <1>2, OrderIs, ListAssumption DEF Linked
<1> DEFINE names == [i \in Live |-> node[i].data]
<1>8. \A k \in 1 .. length : names[q[k]] = node[q[k]].data
  BY <1>7
<1>9. ASSUME Unambiguous(name)
      PROVE  \/ \E k \in DOMAIN q :
                   /\ answer' = q[k] /\ names[answer'] = name
                   /\ \A j \in 1 .. k - 1 : names[q[j]] # name
             \/ answer' = NULL /\ \A k \in DOMAIN q : names[q[k]] # name
  <2>1. CASE answer' = NULL /\ \A i \in Live : node[i].data # name
    BY <1>7, <1>8, <2>1
  <2>2. CASE answer' \in Live /\ node[answer'].data = name
    <3>1. PICK k \in 1 .. length : answer' = q[k]
      BY <1>7, <2>2
    <3>2. names[answer'] = name
      BY <1>8, <2>2, <3>1
    <3>3. ASSUME NEW j \in 1 .. k - 1 PROVE names[q[j]] # name
      <4>1. j \in 1 .. length /\ j # k
        BY <1>7, <3>1
      <4>2. q[j] # q[k] /\ q[j] \in Live /\ q[j] # NULL /\ q[k] # NULL
        BY <1>7, <4>1
      <4>3. node[q[j]].data # name
        BY <1>9, <2>2, <3>1, <4>2, Zenon DEF Unambiguous, Called
      <4> QED  BY <1>8, <4>1, <4>3
    <3> QED  BY <1>7, <3>1, <3>2, <3>3
  <2> QED  BY <1>3, <2>1, <2>2
<1>10. Unambiguous(name) => TheItems!ByName(name)
  BY <1>1, <1>4, <1>5, <1>6, <1>9, Zenon DEF TheItems!ByName
<1> QED  BY <1>1, <1>3, <1>4, <1>10, Zenon DEF IInv

-----------------------------------------------------------------------------
(* A step of the list keeps the invariant, and is a step of ItemList if    *)
(* the names looked up are unambiguous.                                    *)
LEMMA NextKeeps ==
  ASSUME ~InsertsBefore, IInv, [Next]_vars
  PROVE  IInv' /\ (~Ambiguous => [TheItems!Next]_(TheItems!vars))
<1>1. Live \subseteq Items /\ length \in Nat
  <2>1. PICK q : q = Order
    OBVIOUS
  <2>2. Linked(q)
    BY <2>1 DEF IInv
  <2> QED  BY <2>2, OrderIs DEF Linked
<1>2. ASSUME NEW ln \in Items, NEW name \in Names,
             NEW next \in {NULL} \union IF InsertsBefore THEN Live ELSE {},
             Create(ln, name, next)
      PROVE  IInv' /\ TheItems!Next
  <2>1. next = NULL
    OBVIOUS
  <2>2. IInv' /\ TheItems!Create(ln, name)
    BY <1>2, <2>1, CreateStep
  <2> QED  BY <2>2 DEF TheItems!Next
<1>3. ASSUME NEW item \in Live, Destroy(item)
      PROVE  IInv' /\ TheItems!Next
  <2>1. IInv' /\ TheItems!Destroy(item)
    BY <1>3, DestroyStep
  <2> QED  BY <1>1, <2>1 DEF TheItems!Next
<1>4. ASSUME NEW item \in Live, NEW name \in Names, SetData(item, name)
      PROVE  IInv' /\ TheItems!Next
  <2>1. IInv' /\ TheItems!SetName(item, name)
    BY <1>4, SetDataStep
  <2> QED  BY <1>1, <2>1 DEF TheItems!Next
<1>5. ASSUME NEW idx \in -1 .. length, GetItemByIndex(idx)
      PROVE  IInv' /\ TheItems!Next
  <2>1. IInv' /\ asked' = idx /\ TheItems!ByIndex(idx)
    BY <1>5, ByIndexStep
  <2>2. idx \in Int
    OBVIOUS
  <2> QED  BY <2>1, <2>2 DEF TheItems!Next
<1>6. ASSUME NEW name \in Names, Ambiguous \/ Unambiguous(name),
             GetItemByName(name)
      PROVE  IInv' /\ (~Ambiguous => TheItems!Next)
  <2>1. IInv' /\ (~Ambiguous => TheItems!ByName(name))
    BY <1>6, ByNameStep
  <2> QED  BY <2>1 DEF TheItems!Next
<1>7. CASE UNCHANGED vars
  <2>1. UNCHANGED <<node, start, end, length, asked, answer, index_cache,
                    index_cache_node, name_cache, name_cache_node>>
    BY <1>7 DEF vars, caches
  <2>2. PICK q : q = Order
    OBVIOUS
  <2>3. Linked(q) /\ Typed /\ IndexCached
    BY <2>2 DEF IInv
  <2>4. Linked(q)' /\ Live' = Live
    BY <2>1, <2>3, SameLinks
  <2>5. Order' = q
    BY <2>4, OrderWillBe
  <2>6. Typed'
    BY <2>1, <2>3, <2>4 DEF Typed
  <2>7. IndexCached'
    BY <2>1, <2>2, <2>3, <2>5, Zenon DEF IndexCached
  <2>8. [i \in Live' |-> node'[i].data] = [i \in Live |-> node[i].data]
    BY <2>1, <2>4
  <2>9. UNCHANGED TheItems!vars
    BY <2>1, <2>2, <2>5, <2>8, Zenon DEF TheItems!vars
  <2> QED  BY <2>2, <2>4, <2>5, <2>6, <2>7, <2>9, Zenon DEF IInv
<1> QED  BY <1>2, <1>3, <1>4, <1>5, <1>6, <1>7 DEF Next

(* The invariant holds of every list that is only appended to.             *)
LEMMA Invariant == ASSUME ~InsertsBefore PROVE Spec => []IInv
<1>1. Init => IInv
  BY InitKeeps
<1>2. IInv /\ [Next]_vars => IInv'
  BY NextKeeps
<1> QED  BY <1>1, <1>2, PTL DEF Spec

(* The links, and what the caches and the answers hold, are of their type: *)
(* no pointer of print-list.c is to an item freed.                         *)
THEOREM ListTypeOK == ASSUME ~InsertsBefore PROVE Spec => []TypeOK
<1>1. IInv => TypeOK
  <2> SUFFICES ASSUME IInv PROVE TypeOK
    OBVIOUS
  <2>1. PICK q : q = Order
    OBVIOUS
  <2>2. Linked(q) /\ Typed /\ IndexCached
    BY <2>1 DEF IInv
  <2>3. length \in Nat /\ q \in Seq(Items) /\ Len(q) = length
    BY <2>2, OrderIs DEF Linked
  <2>4. \A k \in 1 .. length : q[k] \in Live
    BY <2>2 DEF Linked
  <2>5. Live \subseteq Items
    BY <2>2, <2>3 DEF Linked
  <2>6. {start, end} \subseteq Live \union {NULL}
    BY <2>2, <2>3, <2>4 DEF Linked
  <2>7. index_cache \in Int /\ index_cache_node \in Live \union {NULL}
    <3>1. CASE index_cache_node = NULL
      BY <2>2, <2>3, <3>1 DEF IndexCached
    <3>2. CASE index_cache_node # NULL
      <4>1. /\ index_cache \in 0 .. length - 1
            /\ index_cache_node = q[index_cache + 1]
        BY <2>1, <2>2, <3>2, Zenon DEF IndexCached
      <4>2. index_cache + 1 \in 1 .. length
        BY <2>3, <4>1
      <4> QED  BY <2>4, <4>1, <4>2
    <3> QED  BY <3>1, <3>2
  <2> QED  BY <2>2, <2>3, <2>5, <2>6, <2>7 DEF TypeOK, Typed, Node
<1> QED  BY <1>1, Invariant, PTL

(* The next pointers lead through all items, each once, and the prev       *)
(* pointers the same way back, after any calls of stp_list_item_create at  *)
(* the end and of stp_list_item_destroy.                                   *)
THEOREM ListWellLinked == ASSUME ~InsertsBefore PROVE Spec => []WellLinked
<1>1. IInv => WellLinked
  <2> SUFFICES ASSUME IInv PROVE WellLinked
    OBVIOUS
  <2>1. PICK q : q = Order
    OBVIOUS
  <2>2. Linked(q)
    BY <2>1 DEF IInv
  <2>3. {q[k] : k \in 1 .. length} = Live
    BY <2>2 DEF Linked
  <2>4. \A k \in 1 .. length :
          /\ node[q[k]].prev = IF k = 1 THEN NULL ELSE q[k - 1]
          /\ node[q[k]].next = IF k = length THEN NULL ELSE q[k + 1]
    BY <2>2 DEF Linked
  <2>5. end = IF length = 0 THEN NULL ELSE q[length]
    BY <2>2 DEF Linked
  <2> QED  BY <2>1, <2>3, <2>4, <2>5 DEF WellLinked
<1> QED  BY <1>1, Invariant, PTL

(* Whatever the caches of print-list.c hold and wherever a walk begins,    *)
(* the list is the sequence of items that list.h and the comments promise: *)
(* an index gives the item at its place, and a name that at most one item  *)
(* has at the time gives that item.  (Of a name that several items have,   *)
(* the caches decide which is found.)                                      *)
THEOREM ListIsItemList ==
  ASSUME ~InsertsBefore, ~Ambiguous PROVE Spec => IsItemList
<1>1. Init => TheItems!Init
  BY InitKeeps
<1>2. IInv /\ [Next]_vars => [TheItems!Next]_(TheItems!vars)
  BY NextKeeps
<1> QED  BY <1>1, <1>2, Invariant, PTL DEF Spec, IsItemList, TheItems!Spec
=============================================================================
