-------------------------- MODULE WeaveRowsProofs --------------------------
(***************************************************************************)
(* What TLAPS proves of the weave, for heads and pages of any size.  The   *)
(* raw weave: the pass that a row's formula looks for exists and is the    *)
(* only one, it starts where the pass's formula says, and it prints the    *)
(* row's subpass, with a jet of the head.  The scans, the sort and the two *)
(* maps of calculate_pass_map: how far each pass of the page is pulled,    *)
(* where the head then stands, and how far its number may be from its      *)
(* place in the raw weave.  From these, the properties of WeaveRows, and   *)
(* that the pages make jobs as the softweave expects them (WovenProofs).   *)
(***************************************************************************)
EXTENDS WeaveRows, FiniteSetTheorems, WellFoundedInduction, TLAPS

(* A set of naturals that is not empty has a least element.                *)
LEMMA LeastMember ==
  ASSUME NEW S \in SUBSET Nat, S # {}
  PROVE  \E x \in S : \A z \in S : x <= z
<1> DEFINE R == StrictSubsetOrdering(Nat)
           T == {0 .. x : x \in S}
<1>1. IsWellFoundedOn(R, FiniteSubsetsOf(Nat))
  BY FS_StrictSubsetOrderingWellFounded
<1>2. T \subseteq FiniteSubsetsOf(Nat)
  <2>1. \A x \in S : 0 .. x \subseteq Nat /\ IsFiniteSet(0 .. x)
    BY FS_Interval
  <2> QED  BY <2>1 DEF FiniteSubsetsOf
<1>3. T # {}
  OBVIOUS
<1> HIDE DEF R
<1>4. PICK t \in T : \A u \in T : <<u, t>> \notin R
  BY <1>1, <1>2, <1>3, WFMin
<1>5. PICK x \in S : t = 0 .. x
  BY <1>4
<1>6. ASSUME NEW z \in S, z < x PROVE FALSE
  <2>1. x \in 0 .. x /\ x \notin 0 .. z
    BY <1>6
  <2>2. 0 .. z \subseteq 0 .. x /\ 0 .. z # 0 .. x
    BY <1>6, <2>1
  <2>3. <<0 .. z, 0 .. x>> \in R
    BY <2>2 DEF R, StrictSubsetOrdering
  <2> QED  BY <2>3, <1>4, <1>5
<1> QED  BY <1>6

(* A bounded one has a greatest.                                           *)
LEMMA GreatestMember ==
  ASSUME NEW n \in Nat, NEW S \in SUBSET (0 .. n), S # {}
  PROVE  \E x \in S : \A z \in S : z <= x
<1> DEFINE T == {n - x : x \in S}
<1>1. T \in SUBSET Nat /\ T # {}
  <2>1. \A x \in S : n - x \in Nat
    OBVIOUS
  <2> QED  BY <2>1
<1>2. PICK t \in T : \A u \in T : t <= u
  <2> HIDE DEF T
  <2> QED  BY <1>1, LeastMember
<1>3. PICK x \in S : t = n - x
  BY <1>2
<1>4. ASSUME NEW z \in S PROVE z <= x
  <2>1. n - z \in T
    OBVIOUS
  <2>2. n - x <= n - z
    BY <1>2, <1>3, <2>1
  <2> QED  BY <2>2
<1> QED  BY <1>4

-----------------------------------------------------------------------------
(* Division with remainder, and divisors.                                  *)
LEMMA Division ==
  ASSUME NEW x \in Int, NEW d \in Positive
  PROVE  /\ x \div d \in Int /\ x % d \in 0 .. d - 1
         /\ x = d * (x \div d) + (x % d)
BY DEF Positive

(* A quotient and a remainder are unique.                                  *)
LEMMA DivisionIs ==
  ASSUME NEW x \in Int, NEW d \in Positive, NEW q \in Int, NEW m \in 0 .. d - 1,
         x = d * q + m
  PROVE  x \div d = q /\ x % d = m
<1> DEFINE a == x \div d
           b == x % d
<1>1. a \in Int /\ b \in 0 .. d - 1 /\ x = d * a + b
  BY Division
<1> HIDE DEF a, b
<1>2. d * (a - q) = m - b
  <2>1. d \in Int /\ a \in Int /\ q \in Int /\ m \in Int /\ b \in Int
    BY <1>1 DEF Positive
  <2>2. d * (a - q) = d * a - d * q
    BY <2>1
  <2>3. d * a + b = d * q + m
    BY <1>1
  <2>4. d * a \in Int /\ d * q \in Int
    BY <2>1
  <2> QED  BY <2>1, <2>2, <2>3, <2>4
<1>3. a - q = 0
  <2>1. CASE a - q >= 1
    <3>1. d * (a - q) >= d
      BY <1>1, <2>1 DEF Positive
    <3> QED  BY <1>1, <1>2, <3>1 DEF Positive
  <2>2. CASE a - q <= -1
    <3>1. d * (a - q) <= -d
      BY <1>1, <2>2 DEF Positive
    <3> QED  BY <1>1, <1>2, <3>1 DEF Positive
  <2> QED  BY <1>1, <2>1, <2>2
<1>4. a = q
  BY <1>1, <1>3
<1>5. b = m
  <2>1. d * (a - q) = 0
    BY <1>3 DEF Positive
  <2> QED  BY <1>1, <1>2, <2>1
<1> QED  BY <1>4, <1>5 DEF a, b

(* A multiple leaves no remainder, and nothing else does.                  *)
LEMMA Multiple ==
  ASSUME NEW x \in Int, NEW d \in Positive
  PROVE  x % d = 0 <=> \E q \in Int : x = d * q
<1>1. ASSUME x % d = 0 PROVE \E q \in Int : x = d * q
  <2> DEFINE q == x \div d
  <2>1. q \in Int /\ x = d * q + (x % d)
    BY Division
  <2> HIDE DEF q
  <2>2. x = d * q
    BY <1>1, <2>1 DEF Positive
  <2> QED  BY <2>1, <2>2
<1>2. ASSUME NEW q \in Int, x = d * q PROVE x % d = 0
  <2>1. 0 \in 0 .. d - 1 /\ x = d * q + 0
    BY <1>2 DEF Positive
  <2> QED  BY <2>1, DivisionIs
<1> QED  BY <1>1, <1>2

(* The greatest common divisor is one.                                     *)
LEMMA GcdDivides ==
  ASSUME NEW x \in Positive, NEW y \in Positive
  PROVE  /\ Gcd(x, y) \in 1 .. x /\ x % Gcd(x, y) = 0 /\ y % Gcd(x, y) = 0
         /\ \A e \in 1 .. x : x % e = 0 /\ y % e = 0 => e <= Gcd(x, y)
<1> DEFINE Common == {d \in 1 .. x : x % d = 0 /\ y % d = 0}
<1>1. 1 \in Common
  BY DEF Positive
<1>2. Common \in SUBSET (0 .. x) /\ x \in Nat
  BY DEF Positive
<1>3. \E d \in Common : \A e \in Common : e <= d
  <2> HIDE DEF Common
  <2> QED  BY <1>1, <1>2, GreatestMember
<1>4. Gcd(x, y) \in Common /\ \A e \in Common : e <= Gcd(x, y)
  BY <1>3 DEF Gcd
<1> QED  BY <1>4

(* It is a sum of multiples of both.                                       *)
LEMMA Bezout ==
  ASSUME NEW x \in Positive, NEW y \in Positive
  PROVE  \E r, k \in Int : Gcd(x, y) = x * r + y * k
<1> DEFINE I == {z \in Positive : \E r, k \in Int : z = x * r + y * k}
           G == Gcd(x, y)
<1>1. x \in I /\ y \in I
  <2>1. x = x * 1 + y * 0 /\ y = x * 0 + y * 1
    BY DEF Positive
  <2> QED  BY <2>1
<1>2. I \in SUBSET Nat
  BY DEF Positive
<1>3. PICK d \in I : \A z \in I : d <= z
  <2> HIDE DEF I
  <2> QED  BY <1>1, <1>2, LeastMember
<1>4. PICK r, k \in Int : d = x * r + y * k
  OBVIOUS
<1>5. d \in Positive
  OBVIOUS
<1>6. ASSUME NEW z \in I PROVE z % d = 0
  <2> DEFINE q == z \div d
             m == z % d
  <2>1. z \in Int /\ q \in Int /\ m \in 0 .. d - 1 /\ z = d * q + m
    BY <1>5, Division DEF Positive
  <2>2. PICK u, v \in Int : z = x * u + y * v
    OBVIOUS
  <2> HIDE DEF q, m
  <2>3. m = x * (u - r * q) + y * (v - k * q)
    <3>1. m = x * u + y * v - (x * r + y * k) * q
      BY <1>4, <2>1, <2>2 DEF Positive
    <3> QED  BY <2>1, <3>1 DEF Positive
  <2>4. m # 0 => m \in I
    <3>1. u - r * q \in Int /\ v - k * q \in Int
      BY <2>1
    <3>2. m # 0 => m \in Positive
      BY <2>1, <1>5 DEF Positive
    <3> QED  BY <2>3, <3>1, <3>2
  <2> HIDE DEF I
  <2>5. m = 0
    BY <1>3, <1>5, <2>1, <2>4 DEF Positive
  <2> QED  BY <2>5 DEF m
<1>7. x % d = 0 /\ y % d = 0
  BY <1>1, <1>6
<1>8. d \in 1 .. x
  BY <1>1, <1>3, <1>5 DEF Positive
<1> HIDE DEF I
<1>9. d <= G /\ G \in Positive /\ x % G = 0 /\ y % G = 0
  <2>1. /\ G \in 1 .. x /\ x % G = 0 /\ y % G = 0
        /\ \A e \in 1 .. x : x % e = 0 /\ y % e = 0 => e <= G
    BY GcdDivides, Zenon
  <2> HIDE DEF G
  <2>2. d <= G
    BY <1>7, <1>8, <2>1, Zenon
  <2>3. G \in Positive
    BY <2>1 DEF Positive
  <2> QED  BY <2>1, <2>2, <2>3
<1> HIDE DEF G
<1>10. PICK s, t \in Int : x = G * s /\ y = G * t
  BY <1>9, Multiple DEF Positive
<1>11. d = G * (s * r + t * k)
  BY <1>4, <1>9, <1>10 DEF Positive
<1>12. G <= d
  <2> DEFINE n == s * r + t * k
  <2>1. n \in Int /\ d = G * n
    BY <1>11
  <2> HIDE DEF n
  <2>2. n >= 1
    BY <1>5, <1>9, <2>1 DEF Positive
  <2> QED  BY <1>9, <2>1, <2>2 DEF Positive
<1>13. G = d
  BY <1>5, <1>9, <1>12 DEF Positive
<1> QED  BY <1>4, <1>13 DEF G

-----------------------------------------------------------------------------
(* The strategies.                                                         *)

(* A head that a softweave is set up with, and a strategy of a driver.     *)
ProperHead(w) ==
  /\ w.separation \in Positive /\ w.jets \in Positive
  /\ w.oversampling \in 1 .. w.jets
  /\ w.strategy \in Strategies \ {"ascending3x"}

(* The two switches over the strategies are the inverse of each other.     *)
LEMMA OffsetOfBlock ==
  ASSUME NEW w, ProperHead(w), NEW s \in Positive, NEW o \in 0 .. s - 1
  PROVE  /\ SubpassBlock(w, s, o) \in 0 .. s - 1
         /\ SubpassOffset(w, s, SubpassBlock(w, s, o)) = o
<1> DEFINE b == SubpassBlock(w, s, o)
<1>1. CASE w.strategy = "zigzag"
  <2>1. b = IF o % 2 = 0 THEN o \div 2 ELSE s - (o + 1) \div 2
    BY <1>1 DEF SubpassBlock
  <2>2. SubpassOffset(w, s, b) = IF 2 * b < s THEN 2 * b ELSE 2 * (s - b) - 1
    BY <1>1 DEF SubpassOffset
  <2> HIDE DEF b
  <2>3. b \in 0 .. s - 1 /\ SubpassOffset(w, s, b) = o
    BY <2>1, <2>2 DEF Positive
  <2> QED  BY <2>3 DEF b
<1>2. CASE w.strategy = "ascending"
  <2>1. b = o
    BY <1>2 DEF SubpassBlock
  <2>2. SubpassOffset(w, s, b) = b
    BY <1>2 DEF SubpassOffset
  <2> QED  BY <2>1, <2>2
<1>3. CASE w.strategy = "descending"
  <2>1. b = s - 1 - o
    BY <1>3 DEF SubpassBlock
  <2>2. SubpassOffset(w, s, b) = s - 1 - b
    BY <1>3 DEF SubpassOffset
  <2> HIDE DEF b
  <2>3. b \in 0 .. s - 1 /\ SubpassOffset(w, s, b) = o
    BY <2>1, <2>2 DEF Positive
  <2> QED  BY <2>3 DEF b
<1>4. CASE w.strategy = "ascending2x"
  <2>1. b = IF o % 2 = 0 THEN o \div 2 ELSE (o - 1) \div 2 + (s + 1) \div 2
    BY <1>4 DEF SubpassBlock
  <2>2. SubpassOffset(w, s, b) =
          IF 2 * b < s THEN 2 * b ELSE 1 + 2 * (b - (s + 1) \div 2)
    BY <1>4 DEF SubpassOffset
  <2> HIDE DEF b
  <2>3. b \in 0 .. s - 1 /\ SubpassOffset(w, s, b) = o
    BY <2>1, <2>2 DEF Positive
  <2> QED  BY <2>3 DEF b
<1>5. CASE w.strategy = "staggered"
  <2>1. b = IF o % 2 = 0 THEN o \div 2
            ELSE IF o = 1 THEN (s + 1) \div 2
            ELSE s - (o - 1) \div 2
    BY <1>5 DEF SubpassBlock
  <2>2. SubpassOffset(w, s, b) =
          IF 2 * b < s THEN 2 * b
          ELSE IF 2 * b < s + 2 THEN 1 ELSE 2 * (s - b) + 1
    BY <1>5 DEF SubpassOffset
  <2> HIDE DEF b
  <2>3. b \in 0 .. s - 1 /\ SubpassOffset(w, s, b) = o
    BY <2>1, <2>2 DEF Positive
  <2> QED  BY <2>3 DEF b
<1> QED  BY <1>1, <1>2, <1>3, <1>4, <1>5 DEF ProperHead, Strategies

-----------------------------------------------------------------------------
(* The band of passes, and the pass blocks in it.                          *)
LEMMA Blocks ==
  ASSUME NEW w, ProperHead(w)
  PROVE  /\ AdvanceBasis(w) \in Positive
         /\ AdvanceBasis(w) * w.oversampling <= w.jets
         /\ SubblocksPerPassblock(w) \in Positive
         /\ PassesPerSubblock(w) \in Positive
         /\ w.separation = SubblocksPerPassblock(w) * PassesPerSubblock(w)
         /\ \E a \in Positive : AdvanceBasis(w) = SubblocksPerPassblock(w) * a
         /\ \E r, k \in Int : SubblocksPerPassblock(w) =
                                w.separation * r + AdvanceBasis(w) * k
         /\ BandRows(w) \in Positive /\ BandPasses(w) \in Positive
<1> DEFINE sep == w.separation
           os == w.oversampling
           jets == w.jets
           adv == AdvanceBasis(w)
           S == SubblocksPerPassblock(w)
           t == PassesPerSubblock(w)
<1>1. /\ sep \in Positive /\ jets \in Positive /\ os \in Positive /\ os <= jets
  BY DEF ProperHead, Positive
<1>2. adv = IF jets \div os = 0 THEN 1 ELSE jets \div os
  BY DEF AdvanceBasis
<1>3. S = Gcd(sep, adv)
  BY DEF SubblocksPerPassblock
<1>4. t = sep \div S
  BY DEF PassesPerSubblock
<1>5. BandRows(w) = sep * jets /\ BandPasses(w) = sep * os
  BY DEF BandRows, BandPasses
<1> HIDE DEF sep, os, jets, adv, S, t
<1>6. adv \in Positive /\ adv * os <= jets
  <2> DEFINE q == jets \div os
             m == jets % os
  <2>1. q \in Int /\ m \in 0 .. os - 1 /\ jets = os * q + m
    BY <1>1, Division DEF Positive
  <2>2. adv = IF q = 0 THEN 1 ELSE q
    BY <1>2
  <2> HIDE DEF q, m
  <2>3. q >= 1
    <3>1. CASE q <= 0
      <4>1. os * q <= 0
        BY <1>1, <2>1, <3>1 DEF Positive
      <4> QED  BY <1>1, <2>1, <4>1 DEF Positive
    <3> QED  BY <2>1, <3>1
  <2>4. adv = q
    BY <2>1, <2>2, <2>3
  <2> QED  BY <1>1, <2>1, <2>3, <2>4 DEF Positive
<1>7. /\ S \in 1 .. sep /\ sep % S = 0 /\ adv % S = 0
  BY <1>1, <1>3, <1>6, GcdDivides
<1>8. S \in Positive
  BY <1>1, <1>7 DEF Positive
<1>9. sep = S * t /\ t \in Positive
  <2>1. t \in Int /\ sep = S * t + (sep % S)
    BY <1>1, <1>4, <1>8, Division DEF Positive
  <2>2. sep = S * t
    BY <1>1, <1>7, <1>8, <2>1 DEF Positive
  <2>3. t >= 1
    BY <1>1, <1>8, <2>1, <2>2 DEF Positive
  <2> QED  BY <2>1, <2>2, <2>3 DEF Positive
<1>10. \E a \in Positive : adv = S * a
  <2>1. PICK a \in Int : adv = S * a
    <3>1. adv \in Int /\ adv % S = 0
      BY <1>6, <1>7 DEF Positive
    <3> QED  BY <1>8, <3>1, Multiple
  <2>2. a >= 1
    BY <1>6, <1>8, <2>1 DEF Positive
  <2> QED  BY <2>1, <2>2 DEF Positive
<1>11. \E r, k \in Int : S = sep * r + adv * k
  BY <1>1, <1>3, <1>6, Bezout
<1>12. BandRows(w) \in Positive /\ BandPasses(w) \in Positive
  BY <1>1, <1>5 DEF Positive
<1> QED  BY <1>6, <1>8, <1>9, <1>10, <1>11, <1>12 DEF sep, os, jets, adv, S, t

-----------------------------------------------------------------------------
(* The search for a row's pass.                                            *)

(* Some pass of the first band prints any row from one band down.          *)
LEMMA PassExists ==
  ASSUME NEW w, ProperHead(w), NEW pos \in Nat, pos >= BandRows(w),
         NEW subpass \in 0 .. w.oversampling - 1
  PROVE  LET o == pos % SubblocksPerPassblock(w)
         IN  \E p \in 0 .. BandPasses(w) - 1 :
               Prints(w, Reach(w, pos - o, p), o, subpass, p)
<1> DEFINE sep == w.separation
           os == w.oversampling
           adv == AdvanceBasis(w)
           S == SubblocksPerPassblock(w)
           t == PassesPerSubblock(w)
           o == pos % S
           block == pos - o
           b == SubpassBlock(w, S, o)
           BP == BandPasses(w)
           BR == BandRows(w)
<1>1. /\ sep \in Positive /\ w.jets \in Positive /\ os \in Positive
      /\ BP = sep * os /\ BR = sep * w.jets
  BY DEF ProperHead, Positive, BandPasses, BandRows
<1>2. /\ adv \in Positive /\ adv * os <= w.jets /\ S \in Positive /\ t \in Positive
      /\ sep = S * t /\ BP \in Positive /\ BR \in Positive
  BY Blocks
<1>3. PICK a \in Positive : adv = S * a
  BY Blocks
<1>4. PICK r0, k0 \in Int : S = sep * r0 + adv * k0
  BY Blocks
<1>5. o \in 0 .. S - 1 /\ pos \div S \in Int /\ pos = S * (pos \div S) + o
  BY <1>2, Division
<1>6. b \in 0 .. S - 1
  BY <1>2, <1>5, OffsetOfBlock
<1>7. subpass \in 0 .. os - 1 /\ pos >= BR
  OBVIOUS
<1>8. PICK n \in Int : block = S * n
  <2> DEFINE n == pos \div S
  <2>1. n \in Int /\ pos = S * n + o
    BY <1>5
  <2> HIDE DEF n, o
  <2>2. block = S * n
    BY <1>2, <1>5, <2>1 DEF Positive
  <2> QED  BY <2>1, <2>2
<1> HIDE DEF sep, os, adv, S, t, o, b, BP, BR
<1> DEFINE base == subpass * sep + b * t
           c == n - a * base
           r == (k0 * c) % t
           z == (k0 * c) \div t
           p == base + r
<1>9. base \in Nat /\ base \in Int
  BY <1>1, <1>2, <1>6, <1>7 DEF Positive
<1> HIDE DEF base
<1>10. c \in Int
  BY <1>3, <1>8, <1>9 DEF Positive
<1> HIDE DEF c
<1>11. r \in 0 .. t - 1 /\ z \in Int /\ k0 * c = t * z + r
  <2>1. k0 * c \in Int
    BY <1>4, <1>10
  <2> QED  BY <1>2, <2>1, Division
<1> HIDE DEF r, z
(* The pass is in the subpass and in the subblock that are looked for.     *)
<1>12. /\ p \div sep = subpass /\ p % sep = b * t + r
       /\ (b * t + r) \div t = b
       /\ p \in 0 .. BP - 1
  <2> DEFINE m == b * t + r
  <2>1. m \in 0 .. sep - 1
    <3>1. b * t + r >= 0
      BY <1>2, <1>6, <1>11 DEF Positive
    <3>2. b * t <= (S - 1) * t
      BY <1>2, <1>6 DEF Positive
    <3>3. (S - 1) * t = S * t - t
      BY <1>2 DEF Positive
    <3>4. b * t \in Int /\ S * t \in Int
      BY <1>2, <1>6 DEF Positive
    <3> QED  BY <1>2, <1>11, <3>1, <3>2, <3>3, <3>4 DEF Positive
  <2>2. p = sep * subpass + m
    BY <1>1, <1>2, <1>6, <1>7, <1>11 DEF base, Positive
  <2>3. m \div t = b
    <3>1. m \in Int /\ m = t * b + r
      BY <1>2, <1>6, <1>11 DEF Positive
    <3> QED  BY <1>2, <1>6, <1>11, <3>1, DivisionIs
  <2> HIDE DEF m
  <2>4. p \in Int
    BY <1>9, <1>11
  <2>5. p \div sep = subpass /\ p % sep = m
    BY <1>1, <1>7, <2>1, <2>2, <2>4, DivisionIs
  <2>6. p \in 0 .. BP - 1
    <3>1. sep * subpass <= sep * (os - 1)
      BY <1>1, <1>7 DEF Positive
    <3>2. sep * (os - 1) = BP - sep
      BY <1>1 DEF Positive
    <3>3. sep * subpass >= 0 /\ sep * subpass \in Int
      BY <1>1, <1>7 DEF Positive
    <3> QED  BY <1>1, <1>2, <2>1, <2>2, <2>4, <3>1, <3>2, <3>3 DEF Positive
  <2> QED  BY <2>3, <2>5, <2>6 DEF m
<1>13. p \div BP = 0 /\ p % BP = p
  <2>1. p \in Int /\ p = BP * 0 + p
    BY <1>2, <1>12 DEF Positive
  <2> HIDE DEF p
  <2> QED  BY <1>2, <1>12, <2>1, DivisionIs
<1> DEFINE reach == Reach(w, block, p)
<1>14. reach = block - adv * p
  <2>1. reach = block - (p \div BP) * BR - adv * (p % BP)
    BY DEF Reach, BP, BR, adv
  <2>2. BR \in Int /\ block \in Int /\ adv * p \in Int
    BY <1>2, <1>5, <1>12 DEF Positive, block
  <2> HIDE DEF p, reach, block
  <2> QED  BY <1>13, <2>1, <2>2
(* Its head has reached the block.                                         *)
<1>15. reach >= 0
  <2>1. p <= BP - 1 /\ p \in Nat
    BY <1>2, <1>12 DEF Positive
  <2>2. adv * p <= adv * (BP - 1)
    BY <1>2, <2>1 DEF Positive
  <2>3. adv * (BP - 1) = sep * (adv * os) - adv
    BY <1>1, <1>2 DEF Positive
  <2>4. sep * (adv * os) <= sep * w.jets
    BY <1>1, <1>2 DEF Positive
  <2>5. S <= adv
    BY <1>2, <1>3 DEF Positive
  <2>6. block >= BR - (S - 1)
    BY <1>2, <1>5, <1>7 DEF Positive
  <2>7. sep * w.jets \in Int /\ sep * (adv * os) \in Int /\ adv * p \in Int /\ block \in Int
    BY <1>1, <1>2, <1>5, <2>1 DEF Positive
  <2> HIDE DEF p, block, reach
  <2> QED  BY <1>1, <1>2, <1>14, <2>2, <2>3, <2>4, <2>5, <2>6, <2>7 DEF Positive
(* A jet lies on it.                                                       *)
<1>16. reach % sep = 0
  <2>1. adv * t = a * sep
    BY <1>2, <1>3 DEF Positive
  <2>2. S * c = block - adv * base
    BY <1>2, <1>3, <1>8, <1>9 DEF c, Positive
  <2>3. S * c = sep * (r0 * c) + adv * (k0 * c)
    BY <1>1, <1>2, <1>4, <1>10 DEF Positive
  <2>4. adv * (k0 * c) = (adv * t) * z + adv * r
    BY <1>2, <1>11 DEF Positive
  <2>5. adv * p = adv * base + adv * r
    BY <1>2, <1>9, <1>11 DEF Positive
  <2>6. reach = sep * (r0 * c) + (a * sep) * z
    <3> DEFINE A == adv * base
               B == adv * r
               C == sep * (r0 * c)
               D == (a * sep) * z
    <3>1. A \in Int /\ B \in Int /\ C \in Int /\ D \in Int /\ block \in Int
      BY <1>1, <1>2, <1>3, <1>4, <1>5, <1>9, <1>10, <1>11 DEF Positive
    <3>2. block - A = C + (D + B)
      BY <2>1, <2>2, <2>3, <2>4
    <3>3. reach = block - (A + B)
      BY <1>14, <2>5
    <3> HIDE DEF A, B, C, D, reach, block
    <3>4. reach = C + D
      BY <3>1, <3>2, <3>3
    <3> QED  BY <3>4 DEF C, D
  <2>7. reach = sep * (r0 * c + a * z)
    BY <1>1, <1>3, <1>4, <1>10, <1>11, <2>6 DEF Positive
  <2> DEFINE q == r0 * c + a * z
  <2>8. q \in Int /\ sep * q \in Int
    BY <1>1, <1>3, <1>4, <1>10, <1>11 DEF Positive
  <2> HIDE DEF reach, q
  <2>9. reach \in Int /\ reach = sep * q
    BY <2>7, <2>8 DEF q
  <2> QED  BY <1>1, <2>8, <2>9, Multiple
<1>17. Prints(w, reach, o, subpass, p)
  <2> HIDE DEF p, reach
  <2> QED  BY <1>12, <1>13, <1>15, <1>16, Zenon DEF Prints, BP, sep, t, S, b
<1> QED  BY <1>12, <1>17 DEF o, S, BP

(* The pass found prints the row; it is the latest, so that the jet is one *)
(* of the head.                                                            *)
LEMMA RawPassIs ==
  ASSUME NEW w, ProperHead(w), NEW pos \in Nat, pos >= BandRows(w),
         NEW subpass \in 0 .. w.oversampling - 1
  PROVE  LET o == pos % SubblocksPerPassblock(w)
             p == RawPass(w, pos - o, o, subpass)
         IN  /\ p \in Nat
             /\ Prints(w, Reach(w, pos - o, p), o, subpass, p)
             /\ Reach(w, pos - o, p) \in 0 .. BandRows(w) - 1
<1> DEFINE BR == BandRows(w)
           BP == BandPasses(w)
           adv == AdvanceBasis(w)
           sep == w.separation
           o == pos % SubblocksPerPassblock(w)
           block == pos - o
           n == (block \div BR + 1) * BP - 1
           candidates ==
             {p \in 0 .. n : Prints(w, Reach(w, block, p), o, subpass, p)}
           best == RawPass(w, block, o, subpass)
           reach == Reach(w, block, best)
<1>1. /\ BR \in Positive /\ BP \in Positive /\ adv \in Positive
      /\ SubblocksPerPassblock(w) \in Positive /\ sep \in Positive
      /\ BR = sep * w.jets /\ w.jets \in Positive
  BY Blocks DEF ProperHead, BandRows
<1>2. block \in Nat
  <2>1. /\ pos = SubblocksPerPassblock(w) * (pos \div SubblocksPerPassblock(w)) + o
        /\ o \in 0 .. SubblocksPerPassblock(w) - 1
        /\ pos \div SubblocksPerPassblock(w) \in Int
    BY <1>1, Division
  <2> DEFINE s == SubblocksPerPassblock(w)
             q == pos \div s
  <2> HIDE DEF s, q, o
  <2>2. pos = s * q + o /\ o \in 0 .. s - 1 /\ q \in Int /\ s \in Positive
    BY <1>1, <2>1 DEF s, q
  <2>3. q >= 0
    <3>1. CASE q <= -1
      <4>1. s * q <= -s
        BY <2>2, <3>1 DEF Positive
      <4>2. s * q \in Int
        BY <2>2 DEF Positive
      <4> QED  BY <2>2, <4>1, <4>2 DEF Positive
    <3> QED  BY <2>2, <3>1
  <2>4. s * q >= 0 /\ s * q \in Int
    BY <2>2, <2>3 DEF Positive
  <2> QED  BY <2>2, <2>4 DEF Positive
<1> HIDE DEF block, o
<1>3. block \div BR \in Nat /\ block = BR * (block \div BR) + (block % BR)
      /\ block % BR \in 0 .. BR - 1
  <2> DEFINE d == block \div BR
             m == block % BR
  <2>1. d \in Int /\ m \in 0 .. BR - 1 /\ block = BR * d + m
    BY <1>1, <1>2, Division
  <2> HIDE DEF d, m
  <2>2. d >= 0
    <3>1. CASE d <= -1
      <4>1. BR * d <= -BR
        BY <1>1, <2>1, <3>1 DEF Positive
      <4>2. BR * d \in Int
        BY <1>1, <2>1 DEF Positive
      <4> QED  BY <1>1, <1>2, <2>1, <4>1, <4>2 DEF Positive
    <3> QED  BY <2>1, <3>1
  <2> QED  BY <2>1, <2>2 DEF d, m
<1> DEFINE d == block \div BR
<1>4. n = d * BP + (BP - 1) /\ n \in Nat /\ BP - 1 <= n
  BY <1>1, <1>3 DEF Positive
<1> HIDE DEF BR, BP, adv, sep, n
<1>5. PICK p0 \in 0 .. BP - 1 : Prints(w, Reach(w, block, p0), o, subpass, p0)
  BY PassExists DEF BP, block, o
<1>6. candidates # {} /\ candidates \in SUBSET (0 .. n)
  BY <1>1, <1>4, <1>5 DEF Positive
<1>7. \E p \in candidates : \A q \in candidates : q <= p
  <2> HIDE DEF candidates
  <2> QED  BY <1>4, <1>6, GreatestMember
<1>8. best \in candidates /\ \A q \in candidates : q <= best
  <2>1. best = CHOOSE p \in candidates : \A q \in candidates : q <= p
    BY DEF RawPass, n, BR, BP
  <2> HIDE DEF candidates, best
  <2> QED  BY <1>7, <2>1
<1> HIDE DEF best
<1>9. best \in Nat /\ best \in 0 .. n /\ Prints(w, reach, o, subpass, best)
  BY <1>8
<1> DEFINE k == best \div BP
           i == best % BP
<1>10. k \in Int /\ i \in 0 .. BP - 1 /\ best = BP * k + i
  BY <1>1, <1>9, Division
<1>11. reach = block - k * BR - adv * i /\ reach >= 0
  BY <1>9, Zenon DEF Reach, Prints, BR, BP, adv
<1> HIDE DEF k, i, reach, d
<1>12. k \in Int /\ k * BR \in Int /\ adv * i \in Int /\ adv * i >= 0
  BY <1>1, <1>10 DEF Positive
<1>13. reach \in Int
  BY <1>2, <1>11, <1>12
(* Were it a band away, the pass one band further down would do as well.   *)
<1>14. ASSUME reach >= BR PROVE FALSE
  <2> DEFINE next == best + BP
             there == Reach(w, block, next)
  <2>1. next \in Int /\ next = BP * (k + 1) + i /\ k + 1 \in Int
    BY <1>1, <1>9, <1>10 DEF Positive
  <2>2. next \div BP = k + 1 /\ next % BP = i
    <3> HIDE DEF next
    <3> QED  BY <1>1, <1>10, <2>1, DivisionIs
  <2>3. there = block - (k + 1) * BR - adv * i
    BY <2>2, Zenon DEF Reach, BR, BP, adv
  <2>4. there = reach - BR
    <3>1. (k + 1) * BR = k * BR + BR
      <4>1. k \in Int /\ BR \in Int
        BY <1>1, <1>12 DEF Positive
      <4> QED  BY <4>1
    <3> HIDE DEF there
    <3> QED  BY <1>1, <1>2, <1>11, <1>12, <2>3, <3>1 DEF Positive
  <2>5. there % sep = 0
    <3>1. reach % sep = 0
      BY <1>9 DEF Prints, sep
    <3>2. PICK q \in Int : reach = sep * q
      BY <1>1, <1>13, <3>1, Multiple
    <3>3. there = sep * (q - w.jets) /\ q - w.jets \in Int
      <4>1. BR = sep * w.jets
        BY <1>1
      <4> HIDE DEF there
      <4> QED  BY <1>1, <2>4, <3>2, <4>1 DEF Positive
    <3>4. there \in Int
      BY <1>1, <1>13, <2>4 DEF Positive
    <3> DEFINE u == q - w.jets
    <3> HIDE DEF there, u
    <3>5. u \in Int /\ there = sep * u
      BY <3>3 DEF u
    <3> QED  BY <1>1, <3>4, <3>5, Multiple
  <2>6. there >= 0
    BY <1>1, <1>13, <1>14, <2>4 DEF Positive
  <2>7. Prints(w, there, o, subpass, next)
    <3>1. /\ (best % BP) \div w.separation = subpass
          /\ ((best % BP) % w.separation) \div PassesPerSubblock(w)
               = SubpassBlock(w, SubblocksPerPassblock(w), o)
      BY <1>9, Zenon DEF Prints, BP
    <3>2. next % BP = best % BP
      BY <2>2 DEF i
    <3> HIDE DEF there, next
    <3> QED  BY <2>5, <2>6, <3>1, <3>2, Zenon DEF Prints, BP, sep
  <2>8. k + 1 <= d
    <3>1. block = BR * d + (block % BR) /\ block % BR \in 0 .. BR - 1 /\ d \in Nat
      BY <1>3 DEF d
    <3>2. k * BR + BR <= block
      BY <1>1, <1>2, <1>11, <1>12, <1>14 DEF Positive
    <3>3. CASE k >= d
      <4>1. k * BR >= d * BR
        <5>1. k \in Int /\ d \in Int /\ BR \in Int /\ BR >= 0
          BY <1>1, <1>12, <3>1 DEF Positive
        <5>2. (k - d) * BR >= 0
          BY <3>3, <5>1
        <5>3. (k - d) * BR = k * BR - d * BR /\ k * BR \in Int /\ d * BR \in Int
          BY <5>1
        <5> QED  BY <5>2, <5>3
      <4>2. d * BR = BR * d /\ BR * d \in Int
        BY <1>1, <3>1 DEF Positive
      <4> DEFINE x == block % BR
      <4>3. x \in 0 .. BR - 1 /\ block = BR * d + x
        BY <3>1
      <4> HIDE DEF x
      <4> QED  BY <1>1, <1>2, <1>12, <3>2, <4>1, <4>2, <4>3 DEF Positive
    <3> QED  BY <1>10, <3>1, <3>3
  <2>9. next \in 0 .. n
    <3>1. d \in Int
      BY <1>3 DEF d
    <3>2. BP * (k + 1) <= d * BP
      BY <1>1, <1>10, <2>8, <3>1 DEF Positive
    <3>3. n = d * BP + (BP - 1) /\ d * BP \in Int /\ BP * (k + 1) \in Int
      BY <1>1, <1>4, <1>10, <3>1 DEF d, Positive
    <3>4. next >= 0
      BY <1>1, <1>9 DEF Positive
    <3> HIDE DEF next
    <3> QED  BY <1>1, <1>10, <2>1, <3>2, <3>3, <3>4 DEF Positive
  <2>10. next \in candidates
    BY <2>7, <2>9
  <2>11. next <= best
    BY <1>8, <2>10
  <2> QED  BY <1>1, <1>9, <2>11 DEF Positive
<1>15. reach \in 0 .. BR - 1
  BY <1>1, <1>11, <1>13, <1>14 DEF Positive
<1> QED  BY <1>9, <1>15 DEF best, reach, o, block, BR

-----------------------------------------------------------------------------
(* The two halves.                                                         *)

(* The pass found starts where its own formula says.                       *)
LEMMA HalvesAgree ==
  ASSUME NEW w, ProperHead(w), NEW pos \in Nat, pos >= BandRows(w),
         NEW subpass \in 0 .. w.oversampling - 1
  PROVE  LET raw == RawRowParameters(w, pos, subpass)
         IN  /\ raw.jet \in 0 .. w.jets - 1
             /\ RawStartRow(w, raw.pass) = raw.startrow
             /\ RawSubpass(w, raw.pass) = subpass
<1> DEFINE BR == BandRows(w)
           BP == BandPasses(w)
           adv == AdvanceBasis(w)
           sep == w.separation
           os == w.oversampling
           S == SubblocksPerPassblock(w)
           t == PassesPerSubblock(w)
           o == pos % S
           block == pos - o
           pass == RawPass(w, block, o, subpass)
           reach == Reach(w, block, pass)
           raw == RawRowParameters(w, pos, subpass)
           b == SubpassBlock(w, S, o)
<1>1. /\ BR \in Positive /\ BP \in Positive /\ adv \in Positive
      /\ S \in Positive /\ t \in Positive /\ sep \in Positive /\ sep = S * t
      /\ BR = sep * w.jets /\ BP = sep * os /\ w.jets \in Positive /\ os \in Positive
  BY Blocks DEF ProperHead, BandRows, BandPasses, Positive
<1>2. o \in 0 .. S - 1
  BY <1>1, Division
<1>3. pass \in Nat /\ reach \in 0 .. BR - 1 /\ Prints(w, reach, o, subpass, pass)
  BY RawPassIs, Zenon
<1>4. SubpassOffset(w, S, b) = o
  BY <1>1, <1>2, OffsetOfBlock
<1>5. raw = RawRow(w, pos, pass, reach)
  BY Zenon DEF RawRowParameters
<1> HIDE DEF BR, BP, adv, sep, os, S, t, o, pass, reach, raw, b
<1> DEFINE i == pass % BP
           k == pass \div BP
           j == reach \div sep
<1>6. /\ reach % sep = 0 /\ i \div sep = subpass /\ (i % sep) \div t = b
  BY <1>3, Zenon DEF Prints, BP, sep, t, S, b
<1>7. reach = block - k * BR - adv * i
  BY Zenon DEF reach, Reach, BR, BP, adv
<1>8. j \in Int /\ reach = sep * j
  <2>1. reach \in Int
    BY <1>1, <1>3 DEF Positive
  <2>2. j \in Int /\ reach = sep * j + (reach % sep)
    BY <1>1, <2>1, Division
  <2> HIDE DEF j
  <2> QED  BY <1>1, <1>6, <2>2 DEF Positive
<1> HIDE DEF j
<1>9. j \in 0 .. w.jets - 1
  <2>1. j >= 0
    <3>1. CASE j <= -1
      <4>1. sep * j <= -sep
        BY <1>1, <1>8, <3>1 DEF Positive
      <4>2. sep * j >= 0 /\ sep * j \in Int
        BY <1>3, <1>8, <1>1 DEF Positive
      <4> QED  BY <1>1, <4>1, <4>2 DEF Positive
    <3> QED  BY <1>8, <3>1
  <2>2. j < w.jets
    <3>1. CASE j >= w.jets
      <4>1. j \in Int /\ sep \in Int /\ sep > 0 /\ w.jets \in Int
        BY <1>1, <1>8 DEF Positive
      <4>2. sep * (j - w.jets) >= 0
        BY <3>1, <4>1
      <4>3. sep * (j - w.jets) = sep * j - sep * w.jets
        BY <4>1
      <4>4. sep * j \in Int /\ sep * w.jets \in Int
        BY <4>1
      <4>5. reach \in Int /\ reach < BR /\ reach = sep * j /\ BR = sep * w.jets
        BY <1>1, <1>3, <1>8 DEF Positive
      <4> QED  BY <4>2, <4>3, <4>4, <4>5
    <3> QED  BY <1>1, <1>8, <3>1 DEF Positive
  <2> QED  BY <1>1, <1>8, <2>1, <2>2 DEF Positive
<1>10. /\ raw.pass = pass /\ raw.jet = j /\ raw.startrow = pos - j * sep
  <2>1. raw = [pass |-> pass, jet |-> j % w.jets,
               startrow |-> pos - (j % w.jets) * sep]
    BY <1>5, Zenon DEF RawRow, j, sep
  <2>2. j % w.jets = j
    <3>1. j \in Int /\ 0 \in Int /\ w.jets \in Positive /\ j \in 0 .. w.jets - 1
      BY <1>1, <1>8, <1>9
    <3>2. j = w.jets * 0 + j
      BY <3>1 DEF Positive
    <3> QED  BY <3>1, <3>2, DivisionIs
  <2>3. raw = [pass |-> pass, jet |-> j, startrow |-> pos - j * sep]
    BY <2>1, <2>2, Zenon
  <2> QED  BY <2>3
(* What C's truncating divisions give of a pass that is not negative.      *)
<1>11. /\ CMod(pass, BP) = i /\ CDiv(pass, BP) = k
       /\ i \in 0 .. BP - 1 /\ k \in Int
  <2>0. pass \in Int
    BY <1>3
  <2>1. /\ i \in 0 .. BP - 1 /\ k \in Int /\ pass = BP * k + i
    BY <1>1, <2>0, Division
  <2>2. CDiv(pass, BP) = k
    BY <1>3 DEF CDiv
  <2>3. CMod(pass, BP) = pass - BP * k
    BY <2>2, Zenon DEF CMod
  <2> HIDE DEF i, k
  <2>4. pass - BP * k = i
    BY <1>1, <1>3, <2>1 DEF Positive
  <2> QED  BY <2>1, <2>2, <2>3, <2>4
<1> HIDE DEF i, k
<1>12. CDiv(i, sep) = subpass
  BY <1>6, <1>11 DEF CDiv
<1> DEFINE m == pass % sep
<1>13. m = i % sep /\ m \in 0 .. sep - 1
  <2> DEFINE x == i \div sep
             y == i % sep
  <2>0. i \in Int /\ pass \in Int
    BY <1>1, <1>3, <1>11 DEF Positive
  <2>1. x \in Int /\ y \in 0 .. sep - 1 /\ i = sep * x + y
    BY <1>1, <2>0, Division
  <2>2. pass = BP * k + i
    BY <1>1, <2>0, Division DEF i, k
  <2> HIDE DEF x, y
  <2>3. pass = sep * (os * k + x) + y
    <3>1. sep \in Int /\ os \in Int /\ k \in Int /\ x \in Int
      BY <1>1, <1>11, <2>1 DEF Positive
    <3>2. (sep * os) * k + sep * x = sep * (os * k + x)
      BY <3>1
    <3>3. sep * x \in Int /\ (sep * os) * k \in Int
      BY <3>1
    <3>4. pass = (sep * os) * k + (sep * x + y)
      BY <1>1, <2>1, <2>2
    <3>5. pass = ((sep * os) * k + sep * x) + y
      BY <2>1, <3>3, <3>4
    <3> QED  BY <3>2, <3>5
  <2>4. os * k + x \in Int /\ pass \in Int
    BY <1>1, <1>3, <1>11, <2>1 DEF Positive
  <2> DEFINE q == os * k + x
  <2> HIDE DEF q
  <2>5. q \in Int /\ pass = sep * q + y
    BY <2>3, <2>4 DEF q
  <2>6. pass % sep = y
    BY <1>1, <2>1, <2>4, <2>5, DivisionIs
  <2> QED  BY <2>1, <2>6 DEF m, y
<1>14. CMod(pass, sep) = m
  <2>1. CDiv(pass, sep) = pass \div sep
    BY <1>3 DEF CDiv
  <2>2. CMod(pass, sep) = pass - sep * (pass \div sep)
    BY <2>1, Zenon DEF CMod
  <2> DEFINE x == pass \div sep
  <2>0. pass \in Int
    BY <1>3
  <2>3. x \in Int /\ pass = sep * x + m
    BY <1>1, <2>0, Division DEF m
  <2> HIDE DEF x, m
  <2>4. pass - sep * x = m
    BY <1>1, <1>3, <1>13, <2>3 DEF Positive
  <2> QED  BY <2>2, <2>4 DEF x
<1> HIDE DEF m
(* The subblock is the same, by either formula.                            *)
<1>15. CDiv(m * S, sep) = b
  <2> DEFINE c == m % t
  <2>1. b \in Int /\ c \in 0 .. t - 1 /\ m = t * b + c
    <3>1. m \in Int /\ m \div t = b
      BY <1>1, <1>6, <1>13 DEF Positive
    <3>2. m \div t \in Int /\ c \in 0 .. t - 1 /\ m = t * (m \div t) + c
      BY <1>1, <3>1, Division
    <3> HIDE DEF c
    <3> QED  BY <3>1, <3>2
  <2> HIDE DEF c
  <2>2. m * S = sep * b + c * S
    <3>1. (t * b + c) * S = (S * t) * b + c * S
      BY <1>1, <2>1 DEF Positive
    <3> QED  BY <1>1, <2>1, <3>1
  <2>3. c * S \in 0 .. sep - 1
    <3>1. S \in Int /\ t \in Int /\ c \in Int /\ S > 0 /\ c >= 0 /\ c <= t - 1
      BY <1>1, <2>1 DEF Positive
    <3>2. c * S >= 0 /\ (t - 1 - c) * S >= 0
      BY <3>1
    <3>3. (t - 1 - c) * S = S * t - S - c * S /\ c * S \in Int /\ S * t \in Int
      BY <3>1
    <3>4. sep = S * t
      BY <1>1
    <3> QED  BY <3>1, <3>2, <3>3, <3>4
  <2>4. m * S \in Int /\ m * S >= 0
    BY <1>1, <1>13 DEF Positive
  <2>5. (m * S) \div sep = b
    <3> DEFINE x == m * S
               y == c * S
    <3> HIDE DEF x, y
    <3>1. x \in Int /\ y \in 0 .. sep - 1 /\ x = sep * b + y
      BY <2>2, <2>3, <2>4 DEF x, y
    <3>2. x \div sep = b
      BY <1>1, <2>1, <3>1, DivisionIs
    <3> QED  BY <3>2 DEF x
  <2> QED  BY <2>4, <2>5 DEF CDiv
<1>16. RawStartRow(w, pass) = BR * k + adv * i + o
  BY <1>4, <1>11, <1>14, <1>15, Zenon
     DEF RawStartRow, BR, BP, adv, sep, S
<1>17. BR * k + adv * i + o = pos - j * sep
  <2>1. /\ BR \in Int /\ k \in Int /\ adv \in Int /\ i \in Int /\ o \in Int
        /\ j \in Int /\ sep \in Int
    BY <1>1, <1>2, <1>8, <1>11 DEF Positive
  <2>2. BR * k = k * BR /\ j * sep = sep * j
    BY <2>1
  <2>3. k * BR \in Int /\ adv * i \in Int /\ sep * j \in Int
    BY <2>1
  <2>4. sep * j = (pos - o) - k * BR - adv * i
    BY <1>7, <1>8
  <2> QED  BY <2>1, <2>2, <2>3, <2>4
<1>18. RawSubpass(w, pass) = subpass
  BY <1>11, <1>12, Zenon DEF RawSubpass, BP, sep
<1> QED  BY <1>9, <1>10, <1>16, <1>17, <1>18 DEF raw

(* A request that stp_initialize_weave accepts makes a head of this kind.  *)
LEMMA PageIsHead ==
  ASSUME NEW rq \in Requests, rq.strategy # "ascending3x"
  PROVE  ProperHead(PageOf(rq)) /\ PageOf(rq).oversampling = Oversample(rq)
<1> DEFINE all == rq.osample * rq.v_subpasses * rq.v_subsample
           R == RepeatCounts(rq)
           rep == RepeatCount(rq)
           os == rq.osample
           v == rq.v_subpasses
           u == rq.v_subsample
<1>1. /\ rq.jets \in Positive /\ os \in Positive
      /\ v \in Positive /\ u \in Positive
      /\ rq.sep \in Int /\ rq.strategy \in Strategies /\ R # {}
  BY RequestsAssumption DEF Accepted
<1>2. Separation(rq) \in Positive
  BY <1>1 DEF Separation, Positive
<1>3. rep \in R
  <2>1. R \in SUBSET Nat
    BY <1>1 DEF RepeatCounts, Positive
  <2>2. \E i \in R : \A k \in R : i <= k
    <3> HIDE DEF R
    <3> QED  BY <1>1, <2>1, LeastMember
  <2> QED  BY <2>2 DEF RepeatCount
<1>4. Oversample(rq) = (os \div rep) * v * u
  BY Zenon DEF Oversample
<1>5. Oversample(rq) \in 1 .. rq.jets
  <2>1. CASE all <= rq.jets
    <3>1. rep = 1
      BY <1>3, <2>1 DEF RepeatCounts
    <3>2. os \div 1 = os
      BY <1>1 DEF Positive
    <3>3. Oversample(rq) = all
      BY <1>4, <3>1, <3>2, Zenon
    <3>4. all \in Nat /\ all >= 1
      BY <1>1 DEF Positive
    <3> HIDE DEF all
    <3> QED  BY <1>1, <2>1, <3>3, <3>4 DEF Positive
  <2>2. CASE ~(all <= rq.jets)
    <3>1. rep \in 2 .. os /\ os % rep = 0 /\ (os \div rep) * v * u <= rq.jets
      BY <1>3, <2>2 DEF RepeatCounts
    <3> DEFINE q == os \div rep
    <3>2. rep \in Positive /\ os \in Int
      BY <1>1, <3>1 DEF Positive
    <3>3. q \in Int /\ os = rep * q + (os % rep)
      BY <3>2, Division
    <3> HIDE DEF q, rep
    <3>4. os = rep * q
      BY <3>1, <3>2, <3>3 DEF Positive
    <3>5. q >= 1
      <4>1. CASE q <= 0
        <5>1. rep * q <= 0
          BY <3>2, <3>3, <4>1 DEF Positive
        <5> QED  BY <1>1, <3>4, <5>1 DEF Positive
      <4> QED  BY <3>3, <4>1
    <3>6. q * v * u \in Int /\ q * v * u >= 1
      <4>1. q * v \in Nat /\ q * v >= 1
        BY <1>1, <3>3, <3>5 DEF Positive
      <4> DEFINE x == q * v
      <4> HIDE DEF x
      <4>2. x \in Nat /\ x >= 1
        BY <4>1 DEF x
      <4>3. x * u \in Int /\ x * u >= 1
        BY <1>1, <4>2 DEF Positive
      <4> QED  BY <4>3 DEF x
    <3>7. Oversample(rq) = q * v * u /\ q * v * u <= rq.jets
      BY <1>4, <3>1 DEF q
    <3> DEFINE z == q * v * u
    <3> HIDE DEF z
    <3>8. z \in Int /\ z >= 1 /\ Oversample(rq) = z /\ z <= rq.jets
      BY <3>6, <3>7 DEF z
    <3> QED  BY <1>1, <3>8 DEF Positive
  <2> QED  BY <2>1, <2>2
<1>6. /\ PageOf(rq).separation = Separation(rq) /\ PageOf(rq).jets = rq.jets
      /\ PageOf(rq).oversampling = Oversample(rq)
      /\ PageOf(rq).strategy = rq.strategy
  BY DEF PageOf
<1> QED  BY <1>1, <1>2, <1>5, <1>6 DEF ProperHead

-----------------------------------------------------------------------------
(* The row asked for is one of the page's.                                 *)
RowOfPage ==
  request \in Requests /\ row \in Nat /\ row >= request.first_line

(* It is so all along.                                                    *)
LEMMA RowsOfPage == Spec => []RowOfPage
<1>1. Init => RowOfPage
  BY RequestsAssumption DEF Init, RowOfPage
<1>2. RowOfPage /\ [Next]_vars => RowOfPage'
  <2> SUFFICES ASSUME RowOfPage, [Next]_vars PROVE RowOfPage'
    OBVIOUS
  <2>1. request \in Requests /\ row \in Nat /\ request.first_line \in Nat
        /\ row >= request.first_line
    BY RequestsAssumption DEF RowOfPage
  <2>2. request' = request /\ row' \in {row, row + 1}
    BY DEF Next, NextRow, vars
  <2> QED  BY <2>1, <2>2 DEF RowOfPage
<1> QED  BY <1>1, <1>2, PTL DEF Spec

(* For every head, separation, oversampling and strategy that the drivers  *)
(* ask for: calculate_raw_row_parameters and calculate_raw_pass_parameters *)
(* agree on every row and subpass of the page.                             *)
THEOREM RawWeaveAgrees ==
  ASSUME \A rq \in Requests : rq.strategy # "ascending3x"
  PROVE  Spec => []RawHalvesAgree
<1>1. RowOfPage => RawHalvesAgree
  <2> SUFFICES ASSUME RowOfPage, NEW s \in 0 .. Oversample(request) - 1
               PROVE  LET pg  == PageOf(request)
                          raw == RawRowParameters(pg, row + BandRows(pg), s)
                      IN  /\ RawStartRow(pg, raw.pass) = raw.startrow
                          /\ RawSubpass(pg, raw.pass) = s
    BY Zenon DEF RawHalvesAgree
  <2> DEFINE pg == PageOf(request)
             r == row + BandRows(pg)
  <2>1. ProperHead(pg) /\ pg.oversampling = Oversample(request)
    BY PageIsHead DEF RowOfPage
  <2> HIDE DEF pg
  <2>2. r \in Nat /\ r >= BandRows(pg)
    BY <2>1, Blocks DEF RowOfPage, Positive
  <2> HIDE DEF r
  <2>3. LET raw == RawRowParameters(pg, r, s)
        IN  /\ RawStartRow(pg, raw.pass) = raw.startrow
            /\ RawSubpass(pg, raw.pass) = s
    BY <2>1, <2>2, HalvesAgree
  <2> QED  BY <2>3 DEF pg, r
<1> QED  BY <1>1, RowsOfPage, PTL

-----------------------------------------------------------------------------
(* The starts of the passes.                                               *)

(* SubpassOffset gives a row of the pass block, and SubpassBlock undoes it.*)
LEMMA BlockOfOffset ==
  ASSUME NEW w, ProperHead(w), NEW s \in Positive, NEW b \in 0 .. s - 1
  PROVE  /\ SubpassOffset(w, s, b) \in 0 .. s - 1
         /\ SubpassBlock(w, s, SubpassOffset(w, s, b)) = b
<1> DEFINE o == SubpassOffset(w, s, b)
<1>1. CASE w.strategy = "zigzag"
  <2>1. o = IF 2 * b < s THEN 2 * b ELSE 2 * (s - b) - 1
    BY <1>1 DEF SubpassOffset
  <2>2. SubpassBlock(w, s, o) = IF o % 2 = 0 THEN o \div 2 ELSE s - (o + 1) \div 2
    BY <1>1 DEF SubpassBlock
  <2> HIDE DEF o
  <2>3. o \in 0 .. s - 1 /\ SubpassBlock(w, s, o) = b
    BY <2>1, <2>2 DEF Positive
  <2> QED  BY <2>3 DEF o
<1>2. CASE w.strategy = "ascending"
  <2>1. o = b
    BY <1>2 DEF SubpassOffset
  <2>2. SubpassBlock(w, s, o) = o
    BY <1>2 DEF SubpassBlock
  <2> QED  BY <2>1, <2>2
<1>3. CASE w.strategy = "descending"
  <2>1. o = s - 1 - b
    BY <1>3 DEF SubpassOffset
  <2>2. SubpassBlock(w, s, o) = s - 1 - o
    BY <1>3 DEF SubpassBlock
  <2> HIDE DEF o
  <2>3. o \in 0 .. s - 1 /\ SubpassBlock(w, s, o) = b
    BY <2>1, <2>2 DEF Positive
  <2> QED  BY <2>3 DEF o
<1>4. CASE w.strategy = "ascending2x"
  <2>1. o = IF 2 * b < s THEN 2 * b ELSE 1 + 2 * (b - (s + 1) \div 2)
    BY <1>4 DEF SubpassOffset
  <2>2. SubpassBlock(w, s, o) =
          IF o % 2 = 0 THEN o \div 2 ELSE (o - 1) \div 2 + (s + 1) \div 2
    BY <1>4 DEF SubpassBlock
  <2> HIDE DEF o
  <2>3. o \in 0 .. s - 1 /\ SubpassBlock(w, s, o) = b
    BY <2>1, <2>2 DEF Positive
  <2> QED  BY <2>3 DEF o
<1>5. CASE w.strategy = "staggered"
  <2>1. o = IF 2 * b < s THEN 2 * b
            ELSE IF 2 * b < s + 2 THEN 1 ELSE 2 * (s - b) + 1
    BY <1>5 DEF SubpassOffset
  <2>2. SubpassBlock(w, s, o) =
          IF o % 2 = 0 THEN o \div 2
          ELSE IF o = 1 THEN (s + 1) \div 2
          ELSE s - (o - 1) \div 2
    BY <1>5 DEF SubpassBlock
  <2> HIDE DEF o
  <2>3. o \in 0 .. s - 1 /\ SubpassBlock(w, s, o) = b
    BY <2>1, <2>2 DEF Positive
  <2> QED  BY <2>3 DEF o
<1> QED  BY <1>1, <1>2, <1>3, <1>4, <1>5 DEF ProperHead, Strategies

(* Where a pass block starts that a pass begins with.                      *)
Base(w, p) ==
  BandRows(w) * (p \div BandPasses(w)) + AdvanceBasis(w) * (p % BandPasses(w))

(* The numbers of a head.                                                  *)
LEMMA HeadNumbers ==
  ASSUME NEW w, ProperHead(w)
  PROVE  /\ {BandRows(w), BandPasses(w), AdvanceBasis(w), w.separation,
             w.oversampling, w.jets, SubblocksPerPassblock(w),
             PassesPerSubblock(w)} \subseteq Positive
         /\ w.separation = SubblocksPerPassblock(w) * PassesPerSubblock(w)
         /\ BandRows(w) = w.separation * w.jets
         /\ BandPasses(w) = w.separation * w.oversampling
         /\ AdvanceBasis(w) * BandPasses(w) <= BandRows(w)
<1> DEFINE adv == AdvanceBasis(w)
           sep == w.separation
           os == w.oversampling
           jets == w.jets
<1>1. /\ sep \in Positive /\ jets \in Positive /\ os \in Positive
      /\ adv \in Positive /\ adv * os <= jets
  BY Blocks DEF ProperHead, Positive
<1>2. adv * (sep * os) <= sep * jets
  <2> HIDE DEF adv, sep, os, jets
  <2>1. sep * (adv * os) <= sep * jets
    <3> DEFINE x == adv * os
    <3>1. x \in Int /\ x <= jets
      BY <1>1 DEF Positive
    <3> HIDE DEF x
    <3>2. sep * x <= sep * jets
      BY <1>1, <3>1 DEF Positive
    <3> QED  BY <3>2 DEF x
  <2>2. adv * (sep * os) = sep * (adv * os)
    BY <1>1 DEF Positive
  <2> QED  BY <2>1, <2>2
<1>3. /\ BandRows(w) \in Positive /\ BandPasses(w) \in Positive
      /\ SubblocksPerPassblock(w) \in Positive /\ PassesPerSubblock(w) \in Positive
      /\ sep = SubblocksPerPassblock(w) * PassesPerSubblock(w)
  BY Blocks
<1>4. BandRows(w) = sep * jets /\ BandPasses(w) = sep * os
  BY DEF BandRows, BandPasses
<1> QED  BY <1>1, <1>2, <1>3, <1>4

(* The block that a pass prints is the quotient of its number.             *)
LEMMA BlockIs ==
  ASSUME NEW S \in Positive, NEW t \in Positive, NEW sep \in Positive,
         sep = S * t, NEW p \in Nat
  PROVE  /\ (p % sep) \div t \in 0 .. S - 1
         /\ ((p % sep) * S) \div sep = (p % sep) \div t
<1> DEFINE m == p % sep
           b == m \div t
           c == m % t
<1>1. m \in 0 .. sep - 1
  BY Division
<1> HIDE DEF m
<1>2. b \in Int /\ c \in 0 .. t - 1 /\ m = t * b + c
  <2>1. m \in Int
    BY <1>1
  <2> QED  BY <2>1, Division
<1> HIDE DEF b, c
<1>3. b \in 0 .. S - 1
  <2>1. b >= 0
    <3>1. CASE b <= -1
      <4>1. t * b <= -t
        BY <1>2, <3>1 DEF Positive
      <4> QED  BY <1>1, <1>2, <4>1 DEF Positive
    <3> QED  BY <1>2, <3>1
  <2>2. b <= S - 1
    <3>1. CASE b >= S
      <4>1. t * b >= t * S
        BY <1>2, <3>1 DEF Positive
      <4>2. t * S = S * t /\ t * b \in Int /\ S * t \in Int
        BY <1>2 DEF Positive
      <4> QED  BY <1>1, <1>2, <4>1, <4>2 DEF Positive
    <3> QED  BY <1>2, <3>1 DEF Positive
  <2> QED  BY <1>2, <2>1, <2>2 DEF Positive
<1>4. m * S = sep * b + c * S
  <2>1. (t * b + c) * S = (S * t) * b + c * S
    BY <1>2 DEF Positive
  <2> QED  BY <1>2, <2>1
<1>5. c * S \in 0 .. sep - 1
  <2>1. c * S >= 0
    BY <1>2 DEF Positive
  <2>2. c * S <= (t - 1) * S
    BY <1>2 DEF Positive
  <2>3. (t - 1) * S = S * t - S
    BY DEF Positive
  <2>4. c * S \in Int /\ S * t \in Int
    BY <1>2 DEF Positive
  <2> QED  BY <2>1, <2>2, <2>3, <2>4 DEF Positive
<1>6. (m * S) \div sep = b
  <2> DEFINE x == m * S
             y == c * S
  <2>1. x \in Int /\ x = sep * b + y /\ y \in 0 .. sep - 1 /\ b \in Int
    BY <1>1, <1>2, <1>4, <1>5 DEF Positive
  <2> HIDE DEF x, y
  <2>2. x \div sep = b
    BY <2>1, DivisionIs
  <2> QED  BY <2>2 DEF x
<1> QED  BY <1>3, <1>6 DEF m, b

(* A pass starts in the pass block at its base.                            *)
LEMMA StartIs ==
  ASSUME NEW w, ProperHead(w), NEW p \in Nat
  PROVE  LET S == SubblocksPerPassblock(w)
             b == (p % w.separation) \div PassesPerSubblock(w)
         IN  /\ Base(w, p) \in Nat
             /\ b \in 0 .. S - 1
             /\ RawStartRow(w, p) = Base(w, p) + SubpassOffset(w, S, b)
             /\ RawStartRow(w, p) \in Nat
             /\ RawStartRow(w, p) - Base(w, p) \in 0 .. S - 1
             /\ \E q \in Int : Base(w, p) = S * q
<1> DEFINE S == SubblocksPerPassblock(w)
           t == PassesPerSubblock(w)
           sep == w.separation
           BP == BandPasses(w)
           BR == BandRows(w)
           adv == AdvanceBasis(w)
           m == p % sep
           b == m \div t
           i == p % BP
           k == p \div BP
<1>1. /\ S \in Positive /\ t \in Positive /\ sep \in Positive /\ BP \in Positive
      /\ BR \in Positive /\ adv \in Positive /\ sep = S * t
      /\ BR = sep * w.jets /\ w.jets \in Positive
  BY HeadNumbers
<1>2. b \in 0 .. S - 1 /\ (m * S) \div sep = b
  <2> HIDE DEF S, t, sep
  <2> QED  BY <1>1, BlockIs
<1>3. i \in 0 .. BP - 1 /\ k \in Int /\ p = BP * k + i /\ k >= 0
  <2>1. i \in 0 .. BP - 1 /\ k \in Int /\ p = BP * k + i
    BY <1>1, Division
  <2> HIDE DEF i, k
  <2>2. k >= 0
    <3>1. CASE k <= -1
      <4>1. BP * k <= -BP
        BY <1>1, <2>1, <3>1 DEF Positive
      <4> QED  BY <1>1, <2>1, <4>1 DEF Positive
    <3> QED  BY <2>1, <3>1
  <2> QED  BY <2>1, <2>2
<1>4. CMod(p, BP) = i /\ CDiv(p, BP) = k /\ CMod(p, sep) = m
  <2>1. CDiv(p, BP) = k /\ CDiv(p, sep) = p \div sep
    BY DEF CDiv
  <2>2. CMod(p, BP) = p - BP * k /\ CMod(p, sep) = p - sep * (p \div sep)
    BY <2>1, Zenon DEF CMod
  <2> DEFINE x == p \div sep
  <2>3. x \in Int /\ m \in 0 .. sep - 1 /\ p = sep * x + m
    BY <1>1, Division
  <2> HIDE DEF x, m, i, k, BP, sep
  <2>4. p - BP * k = i
    <3>1. BP * k \in Int
      BY <1>1, <1>3 DEF Positive
    <3> QED  BY <1>3, <3>1
  <2>5. p - sep * x = m
    <3>1. sep * x \in Int
      BY <1>1, <2>3 DEF Positive
    <3> QED  BY <2>3, <3>1
  <2> QED  BY <2>1, <2>2, <2>4, <2>5 DEF x
<1>5. CDiv(m * S, sep) = b
  <2>1. m * S >= 0
    <3>1. m \in 0 .. sep - 1
      BY <1>1, Division
    <3> HIDE DEF m, S, sep
    <3> QED  BY <1>1, <3>1 DEF Positive
  <2>2. CDiv(m * S, sep) = (m * S) \div sep
    BY <2>1, Zenon DEF CDiv
  <2> QED  BY <1>2, <2>2
<1>6. RawStartRow(w, p) = BR * k + adv * i + SubpassOffset(w, S, b)
  BY <1>4, <1>5, Zenon DEF RawStartRow
<1>7. Base(w, p) = BR * k + adv * i
  BY Zenon DEF Base
<1>8. SubpassOffset(w, S, b) \in 0 .. S - 1
  BY <1>1, <1>2, BlockOfOffset
<1>9. PICK a \in Positive : adv = S * a
  BY Blocks
<1> DEFINE off == SubpassOffset(w, S, b)
<1> HIDE DEF off, b, i, k, m, BR, BP, adv, S, t, sep
<1>10. BR * k \in Nat /\ adv * i \in Nat
  BY <1>1, <1>3 DEF Positive
<1>11. BR * k + adv * i = S * ((t * w.jets) * k + a * i)
  <2>1. BR = S * (t * w.jets)
    BY <1>1 DEF Positive
  <2>2. (S * (t * w.jets)) * k = S * ((t * w.jets) * k)
    BY <1>1, <1>3 DEF Positive
  <2>3. (S * a) * i = S * (a * i)
    BY <1>1, <1>3, <1>9 DEF Positive
  <2>4. (t * w.jets) * k \in Int /\ a * i \in Int
    BY <1>1, <1>3, <1>9 DEF Positive
  <2> DEFINE x == (t * w.jets) * k
             y == a * i
  <2> HIDE DEF x, y
  <2>5. S * x + S * y = S * (x + y)
    BY <1>1, <2>4 DEF x, y, Positive
  <2> QED  BY <1>9, <2>1, <2>2, <2>3, <2>5 DEF x, y
<1>12. (t * w.jets) * k + a * i \in Int
  BY <1>1, <1>3, <1>9 DEF Positive
<1>13. \E q \in Int : Base(w, p) = S * q
  BY <1>7, <1>11, <1>12
<1>14. Base(w, p) \in Nat /\ off \in 0 .. S - 1 /\ RawStartRow(w, p) = Base(w, p) + off
  BY <1>6, <1>7, <1>8, <1>10 DEF off
<1>15. RawStartRow(w, p) \in Nat /\ RawStartRow(w, p) - Base(w, p) \in 0 .. S - 1
  BY <1>1, <1>14 DEF Positive
<1> QED  BY <1>2, <1>13, <1>14, <1>15 DEF off, b, m, S, t, sep

(* Each pass starts at least one advance below the one before it.          *)
LEMMA Rise ==
  ASSUME NEW w, ProperHead(w), NEW p \in Nat, NEW n \in Nat
  PROVE  Base(w, p + n) >= Base(w, p) + n * AdvanceBasis(w)
<1> DEFINE BP == BandPasses(w)
           BR == BandRows(w)
           adv == AdvanceBasis(w)
           i == p % BP
           k == p \div BP
           j == (p + n) % BP
           l == (p + n) \div BP
           d == l - k
<1>1. BP \in Positive /\ BR \in Positive /\ adv \in Positive /\ adv * BP <= BR
  BY HeadNumbers
<1>2. /\ i \in 0 .. BP - 1 /\ k \in Int /\ p = BP * k + i
      /\ j \in 0 .. BP - 1 /\ l \in Int /\ p + n = BP * l + j
  <2>1. p \in Int /\ p + n \in Int
    OBVIOUS
  <2> QED  BY <1>1, <2>1, Division
<1>3. Base(w, p) = BR * k + adv * i /\ Base(w, p + n) = BR * l + adv * j
  BY Zenon DEF Base
<1> HIDE DEF BP, BR, adv, i, j, k, l
<1>4. d \in Int /\ j - i = n - BP * d
  <2>1. BP * d = BP * l - BP * k /\ BP * l \in Int /\ BP * k \in Int
    BY <1>1, <1>2 DEF Positive
  <2> QED  BY <1>1, <1>2, <2>1 DEF Positive
<1>5. d >= 0
  <2>1. CASE d <= -1
    <3>1. BP * d <= -BP
      BY <1>1, <1>4, <2>1 DEF Positive
    <3>2. BP * d \in Int
      BY <1>1, <1>4 DEF Positive
    <3> QED  BY <1>1, <1>2, <1>4, <3>1, <3>2 DEF Positive
  <2> QED  BY <1>4, <2>1
<1>6. BR * l + adv * j = (BR * k + adv * i) + (BR * d + adv * (j - i))
  BY <1>1, <1>2 DEF Positive
<1>7. BR * d + adv * (j - i) = (BR - adv * BP) * d + n * adv
  <2> DEFINE x == j - i
  <2>1. x = n - BP * d
    BY <1>4
  <2> HIDE DEF d, x
  <2>2. adv * (n - BP * d) = adv * n - (adv * BP) * d
    BY <1>1, <1>4 DEF Positive
  <2>3. (BR - adv * BP) * d = BR * d - (adv * BP) * d
    BY <1>1, <1>4 DEF Positive
  <2>4. adv * n = n * adv /\ adv * n \in Int /\ (adv * BP) * d \in Int /\ BR * d \in Int
    BY <1>1, <1>4 DEF Positive
  <2> QED  BY <2>1, <2>2, <2>3, <2>4 DEF x
<1>8. (BR - adv * BP) * d >= 0 /\ (BR - adv * BP) * d \in Int
  <2> DEFINE x == BR - adv * BP
  <2>1. x \in Int /\ x >= 0
    BY <1>1 DEF Positive
  <2> HIDE DEF x, d
  <2> QED  BY <1>4, <1>5, <2>1 DEF x
<1>9. BR * k + adv * i \in Int /\ n * adv \in Int
  BY <1>1, <1>2 DEF Positive
<1> DEFINE x == BR * k + adv * i
           y == (BR - adv * BP) * d
           z == n * adv
<1>10. Base(w, p + n) = x + (y + z) /\ Base(w, p) = x
  BY <1>3, <1>6, <1>7
<1>11. x \in Int /\ y \in Int /\ y >= 0 /\ z \in Int
  BY <1>8, <1>9
<1> HIDE DEF d, x, y, z
<1>12. Base(w, p + n) >= Base(w, p) + z
  BY <1>10, <1>11
<1> QED  BY <1>12 DEF z, adv

(* The head never moves up, and passes start at different rows.            *)
LEMMA StartsRise ==
  ASSUME NEW w, ProperHead(w), NEW p \in Nat, NEW q \in Nat
  PROVE  /\ p < q <=> RawStartRow(w, p) < RawStartRow(w, q)
         /\ p <= q <=> RawStartRow(w, p) <= RawStartRow(w, q)
<1>1. ASSUME NEW x \in Nat, NEW y \in Nat, x < y
      PROVE  RawStartRow(w, x) < RawStartRow(w, y)
  <2> DEFINE n == y - x
             S == SubblocksPerPassblock(w)
             adv == AdvanceBasis(w)
  <2>1. n \in Nat /\ n >= 1 /\ x + n = y
    BY <1>1
  <2>2. Base(w, y) >= Base(w, x) + n * adv
    <3> HIDE DEF n
    <3>1. Base(w, x + n) >= Base(w, x) + n * adv
      BY <2>1, Rise
    <3> QED  BY <2>1, <3>1
  <2>3. S \in Positive /\ adv \in Positive /\ adv >= S
    <3>1. S \in Positive /\ adv \in Positive
      BY HeadNumbers
    <3>2. PICK a \in Positive : adv = S * a
      BY Blocks
    <3> HIDE DEF S, adv
    <3> QED  BY <3>1, <3>2 DEF Positive
  <2>4. /\ Base(w, x) \in Nat /\ RawStartRow(w, x) \in Nat
        /\ RawStartRow(w, x) - Base(w, x) \in 0 .. S - 1
    BY StartIs
  <2>5. /\ Base(w, y) \in Nat /\ RawStartRow(w, y) \in Nat
        /\ RawStartRow(w, y) - Base(w, y) \in 0 .. S - 1
    BY StartIs
  <2>6. n * adv >= adv /\ n * adv \in Int
    <3> HIDE DEF n, adv
    <3> QED  BY <2>1, <2>3 DEF Positive
  <2> HIDE DEF n, S, adv
  <2> QED  BY <2>2, <2>3, <2>4, <2>5, <2>6 DEF Positive
<1>2. RawStartRow(w, p) \in Nat /\ RawStartRow(w, q) \in Nat
  BY StartIs
<1>3. p < q => RawStartRow(w, p) < RawStartRow(w, q)
  BY <1>1
<1>4. q < p => RawStartRow(w, q) < RawStartRow(w, p)
  BY <1>1
<1> QED  BY <1>2, <1>3, <1>4

(* A band further down the passes are the same.                            *)
LEMMA NextBand ==
  ASSUME NEW w, ProperHead(w), NEW p \in Nat, NEW c \in Nat
  PROVE  RawStartRow(w, p + c * BandPasses(w)) = RawStartRow(w, p) + c * BandRows(w)
<1> DEFINE BP == BandPasses(w)
           BR == BandRows(w)
           adv == AdvanceBasis(w)
           sep == w.separation
           os == w.oversampling
           i == p % BP
           k == p \div BP
           m == p % sep
           x == p \div sep
           q == p + c * BP
           off == SubpassOffset(w, SubblocksPerPassblock(w),
                                m \div PassesPerSubblock(w))
<1>1. /\ BP \in Positive /\ BR \in Positive /\ adv \in Positive
      /\ sep \in Positive /\ os \in Positive /\ BP = sep * os
  BY HeadNumbers
<1>2. /\ i \in 0 .. BP - 1 /\ k \in Int /\ p = BP * k + i
      /\ m \in 0 .. sep - 1 /\ x \in Int /\ p = sep * x + m
  <2>1. p \in Int
    OBVIOUS
  <2> QED  BY <1>1, <2>1, Division
<1>3. q \in Nat
  BY <1>1 DEF Positive
<1> HIDE DEF BP, BR, adv, i, k, m, x, sep, os
<1>4. q = BP * (k + c) + i /\ k + c \in Int /\ q \in Int
  <2>1. BP * (k + c) = BP * k + BP * c /\ BP * c = c * BP
    BY <1>1, <1>2 DEF Positive
  <2>2. BP * k \in Int /\ BP * c \in Int
    BY <1>1, <1>2 DEF Positive
  <2> QED  BY <1>1, <1>2, <1>3, <2>1, <2>2 DEF Positive
<1>5. q = sep * (x + os * c) + m /\ x + os * c \in Int
  <2>1. sep * (x + os * c) = sep * x + (sep * os) * c
    BY <1>1, <1>2 DEF Positive
  <2>2. (sep * os) * c = c * BP
    BY <1>1 DEF Positive
  <2>3. sep * x \in Int /\ c * BP \in Int /\ x + os * c \in Int
    BY <1>1, <1>2 DEF Positive
  <2> QED  BY <1>2, <2>1, <2>2, <2>3
<1> HIDE DEF q
<1>6. q \div BP = k + c /\ q % BP = i
  <2> DEFINE z == k + c
  <2>1. z \in Int /\ q \in Int /\ i \in 0 .. BP - 1 /\ q = BP * z + i
    BY <1>2, <1>4
  <2> HIDE DEF z
  <2>2. q \div BP = z /\ q % BP = i
    BY <1>1, <2>1, DivisionIs
  <2> QED  BY <2>2 DEF z
<1>7. q % sep = m
  <2> DEFINE z == x + os * c
  <2>1. z \in Int /\ q = sep * z + m
    BY <1>5
  <2> HIDE DEF z
  <2> QED  BY <1>1, <1>2, <1>4, <2>1, DivisionIs
<1>8. Base(w, q) = BR * (k + c) + adv * i /\ Base(w, p) = BR * k + adv * i
  BY <1>6, Zenon DEF Base, i, k, BP, BR, adv
<1>9. RawStartRow(w, p) = Base(w, p) + off
  <2>1. RawStartRow(w, p) = Base(w, p) +
          SubpassOffset(w, SubblocksPerPassblock(w),
                        (p % w.separation) \div PassesPerSubblock(w))
    BY StartIs
  <2> QED  BY <2>1 DEF m, sep
<1>10. RawStartRow(w, q) = Base(w, q) + off
  <2>1. RawStartRow(w, q) = Base(w, q) +
          SubpassOffset(w, SubblocksPerPassblock(w),
                        (q % w.separation) \div PassesPerSubblock(w))
    BY <1>3, StartIs DEF q
  <2> QED  BY <1>7, <2>1 DEF sep
<1>11. RawStartRow(w, q) - Base(w, q) \in Int /\ RawStartRow(w, q) \in Nat
       /\ Base(w, q) \in Nat /\ RawStartRow(w, p) \in Nat /\ Base(w, p) \in Nat
  BY <1>3, StartIs DEF q
<1>12. BR * (k + c) = BR * k + c * BR
  BY <1>1, <1>2 DEF Positive
<1>13. Base(w, q) = Base(w, p) + c * BR
  <2>1. BR * k \in Int /\ adv * i \in Int /\ c * BR \in Int
    BY <1>1, <1>2 DEF Positive
  <2> QED  BY <1>8, <1>12, <2>1
<1>14. RawStartRow(w, q) = RawStartRow(w, p) + c * BR
  <2> DEFINE y == off
  <2>1. RawStartRow(w, p) = Base(w, p) + y /\ RawStartRow(w, q) = Base(w, q) + y
    BY <1>9, <1>10
  <2>2. y \in 0 .. SubblocksPerPassblock(w) - 1
    <3>1. (p % w.separation) \div PassesPerSubblock(w)
            \in 0 .. SubblocksPerPassblock(w) - 1
      BY StartIs
    <3>2. SubblocksPerPassblock(w) \in Positive
      BY HeadNumbers
    <3> QED  BY <3>1, <3>2, BlockOfOffset DEF m, sep
  <2> HIDE DEF y
  <2>3. c * BR \in Int
    BY <1>1 DEF Positive
  <2> QED  BY <1>11, <1>13, <2>1, <2>2, <2>3
<1> QED  BY <1>14 DEF q, BP, BR

(* Passes go on for ever.                                                  *)
LEMMA StartsGoOn ==
  ASSUME NEW w, ProperHead(w), NEW p \in Nat
  PROVE  RawStartRow(w, p) >= p
<1>1. 0 + p = p /\ 0 \in Nat
  OBVIOUS
<1>2. Base(w, 0 + p) >= Base(w, 0) + p * AdvanceBasis(w)
  BY <1>1, Rise
<1>3. /\ Base(w, 0) \in Nat /\ Base(w, p) \in Nat /\ RawStartRow(w, p) \in Nat
      /\ RawStartRow(w, p) - Base(w, p) \in Nat
  BY <1>1, StartIs
<1>4. AdvanceBasis(w) \in Positive
  BY HeadNumbers
<1>5. p * AdvanceBasis(w) >= p /\ p * AdvanceBasis(w) \in Int
  BY <1>4 DEF Positive
<1> QED  BY <1>1, <1>2, <1>3, <1>5

-----------------------------------------------------------------------------
(* The pass of a row is the only one that could print it.                  *)

(* A row is printed by a jet of its pass.                                  *)
LEMMA RowIs ==
  ASSUME NEW w, ProperHead(w), NEW pos \in Nat, pos >= BandRows(w),
         NEW subpass \in 0 .. w.oversampling - 1
  PROVE  LET raw == RawRowParameters(w, pos, subpass)
         IN  /\ raw = [pass |-> raw.pass, jet |-> raw.jet,
                       startrow |-> RawStartRow(w, raw.pass)]
             /\ raw.pass \in Nat /\ raw.jet \in 0 .. w.jets - 1
             /\ RawStartRow(w, raw.pass) = pos - raw.jet * w.separation
             /\ RawSubpass(w, raw.pass) = subpass
<1> DEFINE raw == RawRowParameters(w, pos, subpass)
           o == pos % SubblocksPerPassblock(w)
           p == RawPass(w, pos - o, o, subpass)
           j == (Reach(w, pos - o, p) \div w.separation) % w.jets
<1>1. p \in Nat
  BY RawPassIs
<1>2. raw = [pass |-> p, jet |-> j, startrow |-> pos - j * w.separation]
  BY Zenon DEF RawRowParameters, RawRow
<1> HIDE DEF p, j, o
<1>3. /\ raw.jet \in 0 .. w.jets - 1
      /\ RawStartRow(w, raw.pass) = raw.startrow
      /\ RawSubpass(w, raw.pass) = subpass
  BY HalvesAgree
<1> HIDE DEF raw
<1>4. raw.pass = p /\ raw.jet = j /\ raw.startrow = pos - j * w.separation
  BY <1>2
<1>5. raw = [pass |-> raw.pass, jet |-> raw.jet,
             startrow |-> RawStartRow(w, raw.pass)]
  BY <1>2, <1>3, <1>4
<1> QED  BY <1>1, <1>3, <1>4, <1>5 DEF raw

(* The parts of a pass number: the band, the subpass, the subblock.        *)
LEMMA PartsOf ==
  ASSUME NEW w, ProperHead(w), NEW p \in Nat
  PROVE  LET t == PassesPerSubblock(w)
             b == (p % w.separation) \div t
             s == RawSubpass(w, p)
         IN  /\ s \in 0 .. w.oversampling - 1
             /\ \E k \in Nat, r \in 0 .. t - 1 :
                  /\ p = BandPasses(w) * k + (w.separation * s + (t * b + r))
                  /\ Base(w, p) = BandRows(w) * k +
                       AdvanceBasis(w) * (w.separation * s + (t * b + r))
<1> DEFINE t == PassesPerSubblock(w)
           sep == w.separation
           os == w.oversampling
           BP == BandPasses(w)
           BR == BandRows(w)
           adv == AdvanceBasis(w)
           m == p % sep
           b == m \div t
           i == p % BP
           k == p \div BP
           s == i \div sep
           n == i % sep
           r == m % t
<1>1. /\ BP \in Positive /\ BR \in Positive /\ adv \in Positive /\ t \in Positive
      /\ sep \in Positive /\ os \in Positive /\ BP = sep * os
  BY HeadNumbers
<1>2. i \in 0 .. BP - 1 /\ k \in Int /\ p = BP * k + i
  <2>1. p \in Int
    OBVIOUS
  <2> QED  BY <1>1, <2>1, Division
<1> HIDE DEF i, k
<1>3. k \in Nat
  <2>1. CASE k <= -1
    <3>1. BP * k <= -BP
      BY <1>1, <1>2, <2>1 DEF Positive
    <3>2. BP * k \in Int
      BY <1>1, <1>2 DEF Positive
    <3> QED  BY <1>1, <1>2, <3>1, <3>2 DEF Positive
  <2> QED  BY <1>2, <2>1
<1>4. n \in 0 .. sep - 1 /\ s \in Int /\ i = sep * s + n
  <2>1. i \in Int
    BY <1>1, <1>2 DEF Positive
  <2> QED  BY <1>1, <2>1, Division
<1> HIDE DEF n, s
<1>5. s \in 0 .. os - 1
  <2>1. s >= 0
    <3>1. CASE s <= -1
      <4>1. sep * s <= -sep /\ sep * s \in Int
        BY <1>1, <1>4, <3>1 DEF Positive
      <4> QED  BY <1>1, <1>2, <1>4, <4>1 DEF Positive
    <3> QED  BY <1>4, <3>1
  <2>2. s <= os - 1
    <3>1. CASE s >= os
      <4>1. sep * s >= sep * os /\ sep * s \in Int
        BY <1>1, <1>4, <3>1 DEF Positive
      <4> QED  BY <1>1, <1>2, <1>4, <4>1 DEF Positive
    <3> QED  BY <1>1, <1>4, <3>1 DEF Positive
  <2> QED  BY <1>1, <1>4, <2>1, <2>2 DEF Positive
<1>6. m = n
  <2>1. p = sep * (os * k + s) + n
    <3>1. sep * (os * k + s) = (sep * os) * k + sep * s
      BY <1>1, <1>2, <1>4 DEF Positive
    <3>2. (sep * os) * k \in Int /\ sep * s \in Int
      BY <1>1, <1>2, <1>4 DEF Positive
    <3> QED  BY <1>1, <1>2, <1>4, <3>1, <3>2
  <2> DEFINE z == os * k + s
  <2>2. z \in Int /\ p \in Int /\ p = sep * z + n
    BY <1>1, <1>2, <1>4, <2>1 DEF Positive
  <2> HIDE DEF z
  <2>3. p % sep = n
    BY <1>1, <1>4, <2>2, DivisionIs
  <2> QED  BY <2>3
<1>7. r \in 0 .. t - 1 /\ m = t * b + r
  <2>1. m \in Int
    BY <1>1, <1>4, <1>6 DEF Positive
  <2> HIDE DEF m
  <2> QED  BY <1>1, <2>1, Division
<1>8. RawSubpass(w, p) = s
  <2>1. CDiv(p, BP) = k
    BY DEF CDiv, k
  <2>2. CMod(p, BP) = p - BP * k
    BY <2>1, Zenon DEF CMod
  <2>3. p - BP * k = i
    <3>1. BP * k \in Int
      BY <1>1, <1>2 DEF Positive
    <3> QED  BY <1>1, <1>2, <3>1 DEF Positive
  <2>4. CDiv(i, sep) = i \div sep
    BY <1>1, <1>2 DEF CDiv, Positive
  <2> QED  BY <2>2, <2>3, <2>4, Zenon DEF RawSubpass, BP, sep, s
<1>9. Base(w, p) = BR * k + adv * i
  BY Zenon DEF Base, i, k, BR, adv, BP
<1>10. i = sep * s + (t * b + r)
  BY <1>4, <1>6, <1>7
<1>11. r \in 0 .. t - 1 /\ p = BP * k + (sep * s + (t * b + r))
       /\ Base(w, p) = BR * k + adv * (sep * s + (t * b + r))
  BY <1>2, <1>7, <1>9, <1>10
<1> HIDE DEF m, b, r, BR, BP, adv, t, sep, os
<1>12. \E kk \in Nat, rr \in 0 .. t - 1 :
         /\ p = BP * kk + (sep * s + (t * b + rr))
         /\ Base(w, p) = BR * kk + adv * (sep * s + (t * b + rr))
  BY <1>3, <1>11
<1> QED  BY <1>5, <1>8, <1>12 DEF m, b, BR, BP, adv, t, sep, os

(* Two passes of a subpass that both have a jet on a row are one.          *)
LEMMA SamePass ==
  ASSUME NEW w, ProperHead(w), NEW p \in Nat, NEW q \in Nat,
         RawSubpass(w, p) = RawSubpass(w, q),
         NEW j \in 0 .. w.jets - 1, NEW l \in 0 .. w.jets - 1,
         RawStartRow(w, p) + j * w.separation = RawStartRow(w, q) + l * w.separation
  PROVE  p = q /\ j = l
<1> DEFINE S == SubblocksPerPassblock(w)
           t == PassesPerSubblock(w)
           sep == w.separation
           jets == w.jets
           BP == BandPasses(w)
           BR == BandRows(w)
           adv == AdvanceBasis(w)
           s == RawSubpass(w, p)
           b == (p % sep) \div t
           c == (q % sep) \div t
           f == SubpassOffset(w, S, b)
           g == SubpassOffset(w, S, c)
<1>1. /\ S \in Positive /\ t \in Positive /\ sep \in Positive /\ jets \in Positive
      /\ BP \in Positive /\ BR \in Positive /\ adv \in Positive
      /\ sep = S * t /\ BR = sep * jets
  BY HeadNumbers
<1>2. PICK x \in Int : Base(w, p) = S * x
  BY StartIs
<1>3. PICK y \in Int : Base(w, q) = S * y
  BY StartIs
<1>4. /\ b \in 0 .. S - 1 /\ c \in 0 .. S - 1
      /\ RawStartRow(w, p) = Base(w, p) + f /\ RawStartRow(w, q) = Base(w, q) + g
      /\ Base(w, p) \in Nat /\ Base(w, q) \in Nat
  BY StartIs
<1>5. f \in 0 .. S - 1 /\ g \in 0 .. S - 1
      /\ SubpassBlock(w, S, f) = b /\ SubpassBlock(w, S, g) = c
  BY <1>1, <1>4, BlockOfOffset
<1>6. PICK k1 \in Nat, r1 \in 0 .. t - 1 :
        /\ p = BP * k1 + (sep * s + (t * b + r1))
        /\ Base(w, p) = BR * k1 + adv * (sep * s + (t * b + r1))
  BY PartsOf
<1>7. PICK k2 \in Nat, r2 \in 0 .. t - 1 :
        /\ q = BP * k2 + (sep * s + (t * c + r2))
        /\ Base(w, q) = BR * k2 + adv * (sep * s + (t * c + r2))
  <2>1. \E k \in Nat, r \in 0 .. t - 1 :
          /\ q = BP * k + (sep * RawSubpass(w, q) + (t * c + r))
          /\ Base(w, q) = BR * k + adv * (sep * RawSubpass(w, q) + (t * c + r))
    BY PartsOf
  <2>2. RawSubpass(w, q) = s
    OBVIOUS
  <2> HIDE DEF s, t, c, sep, BP, BR, adv
  <2> QED  BY <2>1, <2>2
<1>8. s \in 0 .. w.oversampling - 1 /\ w.oversampling \in Positive
  BY PartsOf, HeadNumbers
<1>9. PICK a \in Positive : adv = S * a
  BY Blocks
<1>10. PICK r0 \in Int, k0 \in Int : S = sep * r0 + adv * k0
  BY Blocks
<1>11. Base(w, p) + f + j * sep = Base(w, q) + g + l * sep
  BY <1>4
<1>12. s \in Int /\ j \in Int /\ l \in Int
  BY <1>8
<1> HIDE DEF S, t, sep, jets, BP, BR, adv, s, b, c, f, g
(* The rows differ by jet separations, so the pass blocks' rows agree.     *)
<1>13. f = g
  <2>1. S * x + f + j * (S * t) = S * y + g + l * (S * t)
    BY <1>1, <1>2, <1>3, <1>11
  <2> DEFINE z == (y - x) + (l - j) * t
  <2>2. z \in Int
    BY <1>1, <1>12 DEF Positive
  <2>3. S * z = (S * y - S * x) + (l * (S * t) - j * (S * t))
    BY <1>1, <1>12 DEF Positive
  <2>4. S * x \in Int /\ S * y \in Int /\ j * (S * t) \in Int /\ l * (S * t) \in Int
    BY <1>1, <1>12 DEF Positive
  <2> HIDE DEF z
  <2>5. f - g = S * z
    BY <1>1, <1>5, <2>1, <2>3, <2>4 DEF Positive
  <2>6. z = 0
    <3>1. CASE z >= 1
      <4>1. S * z >= S /\ S * z \in Int
        BY <1>1, <2>2, <3>1 DEF Positive
      <4> QED  BY <1>1, <1>5, <2>5, <4>1 DEF Positive
    <3>2. CASE z <= -1
      <4>1. S * z <= -S /\ S * z \in Int
        BY <1>1, <2>2, <3>2 DEF Positive
      <4> QED  BY <1>1, <1>5, <2>5, <4>1 DEF Positive
    <3> QED  BY <2>2, <3>1, <3>2
  <2>7. S * 0 = 0
    BY <1>1 DEF Positive
  <2> QED  BY <1>1, <1>5, <2>5, <2>6, <2>7 DEF Positive
<1>14. b = c
  BY <1>5, <1>13
<1>15. b \in Int /\ r1 \in Int /\ r2 \in Int /\ S \in Int /\ t \in Int /\ a \in Int
       /\ jets \in Int /\ S > 0 /\ t > 0 /\ jets > 0 /\ a > 0 /\ sep \in Int
  BY <1>1, <1>4, <1>6, <1>7, <1>9 DEF Positive
(* Within the subblock it is the same pass, as t and a have no divisor in  *)
(* common.                                                                 *)
<1>16. a * (r1 - r2) = t * ((l - j) - jets * (k1 - k2))
  <2> DEFINE h == sep * s + t * b
             u == k1 - k2
             v == r1 - r2
             X == t * jets * u + a * v
             Y == (l - j) * t
  <2>1. h \in Int
    BY <1>12, <1>15
  <2>2. BR * k1 + adv * (h + r1) + j * sep = BR * k2 + adv * (h + r2) + l * sep
    <3>1. Base(w, p) = BR * k1 + adv * (h + r1) /\ Base(w, q) = BR * k2 + adv * (h + r2)
      <4>1. sep * s \in Int /\ t * b \in Int
        BY <1>12, <1>15
      <4>2. sep * s + (t * b + r1) = h + r1 /\ sep * s + (t * b + r2) = h + r2
        BY <1>15, <4>1
      <4> QED  BY <1>6, <1>7, <1>14, <4>2
    <3>2. j * sep \in Int /\ l * sep \in Int /\ f \in Int
      BY <1>5, <1>12, <1>15
    <3> HIDE DEF h
    <3>3. Base(w, p) + j * sep = Base(w, q) + l * sep
      <4> DEFINE x1 == j * sep
                 y1 == l * sep
                 u1 == Base(w, p)
                 v1 == Base(w, q)
      <4>1. x1 \in Int /\ y1 \in Int /\ f \in Int
        BY <3>2, <1>12, <1>15
      <4>2. u1 \in Int /\ v1 \in Int
        BY <1>4
      <4>3. u1 + f + x1 = v1 + f + y1
        BY <1>11, <1>13
      <4> HIDE DEF x1, y1, u1, v1
      <4>4. u1 + x1 = v1 + y1
        BY <4>1, <4>2, <4>3
      <4> QED  BY <4>4 DEF x1, y1, u1, v1
    <3> QED  BY <3>1, <3>3
  <2> HIDE DEF h
  <2>3. BR = S * (t * jets) /\ adv = S * a /\ sep = S * t
    BY <1>1, <1>9, <1>15
  <2>4. (S * (t * jets)) * k1 + (S * a) * (h + r1) + j * (S * t)
          = (S * (t * jets)) * k2 + (S * a) * (h + r2) + l * (S * t)
    BY <2>2, <2>3
  <2>5. S * X = S * Y
    <3>1. S * X = ((S * (t * jets)) * k1 - (S * (t * jets)) * k2)
                    + ((S * a) * (h + r1) - (S * a) * (h + r2))
      BY <1>15, <2>1
    <3>2. S * Y = l * (S * t) - j * (S * t)
      BY <1>12, <1>15
    <3>3. /\ (S * (t * jets)) * k1 \in Int /\ (S * (t * jets)) * k2 \in Int
          /\ (S * a) * (h + r1) \in Int /\ (S * a) * (h + r2) \in Int
          /\ l * (S * t) \in Int /\ j * (S * t) \in Int
      BY <1>12, <1>15, <2>1
    <3> QED  BY <2>4, <3>1, <3>2, <3>3
  <2>6. X = Y
    <3>1. X \in Int /\ Y \in Int
      BY <1>12, <1>15
    <3> HIDE DEF X, Y
    <3> QED  BY <1>15, <2>5, <3>1
  <2>7. t * ((l - j) - jets * u) = Y - t * jets * u
    BY <1>12, <1>15
  <2>8. a * v \in Int /\ t * jets * u \in Int /\ Y \in Int
    BY <1>12, <1>15
  <2> QED  BY <2>6, <2>7, <2>8
<1>17. t * r0 + a * k0 = 1
  <2>1. S * (t * r0 + a * k0) = (S * t) * r0 + (S * a) * k0
    BY <1>15
  <2>2. S * (t * r0 + a * k0) = S
    BY <1>1, <1>9, <1>10, <2>1
  <2> DEFINE z == t * r0 + a * k0
  <2>3. z \in Int
    BY <1>15
  <2> HIDE DEF z
  <2>4. S * z = S * 1
    BY <1>15, <2>2 DEF z
  <2>5. z = 1
    BY <1>15, <2>3, <2>4
  <2> QED  BY <2>5 DEF z
<1>18. r1 = r2
  <2> DEFINE v == r1 - r2
             e == (l - j) - jets * (k1 - k2)
             z == v * r0 + k0 * e
  <2>1. e \in Int /\ v \in Int /\ z \in Int /\ a * v = t * e
    BY <1>12, <1>15, <1>16
  <2>2. v * (t * r0 + a * k0) = t * (v * r0) + k0 * (a * v)
    <3> HIDE DEF v
    <3> QED  BY <1>15, <2>1
  <2> HIDE DEF e, v
  <2>3. t * (v * r0) + k0 * (t * e) = t * z
    BY <1>15, <2>1
  <2> HIDE DEF z
  <2>4. v = t * z
    BY <1>17, <2>1, <2>2, <2>3
  <2>5. v \in -(t - 1) .. t - 1
    BY <1>15 DEF v
  <2>6. z = 0
    <3>1. CASE z >= 1
      <4>1. t * z >= t
        BY <1>15, <2>1, <3>1
      <4> QED  BY <1>15, <2>4, <2>5, <4>1
    <3>2. CASE z <= -1
      <4>1. t * z <= -t
        BY <1>15, <2>1, <3>2
      <4> QED  BY <1>15, <2>4, <2>5, <4>1
    <3> QED  BY <2>1, <3>1, <3>2
  <2>7. v = 0
    BY <1>15, <2>4, <2>6
  <2> QED  BY <1>15, <2>7 DEF v
(* The jets are less than a head apart, so it is the same band.            *)
<1>19. k1 = k2 /\ j = l
  <2> DEFINE d == k1 - k2
             e == l - j
  <2>1. d \in Int /\ e \in Int /\ e \in -(jets - 1) .. jets - 1
    BY <1>12, <1>15 DEF jets
  <2>2. t * (e - jets * d) = 0
    BY <1>15, <1>16, <1>18
  <2> HIDE DEF d, e
  <2>3. e = jets * d
    <3> DEFINE x1 == e - jets * d
    <3>1. x1 \in Int /\ jets * d \in Int
      BY <1>15, <2>1
    <3>2. t * x1 = 0
      BY <2>2
    <3> HIDE DEF x1
    <3>3. x1 = 0
      BY <1>15, <3>1, <3>2
    <3> QED  BY <2>1, <3>1, <3>3 DEF x1
  <2>4. d = 0
    <3>1. CASE d >= 1
      <4>1. jets * d >= jets
        BY <1>15, <2>1, <3>1
      <4> QED  BY <1>15, <2>1, <2>3, <4>1
    <3>2. CASE d <= -1
      <4>1. jets * d <= -jets
        BY <1>15, <2>1, <3>2
      <4> QED  BY <1>15, <2>1, <2>3, <4>1
    <3> QED  BY <2>1, <3>1, <3>2
  <2>5. e = 0
    BY <1>15, <2>3, <2>4
  <2> QED  BY <1>12, <2>4, <2>5 DEF d, e
<1> QED  BY <1>6, <1>7, <1>14, <1>18, <1>19

(* Each row that a jet of a pass lies on is the pass's, in its subpass.    *)
LEMMA PassOfRow ==
  ASSUME NEW w, ProperHead(w), NEW p \in Nat, NEW j \in 0 .. w.jets - 1,
         RawStartRow(w, p) + j * w.separation >= BandRows(w)
  PROVE  /\ RawSubpass(w, p) \in 0 .. w.oversampling - 1
         /\ RawRowParameters(w, RawStartRow(w, p) + j * w.separation, RawSubpass(w, p))
              = [pass |-> p, jet |-> j, startrow |-> RawStartRow(w, p)]
<1> DEFINE pos == RawStartRow(w, p) + j * w.separation
           s == RawSubpass(w, p)
           raw == RawRowParameters(w, pos, s)
<1>1. s \in 0 .. w.oversampling - 1
  BY PartsOf
<1>2. pos \in Nat /\ pos >= BandRows(w) /\ w.separation \in Positive
      /\ w.jets \in Positive /\ RawStartRow(w, p) \in Nat
  <2>1. RawStartRow(w, p) \in Nat /\ w.separation \in Positive /\ w.jets \in Positive
    BY StartIs, HeadNumbers
  <2>2. j * w.separation \in Nat
    BY <2>1 DEF Positive
  <2> QED  BY <2>1, <2>2
<1> HIDE DEF pos, s
<1>3. /\ raw = [pass |-> raw.pass, jet |-> raw.jet,
                startrow |-> RawStartRow(w, raw.pass)]
      /\ raw.pass \in Nat /\ raw.jet \in 0 .. w.jets - 1
      /\ RawStartRow(w, raw.pass) = pos - raw.jet * w.separation
      /\ RawSubpass(w, raw.pass) = s
  BY <1>1, <1>2, RowIs
<1> DEFINE q == raw.pass
           l == raw.jet
<1>4. q \in Nat /\ l \in 0 .. w.jets - 1
      /\ RawStartRow(w, q) + l * w.separation = pos /\ RawSubpass(w, q) = s
  <2> HIDE DEF raw
  <2>1. l * w.separation \in Int
    BY <1>2, <1>3 DEF Positive
  <2> QED  BY <1>2, <1>3, <2>1
<1> HIDE DEF raw, q, l
<1>5. p = q /\ j = l
  BY <1>4, SamePass DEF pos, s
<1> QED  BY <1>1, <1>3, <1>5 DEF q, l, raw, pos, s

-----------------------------------------------------------------------------
(* The scans of calculate_pass_map.                                        *)

(* A search upwards that comes to a member of T in the end has a result... *)
LEMMA ScanExists ==
  ASSUME NEW T \in SUBSET Nat, \A p \in Nat : \E q \in T : q >= p
  PROVE  \E g : g = [q \in Nat |-> IF q \in T THEN q ELSE g[q + 1]]
<1> DEFINE From(p) == {q \in T : q >= p}
           Least(p) == CHOOSE x \in From(p) : \A z \in From(p) : x <= z
           g == [q \in Nat |-> Least(q)]
<1>1. ASSUME NEW p \in Nat
      PROVE  Least(p) \in From(p) /\ \A z \in From(p) : Least(p) <= z
  <2>1. From(p) \in SUBSET Nat /\ From(p) # {}
    OBVIOUS
  <2> HIDE DEF From
  <2>2. \E x \in From(p) : \A z \in From(p) : x <= z
    BY <2>1, LeastMember
  <2> QED  BY <2>2
<1> HIDE DEF Least
<1>2. ASSUME NEW p \in Nat
      PROVE  Least(p) = IF p \in T THEN p ELSE Least(p + 1)
  <2>1. CASE p \in T
    <3>1. p \in From(p)
      BY <2>1
    <3>2. Least(p) \in From(p) /\ Least(p) <= p
      BY <1>1, <3>1
    <3> DEFINE x == Least(p)
    <3>4. x \in From(p) /\ x <= p
      BY <3>2
    <3> HIDE DEF x
    <3>5. x = p
      BY <3>4
    <3>3. Least(p) = p
      BY <3>5 DEF x
    <3> QED  BY <2>1, <3>3
  <2>2. CASE p \notin T
    <3>1. ASSUME NEW q \in T PROVE q >= p <=> q >= p + 1
      <4>1. q \in Nat /\ q # p
        BY <2>2
      <4> QED  BY <4>1
    <3>2. From(p) = From(p + 1)
      BY <3>1
    <3> HIDE DEF From
    <3>3. Least(p) = Least(p + 1)
      BY <3>2, Zenon DEF Least
    <3> QED  BY <2>2, <3>3
  <2> QED  BY <2>1, <2>2
<1>3. g = [q \in Nat |-> IF q \in T THEN q ELSE g[q + 1]]
  <2>1. ASSUME NEW q \in Nat
        PROVE  g[q] = IF q \in T THEN q ELSE g[q + 1]
    <3>1. q + 1 \in Nat
      OBVIOUS
    <3>2. g[q] = Least(q) /\ g[q + 1] = Least(q + 1)
      BY <3>1, Zenon
    <3> QED  BY <1>2, <3>2, Zenon
  <2> HIDE DEF Least
  <2>2. g = [q \in Nat |-> g[q]]
    OBVIOUS
  <2> HIDE DEF g
  <2> QED  BY <2>1, <2>2
<1> HIDE DEF g
<1> QED  BY <1>3

(* ... and it is the first member from its start on.                       *)
LEMMA ScanValue ==
  ASSUME NEW T \in SUBSET Nat, \A p \in Nat : \E q \in T : q >= p,
         NEW f, f = [q \in Nat |-> IF q \in T THEN q ELSE f[q + 1]],
         NEW p \in Nat
  PROVE  f[p] \in T /\ f[p] >= p /\ \A q \in T : q >= p => f[p] <= q
<1> DEFINE From == {q \in T : q >= p}
<1>1. From \in SUBSET Nat /\ From # {}
  OBVIOUS
<1>2. PICK x \in From : \A z \in From : x <= z
  <2> HIDE DEF From
  <2> QED  BY <1>1, LeastMember
<1> DEFINE Wrong == {n \in 0 .. x : n >= p /\ f[n] # x}
<1>3. Wrong = {}
  <2> SUFFICES ASSUME Wrong # {} PROVE FALSE
    OBVIOUS
  <2>1. Wrong \in SUBSET (0 .. x) /\ x \in Nat
    OBVIOUS
  <2>2. PICK n \in Wrong : \A z \in Wrong : z <= n
    <3> HIDE DEF Wrong
    <3> QED  BY <2>1, GreatestMember
  <2>3. n \in Nat /\ n <= x /\ n >= p /\ f[n] # x
    OBVIOUS
  <2>4. f[n] = IF n \in T THEN n ELSE f[n + 1]
    BY <2>3
  <2>5. CASE n = x
    BY <2>3, <2>4, <2>5
  <2>6. CASE n < x
    <3>1. n \notin T
      BY <1>2, <2>3, <2>6
    <3>2. f[n + 1] # x /\ n + 1 \in 0 .. x /\ n + 1 >= p
      BY <2>3, <2>4, <2>6, <3>1
    <3>3. n + 1 \in Wrong
      BY <3>2
    <3> QED  BY <2>2, <2>3, <3>3
  <2> QED  BY <2>1, <2>3, <2>5, <2>6
<1>4. f[p] = x
  <2>1. p \in 0 .. x /\ p >= p
    BY <1>2
  <2>2. p \notin Wrong
    BY <1>3, Zenon
  <2> QED  BY <2>1, <2>2
<1> QED  BY <1>2, <1>4

(* The pages that calculate_pass_map is called with.                       *)
ProperPage(pg) ==
  /\ ProperHead(pg)
  /\ pg.first \in Nat /\ pg.last \in Nat /\ pg.first <= pg.last
  /\ pg.height \in Int

(* The passes that the page uses go from the first premapped one to the    *)
(* first unused one; the ones from ScanPostmapped on need the head below   *)
(* the page, the ones before ScanNormal need it above.                     *)
Scanned(pg, P, N, Q, U) ==
  /\ P \in Nat /\ N \in Nat /\ Q \in Nat /\ U \in Nat
  /\ P <= N /\ N <= Q /\ Q <= U
  /\ \A p \in Nat :
       /\ p >= P <=> RawStartRow(pg, p) - pg.separation >= pg.first
       /\ p >= U => RawStartRow(pg, p) > pg.last + BandRows(pg)
       /\ p >= P /\ p < U => RawStartRow(pg, p) <= pg.last + BandRows(pg)
       /\ p >= P /\ p < Q => RawStartRow(pg, p) - pg.separation < PageHeight(pg)
       /\ p >= Q /\ p < U => RawStartRow(pg, p) - pg.separation >= PageHeight(pg)
       /\ p >= P /\ p < N => RawStartRow(pg, p) < BandRows(pg)
       /\ p >= N /\ N < Q => RawStartRow(pg, p) >= BandRows(pg)

(* The first pass that is wholly below the first row.                      *)
LEMMA PremappedIs ==
  ASSUME NEW pg, ProperPage(pg)
  PROVE  LET P == FirstPremappedPass(pg)
         IN  /\ P \in Nat
             /\ \A p \in Nat :
                  p >= P <=> RawStartRow(pg, p) - pg.separation >= pg.first
<1> DEFINE T == {q \in Nat : RawStartRow(pg, q) - pg.separation >= pg.first}
           f == CHOOSE g : g = [q \in Nat |->
                  IF RawStartRow(pg, q) - pg.separation >= pg.first
                  THEN q ELSE g[q + 1]]
           P == FirstPremappedPass(pg)
<1>1. pg.separation \in Nat /\ pg.first \in Nat
  BY HeadNumbers DEF ProperPage, Positive
<1>2. \A p \in Nat : RawStartRow(pg, p) \in Nat /\ RawStartRow(pg, p) >= p
  BY StartIs, StartsGoOn DEF ProperPage
<1>3. P = f[0]
  BY Zenon DEF FirstPremappedPass, ScanPasses
<1>4. \A p \in Nat : \E q \in T : q >= p
  <2>1. ASSUME NEW p \in Nat PROVE \E q \in T : q >= p
    <3> DEFINE q == p + pg.first + pg.separation
    <3>1. q \in Nat /\ q >= p
      BY <1>1
    <3>2. RawStartRow(pg, q) - pg.separation >= pg.first
      <4> HIDE DEF q
      <4>1. RawStartRow(pg, q) >= q /\ RawStartRow(pg, q) \in Nat
        BY <1>2, <3>1
      <4> QED  BY <1>1, <4>1 DEF q
    <3> HIDE DEF q
    <3> QED  BY <3>1, <3>2
  <2> QED  BY <2>1
<1>5. f = [q \in Nat |-> IF q \in T THEN q ELSE f[q + 1]]
  <2>1. \A g : [q \in Nat |-> IF q \in T THEN q ELSE g[q + 1]]
               = [q \in Nat |-> IF RawStartRow(pg, q) - pg.separation >= pg.first
                                THEN q ELSE g[q + 1]]
    OBVIOUS
  <2>2. PICK g : g = [q \in Nat |-> IF q \in T THEN q ELSE g[q + 1]]
    <3> HIDE DEF T
    <3>1. T \in SUBSET Nat
      BY DEF T
    <3> QED  BY <1>4, <3>1, ScanExists
  <2>3. f = [q \in Nat |-> IF RawStartRow(pg, q) - pg.separation >= pg.first
                           THEN q ELSE f[q + 1]]
    BY <2>1, <2>2, Zenon
  <2> HIDE DEF f
  <2> QED  BY <2>1, <2>3, Zenon
<1>6. f[0] \in T /\ \A q \in T : q >= 0 => f[0] <= q
  <2>1. T \in SUBSET Nat /\ 0 \in Nat
    OBVIOUS
  <2> HIDE DEF T, f
  <2> QED  BY <1>4, <1>5, <2>1, ScanValue
<1> HIDE DEF f
<1>7. P \in Nat /\ RawStartRow(pg, P) - pg.separation >= pg.first
  BY <1>3, <1>6
<1>8. ASSUME NEW p \in Nat
      PROVE  p >= P <=> RawStartRow(pg, p) - pg.separation >= pg.first
  <2>1. RawStartRow(pg, p) - pg.separation >= pg.first => P <= p
    BY <1>3, <1>6
  <2>2. P <= p => RawStartRow(pg, P) <= RawStartRow(pg, p)
    BY <1>7, StartsRise DEF ProperPage
  <2> HIDE DEF P
  <2>3. RawStartRow(pg, p) \in Nat /\ RawStartRow(pg, P) \in Nat
    BY <1>2, <1>7
  <2> QED  BY <1>1, <1>7, <2>1, <2>2, <2>3
<1> QED  BY <1>7, <1>8

(* The first that needs no pulling down at the top.                        *)
LEMMA NormalIs ==
  ASSUME NEW pg, ProperPage(pg)
  PROVE  LET P == FirstPremappedPass(pg)
             N == ScanNormal(pg)
             Stops(p) == \/ RawStartRow(pg, p) >= BandRows(pg)
                         \/ BelowPage(pg, RawStartRow(pg, p))
                         \/ Unused(pg, RawStartRow(pg, p))
         IN  /\ N \in Nat /\ P <= N /\ Stops(N)
             /\ \A p \in Nat : p >= P /\ p < N => ~Stops(p)
<1> DEFINE P == FirstPremappedPass(pg)
           N == ScanNormal(pg)
           Stops(p) == \/ RawStartRow(pg, p) >= BandRows(pg)
                       \/ BelowPage(pg, RawStartRow(pg, p))
                       \/ Unused(pg, RawStartRow(pg, p))
           T == {q \in Nat : Stops(q)}
           f == CHOOSE g : g = [q \in Nat |-> IF Stops(q) THEN q ELSE g[q + 1]]
<1>1. pg.last \in Nat /\ BandRows(pg) \in Nat /\ P \in Nat
  BY HeadNumbers, PremappedIs DEF ProperPage, Positive
<1>2. N = f[P]
  BY Zenon DEF ScanNormal, ScanPasses
<1>3. \A p \in Nat : \E q \in T : q >= p
  <2>1. ASSUME NEW p \in Nat PROVE \E q \in T : q >= p
    <3> DEFINE q == p + BandRows(pg)
    <3>1. q \in Nat /\ q >= p /\ q >= BandRows(pg)
      BY <1>1
    <3> HIDE DEF q
    <3>2. RawStartRow(pg, q) >= q /\ RawStartRow(pg, q) \in Nat
      BY <3>1, StartIs, StartsGoOn DEF ProperPage
    <3>3. Stops(q)
      BY <1>1, <3>1, <3>2
    <3> QED  BY <3>1, <3>3
  <2> QED  BY <2>1
<1> HIDE DEF Stops
<1>4. f = [q \in Nat |-> IF q \in T THEN q ELSE f[q + 1]]
  <2>1. \A g : [q \in Nat |-> IF q \in T THEN q ELSE g[q + 1]]
               = [q \in Nat |-> IF Stops(q) THEN q ELSE g[q + 1]]
    OBVIOUS
  <2>2. PICK g : g = [q \in Nat |-> IF q \in T THEN q ELSE g[q + 1]]
    <3> HIDE DEF T
    <3>1. T \in SUBSET Nat
      BY DEF T
    <3> QED  BY <1>3, <3>1, ScanExists
  <2>3. f = [q \in Nat |-> IF Stops(q) THEN q ELSE f[q + 1]]
    BY <2>1, <2>2, Zenon
  <2> HIDE DEF f
  <2> QED  BY <2>1, <2>3, Zenon
<1>5. f[P] \in T /\ f[P] >= P /\ \A q \in T : q >= P => f[P] <= q
  <2>1. T \in SUBSET Nat
    OBVIOUS
  <2> HIDE DEF T, f, P
  <2> QED  BY <1>1, <1>3, <1>4, <2>1, ScanValue
<1> HIDE DEF f, P, N
<1>6. N \in Nat /\ P <= N /\ Stops(N)
  BY <1>1, <1>2, <1>5
<1>7. \A p \in Nat : p >= P /\ p < N => ~Stops(p)
  BY <1>1, <1>2, <1>5, <1>6
<1> QED  BY <1>6, <1>7 DEF P, N, Stops

(* The first that has to be pulled up at the bottom.                       *)
LEMMA PostmappedIs ==
  ASSUME NEW pg, ProperPage(pg)
  PROVE  LET N == ScanNormal(pg)
             Q == ScanPostmapped(pg)
             Stops(p) == \/ BelowPage(pg, RawStartRow(pg, p))
                         \/ Unused(pg, RawStartRow(pg, p))
         IN  /\ Q \in Nat /\ N <= Q /\ Stops(Q)
             /\ \A p \in Nat : p >= N /\ p < Q => ~Stops(p)
<1> DEFINE N == ScanNormal(pg)
           Q == ScanPostmapped(pg)
           Stops(p) == \/ BelowPage(pg, RawStartRow(pg, p))
                       \/ Unused(pg, RawStartRow(pg, p))
           T == {q \in Nat : Stops(q)}
           f == CHOOSE g : g = [q \in Nat |-> IF Stops(q) THEN q ELSE g[q + 1]]
<1>1. pg.last \in Nat /\ BandRows(pg) \in Nat /\ N \in Nat
  BY HeadNumbers, NormalIs DEF ProperPage, Positive
<1>2. Q = f[N]
  BY Zenon DEF ScanPostmapped, ScanPasses
<1>3. \A p \in Nat : \E q \in T : q >= p
  <2>1. ASSUME NEW p \in Nat PROVE \E q \in T : q >= p
    <3> DEFINE q == p + pg.last + BandRows(pg) + 1
    <3>1. q \in Nat /\ q >= p /\ q > pg.last + BandRows(pg)
      BY <1>1
    <3> HIDE DEF q
    <3>2. RawStartRow(pg, q) >= q /\ RawStartRow(pg, q) \in Nat
      BY <3>1, StartIs, StartsGoOn DEF ProperPage
    <3>3. RawStartRow(pg, q) > pg.last + BandRows(pg)
      BY <1>1, <3>1, <3>2
    <3>4. Stops(q)
      BY <3>3 DEF Unused
    <3> QED  BY <3>1, <3>4
  <2> QED  BY <2>1
<1> HIDE DEF Stops
<1>4. f = [q \in Nat |-> IF q \in T THEN q ELSE f[q + 1]]
  <2>1. \A g : [q \in Nat |-> IF q \in T THEN q ELSE g[q + 1]]
               = [q \in Nat |-> IF Stops(q) THEN q ELSE g[q + 1]]
    OBVIOUS
  <2>2. PICK g : g = [q \in Nat |-> IF q \in T THEN q ELSE g[q + 1]]
    <3> HIDE DEF T
    <3>1. T \in SUBSET Nat
      BY DEF T
    <3> QED  BY <1>3, <3>1, ScanExists
  <2>3. f = [q \in Nat |-> IF Stops(q) THEN q ELSE f[q + 1]]
    BY <2>1, <2>2, Zenon
  <2> HIDE DEF f
  <2> QED  BY <2>1, <2>3, Zenon
<1>5. f[N] \in T /\ f[N] >= N /\ \A q \in T : q >= N => f[N] <= q
  <2>1. T \in SUBSET Nat
    OBVIOUS
  <2> HIDE DEF T, f, N
  <2> QED  BY <1>1, <1>3, <1>4, <2>1, ScanValue
<1> HIDE DEF f, N, Q
<1>6. Q \in Nat /\ N <= Q /\ Stops(Q)
  BY <1>1, <1>2, <1>5
<1>7. \A p \in Nat : p >= N /\ p < Q => ~Stops(p)
  BY <1>1, <1>2, <1>5, <1>6
<1> QED  BY <1>6, <1>7 DEF N, Q, Stops

(* The first that prints nothing.                                          *)
LEMMA UnusedIs ==
  ASSUME NEW pg, ProperPage(pg)
  PROVE  LET Q == ScanPostmapped(pg)
             U == FirstUnusedPass(pg)
         IN  /\ U \in Nat /\ Q <= U /\ Unused(pg, RawStartRow(pg, U))
             /\ \A p \in Nat : p >= Q /\ p < U => ~Unused(pg, RawStartRow(pg, p))
<1> DEFINE Q == ScanPostmapped(pg)
           U == FirstUnusedPass(pg)
           Stops(p) == Unused(pg, RawStartRow(pg, p))
           T == {q \in Nat : Stops(q)}
           f == CHOOSE g : g = [q \in Nat |-> IF Stops(q) THEN q ELSE g[q + 1]]
<1>1. pg.last \in Nat /\ BandRows(pg) \in Nat /\ Q \in Nat
  BY HeadNumbers, PostmappedIs DEF ProperPage, Positive
<1>2. U = f[Q]
  BY Zenon DEF FirstUnusedPass, ScanPasses
<1>3. \A p \in Nat : \E q \in T : q >= p
  <2>1. ASSUME NEW p \in Nat PROVE \E q \in T : q >= p
    <3> DEFINE q == p + pg.last + BandRows(pg) + 1
    <3>1. q \in Nat /\ q >= p /\ q > pg.last + BandRows(pg)
      BY <1>1
    <3> HIDE DEF q
    <3>2. RawStartRow(pg, q) >= q /\ RawStartRow(pg, q) \in Nat
      BY <3>1, StartIs, StartsGoOn DEF ProperPage
    <3>3. RawStartRow(pg, q) > pg.last + BandRows(pg)
      BY <1>1, <3>1, <3>2
    <3>4. Stops(q)
      BY <3>3 DEF Unused
    <3> QED  BY <3>1, <3>4
  <2> QED  BY <2>1
<1> HIDE DEF Stops
<1>4. f = [q \in Nat |-> IF q \in T THEN q ELSE f[q + 1]]
  <2>1. \A g : [q \in Nat |-> IF q \in T THEN q ELSE g[q + 1]]
               = [q \in Nat |-> IF Stops(q) THEN q ELSE g[q + 1]]
    OBVIOUS
  <2>2. PICK g : g = [q \in Nat |-> IF q \in T THEN q ELSE g[q + 1]]
    <3> HIDE DEF T
    <3>1. T \in SUBSET Nat
      BY DEF T
    <3> QED  BY <1>3, <3>1, ScanExists
  <2>3. f = [q \in Nat |-> IF Stops(q) THEN q ELSE f[q + 1]]
    BY <2>1, <2>2, Zenon
  <2> HIDE DEF f
  <2> QED  BY <2>1, <2>3, Zenon
<1>5. f[Q] \in T /\ f[Q] >= Q /\ \A q \in T : q >= Q => f[Q] <= q
  <2>1. T \in SUBSET Nat
    OBVIOUS
  <2> HIDE DEF T, f, Q
  <2> QED  BY <1>1, <1>3, <1>4, <2>1, ScanValue
<1> HIDE DEF f, Q, U
<1>6. U \in Nat /\ Q <= U /\ Stops(U)
  BY <1>1, <1>2, <1>5
<1>7. \A p \in Nat : p >= Q /\ p < U => ~Stops(p)
  BY <1>1, <1>2, <1>5, <1>6
<1> QED  BY <1>6, <1>7 DEF Q, U, Stops

(* The four scans of calculate_pass_map end where these say.              *)
LEMMA ScansAre ==
  ASSUME NEW pg, ProperPage(pg)
  PROVE  Scanned(pg, FirstPremappedPass(pg), ScanNormal(pg),
                 ScanPostmapped(pg), FirstUnusedPass(pg))
<1> DEFINE P == FirstPremappedPass(pg)
           N == ScanNormal(pg)
           Q == ScanPostmapped(pg)
           U == FirstUnusedPass(pg)
           St(p) == RawStartRow(pg, p)
           sep == pg.separation
           BR == BandRows(pg)
           H == PageHeight(pg)
           last == pg.last
<1>1. /\ sep \in Positive /\ BR \in Positive /\ H \in Int /\ last \in Nat
      /\ pg.first \in Nat
  BY HeadNumbers DEF ProperPage, PageHeight
<1>2. ASSUME NEW p \in Nat, NEW q \in Nat
      PROVE  St(p) \in Nat /\ (p <= q <=> St(p) <= St(q))
  BY StartIs, StartsRise DEF ProperPage
<1>3. /\ P \in Nat
      /\ \A p \in Nat : p >= P <=> St(p) - sep >= pg.first
  BY PremappedIs
<1>4. /\ N \in Nat /\ P <= N
      /\ (St(N) >= BR \/ St(N) - sep >= H \/ St(N) > last + BR)
      /\ \A p \in Nat : p >= P /\ p < N =>
           ~(St(p) >= BR \/ St(p) - sep >= H \/ St(p) > last + BR)
  BY NormalIs, Zenon DEF BelowPage, Unused
<1>5. /\ Q \in Nat /\ N <= Q
      /\ (St(Q) - sep >= H \/ St(Q) > last + BR)
      /\ \A p \in Nat : p >= N /\ p < Q => ~(St(p) - sep >= H \/ St(p) > last + BR)
  BY PostmappedIs, Zenon DEF BelowPage, Unused
<1>6. /\ U \in Nat /\ Q <= U /\ St(U) > last + BR
      /\ \A p \in Nat : p >= Q /\ p < U => ~(St(p) > last + BR)
  BY UnusedIs, Zenon DEF Unused
<1> HIDE DEF P, N, Q, U, St, sep, BR, H, last
<1>7. ASSUME NEW p \in Nat
      PROVE  /\ p >= P <=> St(p) - sep >= pg.first
             /\ p >= U => St(p) > last + BR
             /\ p >= P /\ p < U => St(p) <= last + BR
             /\ p >= P /\ p < Q => St(p) - sep < H
             /\ p >= Q /\ p < U => St(p) - sep >= H
             /\ p >= P /\ p < N => St(p) < BR
             /\ p >= N /\ N < Q => St(p) >= BR
  <2>1. St(p) \in Nat /\ St(N) \in Nat /\ St(Q) \in Nat /\ St(U) \in Nat
    BY <1>2, <1>4, <1>5, <1>6
  <2>2. p >= U => St(p) > last + BR
    <3>1. p >= U => St(U) <= St(p)
      BY <1>2, <1>6
    <3> QED  BY <1>1, <1>6, <2>1, <3>1 DEF Positive
  <2>3. p >= P /\ p < Q => St(p) - sep < H /\ St(p) <= last + BR
    BY <1>1, <1>3, <1>4, <1>5, <2>1 DEF Positive
  <2>4. p >= P /\ p < U => St(p) <= last + BR
    BY <1>1, <1>3, <1>5, <1>6, <2>1, <2>3 DEF Positive
  <2>5. p >= Q /\ p < U => St(p) - sep >= H
    <3> SUFFICES ASSUME p >= Q, p < U PROVE St(p) - sep >= H
      OBVIOUS
    <3>1. St(Q) <= St(p)
      BY <1>2, <1>5
    <3>2. ~(St(Q) > last + BR)
      BY <1>5, <1>6
    <3>3. St(Q) - sep >= H
      BY <1>5, <3>2
    <3> QED  BY <1>1, <2>1, <3>1, <3>3 DEF Positive
  <2>6. p >= P /\ p < N => St(p) < BR
    BY <1>1, <1>4, <2>1 DEF Positive
  <2>7. p >= N /\ N < Q => St(p) >= BR
    <3> SUFFICES ASSUME p >= N, N < Q PROVE St(p) >= BR
      OBVIOUS
    <3>1. St(N) >= BR
      BY <1>4, <1>5
    <3>2. St(N) <= St(p)
      BY <1>2, <1>4
    <3> QED  BY <1>1, <2>1, <3>1, <3>2 DEF Positive
  <2> QED  BY <1>3, <2>2, <2>3, <2>4, <2>5, <2>6, <2>7
<1>8. \A p \in Nat :
             /\ p >= P <=> St(p) - sep >= pg.first
             /\ p >= U => St(p) > last + BR
             /\ p >= P /\ p < U => St(p) <= last + BR
             /\ p >= P /\ p < Q => St(p) - sep < H
             /\ p >= Q /\ p < U => St(p) - sep >= H
             /\ p >= P /\ p < N => St(p) < BR
             /\ p >= N /\ N < Q => St(p) >= BR
  BY <1>7, Zenon
<1>9. P \in Nat /\ N \in Nat /\ Q \in Nat /\ U \in Nat /\ P <= N /\ N <= Q /\ Q <= U
  BY <1>3, <1>4, <1>5, <1>6
<1> USE DEF St, sep, BR, H, last
<1>10. Scanned(pg, P, N, Q, U)
  BY <1>8, <1>9, Zenon DEF Scanned
<1> QED  BY <1>10 DEF P, N, Q, U

-----------------------------------------------------------------------------
(* The sort.                                                               *)

(* Distinct numbers from a to b are at most as many as the set they are    *)
(* put into.                                                               *)
LEMMA FitsInto ==
  ASSUME NEW a \in Int, NEW b \in Int, NEW T, IsFiniteSet(T),
         NEW g \in [a .. b -> T],
         \A x \in a .. b, y \in a .. b : g[x] = g[y] => x = y
  PROVE  b - a + 1 <= Cardinality(T) /\ Cardinality(T) \in Nat
<1>1. g \in Injection(a .. b, T)
  BY DEF Injection, IsInjective
<1>2. Cardinality(a .. b) <= Cardinality(T) /\ Cardinality(T) \in Nat
  BY <1>1, FS_Injection, FS_CardinalityType
<1>3. Cardinality(a .. b) = IF a > b THEN 0 ELSE b - a + 1
  BY FS_Interval
<1> QED  BY <1>2, <1>3

(* A place for each, in the order of the starts.                           *)
Places(s, n, at) ==
  /\ at \in [1 .. n -> 1 .. n]
  /\ \A a \in 1 .. n, b \in 1 .. n :
       at[a] < at[b] <=> \/ s[a].start < s[b].start
                         \/ s[a].start = s[b].start /\ a < b
  /\ \A i \in 1 .. n : \E k \in 1 .. n : at[k] = i

(* A sort by distinct places exists.                                      *)
LEMMA PlaceExists ==
  ASSUME NEW n \in Nat, NEW s, \A k \in 1 .. n : s[k].start \in Int
  PROVE  Places(s, n,
           [k \in 1 .. n |->
              Cardinality({a \in 1 .. n : \/ s[a].start < s[k].start
                                          \/ s[a].start = s[k].start /\ a < k}) + 1])
<1> DEFINE Before(a, b) == \/ s[a].start < s[b].start
                           \/ s[a].start = s[b].start /\ a < b
           Earlier(k) == {a \in 1 .. n : Before(a, k)}
           at == [k \in 1 .. n |-> Cardinality(Earlier(k)) + 1]
           D == 1 .. n
<1>1. IsFiniteSet(D) /\ Cardinality(D) = n
  <2>1. Cardinality(1 .. n) = IF 1 > n THEN 0 ELSE n - 1 + 1
    <3>1. 1 \in Int /\ n \in Int
      OBVIOUS
    <3> QED  BY <3>1, FS_Interval, Zenon
  <2>2. (IF 1 > n THEN 0 ELSE n - 1 + 1) = n
    OBVIOUS
  <2> QED  BY <2>1, <2>2, FS_Interval
<1>2. ASSUME NEW a \in D, NEW b \in D, Before(a, b)
      PROVE  ~Before(b, a)
  BY <1>2
<1>3. ASSUME NEW a \in D, NEW b \in D, NEW c \in D, Before(a, b), Before(b, c)
      PROVE  Before(a, c)
  BY <1>3
<1>4. ASSUME NEW a \in D, NEW b \in D, a # b
      PROVE  Before(a, b) \/ Before(b, a)
  BY <1>4
<1>5. ASSUME NEW k \in D PROVE ~Before(k, k)
  BY <1>5
<1> HIDE DEF Before
<1>6. ASSUME NEW k \in D
      PROVE  /\ IsFiniteSet(Earlier(k))
             /\ Cardinality(Earlier(k)) \in 0 .. n - 1
             /\ Cardinality(Earlier(k)) \in Nat
  <2>1. Earlier(k) \in SUBSET D /\ k \notin Earlier(k)
    BY <1>5
  <2> HIDE DEF Earlier, D
  <2>2. IsFiniteSet(Earlier(k)) /\ Cardinality(Earlier(k)) <= n
    BY <1>1, <2>1, FS_Subset
  <2>3. Cardinality(Earlier(k)) # n
    <3>1. Cardinality(D) = Cardinality(Earlier(k)) => D = Earlier(k)
      BY <1>1, <2>1, FS_Subset
    <3> QED  BY <1>1, <1>6, <2>1, <3>1
  <2>4. Cardinality(Earlier(k)) \in Nat
    BY <2>2, FS_CardinalityType
  <2> QED  BY <2>2, <2>3, <2>4
<1>7. ASSUME NEW a \in D, NEW b \in D, Before(a, b)
      PROVE  Cardinality(Earlier(a)) < Cardinality(Earlier(b))
  <2>1. Earlier(a) \in SUBSET Earlier(b) /\ a \in Earlier(b) /\ a \notin Earlier(a)
    BY <1>3, <1>5, <1>7
  <2>2. IsFiniteSet(Earlier(b)) /\ Cardinality(Earlier(a)) \in Nat
        /\ Cardinality(Earlier(b)) \in Nat
    BY <1>6
  <2> HIDE DEF Earlier
  <2>3. /\ Cardinality(Earlier(a)) <= Cardinality(Earlier(b))
        /\ Cardinality(Earlier(b)) = Cardinality(Earlier(a))
             => Earlier(b) = Earlier(a)
    BY <2>1, <2>2, FS_Subset
  <2> QED  BY <2>1, <2>2, <2>3
<1> HIDE DEF Earlier
<1>8. at \in [D -> D]
  <2>1. ASSUME NEW k \in D PROVE Cardinality(Earlier(k)) + 1 \in D
    BY <1>6
  <2> QED  BY <2>1
<1>9. ASSUME NEW a \in D, NEW b \in D
      PROVE  at[a] < at[b] <=> Before(a, b)
  <2>1. at[a] = Cardinality(Earlier(a)) + 1 /\ at[b] = Cardinality(Earlier(b)) + 1
    OBVIOUS
  <2>2. Cardinality(Earlier(a)) \in Nat /\ Cardinality(Earlier(b)) \in Nat
    BY <1>6
  <2>3. CASE Before(a, b)
    BY <1>7, <2>1, <2>2, <2>3
  <2>4. CASE Before(b, a)
    <3>1. Cardinality(Earlier(b)) < Cardinality(Earlier(a)) /\ ~Before(a, b)
      BY <1>2, <1>7, <2>4
    <3> QED  BY <2>1, <2>2, <3>1
  <2>5. CASE a = b
    BY <1>5, <2>1, <2>2, <2>5
  <2> QED  BY <1>4, <2>3, <2>4, <2>5
<1> HIDE DEF at
<1>10. at \in Injection(D, D)
  <2>1. ASSUME NEW a \in D, NEW b \in D, at[a] = at[b] PROVE a = b
    <3>1. at[a] \in Int /\ at[b] \in Int
      BY <1>8
    <3>2. ~(at[a] < at[b]) /\ ~(at[b] < at[a])
      BY <2>1, <3>1
    <3> QED  BY <1>4, <1>9, <3>2
  <2> HIDE DEF D
  <2> QED  BY <1>8, <2>1 DEF Injection, IsInjective
<1>11. at \in Surjection(D, D)
  <2> HIDE DEF D
  <2> QED  BY <1>1, <1>10, FS_Injection
<1>12. \A i \in D : \E k \in D : at[k] = i
  BY <1>11 DEF Surjection
<1>13. Places(s, n, at)
  BY <1>8, <1>9, <1>12, Zenon DEF Places, D, Before
<1> QED  BY <1>13, Zenon DEF at, Earlier, Before

(* The sort is a rearrangement that puts each in its place.                *)
LEMMA SortIs ==
  ASSUME NEW n \in Nat, NEW s, DOMAIN s = 1 .. n, \A k \in 1 .. n : s[k].start \in Int
  PROVE  /\ DOMAIN SortByStartRow(s) = 1 .. n
         /\ SortByStartRow(s) = [i \in 1 .. n |-> SortByStartRow(s)[i]]
         /\ \E at : /\ Places(s, n, at)
                    /\ \A k \in 1 .. n : SortByStartRow(s)[at[k]] = s[k]
<1> DEFINE at == [k \in 1 .. n |->
             Cardinality({a \in 1 .. n : \/ s[a].start < s[k].start
                                         \/ s[a].start = s[k].start /\ a < k}) + 1]
           r == SortByStartRow(s)
<1>1. Places(s, n, at)
  BY PlaceExists
<1>2. r = [i \in 1 .. n |-> s[CHOOSE k \in 1 .. n : at[k] = i]]
  <2> DEFINE place == [k \in DOMAIN s |->
               Cardinality({a \in DOMAIN s :
                              \/ s[a].start < s[k].start
                              \/ s[a].start = s[k].start /\ a < k}) + 1]
  <2>1. r = [i \in DOMAIN s |-> s[CHOOSE k \in DOMAIN s : place[k] = i]]
    BY DEF SortByStartRow
  <2>2. place = at
    BY Zenon
  <2> HIDE DEF place, at, r
  <2> QED  BY <2>1, <2>2
<1> HIDE DEF at, r
<1>3. ASSUME NEW k \in 1 .. n PROVE r[at[k]] = s[k]
  <2> DEFINE j == CHOOSE j \in 1 .. n : at[j] = at[k]
  <2>1. j \in 1 .. n /\ at[j] = at[k]
    BY <1>3, Zenon
  <2> HIDE DEF j
  <2>2. j = k
    <3>1. at[j] \in Int /\ at[k] \in Int
      BY <1>1, <2>1 DEF Places
    <3>2. ~(at[j] < at[k]) /\ ~(at[k] < at[j])
      BY <2>1, <3>1
    <3>3. /\ ~(s[j].start < s[k].start \/ (s[j].start = s[k].start /\ j < k))
          /\ ~(s[k].start < s[j].start \/ (s[k].start = s[j].start /\ k < j))
      BY <1>1, <2>1, <3>2 DEF Places
    <3> QED  BY <2>1, <3>3
  <2>3. at[k] \in 1 .. n
    BY <1>1 DEF Places
  <2>4. r[at[k]] = s[j]
    BY <1>2, <2>3, Zenon DEF j
  <2> QED  BY <2>2, <2>4
<1>4. DOMAIN r = 1 .. n /\ r = [i \in 1 .. n |-> r[i]]
  BY <1>2
<1> QED  BY <1>1, <1>3, <1>4 DEF r

-----------------------------------------------------------------------------
(* The map.                                                                *)

(* Where a pass is pulled to, before the spread: the row on the page, or   *)
(* the rows left below it on a page that is counted upwards.               *)
FromEdge(maximal, x) == IF maximal >= 0 THEN maximal - x ELSE x

(* What make_passmap computes for the raw passes lo .. hi-1: their number  *)
(* in the order of their final starts, those, and the number in the order  *)
(* in which they are spread.                                               *)
Mapped(pg, map, lo, hi, sLo, sHi, maximal, seps, number, final, turn) ==
  LET sep == pg.separation
      on(p) == OnPage(pg, maximal, p)
  IN
  /\ number \in [lo .. hi - 1 -> 1 .. hi - lo]
  /\ final \in [lo .. hi - 1 -> Int]
  /\ turn \in [lo .. hi - 1 -> 1 .. hi - lo]
  /\ \A p \in lo .. hi - 1 :
       /\ map[p].pass = number[p] - 1 + lo - FirstPremappedPass(pg)
       /\ map[p].stagger = CDiv(final[p] - (RawStartRow(pg, p) - BandRows(pg)), sep)
       /\ \/ final[p] = FromEdge(maximal, on(p))
          \/ /\ turn[p] \in sLo - lo + 1 .. sHi - lo
             /\ \E slot \in 1 .. seps :
                  /\ on(p) \div sep < slot
                  /\ final[p] = FromEdge(maximal, (on(p) % sep) + sep * slot)
  /\ \A p \in lo .. hi - 1, q \in lo .. hi - 1 :
       /\ number[p] = number[q] => p = q
       /\ number[p] < number[q] => final[p] <= final[q]
       /\ turn[p] = turn[q] => p = q
       /\ turn[p] < turn[q] => on(p) <= on(q)
  /\ \A i \in 1 .. hi - lo : \E p \in lo .. hi - 1 : number[p] = i

(* The head's place for a pass is a row.                                   *)
LEMMA OnPageIs ==
  ASSUME NEW pg, pg.separation \in Positive, BandRows(pg) \in Int,
         NEW maximal \in Int, NEW p, RawStartRow(pg, p) \in Int
  PROVE  LET d == FromEdge(maximal, RawStartRow(pg, p) - BandRows(pg))
             e == OnPage(pg, maximal, p)
         IN  /\ d \in Int
             /\ e \in Nat
             /\ e = IF d < 0 THEN d % pg.separation ELSE d
             /\ FromEdge(maximal, e) \in Int
             /\ e % pg.separation \in 0 .. pg.separation - 1
             /\ e \div pg.separation \in Int
             /\ \E z \in Int : e = d + pg.separation * z
<1> DEFINE start == RawStartRow(pg, p) - BandRows(pg)
           sep == pg.separation
           d == IF maximal >= 0 THEN maximal - start ELSE start
           e == OnPage(pg, maximal, p)
<1>1. start \in Int /\ d \in Int /\ sep \in Positive
  OBVIOUS
<1>2. e = IF d < 0 THEN d % sep ELSE d
  BY Zenon DEF OnPage
<1>3. d = FromEdge(maximal, start)
  BY DEF FromEdge
<1> HIDE DEF start, d, e, sep
<1>4. d % sep \in 0 .. sep - 1 /\ d \div sep \in Int /\ d = sep * (d \div sep) + (d % sep)
  <2>1. d \in Int /\ sep \in Positive
    BY <1>1
  <2>2. d \div sep \in Int /\ d % sep \in 0 .. sep - 1
    BY <2>1, Division
  <2>3. d = sep * (d \div sep) + (d % sep)
    BY <2>1, Division
  <2> QED  BY <2>2, <2>3
<1>5. e \in Nat
  BY <1>1, <1>2, <1>4 DEF Positive
<1>6. e % sep \in 0 .. sep - 1 /\ e \div sep \in Int
  <2>1. e \in Int
    BY <1>5
  <2> QED  BY <1>1, <2>1, Division
<1>7. \E z \in Int : e = d + sep * z
  <2> DEFINE x == d \div sep
             m == d % sep
  <2>1. x \in Int /\ m \in Int /\ d = sep * x + m /\ sep \in Int
    BY <1>1, <1>4 DEF Positive
  <2>2. e = IF d < 0 THEN m ELSE d
    BY <1>2
  <2> HIDE DEF x, m
  <2>3. m = d + sep * (-x)
    BY <1>1, <2>1
  <2>4. d = d + sep * 0
    BY <1>1, <2>1
  <2>5. -x \in Int /\ 0 \in Int
    BY <2>1
  <2> QED  BY <2>2, <2>3, <2>4, <2>5
<1>8. FromEdge(maximal, e) \in Int
  BY <1>5 DEF FromEdge
<1> QED  BY <1>1, <1>2, <1>3, <1>5, <1>6, <1>7, <1>8 DEF start, d, e, sep

(* What make_passmap's result says of each raw pass.                      *)
LEMMA MapIs ==
  ASSUME NEW pg, pg.separation \in Positive, BandRows(pg) \in Int,
         NEW lo \in Int, NEW hi \in Int, lo <= hi, NEW sLo \in Int, NEW sHi \in Int,
         NEW maximal \in Int, NEW seps \in Nat,
         \A p \in lo .. hi - 1 : RawStartRow(pg, p) \in Int
  PROVE  \E number, final, turn :
           Mapped(pg, MakePassMap(pg, lo, hi, sLo, sHi, maximal, seps),
                  lo, hi, sLo, sHi, maximal, seps, number, final, turn)
<1> DEFINE n == hi - lo
           D == 1 .. n
           R == lo .. hi - 1
           sep == pg.separation
           on(p) == OnPage(pg, maximal, p)
           first == sLo - lo + 1
           last == sHi - lo
           e0 == [i \in 1 .. hi - lo |->
                    [raw |-> lo + i - 1, start |-> OnPage(pg, maximal, lo + i - 1)]]
           s1 == SortByStartRow(e0)
           sp == SpreadOut(pg, s1, first, last, seps)
           fm == FromMaximal(sp, maximal)
           placed == SortByStartRow(fm)
           map == MakePassMap(pg, lo, hi, sLo, sHi, maximal, seps)
<1>1. n \in Nat /\ sep \in Positive /\ sep \in Nat
  BY DEF Positive
<1>2. ASSUME NEW p \in R
      PROVE  on(p) \in Nat /\ on(p) % sep \in 0 .. sep - 1 /\ on(p) \div sep \in Int
  <2> HIDE DEF on
  <2>1. RawStartRow(pg, p) \in Int
    OBVIOUS
  <2> QED  BY <2>1, OnPageIs DEF on
<1>3. DOMAIN e0 = D /\ \A k \in D : /\ lo + k - 1 \in R
                                    /\ e0[k] = [raw |-> lo + k - 1,
                                                start |-> on(lo + k - 1)]
                                    /\ e0[k].start \in Int
  <2>1. ASSUME NEW k \in D
        PROVE  lo + k - 1 \in R /\ e0[k] = [raw |-> lo + k - 1, start |-> on(lo + k - 1)]
               /\ e0[k].start \in Int
    <3>1. lo + k - 1 \in R
      OBVIOUS
    <3>2. on(lo + k - 1) \in Nat
      BY <1>2, <3>1
    <3>3. e0[k] = [raw |-> lo + k - 1, start |-> on(lo + k - 1)]
      BY Zenon
    <3> HIDE DEF e0, on
    <3> QED  BY <3>1, <3>2, <3>3
  <2> QED  BY <2>1
<1> HIDE DEF e0
<1>4. DOMAIN s1 = D /\ \E at : Places(e0, n, at) /\ \A k \in D : s1[at[k]] = e0[k]
  <2>1. DOMAIN e0 = 1 .. n /\ \A k \in 1 .. n : e0[k].start \in Int
    BY <1>3, Zenon
  <2> HIDE DEF n
  <2> QED  BY <1>1, <2>1, SortIs
<1>5. PICK at1 : Places(e0, n, at1) /\ \A k \in D : s1[at1[k]] = e0[k]
  BY <1>4
<1> HIDE DEF s1
<1>6. /\ at1 \in [D -> D]
      /\ \A a \in D, b \in D :
           at1[a] < at1[b] <=> \/ e0[a].start < e0[b].start
                               \/ e0[a].start = e0[b].start /\ a < b
      /\ \A i \in D : \E k \in D : at1[k] = i
  BY <1>5, Zenon DEF Places
<1>7. ASSUME NEW i \in D
      PROVE  /\ s1[i].raw \in R /\ s1[i].start \in Int
             /\ s1[i] = [raw |-> s1[i].raw, start |-> s1[i].start]
             /\ s1[i].start = on(s1[i].raw)
             /\ at1[s1[i].raw - lo + 1] = i
  <2>1. PICK k \in D : at1[k] = i
    BY <1>6
  <2>2. s1[i] = [raw |-> lo + k - 1, start |-> on(lo + k - 1)]
    BY <1>3, <1>5, <2>1
  <2>3. on(lo + k - 1) \in Int /\ lo + k - 1 \in R
    BY <1>2, <1>3
  <2> DEFINE r == lo + k - 1
  <2>4. s1[i] = [raw |-> r, start |-> on(r)] /\ on(r) \in Int /\ r \in R
        /\ r - lo + 1 = k
    BY <2>2, <2>3
  <2> HIDE DEF r, on
  <2> QED  BY <2>1, <2>4
<1>8. DOMAIN sp = D
  BY <1>4 DEF SpreadOut
<1>9. ASSUME NEW i \in D
      PROVE  /\ sp[i] = [raw |-> s1[i].raw, start |-> sp[i].start]
             /\ \/ sp[i].start = s1[i].start
                \/ /\ i \in first .. last
                   /\ \E slot \in 1 .. seps :
                        /\ s1[i].start \div sep < slot
                        /\ sp[i].start = (s1[i].start % sep) + sep * slot
  <2> DEFINE slot == (i - first) % (seps + 1)
             s == s1[i].start
             v == (s % sep) + sep * slot
             r == s1[i].raw
  <2>1. sp[i] = IF i \in first .. last /\ s \div sep < slot
                THEN [s1[i] EXCEPT !.start = v] ELSE s1[i]
    BY <1>4, Zenon DEF SpreadOut
  <2>2. s1[i] = [raw |-> r, start |-> s] /\ s \in Nat
    <3>1. s = on(r) /\ r \in R
      BY <1>7
    <3> HIDE DEF s, r
    <3>2. s \in Nat
      BY <1>2, <3>1
    <3> QED  BY <1>7, <3>2 DEF s, r
  <2>3. CASE i \in first .. last /\ s \div sep < slot
    <3>1. slot \in 0 .. seps
      <4> DEFINE x == i - first
                 dd == seps + 1
      <4>1. x \in Int /\ dd \in Positive
        BY DEF Positive
      <4> HIDE DEF x, dd
      <4>2. x % dd \in 0 .. dd - 1
        BY <4>1, Division
      <4> QED  BY <4>2 DEF x, dd
    <3>2. s \div sep >= 0
      <4> HIDE DEF s, sep
      <4>1. s \div sep \in Int /\ s % sep \in 0 .. sep - 1
        BY <1>1, <2>2, Division
      <4>2. s = sep * (s \div sep) + (s % sep)
        BY <1>1, <2>2, Division
      <4> DEFINE x == s \div sep
      <4> HIDE DEF x
      <4>3. CASE x <= -1
        <5>1. sep * x <= -sep /\ sep * x \in Int
          BY <1>1, <4>1, <4>3 DEF x, Positive
        <5> QED  BY <1>1, <2>2, <4>1, <4>2, <5>1 DEF x, Positive
      <4> QED  BY <4>1, <4>3 DEF x
    <3>3. slot \in 1 .. seps
      <4>1. s \div sep \in Int
        <5> HIDE DEF s, sep
        <5> QED  BY <1>1, <2>2, Division
      <4> DEFINE x == s \div sep
      <4> HIDE DEF x, slot
      <4> QED  BY <2>3, <3>1, <3>2, <4>1 DEF x
    <3> HIDE DEF slot
    <3>4. sp[i] = [raw |-> r, start |-> v]
      <4> HIDE DEF v, r, s
      <4> QED  BY <2>1, <2>2, <2>3
    <3>5. sp[i].raw = r /\ sp[i].start = v
      BY <3>4
    <3> QED  BY <2>3, <3>3, <3>4, <3>5
  <2>4. CASE ~(i \in first .. last /\ s \div sep < slot)
    <3>1. sp[i] = s1[i]
      BY <2>1, <2>4, Zenon
    <3> HIDE DEF v, sep, first, last
    <3> QED  BY <2>2, <3>1
  <2> QED  BY <2>3, <2>4
<1>10. ASSUME NEW i \in D PROVE sp[i].start \in Int
  <2>1. s1[i].start \in Int /\ s1[i].start % sep \in Int
    <3>1. s1[i].start = on(s1[i].raw) /\ s1[i].raw \in R
      BY <1>7
    <3>2. on(s1[i].raw) \in Nat /\ on(s1[i].raw) % sep \in 0 .. sep - 1
      BY <1>2, <3>1
    <3> DEFINE x == s1[i].start % sep
    <3>3. x \in 0 .. sep - 1
      BY <3>1, <3>2, Zenon
    <3> HIDE DEF x
    <3>4. x \in Int
      BY <1>1, <3>3 DEF Positive
    <3> QED  BY <3>1, <3>2, <3>4 DEF x
  <2> DEFINE x == s1[i].start % sep
  <2> HIDE DEF x, sep, first, last
  <2>2. sp[i].start = s1[i].start \/ \E slot \in 1 .. seps : sp[i].start = x + sep * slot
    BY <1>9 DEF x
  <2>3. x \in Int
    BY <2>1 DEF x
  <2> QED  BY <1>1, <2>1, <2>2, <2>3
<1> HIDE DEF sp
<1>11. DOMAIN fm = D
  BY <1>8 DEF FromMaximal
<1>12. ASSUME NEW i \in D
       PROVE  /\ fm[i] = [raw |-> s1[i].raw, start |-> FromEdge(maximal, sp[i].start)]
              /\ fm[i].start \in Int
  <2>1. fm[i] = IF maximal >= 0 THEN [sp[i] EXCEPT !.start = maximal - @] ELSE sp[i]
    BY <1>8, Zenon DEF FromMaximal
  <2>2. sp[i] = [raw |-> s1[i].raw, start |-> sp[i].start] /\ sp[i].start \in Int
    BY <1>9, <1>10
  <2> DEFINE r == s1[i].raw
             s == sp[i].start
  <2>3. sp[i] = [raw |-> r, start |-> s] /\ s \in Int
    BY <2>2
  <2> HIDE DEF r, s, fm
  <2>4. fm[i] = [raw |-> r, start |-> FromEdge(maximal, s)]
    BY <2>1, <2>3 DEF FromEdge
  <2>5. FromEdge(maximal, s) \in Int
    BY <2>3 DEF FromEdge
  <2>6. fm[i].start = FromEdge(maximal, s)
    BY <2>4
  <2> QED  BY <2>4, <2>5, <2>6 DEF r, s
<1> HIDE DEF fm
<1>13. /\ DOMAIN placed = D /\ placed = [i \in D |-> placed[i]]
       /\ \E at : Places(fm, n, at) /\ \A k \in D : placed[at[k]] = fm[k]
  <2> HIDE DEF n
  <2> QED  BY <1>1, <1>11, <1>12, SortIs
<1>14. PICK at2 : Places(fm, n, at2) /\ \A k \in D : placed[at2[k]] = fm[k]
  BY <1>13
<1>15. /\ at2 \in [D -> D]
       /\ \A a \in D, b \in D :
            at2[a] < at2[b] <=> \/ fm[a].start < fm[b].start
                                \/ fm[a].start = fm[b].start /\ a < b
       /\ \A i \in D : \E k \in D : at2[k] = i
  BY <1>14, Zenon DEF Places
<1> DEFINE turn == [p \in R |-> at1[p - lo + 1]]
           number == [p \in R |-> at2[turn[p]]]
           final == [p \in R |-> fm[turn[p]].start]
<1> HIDE DEF placed
<1>16. ASSUME NEW p \in R
       PROVE  /\ p - lo + 1 \in D /\ turn[p] \in D /\ number[p] \in D
              /\ turn[p] = at1[p - lo + 1]
              /\ number[p] = at2[turn[p]] /\ final[p] = fm[turn[p]].start
              /\ s1[turn[p]] = [raw |-> p, start |-> on(p)]
  <2>1. p - lo + 1 \in D /\ turn[p] = at1[p - lo + 1]
    OBVIOUS
  <2>2. turn[p] \in D
    BY <1>6, <2>1
  <2>3. number[p] = at2[turn[p]] /\ final[p] = fm[turn[p]].start
    BY Zenon
  <2>4. number[p] \in D
    <3> HIDE DEF number, turn
    <3> QED  BY <1>15, <2>2, <2>3
  <2>5. s1[turn[p]] = e0[p - lo + 1]
    BY <1>5, <2>1
  <2>6. lo + (p - lo + 1) - 1 = p
    OBVIOUS
  <2>7. e0[p - lo + 1] = [raw |-> lo + (p - lo + 1) - 1,
                          start |-> on(lo + (p - lo + 1) - 1)]
    BY <1>3, <2>1
  <2> HIDE DEF turn, number, final, on
  <2>8. s1[turn[p]] = [raw |-> p, start |-> on(p)]
    BY <2>5, <2>6, <2>7
  <2> QED  BY <2>1, <2>2, <2>3, <2>4, <2>8
<1> HIDE DEF turn, number, final
<1>17. ASSUME NEW p \in R
       PROVE  /\ final[p] \in Int
              /\ placed[number[p]] = [raw |-> p, start |-> final[p]]
              /\ \/ final[p] = FromEdge(maximal, on(p))
                 \/ /\ turn[p] \in first .. last
                    /\ \E slot \in 1 .. seps :
                         /\ on(p) \div sep < slot
                         /\ final[p] = FromEdge(maximal, (on(p) % sep) + sep * slot)
  <2> DEFINE i == turn[p]
  <2>1. i \in D /\ s1[i] = [raw |-> p, start |-> on(p)] /\ final[p] = fm[i].start
        /\ number[p] = at2[i]
    BY <1>16
  <2> HIDE DEF i, on
  <2>2. s1[i].raw = p /\ s1[i].start = on(p)
    BY <2>1
  <2>3. fm[i] = [raw |-> p, start |-> FromEdge(maximal, sp[i].start)]
        /\ fm[i].start \in Int
    BY <1>12, <2>1, <2>2
  <2>4. final[p] = FromEdge(maximal, sp[i].start)
    BY <2>1, <2>3
  <2>5. placed[number[p]] = fm[i]
    BY <1>14, <2>1
  <2> HIDE DEF first, last, sep
  <2>6. \/ sp[i].start = on(p)
        \/ /\ i \in first .. last
           /\ \E slot \in 1 .. seps :
                /\ on(p) \div sep < slot
                /\ sp[i].start = (on(p) % sep) + sep * slot
    BY <1>9, <2>1, <2>2, Zenon
  <2>7. \/ final[p] = FromEdge(maximal, on(p))
        \/ /\ turn[p] \in first .. last
           /\ \E slot \in 1 .. seps :
                /\ on(p) \div sep < slot
                /\ final[p] = FromEdge(maximal, (on(p) % sep) + sep * slot)
    BY <2>4, <2>6, Zenon DEF i
  <2>8. final[p] \in Int
    BY <2>1, <2>3
  <2>9. placed[number[p]] = [raw |-> p, start |-> final[p]]
    BY <2>3, <2>4, <2>5
  <2> QED  BY <2>7, <2>8, <2>9
<1>18. \A i \in D : \E p \in R : number[p] = i
  <2> SUFFICES ASSUME NEW i \in D PROVE \E p \in R : number[p] = i
    OBVIOUS
  <2>1. PICK k \in D : at2[k] = i
    BY <1>15
  <2>2. PICK j \in D : at1[j] = k
    BY <1>6
  <2>3. lo + j - 1 \in R /\ (lo + j - 1) - lo + 1 = j
    OBVIOUS
  <2> DEFINE p == lo + j - 1
  <2>4. p \in R /\ p - lo + 1 = j
    BY <2>3
  <2> HIDE DEF p
  <2>5. number[p] = i
    BY <1>16, <2>1, <2>2, <2>4
  <2> QED  BY <2>4, <2>5
<1>19. ASSUME NEW p \in R, NEW q \in R
       PROVE  /\ number[p] = number[q] => p = q
              /\ number[p] < number[q] => final[p] <= final[q]
              /\ turn[p] = turn[q] => p = q
              /\ turn[p] < turn[q] => on(p) <= on(q)
  <2>1. /\ turn[p] \in D /\ turn[q] \in D
        /\ s1[turn[p]] = [raw |-> p, start |-> on(p)]
        /\ s1[turn[q]] = [raw |-> q, start |-> on(q)]
        /\ number[p] = at2[turn[p]] /\ number[q] = at2[turn[q]]
        /\ final[p] = fm[turn[p]].start /\ final[q] = fm[turn[q]].start
    BY <1>16
  <2>2. placed[number[p]] = [raw |-> p, start |-> final[p]]
        /\ placed[number[q]] = [raw |-> q, start |-> final[q]]
    BY <1>17
  <2> HIDE DEF on
  <2>3. number[p] = number[q] => p = q
    BY <2>2
  <2>4. turn[p] = turn[q] => p = q
    BY <2>1
  <2>5. number[p] < number[q] => final[p] <= final[q]
    <3>1. final[p] \in Int /\ final[q] \in Int
      BY <1>17
    <3>2. number[p] < number[q] => fm[turn[p]].start < fm[turn[q]].start
                                   \/ fm[turn[p]].start = fm[turn[q]].start
      BY <1>15, <2>1
    <3> QED  BY <2>1, <3>1, <3>2
  <2>6. turn[p] < turn[q] => on(p) <= on(q)
    <3> DEFINE a == p - lo + 1
               b == q - lo + 1
    <3>1. a \in D /\ b \in D /\ turn[p] = at1[a] /\ turn[q] = at1[b]
      BY <1>16
    <3>2. e0[a].start = on(p) /\ e0[b].start = on(q)
      <4>1. s1[at1[a]] = e0[a] /\ s1[at1[b]] = e0[b]
        BY <1>5, <3>1
      <4> HIDE DEF a, b
      <4> QED  BY <2>1, <3>1, <4>1
    <3>3. on(p) \in Int /\ on(q) \in Int
      BY <1>2 DEF on
    <3> HIDE DEF a, b
    <3>4. at1[a] < at1[b] => \/ e0[a].start < e0[b].start
                             \/ e0[a].start = e0[b].start
      BY <1>6, <3>1
    <3> QED  BY <3>1, <3>2, <3>3, <3>4
  <2> QED  BY <2>3, <2>4, <2>5, <2>6
<1>20. Len(placed) = n
  <2>1. ASSUME NEW i \in D PROVE placed[i] \in [raw : Int, start : Int]
    <3>1. PICK p \in R : number[p] = i
      BY <1>18
    <3>2. placed[i] = [raw |-> p, start |-> final[p]] /\ final[p] \in Int
      BY <1>17, <3>1
    <3>3. p \in Int
      OBVIOUS
    <3> QED  BY <3>2, <3>3
  <2>2. placed \in [1 .. n -> [raw : Int, start : Int]]
    BY <1>13, <2>1
  <2> HIDE DEF n
  <2> QED  BY <1>1, <2>2
<1>21. ASSUME NEW p \in R
       PROVE  /\ map[p].pass = number[p] - 1 + lo - FirstPremappedPass(pg)
              /\ map[p].stagger =
                   CDiv(final[p] - (RawStartRow(pg, p) - BandRows(pg)), sep)
  <2> DEFINE c == CHOOSE k \in DOMAIN placed : placed[k].raw = p
  <2>1. map = InvertMap(pg, placed, lo)
    BY Zenon DEF MakePassMap, placed, fm, sp, s1, e0
  <2>2. lo + Len(placed) - 1 = hi - 1
    BY <1>20
  <2>3. map = [x \in R |->
           [pass |-> (CHOOSE k \in DOMAIN placed : placed[k].raw = x) - 1 + lo
                       - FirstPremappedPass(pg),
            stagger |-> Stagger(pg, placed[CHOOSE k \in DOMAIN placed :
                                             placed[k].raw = x])]]
    BY <2>1, <2>2, Zenon DEF InvertMap
  <2>4. map[p] = [pass |-> c - 1 + lo - FirstPremappedPass(pg),
                  stagger |-> Stagger(pg, placed[c])]
    BY <2>3
  <2>5. c = number[p]
    <3>1. number[p] \in DOMAIN placed /\ placed[number[p]].raw = p
      <4>1. number[p] \in D
        BY <1>16
      <4>2. placed[number[p]] = [raw |-> p, start |-> final[p]]
        BY <1>17
      <4> QED  BY <1>13, <4>1, <4>2
    <3>2. c \in DOMAIN placed /\ placed[c].raw = p
      BY <3>1, Zenon
    <3> HIDE DEF c
    <3>3. PICK q \in R : number[q] = c
      BY <1>13, <1>18, <3>2
    <3>4. placed[c].raw = q
      <4>1. placed[c] = [raw |-> q, start |-> final[q]]
        BY <1>17, <3>3
      <4> QED  BY <4>1
    <3> QED  BY <3>2, <3>3, <3>4
  <2> HIDE DEF c, map
  <2>6. placed[c].raw = p /\ placed[c].start = final[p]
    <3>1. placed[c] = [raw |-> p, start |-> final[p]]
      BY <1>17, <2>5
    <3> QED  BY <3>1
  <2>7. map[p].pass = c - 1 + lo - FirstPremappedPass(pg)
        /\ map[p].stagger = Stagger(pg, placed[c])
    BY <2>4
  <2>8. Stagger(pg, placed[c]) =
          CDiv(final[p] - (RawStartRow(pg, p) - BandRows(pg)), sep)
    BY <2>6, Zenon DEF Stagger
  <2> QED  BY <2>5, <2>7, <2>8, Zenon
<1> HIDE DEF map
<1>22. number \in [R -> 1 .. hi - lo] /\ final \in [R -> Int]
       /\ turn \in [R -> 1 .. hi - lo]
  <2>1. DOMAIN number = R /\ DOMAIN final = R /\ DOMAIN turn = R
        /\ number = [p \in R |-> number[p]] /\ final = [p \in R |-> final[p]]
        /\ turn = [p \in R |-> turn[p]]
    BY DEF number, final, turn
  <2>2. \A p \in R : number[p] \in D /\ final[p] \in Int /\ turn[p] \in D
    BY <1>16, <1>17
  <2> QED  BY <2>1, <2>2
<1> HIDE DEF sep
<1>23. Mapped(pg, map, lo, hi, sLo, sHi, maximal, seps, number, final, turn)
  BY <1>17, <1>18, <1>19, <1>21, <1>22, Zenon DEF Mapped, sep
<1> QED  BY <1>23 DEF map

-----------------------------------------------------------------------------
(* How far a pass is pulled.                                               *)

(* A pass is pulled by whole separations, onto the page or over the spread *)
(* rows at most; d is its distance from the edge, G where it is put.       *)
LEMMA PulledIs ==
  ASSUME NEW sep \in Positive, NEW d \in Int, NEW e \in Nat,
         e = IF d < 0 THEN d % sep ELSE d,
         NEW seps \in Nat, NEW G,
         \/ G = e
         \/ \E slot \in 1 .. seps : e \div sep < slot /\ G = (e % sep) + sep * slot
  PROVE  /\ G \in Nat
         /\ \E z \in Nat : /\ G = d + sep * z
                           /\ z > 0 => /\ G <= sep - 1 + sep * seps
                                       /\ d <= sep * seps - 1
                           /\ d < 0 => z > 0
<1>1. sep \in Int /\ sep > 0
  BY DEF Positive
<1> DEFINE h == d \div sep
           m == d % sep
<1>2. h \in Int /\ m \in 0 .. sep - 1 /\ d = sep * h + m
  <2>1. h \in Int /\ m \in 0 .. sep - 1
    BY Division
  <2>2. d = sep * h + m
    BY Division
  <2> QED  BY <2>1, <2>2
<1>3. e = IF d < 0 THEN m ELSE d
  OBVIOUS
<1>4. sep * seps \in Nat
  BY <1>1
<1> HIDE DEF h, m
<1>5. CASE d < 0
  <2>1. h <= -1
    <3>1. CASE h >= 0
      <4>1. sep * h >= 0 /\ sep * h \in Int
        BY <1>1, <1>2, <3>1
      <4> QED  BY <1>2, <1>5, <4>1
    <3> QED  BY <1>2, <3>1
  <2>2. e = m /\ e \div sep = 0 /\ e % sep = m
    <3>1. e = m
      BY <1>3, <1>5
    <3>2. e \in Int /\ 0 \in Int /\ m \in 0 .. sep - 1 /\ e = sep * 0 + m
      BY <1>1, <1>2, <3>1
    <3> QED  BY <3>1, <3>2, DivisionIs
  <2>3. CASE G = e
    <3>1. G = d + sep * (-h) /\ -h \in Nat /\ -h > 0
      BY <1>1, <1>2, <2>1, <2>2, <2>3
    <3>2. G <= sep - 1 + sep * seps /\ d <= sep * seps - 1 /\ G \in Nat
      BY <1>1, <1>2, <1>4, <1>5, <2>2, <2>3
    <3> QED  BY <3>1, <3>2
  <2>4. CASE \E slot \in 1 .. seps : e \div sep < slot /\ G = (e % sep) + sep * slot
    <3>1. PICK slot \in 1 .. seps : G = m + sep * slot
      BY <2>2, <2>4
    <3>2. sep * slot <= sep * seps /\ sep * slot \in Nat
      BY <1>1
    <3>3. sep * (slot - h) = sep * slot - sep * h /\ sep * h \in Int
      BY <1>1, <1>2
    <3>4. G = d + sep * (slot - h)
      BY <1>2, <3>1, <3>2, <3>3
    <3>5. slot - h \in Nat /\ slot - h > 0
      BY <1>2, <2>1
    <3>6. G <= sep - 1 + sep * seps /\ d <= sep * seps - 1 /\ G \in Nat
      BY <1>1, <1>2, <1>4, <1>5, <3>1, <3>2
    <3> QED  BY <3>4, <3>5, <3>6
  <2> QED  BY <2>3, <2>4
<1>6. CASE d >= 0
  <2>1. e = d /\ e \div sep = h /\ e % sep = m
    <3>1. e = d
      BY <1>3, <1>6
    <3> QED  BY <3>1 DEF h, m
  <2>2. CASE G = e
    <3>1. G = d + sep * 0 /\ G \in Nat /\ 0 \in Nat
      BY <1>1, <1>6, <2>1, <2>2
    <3> QED  BY <1>6, <3>1
  <2>3. CASE \E slot \in 1 .. seps : e \div sep < slot /\ G = (e % sep) + sep * slot
    <3>1. PICK slot \in 1 .. seps : h < slot /\ G = m + sep * slot
      BY <2>1, <2>3
    <3>2. sep * slot <= sep * seps /\ sep * slot \in Nat
      BY <1>1
    <3>3. sep * (slot - h) = sep * slot - sep * h /\ sep * h \in Int
      BY <1>1, <1>2
    <3>4. G = d + sep * (slot - h)
      BY <1>2, <3>1, <3>2, <3>3
    <3>5. slot - h \in Nat /\ slot - h > 0
      BY <1>2, <3>1
    <3>6. sep * h <= sep * seps - sep
      <4>1. sep * h <= sep * (seps - 1) /\ sep * (seps - 1) = sep * seps - sep
        BY <1>1, <1>2, <3>1
      <4> QED  BY <1>4, <3>3, <4>1
    <3>7. G <= sep - 1 + sep * seps /\ d <= sep * seps - 1 /\ G \in Nat
      BY <1>1, <1>2, <1>4, <3>1, <3>2, <3>3, <3>6
    <3> QED  BY <1>6, <3>4, <3>5, <3>7
  <2> QED  BY <2>2, <2>3
<1> QED  BY <1>5, <1>6

(* A pass comes no earlier than all that come before it...                 *)
LEMMA RankLow ==
  ASSUME NEW lo \in Int, NEW hi \in Int, NEW number \in [lo .. hi - 1 -> 1 .. hi - lo],
         \A p \in lo .. hi - 1, q \in lo .. hi - 1 : number[p] = number[q] => p = q,
         NEW p \in lo .. hi - 1, NEW y \in Int, y <= hi,
         \A q \in lo .. y - 1 : number[q] < number[p]
  PROVE  number[p] >= y - lo + 1
<1> DEFINE g == [q \in lo .. y - 1 |-> number[q]]
           T == 1 .. number[p] - 1
<1>1. number[p] \in 1 .. hi - lo
  OBVIOUS
<1>2. ASSUME NEW q \in lo .. y - 1 PROVE q \in lo .. hi - 1 /\ number[q] \in T
  <2>1. q \in lo .. hi - 1
    OBVIOUS
  <2>2. number[q] \in 1 .. hi - lo /\ number[q] < number[p]
    BY <2>1
  <2> QED  BY <1>1, <2>1, <2>2
<1>3. g \in [lo .. y - 1 -> T]
  BY <1>2
<1>4. \A x \in lo .. y - 1, z \in lo .. y - 1 : g[x] = g[z] => x = z
  BY <1>2
<1>5. IsFiniteSet(T) /\ Cardinality(T) <= number[p] - 1
  <2> DEFINE k == number[p] - 1
  <2>1. k \in Int /\ 1 \in Int /\ k >= 0
    BY <1>1
  <2> HIDE DEF k
  <2>2. IsFiniteSet(1 .. k) /\ Cardinality(1 .. k) = IF 1 > k THEN 0 ELSE k - 1 + 1
    BY <2>1, FS_Interval, Zenon
  <2>3. Cardinality(1 .. k) <= k
    BY <2>1, <2>2
  <2> QED  BY <2>2, <2>3 DEF k
<1> HIDE DEF g, T
<1>6. y - 1 - lo + 1 <= Cardinality(T) /\ Cardinality(T) \in Nat
  <2> DEFINE b == y - 1
  <2>1. lo \in Int /\ b \in Int
    OBVIOUS
  <2>2. g \in [lo .. b -> T] /\ \A x \in lo .. b, z \in lo .. b : g[x] = g[z] => x = z
    BY <1>3, <1>4
  <2> HIDE DEF b
  <2>3. b - lo + 1 <= Cardinality(T) /\ Cardinality(T) \in Nat
    BY <1>5, <2>1, <2>2, FitsInto
  <2> QED  BY <2>3 DEF b
<1> QED  BY <1>1, <1>5, <1>6

(* ... and no later than all but those that come behind it.                *)
LEMMA RankHigh ==
  ASSUME NEW lo \in Int, NEW hi \in Int, NEW number \in [lo .. hi - 1 -> 1 .. hi - lo],
         \A p \in lo .. hi - 1, q \in lo .. hi - 1 : number[p] = number[q] => p = q,
         NEW p \in lo .. hi - 1, NEW x \in Int, p + 1 <= x, x <= hi,
         \A q \in p + 1 .. x - 1 : number[p] < number[q]
  PROVE  number[p] <= p - lo + 1 + (hi - x)
<1> DEFINE g == [q \in p + 1 .. x - 1 |-> number[q]]
           T == number[p] + 1 .. hi - lo
<1>1. number[p] \in 1 .. hi - lo
  OBVIOUS
<1>2. ASSUME NEW q \in p + 1 .. x - 1 PROVE q \in lo .. hi - 1 /\ number[q] \in T
  <2>1. q \in lo .. hi - 1
    OBVIOUS
  <2>2. number[q] \in 1 .. hi - lo /\ number[p] < number[q]
    BY <2>1
  <2> QED  BY <1>1, <2>1, <2>2
<1>3. g \in [p + 1 .. x - 1 -> T]
  BY <1>2
<1>4. \A y \in p + 1 .. x - 1, z \in p + 1 .. x - 1 : g[y] = g[z] => y = z
  BY <1>2
<1>5. IsFiniteSet(T) /\ Cardinality(T) <= hi - lo - number[p]
  <2> DEFINE a == number[p] + 1
             b == hi - lo
  <2>1. a \in Int /\ b \in Int /\ a <= b + 1
    BY <1>1
  <2> HIDE DEF a, b
  <2>2. IsFiniteSet(a .. b) /\ Cardinality(a .. b) = IF a > b THEN 0 ELSE b - a + 1
    BY <2>1, FS_Interval, Zenon
  <2>3. Cardinality(a .. b) <= b - a + 1
    BY <2>1, <2>2
  <2>4. b - a + 1 = hi - lo - number[p]
    BY <1>1 DEF a, b
  <2> QED  BY <2>2, <2>3, <2>4 DEF a, b
<1> HIDE DEF g, T
<1>6. x - 1 - (p + 1) + 1 <= Cardinality(T) /\ Cardinality(T) \in Nat
  <2> DEFINE a == p + 1
             b == x - 1
  <2>1. a \in Int /\ b \in Int
    OBVIOUS
  <2>2. g \in [a .. b -> T] /\ \A y \in a .. b, z \in a .. b : g[y] = g[z] => y = z
    BY <1>3, <1>4
  <2> HIDE DEF a, b
  <2>3. b - a + 1 <= Cardinality(T) /\ Cardinality(T) \in Nat
    BY <1>5, <2>1, <2>2, FitsInto
  <2> QED  BY <2>3 DEF a, b
<1> QED  BY <1>1, <1>5, <1>6

(* The stagger of a pass that is pulled by z separations is z.             *)
LEMMA StaggerIs ==
  ASSUME NEW sep \in Positive, NEW z \in Int
  PROVE  CDiv(sep * z, sep) = z
<1>1. sep \in Int /\ sep > 0 /\ 0 \in 0 .. sep - 1
  BY DEF Positive
<1> DEFINE x == sep * z
           y == sep * (-z)
<1>2. x \in Int /\ y \in Int /\ -x = y /\ x = sep * z + 0 /\ y = sep * (-z) + 0
      /\ -z \in Int
  BY <1>1
<1>3. x \div sep = z
  <2> HIDE DEF x
  <2> QED  BY <1>1, <1>2, DivisionIs
<1>4. y \div sep = -z
  <2> DEFINE q == -z
  <2>1. q \in Int /\ y = sep * q + 0
    BY <1>2
  <2> HIDE DEF y, q
  <2>2. y \div sep = q
    BY <1>1, <1>2, <2>1, DivisionIs
  <2> QED  BY <2>2 DEF q
<1> HIDE DEF x, y
<1>5. CDiv(x, sep) = z
  BY <1>2, <1>3, <1>4 DEF CDiv
<1> QED  BY <1>5 DEF x

(* A pass of the map at the top is pulled down, and not beyond the spread  *)
(* rows.                                                                   *)
LEMMA TopFacts ==
  ASSUME NEW pg, pg.separation \in Positive, BandRows(pg) \in Int,
         NEW lo \in Int, NEW hi \in Int, NEW sLo, NEW sHi, NEW seps \in Nat,
         NEW map, NEW number, NEW final, NEW turn,
         Mapped(pg, map, lo, hi, sLo, sHi, -1, seps, number, final, turn),
         NEW p \in lo .. hi - 1, RawStartRow(pg, p) \in Int
  PROVE  /\ map[p].pass = number[p] - 1 + lo - FirstPremappedPass(pg)
         /\ map[p].stagger \in Nat
         /\ final[p] \in Nat
         /\ final[p] = RawStartRow(pg, p) - BandRows(pg)
                         + pg.separation * map[p].stagger
         /\ map[p].stagger > 0 => final[p] <= pg.separation - 1 + pg.separation * seps
<1> DEFINE sep == pg.separation
           d == RawStartRow(pg, p) - BandRows(pg)
           e == OnPage(pg, -1, p)
           G == final[p]
           st == map[p].stagger
<1>1. d \in Int /\ sep \in Positive /\ sep \in Int
  BY DEF Positive
<1>2. e \in Nat /\ e = IF d < 0 THEN d % sep ELSE d
  <2>1. -1 \in Int /\ ~(-1 >= 0)
    OBVIOUS
  <2>2. FromEdge(-1, d) = d
    BY <2>1 DEF FromEdge
  <2> DEFINE dd == FromEdge(-1, RawStartRow(pg, p) - BandRows(pg))
  <2>3. e \in Nat /\ e = IF dd < 0 THEN dd % sep ELSE dd
    BY <2>1, OnPageIs
  <2> QED  BY <2>2, <2>3, Zenon
<1>3. G \in Int /\ map[p].pass = number[p] - 1 + lo - FirstPremappedPass(pg)
      /\ st = CDiv(G - d, sep)
  BY Zenon DEF Mapped
<1>4. \/ G = e
      \/ \E slot \in 1 .. seps : e \div sep < slot /\ G = (e % sep) + sep * slot
  <2>1. \A x : FromEdge(-1, x) = x
    BY DEF FromEdge
  <2>2. \/ G = FromEdge(-1, e)
        \/ \E slot \in 1 .. seps :
             e \div sep < slot /\ G = FromEdge(-1, (e % sep) + sep * slot)
    BY Zenon DEF Mapped
  <2> HIDE DEF G, e, sep
  <2> QED  BY <2>1, <2>2, Zenon
<1> HIDE DEF d, e, G, st, sep
<1>5. G \in Nat /\ \E z \in Nat : G = d + sep * z
                                  /\ (z > 0 => G <= sep - 1 + sep * seps)
  <2>1. /\ G \in Nat
        /\ \E z \in Nat : /\ G = d + sep * z
                          /\ z > 0 => /\ G <= sep - 1 + sep * seps
                                      /\ d <= sep * seps - 1
                          /\ d < 0 => z > 0
    BY <1>1, <1>2, <1>4, PulledIs
  <2> QED  BY <2>1
<1>6. PICK z \in Nat : G = d + sep * z /\ (z > 0 => G <= sep - 1 + sep * seps)
  BY <1>5
<1>7. st = z
  <2>1. G - d = sep * z
    <3>1. sep * z \in Int
      BY <1>1
    <3> QED  BY <1>1, <1>6, <3>1
  <2>2. z \in Int
    OBVIOUS
  <2> QED  BY <1>1, <1>3, <2>1, <2>2, StaggerIs
<1> QED  BY <1>3, <1>5, <1>6, <1>7 DEF d, G, st, sep

(* What is known of the passes of the map at the bottom.                   *)
PulledUp(pg, map, lo, hi, sLo, sHi, maximal, seps, number, final) ==
  \A p \in lo .. hi - 1 :
    /\ map[p].pass = number[p] - 1 + lo - FirstPremappedPass(pg)
    /\ map[p].stagger \in Int /\ map[p].stagger <= 0
    /\ final[p] \in Int
    /\ final[p] <= maximal
    /\ final[p] = RawStartRow(pg, p) - BandRows(pg)
                    + pg.separation * map[p].stagger
    /\ map[p].stagger < 0 =>
         final[p] >= maximal - (pg.separation - 1) - pg.separation * seps
    /\ sLo = sHi /\ maximal - (RawStartRow(pg, p) - BandRows(pg)) >= 0 =>
         map[p].stagger = 0

(* A pass of the map at the bottom is pulled up.                           *)
LEMMA BottomFacts ==
  ASSUME NEW pg, pg.separation \in Positive, BandRows(pg) \in Int,
         NEW lo \in Int, NEW hi \in Int, NEW sLo \in Int, NEW sHi \in Int,
         NEW maximal \in Nat, NEW seps \in Nat,
         NEW map, NEW number, NEW final, NEW turn,
         Mapped(pg, map, lo, hi, sLo, sHi, maximal, seps, number, final, turn),
         \A p \in lo .. hi - 1 : RawStartRow(pg, p) \in Int
  PROVE  PulledUp(pg, map, lo, hi, sLo, sHi, maximal, seps, number, final)
<1> SUFFICES
      ASSUME NEW p \in lo .. hi - 1
      PROVE  /\ map[p].pass = number[p] - 1 + lo - FirstPremappedPass(pg)
             /\ map[p].stagger \in Int /\ map[p].stagger <= 0
             /\ final[p] \in Int
             /\ final[p] <= maximal
             /\ final[p] = RawStartRow(pg, p) - BandRows(pg)
                             + pg.separation * map[p].stagger
             /\ map[p].stagger < 0 =>
                  final[p] >= maximal - (pg.separation - 1) - pg.separation * seps
             /\ sLo = sHi /\ maximal - (RawStartRow(pg, p) - BandRows(pg)) >= 0 =>
                  map[p].stagger = 0
  BY Zenon DEF PulledUp
<1> DEFINE sep == pg.separation
           s == RawStartRow(pg, p) - BandRows(pg)
           d == maximal - s
           e == OnPage(pg, maximal, p)
           F == final[p]
           G == maximal - F
           st == map[p].stagger
<1>1. s \in Int /\ d \in Int /\ sep \in Positive /\ sep \in Int /\ maximal \in Int
      /\ maximal >= 0
  BY DEF Positive
<1>2. e \in Nat /\ e = IF d < 0 THEN d % sep ELSE d
  <2>2. FromEdge(maximal, s) = d
    BY <1>1 DEF FromEdge
  <2> DEFINE dd == FromEdge(maximal, RawStartRow(pg, p) - BandRows(pg))
  <2>3. e \in Nat /\ e = IF dd < 0 THEN dd % sep ELSE dd
    BY <1>1, OnPageIs
  <2> QED  BY <2>2, <2>3, Zenon
<1>3. F \in Int /\ map[p].pass = number[p] - 1 + lo - FirstPremappedPass(pg)
      /\ st = CDiv(F - s, sep)
  BY Zenon DEF Mapped
<1>4. \/ G = e
      \/ /\ sLo # sHi
         /\ \E slot \in 1 .. seps : e \div sep < slot /\ G = (e % sep) + sep * slot
  <2>1. \A x : FromEdge(maximal, x) = maximal - x
    BY <1>1 DEF FromEdge
  <2>2. \/ F = FromEdge(maximal, e)
        \/ /\ turn[p] \in sLo - lo + 1 .. sHi - lo
           /\ \E slot \in 1 .. seps :
                e \div sep < slot /\ F = FromEdge(maximal, (e % sep) + sep * slot)
    BY Zenon DEF Mapped
  <2>3. turn[p] \in sLo - lo + 1 .. sHi - lo => sLo # sHi
    OBVIOUS
  <2>4. e % sep \in Int
    <3> HIDE DEF e, sep
    <3>1. e \in Int
      BY <1>2
    <3>2. e % sep \in 0 .. sep - 1
      BY <1>1, <3>1, Division
    <3> QED  BY <1>1, <3>2
  <2> DEFINE x == e % sep
             y == e \div sep
  <2>5. \/ F = maximal - e
        \/ sLo # sHi /\ \E slot \in 1 .. seps : y < slot /\ F = maximal - (x + sep * slot)
    BY <2>1, <2>2, <2>3, Zenon
  <2>6. x \in Int /\ e \in Int
    BY <1>2, <2>4
  <2> HIDE DEF e, F, sep, x, y
  <2>7. \/ G = e
        \/ sLo # sHi /\ \E slot \in 1 .. seps : y < slot /\ G = x + sep * slot
    <3>1. CASE F = maximal - e
      BY <1>1, <2>6, <3>1
    <3>2. CASE sLo # sHi /\ \E slot \in 1 .. seps : y < slot /\ F = maximal - (x + sep * slot)
      <4>1. PICK slot \in 1 .. seps : y < slot /\ F = maximal - (x + sep * slot)
        BY <3>2
      <4>2. sep * slot \in Int
        BY <1>1
      <4>3. G = x + sep * slot
        BY <1>1, <2>6, <4>1, <4>2
      <4> QED  BY <3>2, <4>1, <4>3
    <3> QED  BY <2>5, <3>1, <3>2
  <2> QED  BY <2>7 DEF x, y
<1>5. F = maximal - G /\ d = maximal - s
  BY <1>1, <1>3
<1> HIDE DEF d, s, e, F, G, st, sep
<1>6. \/ G = e
      \/ \E slot \in 1 .. seps : e \div sep < slot /\ G = (e % sep) + sep * slot
  BY <1>4
<1>7. G \in Nat /\ \E z \in Nat : /\ G = d + sep * z
                                  /\ z > 0 => /\ G <= sep - 1 + sep * seps
                                              /\ d <= sep * seps - 1
                                  /\ d < 0 => z > 0
  BY <1>1, <1>2, <1>6, PulledIs
<1>8. PICK z \in Nat : /\ G = d + sep * z
                       /\ z > 0 => G <= sep - 1 + sep * seps /\ d <= sep * seps - 1
  BY <1>7
<1>9. sep * z \in Int /\ sep * (-z) = -(sep * z) /\ -z \in Int
  BY <1>1
<1>10. F - s = sep * (-z)
  BY <1>1, <1>3, <1>5, <1>7, <1>8, <1>9
<1>11. st = -z
  <2> DEFINE q == -z
  <2>1. q \in Int /\ F - s = sep * q
    BY <1>9, <1>10
  <2> HIDE DEF q
  <2>2. st = q
    BY <1>1, <1>3, <2>1, StaggerIs
  <2> QED  BY <2>2 DEF q
<1>12. F = s + sep * st
  <2> DEFINE y == sep * (-z)
  <2>1. F - s = y /\ y \in Int /\ sep * st = y
    BY <1>9, <1>10, <1>11
  <2> HIDE DEF y
  <2> QED  BY <1>1, <1>3, <2>1
<1>13. F <= maximal /\ st <= 0 /\ st \in Int
  BY <1>1, <1>5, <1>7, <1>11
<1>14. sep * seps \in Int
  BY <1>1
<1>15. st < 0 => F >= maximal - (sep - 1) - sep * seps /\ d <= sep * seps - 1
  BY <1>1, <1>5, <1>7, <1>8, <1>11, <1>14
<1>16. sLo = sHi /\ d >= 0 => st = 0
  <2> SUFFICES ASSUME sLo = sHi, d >= 0 PROVE st = 0
    OBVIOUS
  <2>1. G = d
    BY <1>1, <1>2, <1>4
  <2>2. sep * z = 0
    BY <1>1, <1>8, <1>9, <2>1
  <2>3. z = 0
    <3>1. CASE z > 0
      <4>1. sep * z > 0
        BY <1>1, <3>1 DEF Positive
      <4> QED  BY <2>2, <4>1
    <3> QED  BY <3>1
  <2>4. -st = z
    BY <1>11, <1>13
  <2>5. st = 0
    BY <1>13, <2>3, <2>4
  <2> QED  BY <2>5
<1>17. /\ map[p].pass = number[p] - 1 + lo - FirstPremappedPass(pg)
       /\ st <= 0 /\ st \in Int /\ F \in Int /\ F <= maximal
       /\ F = s + sep * st
       /\ st < 0 => F >= maximal - (sep - 1) - sep * seps /\ d <= sep * seps - 1
       /\ sLo = sHi /\ d >= 0 => st = 0
  BY <1>3, <1>12, <1>13, <1>15, <1>16
<1> QED  BY <1>17, Zenon DEF d, s, F, st, sep

-----------------------------------------------------------------------------
(* The bounds of the two maps.                                             *)

TopSeps(pg)    == pg.first \div pg.separation
BottomSeps(pg) == (PageHeight(pg) - pg.last - 1) \div pg.separation

(* The lowest start of a pass that is pulled down at the top, the highest  *)
(* of one that is pulled up at the bottom.                                 *)
TopEdge(pg)    == pg.separation - 1 + pg.separation * TopSeps(pg)
BottomEdge(pg) == PageHeight(pg) - BandRows(pg) - pg.separation * BottomSeps(pg)

(* The passes that join the maps.                                          *)
TopMapped(pg) ==
  ((TopSeps(pg) + 1) * pg.separation + AdvanceBasis(pg) - 1) \div AdvanceBasis(pg)
BottomMapped(pg) ==
  ((BottomSeps(pg) + 1) * pg.separation + AdvanceBasis(pg)) \div AdvanceBasis(pg)

Normal(pg) == IF ScanNormal(pg) > FirstPremappedPass(pg)
              THEN ScanNormal(pg) + TopMapped(pg) ELSE ScanNormal(pg)
Postmapped(pg) == ScanPostmapped(pg) - BottomMapped(pg)
Maximal(pg) == PageHeight(pg) - 1 - pg.separation * (pg.jets - 1)

(* The fields of the page's map.                                           *)
LEMMA PassMapIs ==
  ASSUME NEW pg
  PROVE  LET map == PassMap(pg)
         IN  /\ map.premapped = FirstPremappedPass(pg)
             /\ map.normal = Normal(pg)
             /\ map.postmapped = Postmapped(pg)
             /\ ScanNormal(pg) > FirstPremappedPass(pg) =>
                  map.premap = MakePassMap(pg, FirstPremappedPass(pg), Normal(pg),
                                 FirstPremappedPass(pg), ScanNormal(pg), -1, TopSeps(pg))
             /\ map.postmap = MakePassMap(pg, Postmapped(pg), FirstUnusedPass(pg),
                                ScanPostmapped(pg), FirstUnusedPass(pg),
                                Maximal(pg), BottomSeps(pg))
<1> DEFINE P == FirstPremappedPass(pg)
           N == ScanNormal(pg)
           pre == IF N > P THEN MakePassMap(pg, P, Normal(pg), P, N, -1, TopSeps(pg))
                  ELSE << >>
           post == MakePassMap(pg, Postmapped(pg), FirstUnusedPass(pg),
                     ScanPostmapped(pg), FirstUnusedPass(pg),
                     Maximal(pg), BottomSeps(pg))
<1>1. PassMap(pg) = [premapped |-> P, normal |-> Normal(pg),
                     postmapped |-> Postmapped(pg), premap |-> pre, postmap |-> post]
  BY Zenon DEF PassMap, Normal, Postmapped, TopMapped, BottomMapped, TopSeps,
               BottomSeps, Maximal
<1> HIDE DEF P, N, pre, post
<1>2. /\ PassMap(pg).premapped = P /\ PassMap(pg).normal = Normal(pg)
      /\ PassMap(pg).postmapped = Postmapped(pg) /\ PassMap(pg).premap = pre
      /\ PassMap(pg).postmap = post
  BY <1>1
<1>3. N > P => pre = MakePassMap(pg, P, Normal(pg), P, N, -1, TopSeps(pg))
  BY DEF pre
<1> QED  BY <1>2, <1>3, Zenon DEF P, N, post

(* The two quotients.                                                      *)
LEMMA Ceiling ==
  ASSUME NEW a \in Positive, NEW x \in Nat
  PROVE  /\ (x + a - 1) \div a \in Nat
         /\ a * ((x + a - 1) \div a) >= x
         /\ a * ((x + a - 1) \div a) <= x + a - 1
         /\ (x + a) \div a \in Nat
         /\ a * ((x + a) \div a) > x
         /\ a * ((x + a) \div a) <= x + a
<1>1. ASSUME NEW y \in Nat
      PROVE  y \div a \in Nat /\ a * (y \div a) <= y /\ y - a < a * (y \div a)
  <2> DEFINE q == y \div a
             m == y % a
  <2>1. q \in Int /\ m \in 0 .. a - 1
    BY Division
  <2>2. y = a * q + m
    BY Division
  <2> HIDE DEF q, m
  <2>3. a \in Int /\ a > 0 /\ a * q \in Int
    BY <2>1 DEF Positive
  <2>4. q >= 0
    <3>1. CASE q <= -1
      <4>1. a * q <= -a
        BY <2>1, <2>3, <3>1
      <4> QED  BY <2>1, <2>2, <2>3, <4>1
    <3> QED  BY <2>1, <3>1
  <2>5. q \in Nat /\ a * q <= y /\ y - a < a * q
    BY <2>1, <2>2, <2>3, <2>4
  <2> QED  BY <2>5 DEF q
<1>2. a \in Int /\ a > 0
  BY DEF Positive
<1> DEFINE y1 == x + a - 1
           y2 == x + a
<1>3. y1 \in Nat /\ y2 \in Nat /\ y1 - a = x - 1 /\ y2 - a = x
  BY <1>2
<1> HIDE DEF y1, y2
<1>4. y1 \div a \in Nat /\ a * (y1 \div a) <= y1 /\ x - 1 < a * (y1 \div a)
  BY <1>1, <1>3
<1>5. y2 \div a \in Nat /\ a * (y2 \div a) <= y2 /\ x < a * (y2 \div a)
  BY <1>1, <1>3
<1> DEFINE z1 == a * (y1 \div a)
<1>6. z1 >= x
  <2>1. z1 \in Int /\ x - 1 < z1
    BY <1>2, <1>4
  <2> HIDE DEF z1
  <2> QED  BY <2>1
<1>7. /\ y1 \div a \in Nat /\ a * (y1 \div a) >= x /\ a * (y1 \div a) <= y1
      /\ y2 \div a \in Nat /\ a * (y2 \div a) > x /\ a * (y2 \div a) <= y2
  BY <1>2, <1>4, <1>5, <1>6 DEF z1
<1> QED  BY <1>7 DEF y1, y2

(* The bounds of the edges.                                               *)
LEMMA EdgeNumbers ==
  ASSUME NEW pg, ProperPage(pg)
  PROVE  LET sep == pg.separation
         IN  /\ TopSeps(pg) \in Nat /\ BottomSeps(pg) \in Nat
             /\ PageHeight(pg) \in Nat /\ PageHeight(pg) >= pg.last + 1
             /\ sep * TopSeps(pg) <= pg.first /\ pg.first < sep * TopSeps(pg) + sep
             /\ sep * BottomSeps(pg) <= PageHeight(pg) - 1 - pg.last
             /\ TopEdge(pg) \in Nat /\ BottomEdge(pg) \in Int
             /\ BottomEdge(pg) >= pg.last + 1 - BandRows(pg)
             /\ TopMapped(pg) \in Nat /\ BottomMapped(pg) \in Nat
             /\ AdvanceBasis(pg) * TopMapped(pg) >= sep * TopSeps(pg) + sep
             /\ AdvanceBasis(pg) * TopMapped(pg)
                  <= sep * TopSeps(pg) + sep + AdvanceBasis(pg) - 1
             /\ AdvanceBasis(pg) * BottomMapped(pg) > sep * BottomSeps(pg) + sep
<1> DEFINE sep == pg.separation
           adv == AdvanceBasis(pg)
           H == PageHeight(pg)
           t == TopSeps(pg)
           b == BottomSeps(pg)
<1>1. /\ sep \in Positive /\ adv \in Positive /\ BandRows(pg) \in Positive
      /\ sep \in Int /\ sep > 0 /\ adv \in Int
  BY HeadNumbers DEF ProperPage, Positive
<1>2. pg.first \in Nat /\ pg.last \in Nat /\ H \in Nat /\ H >= pg.last + 1
  BY DEF ProperPage, PageHeight
<1>3. ASSUME NEW y \in Nat
      PROVE  y \div sep \in Nat /\ sep * (y \div sep) <= y /\ y < sep * (y \div sep) + sep
  <2> DEFINE q == y \div sep
             m == y % sep
  <2>1. q \in Int /\ m \in 0 .. sep - 1
    BY <1>1, Division
  <2>2. y = sep * q + m
    BY <1>1, Division
  <2> HIDE DEF q, m, sep
  <2>3. sep * q \in Int
    BY <1>1, <2>1
  <2>4. q >= 0
    <3>1. CASE q <= -1
      <4>1. sep * q <= -sep
        BY <1>1, <2>1, <3>1
      <4> QED  BY <1>1, <2>1, <2>2, <2>3, <4>1
    <3> QED  BY <2>1, <3>1
  <2>5. q \in Nat /\ sep * q <= y /\ y < sep * q + sep
    BY <1>1, <2>1, <2>2, <2>3, <2>4
  <2> QED  BY <2>5 DEF q
<1> HIDE DEF sep, adv, H
<1>4. t \in Nat /\ sep * t <= pg.first /\ pg.first < sep * t + sep
  BY <1>2, <1>3 DEF TopSeps, sep
<1>5. b \in Nat /\ sep * b <= H - 1 - pg.last
  <2> DEFINE y == H - pg.last - 1
  <2>1. y \in Nat /\ H - 1 - pg.last = y
    BY <1>2
  <2>2. b = y \div sep
    BY DEF BottomSeps, H, sep
  <2> HIDE DEF y
  <2> QED  BY <1>3, <2>1, <2>2
<1> HIDE DEF t, b
<1>6. sep * t \in Nat /\ sep * b \in Nat
  BY <1>1, <1>4, <1>5
<1>7. (t + 1) * sep = sep * t + sep /\ (b + 1) * sep = sep * b + sep
  BY <1>1, <1>4, <1>5
<1> DEFINE x == sep * t + sep
           y == sep * b + sep
<1>8. x \in Nat /\ y \in Nat
  BY <1>1, <1>6
<1>9. TopMapped(pg) = (x + adv - 1) \div adv /\ BottomMapped(pg) = (y + adv) \div adv
  BY <1>7 DEF TopMapped, BottomMapped, t, b, sep, adv
<1> HIDE DEF x, y
<1>10. /\ TopMapped(pg) \in Nat /\ BottomMapped(pg) \in Nat
       /\ adv * TopMapped(pg) >= x /\ adv * TopMapped(pg) <= x + adv - 1
       /\ adv * BottomMapped(pg) > y
  BY <1>1, <1>8, <1>9, Ceiling
<1>11. TopEdge(pg) = sep - 1 + sep * t /\ BottomEdge(pg) = H - BandRows(pg) - sep * b
  BY Zenon DEF TopEdge, BottomEdge, sep, t, b, H
<1>12. /\ TopEdge(pg) \in Nat /\ BottomEdge(pg) \in Int
       /\ BottomEdge(pg) >= pg.last + 1 - BandRows(pg)
  BY <1>1, <1>2, <1>5, <1>6, <1>11 DEF Positive
<1> QED  BY <1>2, <1>4, <1>5, <1>10, <1>12 DEF sep, adv, H, t, b, x, y

(* The map at the top has no more passes than fill a band, and the first   *)
(* pass behind it starts below all rows that passes are pulled to.         *)
LEMMA TopSize ==
  ASSUME NEW pg, ProperPage(pg), ScanNormal(pg) > FirstPremappedPass(pg)
  PROVE  /\ Normal(pg) \in Nat
         /\ ScanNormal(pg) <= Normal(pg)
         /\ FirstPremappedPass(pg) < Normal(pg)
         /\ Normal(pg) - FirstPremappedPass(pg) <= BandPasses(pg)
         /\ ScanNormal(pg) < ScanPostmapped(pg) =>
              RawStartRow(pg, Normal(pg)) - BandRows(pg) > TopEdge(pg)
<1> DEFINE P == FirstPremappedPass(pg)
           N == ScanNormal(pg)
           Q == ScanPostmapped(pg)
           sep == pg.separation
           adv == AdvanceBasis(pg)
           S == SubblocksPerPassblock(pg)
           tm == TopMapped(pg)
           BP == BandPasses(pg)
           BR == BandRows(pg)
           x == sep * TopSeps(pg) + sep
<1>1. Scanned(pg, P, N, Q, FirstUnusedPass(pg)) /\ ProperHead(pg)
  BY ScansAre DEF ProperPage
<1>2. /\ sep \in Positive /\ adv \in Positive /\ S \in Positive /\ BP \in Positive
      /\ BR \in Positive /\ sep = S * PassesPerSubblock(pg)
      /\ PassesPerSubblock(pg) \in Positive /\ BR = sep * pg.jets /\ pg.jets \in Positive
  BY <1>1, HeadNumbers
<1>3. /\ P \in Nat /\ N \in Nat /\ P < N /\ Q \in Nat
  BY <1>1 DEF Scanned
<1>4. /\ tm \in Nat /\ TopSeps(pg) \in Nat /\ TopEdge(pg) = x - 1
      /\ adv * tm >= x /\ adv * tm <= x + adv - 1 /\ x \in Nat
      /\ pg.first < x /\ pg.first \in Nat /\ x <= pg.first + sep
  <2>1. /\ tm \in Nat /\ TopSeps(pg) \in Nat
        /\ adv * tm >= x /\ adv * tm <= x + adv - 1
        /\ pg.first < x /\ sep * TopSeps(pg) <= pg.first
    BY EdgeNumbers
  <2>2. pg.first \in Nat /\ sep * TopSeps(pg) \in Nat
    BY <1>2, <2>1 DEF ProperPage, Positive
  <2>3. TopEdge(pg) = sep - 1 + sep * TopSeps(pg)
    BY DEF TopEdge
  <2> DEFINE y == sep * TopSeps(pg)
  <2>4. x = y + sep /\ y \in Nat /\ TopEdge(pg) = sep - 1 + y
    BY <2>2, <2>3
  <2> HIDE DEF y, x, tm
  <2>5. x \in Nat /\ TopEdge(pg) = x - 1 /\ x <= pg.first + sep
    BY <1>2, <2>1, <2>2, <2>4 DEF y, Positive
  <2> QED  BY <2>1, <2>2, <2>5
<1>5. PICK a \in Positive : adv = S * a
  BY <1>1, Blocks
<1>6. \E z \in Int : x = S * z
  <2> DEFINE t == PassesPerSubblock(pg)
             z == t * TopSeps(pg) + t
  <2>1. z \in Int
    BY <1>2, <1>4 DEF Positive
  <2>2. (S * t) * TopSeps(pg) + S * t = S * z
    BY <1>2, <1>4 DEF Positive
  <2> QED  BY <1>2, <2>1, <2>2
<1>7. Normal(pg) = N + tm
  BY DEF Normal
<1> HIDE DEF P, N, Q, sep, adv, S, tm, BP, BR, x
<1>8. N <= BP
  <2>1. RawStartRow(pg, 0 + 1 * BP) = RawStartRow(pg, 0) + 1 * BR
    BY <1>1, NextBand DEF BP, BR
  <2>2. RawStartRow(pg, 0) \in Nat /\ 0 + 1 * BP = BP /\ 1 * BR = BR
        /\ BP \in Nat /\ BR \in Nat
    BY <1>1, <1>2, StartIs DEF Positive
  <2>3. RawStartRow(pg, BP) >= BR
    BY <2>1, <2>2
  <2> DEFINE m == N - 1
  <2>4. m \in Nat /\ m >= P /\ m < N
    BY <1>3
  <2>5. RawStartRow(pg, m) < BR
    BY <1>1, <2>4 DEF Scanned, BR
  <2>6. RawStartRow(pg, m) \in Nat /\ RawStartRow(pg, BP) \in Nat
    BY <1>1, <2>2, <2>4, StartIs
  <2>7. RawStartRow(pg, m) < RawStartRow(pg, BP)
    BY <2>2, <2>3, <2>5, <2>6
  <2>8. m < BP
    BY <1>1, <2>2, <2>4, <2>7, StartsRise
  <2> QED  BY <1>3, <2>2, <2>8
<1>9. tm <= P
  <2>1. P < BP /\ P \in Nat
    BY <1>2, <1>3, <1>8 DEF Positive
  <2>2. P \div BP = 0 /\ P % BP = P
    <3>1. P \in Int /\ 0 \in Int /\ P \in 0 .. BP - 1 /\ P = BP * 0 + P
      BY <1>2, <2>1 DEF Positive
    <3> QED  BY <1>2, <3>1, DivisionIs
  <2>3. Base(pg, P) = BR * 0 + adv * P
    BY <2>2, Zenon DEF Base, BR, BP, adv
  <2>4. Base(pg, P) = adv * P /\ adv * P \in Nat
    BY <1>2, <2>1, <2>3 DEF Positive
  <2>5. RawStartRow(pg, P) - Base(pg, P) \in 0 .. S - 1 /\ RawStartRow(pg, P) \in Nat
    BY <1>1, <1>3, StartIs DEF S
  <2>6. RawStartRow(pg, P) - sep >= pg.first
    <3>1. P >= P
      BY <1>3
    <3> QED  BY <1>1, <1>3, <3>1 DEF Scanned, sep
  <2>7. adv * P > x - S
    BY <1>2, <1>4, <2>4, <2>5, <2>6 DEF Positive
  <2>8. PICK z \in Int : x = S * z
    BY <1>6
  <2>9. a * P >= z
    <3>1. S * (a * P) > S * z - S
      <4>1. S * (a * P) = (S * a) * P
        BY <1>2, <1>5, <2>1 DEF Positive
      <4> QED  BY <1>5, <2>7, <2>8, <4>1
    <3> DEFINE y == a * P - z
    <3>2. y \in Int /\ a * P \in Int
      BY <1>5, <2>1 DEF Positive
    <3>3. S * y = S * (a * P) - S * z
      BY <1>2, <3>2 DEF Positive
    <3>4. S * (a * P) \in Int /\ S * z \in Int
      BY <1>2, <3>2 DEF Positive
    <3>5. S * y > -S
      <4> HIDE DEF y
      <4> QED  BY <1>2, <3>1, <3>3, <3>4 DEF Positive
    <3>6. y >= 0
      <4> HIDE DEF y
      <4>1. CASE y <= -1
        <5>1. S * y <= -S /\ S * y \in Int
          BY <1>2, <3>2, <4>1 DEF Positive
        <5> QED  BY <1>2, <3>5, <5>1 DEF Positive
      <4> QED  BY <3>2, <4>1
    <3> QED  BY <3>2, <3>6
  <2>10. adv * P >= x
    <3>1. S * (a * P) >= S * z
      <4>1. a * P \in Int
        BY <1>5, <2>1 DEF Positive
      <4> QED  BY <1>2, <2>9, <4>1 DEF Positive
    <3>2. (S * a) * P = S * (a * P)
      BY <1>2, <1>5, <2>1 DEF Positive
    <3> QED  BY <1>5, <2>8, <3>1, <3>2
  <2>11. CASE tm >= P + 1
    <3>1. adv * tm >= adv * P + adv /\ adv * tm \in Int
      <4>1. adv * tm >= adv * (P + 1) /\ adv * (P + 1) = adv * P + adv
        BY <1>2, <1>4, <2>1, <2>11 DEF Positive
      <4>2. adv * tm \in Int
        BY <1>2, <1>4 DEF Positive
      <4> QED  BY <4>1, <4>2
    <3> QED  BY <1>2, <1>4, <2>4, <2>10, <3>1 DEF Positive
  <2> QED  BY <1>3, <1>4, <2>11
<1>10. N < Q => RawStartRow(pg, N + tm) - BR > x - 1
  <2> SUFFICES ASSUME N < Q PROVE RawStartRow(pg, N + tm) - BR > x - 1
    OBVIOUS
  <2>1. RawStartRow(pg, N) >= BR
    <3>1. N >= N
      BY <1>3
    <3> QED  BY <1>1, <1>3, <3>1 DEF Scanned, BR
  <2>2. /\ Base(pg, N) \in Nat /\ RawStartRow(pg, N) \in Nat
        /\ RawStartRow(pg, N) - Base(pg, N) \in 0 .. S - 1
        /\ \E z \in Int : Base(pg, N) = S * z
    BY <1>1, <1>3, StartIs DEF S
  <2>3. PICK z \in Int : Base(pg, N) = S * z
    BY <2>2
  <2>4. Base(pg, N) >= BR
    <3> DEFINE k == PassesPerSubblock(pg) * pg.jets
               y == z - k
    <3>1. k \in Int /\ BR = S * k /\ y \in Int
      BY <1>2 DEF Positive
    <3>2. Base(pg, N) > BR - S
      BY <1>2, <2>1, <2>2 DEF Positive
    <3>3. S * y = S * z - S * k /\ S * z \in Int /\ S * k \in Int
      BY <1>2, <3>1 DEF Positive
    <3> HIDE DEF k, y
    <3>4. S * y > -S /\ S * y \in Int
      BY <1>2, <2>3, <3>1, <3>2, <3>3 DEF Positive
    <3>5. y >= 0
      <4>1. CASE y <= -1
        <5>1. S * y <= -S
          BY <1>2, <3>1, <4>1 DEF Positive
        <5> QED  BY <1>2, <3>4, <5>1 DEF Positive
      <4> QED  BY <3>1, <4>1
    <3>6. S * y >= 0
      BY <1>2, <3>1, <3>5 DEF Positive
    <3> QED  BY <2>3, <3>1, <3>3, <3>6
  <2>5. Base(pg, N + tm) >= Base(pg, N) + tm * adv
    BY <1>1, <1>3, <1>4, Rise DEF adv
  <2>6. tm * adv = adv * tm /\ adv * tm \in Int
    BY <1>2, <1>4 DEF Positive
  <2>7. N + tm \in Nat
    BY <1>3, <1>4
  <2>8. RawStartRow(pg, N + tm) >= Base(pg, N + tm)
        /\ RawStartRow(pg, N + tm) \in Nat /\ Base(pg, N + tm) \in Nat
    <3> DEFINE q == N + tm
    <3> HIDE DEF q
    <3>1. /\ Base(pg, q) \in Nat /\ RawStartRow(pg, q) \in Nat
          /\ RawStartRow(pg, q) - Base(pg, q) \in 0 .. S - 1
      BY <1>1, <2>7, StartIs DEF S, q
    <3>2. RawStartRow(pg, q) >= Base(pg, q)
      BY <1>2, <3>1 DEF Positive
    <3> QED  BY <3>1, <3>2 DEF q
  <2> QED  BY <1>2, <1>4, <2>2, <2>4, <2>5, <2>6, <2>8 DEF Positive
<1>11. /\ N + tm \in Nat /\ N <= N + tm /\ P < N + tm
       /\ (N + tm) - P <= BP
  BY <1>2, <1>3, <1>4, <1>8, <1>9 DEF Positive
<1>12. /\ Normal(pg) \in Nat /\ N <= Normal(pg) /\ P < Normal(pg)
       /\ Normal(pg) - P <= BP
  BY <1>7, <1>11
<1>13. N < Q => RawStartRow(pg, Normal(pg)) - BR > TopEdge(pg)
  BY <1>4, <1>7, <1>10, Zenon
<1> QED  BY <1>12, <1>13 DEF P, N, Q, BP, BR

-----------------------------------------------------------------------------
(* The map at the top.                                                     *)

(* The raw passes lo .. hi-1 in the order of their final starts.           *)
Arranged(pg, map, lo, hi, number, final) ==
  /\ number \in [lo .. hi - 1 -> 1 .. hi - lo]
  /\ \A p \in lo .. hi - 1 :
       /\ map[p].pass = number[p] - 1 + lo - FirstPremappedPass(pg)
       /\ map[p].stagger \in Int /\ final[p] \in Int
       /\ final[p] = RawStartRow(pg, p) - BandRows(pg)
                       + pg.separation * map[p].stagger
  /\ \A p \in lo .. hi - 1, q \in lo .. hi - 1 :
       /\ number[p] = number[q] => p = q
       /\ number[p] < number[q] => final[p] <= final[q]

(* Passes are pulled down onto the top edge, in front of the ones that     *)
(* need not be; those keep their order.                                    *)
TopArranged(pg, number, final) ==
  LET P   == FirstPremappedPass(pg)
      map == PassMap(pg).premap
  IN  /\ Arranged(pg, map, P, Normal(pg), number, final)
      /\ \A p \in P .. Normal(pg) - 1 :
           /\ map[p].stagger >= 0 /\ final[p] >= 0
           /\ map[p].stagger > 0 => final[p] <= TopEdge(pg)
           /\ final[p] <= TopEdge(pg) \/ number[p] - 1 >= p - P

(* The map at the top is such.                                            *)
LEMMA TopPasses ==
  ASSUME NEW pg, ProperPage(pg), ScanNormal(pg) > FirstPremappedPass(pg)
  PROVE  \E number, final : TopArranged(pg, number, final)
<1> DEFINE P == FirstPremappedPass(pg)
           N == ScanNormal(pg)
           normal == Normal(pg)
           sep == pg.separation
           BR == BandRows(pg)
           map == PassMap(pg).premap
           R == P .. normal - 1
<1>1. /\ P \in Nat /\ N \in Nat /\ ProperHead(pg)
      /\ \A p \in Nat : RawStartRow(pg, p) \in Nat
      /\ sep \in Positive /\ sep \in Int /\ BR \in Int /\ sep > 0
  <2>1. ProperHead(pg) /\ Scanned(pg, P, N, ScanPostmapped(pg), FirstUnusedPass(pg))
    BY ScansAre DEF ProperPage
  <2>2. P \in Nat /\ N \in Nat
    BY <2>1 DEF Scanned
  <2> QED  BY <2>1, <2>2, HeadNumbers, StartIs DEF Positive
<1>2. normal \in Nat /\ P < normal
  BY TopSize
<1>3. TopSeps(pg) \in Nat /\ TopEdge(pg) \in Nat
      /\ TopEdge(pg) = sep - 1 + sep * TopSeps(pg)
  BY EdgeNumbers DEF TopEdge
<1>4. map = MakePassMap(pg, P, normal, P, N, -1, TopSeps(pg))
  BY PassMapIs
<1>5. \A p \in R : p \in Nat
  BY <1>1, <1>2
<1> HIDE DEF P, N, normal, sep, BR, map
<1>6. \E number, final, turn :
        Mapped(pg, MakePassMap(pg, P, normal, P, N, -1, TopSeps(pg)),
               P, normal, P, N, -1, TopSeps(pg), number, final, turn)
  <2>1. P \in Int /\ normal \in Int /\ N \in Int /\ P <= normal /\ -1 \in Int
    BY <1>1, <1>2
  <2>2. pg.separation \in Positive /\ BandRows(pg) \in Int
    BY <1>1 DEF sep, BR
  <2>3. \A p \in P .. normal - 1 : RawStartRow(pg, p) \in Int
    BY <1>1, <1>5
  <2> DEFINE m1 == -1
  <2>4. m1 \in Int
    OBVIOUS
  <2> HIDE DEF m1
  <2>5. \E number, final, turn :
          Mapped(pg, MakePassMap(pg, P, normal, P, N, m1, TopSeps(pg)),
                 P, normal, P, N, m1, TopSeps(pg), number, final, turn)
    BY <1>3, <2>1, <2>2, <2>3, <2>4, MapIs
  <2> QED  BY <2>5 DEF m1
<1>7. PICK number, final, turn :
        Mapped(pg, map, P, normal, P, N, -1, TopSeps(pg), number, final, turn)
  BY <1>4, <1>6
<1>8. ASSUME NEW p \in R
      PROVE  /\ map[p].pass = number[p] - 1 + P - FirstPremappedPass(pg)
             /\ map[p].stagger \in Nat /\ final[p] \in Nat
             /\ final[p] = RawStartRow(pg, p) - BR + sep * map[p].stagger
             /\ map[p].stagger > 0 => final[p] <= TopEdge(pg)
  <2>1. RawStartRow(pg, p) \in Int /\ P \in Int /\ normal \in Int
        /\ pg.separation \in Positive /\ BandRows(pg) \in Int
    BY <1>1, <1>2, <1>5 DEF sep, BR
  <2>2. /\ map[p].pass = number[p] - 1 + P - FirstPremappedPass(pg)
        /\ map[p].stagger \in Nat /\ final[p] \in Nat
        /\ final[p] = RawStartRow(pg, p) - BandRows(pg)
                        + pg.separation * map[p].stagger
        /\ map[p].stagger > 0 =>
             final[p] <= pg.separation - 1 + pg.separation * TopSeps(pg)
    BY <1>3, <1>7, <2>1, TopFacts
  <2> QED  BY <1>3, <2>2 DEF sep, BR
<1>9. /\ number \in [R -> 1 .. normal - P]
      /\ \A p \in R, q \in R :
           /\ number[p] = number[q] => p = q
           /\ number[p] < number[q] => final[p] <= final[q]
  BY <1>7, Zenon DEF Mapped
<1>10. Arranged(pg, map, P, normal, number, final)
  <2>1. \A p \in R : map[p].stagger \in Int /\ final[p] \in Int
    BY <1>8
  <2> QED  BY <1>8, <1>9, <2>1, Zenon DEF Arranged, sep, BR
<1>11. ASSUME NEW p \in R, final[p] > TopEdge(pg)
       PROVE  number[p] - 1 >= p - P
  <2>1. ASSUME NEW q \in P .. p - 1 PROVE number[q] < number[p]
    <3>1. q \in R /\ p \in R /\ q \in Nat /\ p \in Nat /\ q < p
      BY <1>1, <1>2
    <3>2. number[p] \in Int /\ number[q] \in Int /\ number[p] # number[q]
      <4>1. number[p] \in 1 .. normal - P /\ number[q] \in 1 .. normal - P
        BY <1>9, <3>1, Zenon
      <4>2. number[p] = number[q] => p = q
        BY <1>9, <3>1, Zenon
      <4> QED  BY <1>1, <1>2, <3>1, <4>1, <4>2
    <3>3. CASE number[p] < number[q]
      <4>1. final[p] <= final[q] /\ final[p] \in Nat /\ final[q] \in Nat
        BY <1>8, <1>9, <3>1, <3>3
      <4>2. final[q] > TopEdge(pg)
        BY <1>3, <1>11, <4>1
      <4>3. map[q].stagger = 0
        BY <1>3, <1>8, <3>1, <4>1, <4>2
      <4>4. final[q] = RawStartRow(pg, q) - BR + sep * 0
        BY <1>8, <3>1, <4>3
      <4>5. RawStartRow(pg, q) < RawStartRow(pg, p)
        BY <1>1, <3>1, StartsRise
      <4>6. RawStartRow(pg, q) \in Int /\ RawStartRow(pg, p) \in Int
        BY <1>1, <3>1
      <4>7. final[p] >= RawStartRow(pg, p) - BR
        <5> DEFINE z == sep * map[p].stagger
        <5>1. z \in Nat
          BY <1>1, <1>8
        <5>2. final[p] = RawStartRow(pg, p) - BR + z
          BY <1>8
        <5> HIDE DEF z
        <5> QED  BY <1>1, <4>6, <5>1, <5>2
      <4> QED  BY <1>1, <4>1, <4>4, <4>5, <4>6, <4>7
    <3> QED  BY <3>2, <3>3
  <2>2. P \in Int /\ normal \in Int /\ p \in Int /\ p <= normal
    BY <1>1, <1>2
  <2>3. number[p] >= p - P + 1
    BY <1>9, <2>1, <2>2, RankLow
  <2>4. number[p] \in Int
    BY <1>1, <1>2, <1>9
  <2> QED  BY <2>2, <2>3, <2>4
<1>12. ASSUME NEW p \in R
       PROVE  final[p] <= TopEdge(pg) \/ number[p] - 1 >= p - P
  <2>1. final[p] \in Int /\ TopEdge(pg) \in Int
    BY <1>3, <1>8
  <2>2. CASE final[p] > TopEdge(pg)
    BY <1>11, <2>2
  <2> QED  BY <2>1, <2>2
<1>13. TopArranged(pg, number, final)
  <2>1. \A p \in R : map[p].stagger >= 0 /\ final[p] >= 0
    BY <1>8
  <2> QED  BY <1>8, <1>10, <1>12, <2>1, Zenon DEF TopArranged, P, normal, map
<1> QED  BY <1>13

-----------------------------------------------------------------------------
(* The map at the bottom.                                                  *)

(* Multiples of S that differ do so by S at least.                         *)
LEMMA NextMultiple ==
  ASSUME NEW S \in Positive, NEW x \in Int, NEW y \in Int, S * x > S * y
  PROVE  S * x >= S * y + S
<1> DEFINE z == x - y
<1>1. z \in Int /\ S * z = S * x - S * y /\ S * x \in Int /\ S * y \in Int
      /\ S \in Int /\ S > 0
  BY DEF Positive
<1> HIDE DEF z
<1>2. z > 0
  <2>1. CASE z <= 0
    <3>1. S * z <= 0
      BY <1>1, <2>1
    <3> QED  BY <1>1, <3>1
  <2> QED  BY <1>1, <2>1
<1>3. S * z >= S
  BY <1>1, <1>2
<1> QED  BY <1>1, <1>3

(* A pass in front of the map at the bottom is above the rows that passes  *)
(* are pulled to there.                                                    *)
LEMMA BottomSize ==
  ASSUME NEW pg, ProperPage(pg), NEW p \in Nat,
         p >= FirstPremappedPass(pg), p < Postmapped(pg)
  PROVE  RawStartRow(pg, p) - BandRows(pg) <= BottomEdge(pg)
<1> DEFINE Q == ScanPostmapped(pg)
           sep == pg.separation
           adv == AdvanceBasis(pg)
           S == SubblocksPerPassblock(pg)
           bm == BottomMapped(pg)
           b == BottomSeps(pg)
           BR == BandRows(pg)
           H == PageHeight(pg)
           m == Q - 1
           n == m - p
<1>1. /\ Scanned(pg, FirstPremappedPass(pg), ScanNormal(pg), Q, FirstUnusedPass(pg))
      /\ ProperHead(pg)
  BY ScansAre DEF ProperPage
<1>2. /\ sep \in Positive /\ adv \in Positive /\ S \in Positive
      /\ BR \in Positive /\ sep = S * PassesPerSubblock(pg)
      /\ PassesPerSubblock(pg) \in Positive
  BY <1>1, HeadNumbers
<1>3. Q \in Nat /\ FirstPremappedPass(pg) \in Nat
  BY <1>1 DEF Scanned
<1>4. /\ bm \in Nat /\ b \in Nat /\ H \in Nat
      /\ adv * bm > sep * b + sep
  BY EdgeNumbers
<1>5. BottomEdge(pg) = H - BR - sep * b
  BY DEF BottomEdge
<1>6. p < Q - bm
  BY DEF Postmapped
<1>7. PICK a \in Positive : adv = S * a
  BY <1>1, Blocks
<1> HIDE DEF Q, sep, adv, S, bm, b, BR, H
<1>8. m \in Nat /\ n \in Nat /\ n >= bm /\ p + n = m /\ m < Q
      /\ m >= FirstPremappedPass(pg)
  BY <1>3, <1>4, <1>6
<1> HIDE DEF m, n
<1>9. RawStartRow(pg, m) - sep < H
  BY <1>1, <1>8 DEF Scanned, sep, H
<1>10. /\ RawStartRow(pg, m) \in Nat /\ Base(pg, m) \in Nat
       /\ RawStartRow(pg, m) - Base(pg, m) \in 0 .. S - 1
  BY <1>1, <1>8, StartIs DEF S
<1>11. /\ RawStartRow(pg, p) \in Nat /\ Base(pg, p) \in Nat
       /\ RawStartRow(pg, p) - Base(pg, p) \in 0 .. S - 1
  BY <1>1, StartIs DEF S
<1>12. Base(pg, m) >= Base(pg, p) + n * adv
  BY <1>1, <1>8, Rise DEF adv
<1>13. n * adv >= adv * bm /\ n * adv \in Nat /\ adv * bm \in Nat
  BY <1>2, <1>4, <1>8 DEF Positive
<1>14. adv * bm >= sep * b + sep + S
  <2> DEFINE x == a * bm
             y == PassesPerSubblock(pg) * b + PassesPerSubblock(pg)
  <2>1. x \in Int /\ y \in Int
    BY <1>2, <1>4, <1>7 DEF Positive
  <2>2. (S * a) * bm = S * x
    BY <1>2, <1>4, <1>7 DEF Positive
  <2>3. (S * PassesPerSubblock(pg)) * b + S * PassesPerSubblock(pg) = S * y
    BY <1>2, <1>4 DEF Positive
  <2>4. adv * bm = S * x /\ sep * b + sep = S * y
    BY <1>2, <1>7, <2>2, <2>3
  <2> HIDE DEF x, y
  <2>5. S * x >= S * y + S
    BY <1>2, <1>4, <2>1, <2>4, NextMultiple
  <2> QED  BY <2>4, <2>5
<1>15. sep * b \in Nat
  BY <1>2, <1>4 DEF Positive
<1>16. RawStartRow(pg, p) <= H - sep * b
  BY <1>2, <1>4, <1>9, <1>10, <1>11, <1>12, <1>13, <1>14, <1>15 DEF Positive
<1>17. RawStartRow(pg, p) - BR <= H - BR - sep * b
  BY <1>2, <1>4, <1>11, <1>15, <1>16 DEF Positive
<1> QED  BY <1>5, <1>17 DEF BR

(* A page is at least as tall as the head.                                 *)
HighPage(pg) == ProperPage(pg) /\ pg.last - pg.first + 1 >= BandRows(pg)

(* What the bottom of such a page comes to.                                *)
LEMMA BottomNumbers ==
  ASSUME NEW pg, HighPage(pg)
  PROVE  LET sep == pg.separation
         IN  /\ Maximal(pg) \in Nat
             /\ Maximal(pg) - (sep - 1) - sep * BottomSeps(pg) = BottomEdge(pg)
             /\ Maximal(pg) + sep * (pg.jets - 1) < PageHeight(pg)
             /\ BottomEdge(pg) >= pg.last + 1 - BandRows(pg)
             /\ BottomEdge(pg) \in Nat /\ BottomEdge(pg) >= pg.first
<1> DEFINE sep == pg.separation
           H == PageHeight(pg)
           BR == BandRows(pg)
           z == sep * (pg.jets - 1)
           w == sep * BottomSeps(pg)
<1>1. /\ sep \in Positive /\ BR \in Positive /\ pg.jets \in Positive
      /\ BR = sep * pg.jets
  BY HeadNumbers DEF HighPage, ProperPage
<1>2. /\ H \in Nat /\ H >= pg.last + 1 /\ BottomSeps(pg) \in Nat
      /\ BottomEdge(pg) \in Int /\ BottomEdge(pg) >= pg.last + 1 - BR
  BY EdgeNumbers DEF HighPage
<1>3. pg.first \in Nat /\ pg.last \in Nat /\ pg.last - pg.first + 1 >= BR
  BY DEF HighPage, ProperPage
<1>4. z \in Int /\ BR = z + sep /\ w \in Int
  BY <1>1, <1>2 DEF Positive
<1>5. Maximal(pg) = H - 1 - z /\ BottomEdge(pg) = H - BR - w
  BY DEF Maximal, BottomEdge
<1> HIDE DEF sep, H, BR, z, w
<1>6. Maximal(pg) \in Nat
  BY <1>1, <1>2, <1>3, <1>4, <1>5 DEF Positive
<1>7. Maximal(pg) - (sep - 1) - w = BottomEdge(pg) /\ Maximal(pg) + z < H
  BY <1>1, <1>2, <1>4, <1>5 DEF Positive
<1>8. BottomEdge(pg) \in Nat /\ BottomEdge(pg) >= pg.first
  BY <1>1, <1>2, <1>3 DEF Positive
<1> QED  BY <1>2, <1>6, <1>7, <1>8 DEF sep, H, BR, z, w

(* A pass behind the map at the top does not start above the page.         *)
LEMMA OnceNormal ==
  ASSUME NEW pg, HighPage(pg),
         NEW p \in Nat, p >= Normal(pg), p < FirstUnusedPass(pg)
  PROVE  RawStartRow(pg, p) >= BandRows(pg) /\ p >= ScanNormal(pg)
         /\ p >= FirstPremappedPass(pg)
<1> DEFINE N == ScanNormal(pg)
           Q == ScanPostmapped(pg)
           U == FirstUnusedPass(pg)
           P == FirstPremappedPass(pg)
<1>1. Scanned(pg, P, N, Q, U)
  BY ScansAre DEF HighPage, ProperPage
<1>2. P \in Nat /\ N \in Nat /\ Q \in Nat /\ U \in Nat /\ P <= N /\ N <= Q
  BY <1>1 DEF Scanned
<1>3. p >= N
  <2>1. CASE N > P
    <3>1. N <= Normal(pg) /\ Normal(pg) \in Nat
      BY <2>1, TopSize DEF HighPage
    <3> QED  BY <1>2, <3>1
  <2>2. CASE ~(N > P)
    BY <1>2, <2>2 DEF Normal
  <2> QED  BY <2>1, <2>2
<1>4. RawStartRow(pg, p) \in Nat /\ BandRows(pg) \in Nat /\ pg.separation \in Nat
  BY StartIs, HeadNumbers DEF HighPage, ProperPage, Positive
<1>5. CASE N < Q
  BY <1>1, <1>3, <1>5 DEF Scanned
<1>6. CASE ~(N < Q)
  <2>1. p >= Q
    BY <1>2, <1>3, <1>6
  <2>2. RawStartRow(pg, p) - pg.separation >= PageHeight(pg)
    BY <1>1, <2>1 DEF Scanned
  <2>3. PageHeight(pg) \in Nat /\ PageHeight(pg) >= pg.last + 1
    BY EdgeNumbers DEF HighPage
  <2>4. pg.first \in Nat /\ pg.last \in Nat /\ pg.last - pg.first + 1 >= BandRows(pg)
    BY DEF HighPage, ProperPage
  <2>5. RawStartRow(pg, p) >= BandRows(pg)
    BY <1>4, <2>2, <2>3, <2>4
  <2>6. p >= P
    BY <1>2, <1>3
  <2> QED  BY <1>3, <2>5, <2>6
<1>7. p >= P
  BY <1>2, <1>3
<1> QED  BY <1>3, <1>5, <1>6, <1>7

(* Passes are pulled up onto the bottom edge, behind the ones that need    *)
(* not be; those keep their order.                                         *)
BottomArranged(pg, number, final) ==
  LET post == Postmapped(pg)
      U    == FirstUnusedPass(pg)
      map  == PassMap(pg).postmap
  IN  /\ Arranged(pg, map, post, U, number, final)
      /\ \A p \in post .. U - 1 :
           /\ map[p].stagger <= 0 /\ final[p] >= 0
           /\ final[p] + pg.separation * (pg.jets - 1) < PageHeight(pg)
           /\ map[p].stagger < 0 => /\ final[p] >= BottomEdge(pg)
                                    /\ number[p] >= U - post + 1 - BandPasses(pg)
           /\ map[p].stagger = 0 => number[p] >= p - post + 1
           /\ final[p] >= BottomEdge(pg) \/ number[p] <= p - post + 1
           /\ number[p] <= p - post + 1 + BandPasses(pg)

(* The map at the bottom is such.                                         *)
LEMMA BottomPasses ==
  ASSUME NEW pg, HighPage(pg), Normal(pg) <= Postmapped(pg)
  PROVE  \E number, final : BottomArranged(pg, number, final)
<1> DEFINE P == FirstPremappedPass(pg)
           N == ScanNormal(pg)
           Q == ScanPostmapped(pg)
           U == FirstUnusedPass(pg)
           post == Postmapped(pg)
           sep == pg.separation
           BR == BandRows(pg)
           BP == BandPasses(pg)
           map == PassMap(pg).postmap
           R == post .. U - 1
           edge == BottomEdge(pg)
           max == Maximal(pg)
           b == BottomSeps(pg)
<1>1. /\ ProperHead(pg) /\ Scanned(pg, P, N, Q, U) /\ ProperPage(pg)
      /\ \A p \in Nat : RawStartRow(pg, p) \in Nat
      /\ sep \in Positive /\ sep \in Int /\ BR \in Int /\ sep > 0
      /\ BP \in Nat
  <2>1. ProperPage(pg) /\ ProperHead(pg)
    BY DEF HighPage, ProperPage
  <2>2. Scanned(pg, P, N, Q, U)
    BY <2>1, ScansAre
  <2> QED  BY <2>1, <2>2, HeadNumbers, StartIs DEF Positive
<1>2. P \in Nat /\ N \in Nat /\ Q \in Nat /\ U \in Nat /\ P <= N /\ N <= Q /\ Q <= U
  BY <1>1 DEF Scanned
<1>3. max \in Nat /\ b \in Nat /\ edge \in Int /\ edge >= pg.last + 1 - BR
      /\ max - (sep - 1) - sep * b = edge /\ edge \in Nat
      /\ max + sep * (pg.jets - 1) < PageHeight(pg)
      /\ PageHeight(pg) \in Nat
  BY <1>1, BottomNumbers, EdgeNumbers
<1>4. Normal(pg) \in Nat /\ P <= Normal(pg)
  <2>1. CASE N > P
    BY <1>1, <1>2, <2>1, TopSize
  <2>2. CASE ~(N > P)
    BY <1>2, <2>2 DEF Normal
  <2> QED  BY <2>1, <2>2
<1>5. post \in Int /\ post <= U
  <2>1. BottomMapped(pg) \in Nat
    BY <1>1, EdgeNumbers
  <2> QED  BY <1>2, <2>1 DEF Postmapped
<1>6. \A p \in R : p \in Nat /\ p >= P /\ p < U /\ p >= Normal(pg)
  BY <1>2, <1>4, <1>5
<1>7. map = MakePassMap(pg, post, U, Q, U, max, b)
  BY PassMapIs
<1>8. pg.last \in Nat
  BY <1>1 DEF ProperPage
<1> HIDE DEF P, N, Q, U, post, sep, BR, BP, map, edge, max, b
<1>9. PICK number, final, turn :
        Mapped(pg, map, post, U, Q, U, max, b, number, final, turn)
  <2>1. pg.separation \in Positive /\ BandRows(pg) \in Int
    BY <1>1 DEF sep, BR
  <2>2. \A p \in post .. U - 1 : RawStartRow(pg, p) \in Int
    BY <1>1, <1>6
  <2>3. \E number, final, turn :
          Mapped(pg, MakePassMap(pg, post, U, Q, U, max, b),
                 post, U, Q, U, max, b, number, final, turn)
    BY <1>2, <1>3, <1>5, <2>1, <2>2, MapIs
  <2> QED  BY <1>7, <2>3
<1>25. PulledUp(pg, map, post, U, Q, U, max, b, number, final)
  <2>1. pg.separation \in Positive /\ BandRows(pg) \in Int
    BY <1>1 DEF sep, BR
  <2>2. \A p \in post .. U - 1 : RawStartRow(pg, p) \in Int
    BY <1>1, <1>6
  <2>3. U \in Int /\ Q \in Int
    BY <1>2
  <2> QED  BY <1>3, <1>5, <1>9, <2>1, <2>2, <2>3, BottomFacts
<1>10. ASSUME NEW p \in R
       PROVE  /\ map[p].pass = number[p] - 1 + post - FirstPremappedPass(pg)
              /\ map[p].stagger \in Int /\ map[p].stagger <= 0
              /\ final[p] \in Int /\ final[p] <= max
              /\ final[p] = RawStartRow(pg, p) - BR + sep * map[p].stagger
              /\ map[p].stagger < 0 => final[p] >= edge
              /\ RawStartRow(pg, p) \in Nat
  <2>1. RawStartRow(pg, p) \in Int /\ RawStartRow(pg, p) \in Nat
    BY <1>1, <1>6
  <2>2. /\ map[p].pass = number[p] - 1 + post - FirstPremappedPass(pg)
        /\ map[p].stagger \in Int /\ map[p].stagger <= 0
        /\ final[p] \in Int /\ final[p] <= max
        /\ final[p] = RawStartRow(pg, p) - BR + sep * map[p].stagger
        /\ map[p].stagger < 0 => final[p] >= max - (sep - 1) - sep * b
    BY <1>25, Zenon DEF PulledUp, sep, BR
  <2> QED  BY <1>3, <2>1, <2>2
<1>11. /\ number \in [R -> 1 .. U - post]
       /\ \A p \in R, q \in R :
            /\ number[p] = number[q] => p = q
            /\ number[p] < number[q] => final[p] <= final[q]
  BY <1>9, Zenon DEF Mapped
<1>22. \A p \in post .. U - 1, q \in post .. U - 1 : number[p] = number[q] => p = q
  BY <1>11, Zenon
<1>23. number \in [post .. U - 1 -> 1 .. U - post]
  BY <1>11
<1>24. U \in Int /\ Q \in Int
  BY <1>2
<1>12. Arranged(pg, map, post, U, number, final)
  <2>1. \A p \in R : map[p].stagger \in Int /\ final[p] \in Int
    BY <1>10
  <2> QED  BY <1>10, <1>11, <2>1, Zenon DEF Arranged, sep, BR
<1>13. ASSUME NEW p \in R
       PROVE  /\ final[p] <= RawStartRow(pg, p) - BR
              /\ map[p].stagger = 0 => final[p] = RawStartRow(pg, p) - BR
              /\ number[p] \in Int /\ number[p] <= U - post /\ number[p] >= 1
              /\ p \in Nat /\ p >= post /\ p <= U - 1
  <2> DEFINE st == map[p].stagger
             z == sep * st
             x == RawStartRow(pg, p)
  <2>1. /\ final[p] = x - BR + z /\ x \in Nat /\ final[p] \in Int
        /\ st \in Int /\ st <= 0
    BY <1>10
  <2>2. z \in Int /\ z <= 0 /\ (st = 0 => z = 0)
    <3> HIDE DEF st
    <3> QED  BY <1>1, <2>1
  <2> HIDE DEF st, z, x
  <2>3. final[p] <= x - BR /\ (st = 0 => final[p] = x - BR)
    BY <1>1, <2>1, <2>2
  <2>4. number[p] \in 1 .. U - post
    BY <1>11, Zenon
  <2>5. number[p] \in Int /\ number[p] <= U - post /\ number[p] >= 1
    BY <1>2, <1>5, <2>4
  <2>6. p \in Nat /\ p >= post /\ p <= U - 1
    BY <1>2, <1>5, <1>6
  <2> QED  BY <2>3, <2>5, <2>6 DEF st, x
<1>14. ASSUME NEW q \in R, q <= U - BP - 1
       PROVE  final[q] < edge
  <2> DEFINE r == q + 1 * BP
  <2>1. r \in Nat /\ r < U /\ r >= P
    BY <1>1, <1>2, <1>6, <1>14
  <2>2. RawStartRow(pg, r) <= pg.last + BandRows(pg)
    <3> HIDE DEF r
    <3> QED  BY <1>1, <2>1 DEF Scanned
  <2>3. RawStartRow(pg, q + 1 * BandPasses(pg))
          = RawStartRow(pg, q) + 1 * BandRows(pg)
    BY <1>1, <1>6, NextBand
  <2>4. RawStartRow(pg, q) + 1 * BR <= pg.last + BR
    BY <2>2, <2>3 DEF BP, BR
  <2>5. RawStartRow(pg, q) \in Nat /\ final[q] <= RawStartRow(pg, q) - BR
        /\ final[q] \in Int
    BY <1>10, <1>13
  <2> QED  BY <1>1, <1>3, <1>8, <2>4, <2>5
<1>15. ASSUME NEW p \in R, NEW q \in R, final[q] < final[p]
       PROVE  number[q] < number[p]
  <2>1. number[p] \in Int /\ number[q] \in Int /\ final[p] \in Int /\ final[q] \in Int
    BY <1>10, <1>13
  <2>2. CASE number[p] < number[q]
    <3>1. final[p] <= final[q]
      BY <1>11, <2>2, Zenon
    <3> QED  BY <1>15, <2>1, <3>1
  <2>3. CASE number[p] = number[q]
    <3>1. p = q
      BY <1>11, <2>3, Zenon
    <3> QED  BY <1>15, <2>1, <3>1
  <2> QED  BY <2>1, <2>2, <2>3
<1>16. ASSUME NEW p \in R, map[p].stagger < 0
       PROVE  number[p] >= U - post + 1 - BP
  <2> DEFINE y == U - BP
  <2>1. y \in Int /\ y <= U
    BY <1>1, <1>2
  <2>2. ASSUME NEW q \in post .. y - 1 PROVE number[q] < number[p]
    <3>1. q \in R /\ q <= U - BP - 1
      BY <1>1, <1>2, <1>5, <2>2
    <3>2. final[q] < edge /\ final[p] >= edge /\ final[q] \in Int /\ final[p] \in Int
      BY <1>10, <1>14, <1>16, <3>1
    <3>3. final[q] < final[p]
      BY <1>3, <3>2
    <3> QED  BY <1>15, <3>1, <3>3
  <2>3. number[p] >= y - post + 1
    <3> HIDE DEF y
    <3> QED  BY <1>5, <1>22, <1>23, <1>24, <2>1, <2>2, RankLow
  <2> QED  BY <1>1, <1>2, <1>5, <2>3, <1>13
<1>17. ASSUME NEW p \in R, map[p].stagger = 0
       PROVE  number[p] >= p - post + 1
  <2>1. ASSUME NEW q \in post .. p - 1 PROVE number[q] < number[p]
    <3>1. q \in R /\ q \in Nat /\ p \in Nat /\ q < p
      BY <1>2, <1>5, <1>13
    <3>2. RawStartRow(pg, q) < RawStartRow(pg, p)
      BY <1>1, <3>1, StartsRise
    <3>3. final[q] < final[p]
      <4>1. final[q] <= RawStartRow(pg, q) - BR /\ final[q] \in Int
            /\ RawStartRow(pg, q) \in Nat
        BY <1>10, <1>13, <3>1
      <4>2. final[p] = RawStartRow(pg, p) - BR /\ RawStartRow(pg, p) \in Nat
        BY <1>10, <1>13, <1>17
      <4> QED  BY <1>1, <3>2, <4>1, <4>2
    <3> QED  BY <1>15, <3>1, <3>3
  <2>2. p \in Int /\ p <= U
    BY <1>2, <1>13
  <2> QED  BY <1>5, <1>22, <1>23, <1>24, <2>1, <2>2, RankLow
<1>18. ASSUME NEW p \in R, ~(final[p] >= edge)
       PROVE  number[p] <= p - post + 1
  <2>1. map[p].stagger = 0 /\ final[p] \in Int /\ final[p] < edge
    BY <1>3, <1>10, <1>18
  <2>2. final[p] = RawStartRow(pg, p) - BR /\ RawStartRow(pg, p) \in Nat
    BY <1>10, <1>13, <2>1
  <2>3. ASSUME NEW q \in p + 1 .. U - 1 PROVE number[p] < number[q]
    <3>1. q \in R /\ q \in Nat /\ p \in Nat /\ p < q
      BY <1>2, <1>5, <1>13
    <3>2. RawStartRow(pg, p) < RawStartRow(pg, q)
      BY <1>1, <3>1, StartsRise
    <3>3. /\ map[q].stagger \in Int /\ map[q].stagger <= 0 /\ final[q] \in Int
          /\ map[q].stagger < 0 => final[q] >= edge
          /\ RawStartRow(pg, q) \in Nat
          /\ map[q].stagger = 0 => final[q] = RawStartRow(pg, q) - BR
      BY <1>10, <1>13, <3>1
    <3>4. final[p] < final[q]
      <4>1. CASE map[q].stagger < 0
        BY <1>3, <2>1, <3>3, <4>1
      <4>2. CASE map[q].stagger = 0
        BY <1>1, <2>2, <3>2, <3>3, <4>2
      <4> QED  BY <3>3, <4>1, <4>2
    <3> QED  BY <1>15, <3>1, <3>4
  <2>4. U \in Int /\ p + 1 <= U /\ U <= U
    BY <1>2, <1>13
  <2>5. number[p] <= p - post + 1 + (U - U)
    BY <1>2, <1>5, <1>22, <1>23, <2>3, <2>4, RankHigh
  <2> QED  BY <1>2, <1>5, <1>13, <2>5
<1>19. ASSUME NEW p \in R
       PROVE  number[p] <= p - post + 1 + BP
  <2>1. CASE p <= U - BP - 1
    <3>1. final[p] < edge /\ final[p] \in Int
      BY <1>10, <1>14, <2>1
    <3>2. number[p] <= p - post + 1
      BY <1>3, <1>18, <3>1
    <3> QED  BY <1>1, <1>5, <1>13, <3>2
  <2>2. CASE ~(p <= U - BP - 1)
    BY <1>1, <1>2, <1>5, <1>13, <2>2
  <2> QED  BY <2>1, <2>2
<1>20. ASSUME NEW p \in R
       PROVE  /\ final[p] >= 0
              /\ final[p] + sep * (pg.jets - 1) < PageHeight(pg)
  <2> DEFINE z == sep * (pg.jets - 1)
  <2>1. z \in Int
    BY <1>1, HeadNumbers DEF Positive
  <2>2. final[p] \in Int /\ final[p] <= max /\ max + z < PageHeight(pg)
    BY <1>3, <1>10
  <2>3. final[p] + z < PageHeight(pg)
    <3> HIDE DEF z
    <3> QED  BY <1>3, <2>1, <2>2
  <2>4. CASE map[p].stagger < 0
    BY <1>3, <1>10, <2>3, <2>4
  <2>5. CASE map[p].stagger = 0
    <3>1. RawStartRow(pg, p) >= BR
      BY <1>6, OnceNormal DEF BR, U
    <3>2. final[p] = RawStartRow(pg, p) - BR /\ RawStartRow(pg, p) \in Nat
      BY <1>10, <1>13, <2>5
    <3>3. final[p] >= 0
      BY <1>1, <3>1, <3>2
    <3> QED  BY <2>3, <3>3
  <2> QED  BY <1>10, <2>4, <2>5
<1>21. BottomArranged(pg, number, final)
  <2>1. ASSUME NEW p \in R
        PROVE  /\ map[p].stagger <= 0 /\ final[p] >= 0
               /\ final[p] + pg.separation * (pg.jets - 1) < PageHeight(pg)
               /\ map[p].stagger < 0 => /\ final[p] >= edge
                                        /\ number[p] >= U - post + 1 - BP
               /\ map[p].stagger = 0 => number[p] >= p - post + 1
               /\ final[p] >= edge \/ number[p] <= p - post + 1
               /\ number[p] <= p - post + 1 + BP
    BY <1>10, <1>16, <1>17, <1>18, <1>19, <1>20 DEF sep
  <2> QED  BY <1>12, <2>1, Zenon DEF BottomArranged, post, U, map, edge, BP
<1> QED  BY <1>21

-----------------------------------------------------------------------------
(* The passes with a negative number, which the map at the bottom of a     *)
(* page that pulls nothing there asks for.                                 *)

(* C's division of a negative number.                                      *)
LEMMA NegativeDivision ==
  ASSUME NEW d \in Positive, NEW n \in Nat
  PROVE  /\ CDiv(-n, d) = -(n \div d)
         /\ CMod(-n, d) = -(n % d)
<1> DEFINE k == n \div d
           m == n % d
           q == -n
<1>1. k \in Int /\ m \in 0 .. d - 1 /\ n = d * k + m
  <2>1. k \in Int /\ m \in 0 .. d - 1
    BY Division
  <2>2. n = d * k + m
    BY Division
  <2> QED  BY <2>1, <2>2
<1>2. q \in Int /\ -q = n /\ (q >= 0 => n = 0 /\ q = 0)
  OBVIOUS
<1>3. n = 0 => k = 0 /\ m = 0
  <2> SUFFICES ASSUME n = 0 PROVE k = 0 /\ m = 0
    OBVIOUS
  <2>1. n = d * 0 + 0 /\ 0 \in 0 .. d - 1 /\ 0 \in Int /\ n \in Int
    BY DEF Positive
  <2> QED  BY <2>1, DivisionIs
<1>4. CDiv(q, d) = -k
  <2>1. CASE q >= 0
    <3>1. q = n /\ k = 0
      BY <1>2, <1>3, <2>1
    <3>2. CDiv(q, d) = k
      BY <2>1, <3>1, Zenon DEF CDiv
    <3> HIDE DEF k
    <3> DEFINE z == -k
    <3>3. k \in Int /\ z \in Int /\ z + k = 0
      BY <3>1
    <3>4. k = 0
      BY <3>1
    <3> HIDE DEF z
    <3>5. z = k
      BY <3>3, <3>4
    <3> QED  BY <3>2, <3>5 DEF z
  <2>2. CASE ~(q >= 0)
    <3>1. CDiv(q, d) = -((-q) \div d)
      BY <2>2, Zenon DEF CDiv
    <3> QED  BY <1>2, <3>1
  <2> QED  BY <2>1, <2>2
<1>5. CMod(q, d) = q - d * (-k)
  BY <1>4, Zenon DEF CMod
<1> HIDE DEF k, m
<1>6. q - d * (-k) = -m
  <2>1. d * (-k) = -(d * k) /\ d * k \in Int
    BY <1>1 DEF Positive
  <2> DEFINE x == d * k
  <2> HIDE DEF x
  <2>2. x \in Int /\ n = x + m /\ m \in Int
    BY <1>1, <2>1 DEF x
  <2>3. q - (-x) = -m
    BY <2>2
  <2> QED  BY <2>1, <2>3 DEF x
<1> QED  BY <1>4, <1>5, <1>6 DEF k, m

(* Such a pass starts above the first one.                                 *)
LEMMA NegativeStart ==
  ASSUME NEW w, ProperHead(w), NEW q \in Int, q < 0
  PROVE  RawStartRow(w, q) \in Int /\ RawStartRow(w, q) < RawStartRow(w, 0)
<1> DEFINE n == -q
           S == SubblocksPerPassblock(w)
           t == PassesPerSubblock(w)
           sep == w.separation
           BP == BandPasses(w)
           BR == BandRows(w)
           adv == AdvanceBasis(w)
           b == (n % sep) \div t
           b0 == (0 % sep) \div t
           k == n \div BP
           i == n % BP
           m == n % sep
<1>1. /\ S \in Positive /\ t \in Positive /\ sep \in Positive /\ BP \in Positive
      /\ BR \in Positive /\ adv \in Positive /\ sep = S * t
  BY HeadNumbers
<1>2. n \in Nat /\ n >= 1 /\ -n = q
  OBVIOUS
<1>3. b \in 0 .. S - 1 /\ (m * S) \div sep = b
  <2> HIDE DEF S, t, sep, n
  <2> QED  BY <1>1, <1>2, BlockIs
<1>4. CDiv(q, BP) = -k /\ CMod(q, BP) = -i /\ CMod(q, sep) = -m
  <2> HIDE DEF n, BP, sep
  <2>1. CDiv(-n, BP) = -k /\ CMod(-n, BP) = -i /\ CMod(-n, sep) = -m
    BY <1>1, <1>2, NegativeDivision
  <2> QED  BY <1>2, <2>1
<1>5. k \in Nat /\ i \in Nat /\ m \in Nat /\ m <= n
  <2> HIDE DEF n, BP, sep
  <2>7. n \in Int
    BY <1>2
  <2>8. k \in Int /\ i \in 0 .. BP - 1 /\ n = BP * k + i
    BY <1>1, <2>7, Division
  <2>9. m \in 0 .. sep - 1 /\ n = sep * (n \div sep) + m
    BY <1>1, <2>7, Division
  <2>1. k \in Int /\ i \in 0 .. BP - 1 /\ m \in 0 .. sep - 1
    BY <2>8, <2>9
  <2>2. n = BP * k + i /\ n = sep * (n \div sep) + m
    BY <2>8, <2>9
  <2>3. n \div sep \in Int
    BY <1>1, <1>2, Division
  <2> DEFINE l == n \div sep
  <2> HIDE DEF k, i, m, l
  <2>4. l >= 0
    <3>1. CASE l <= -1
      <4>1. sep * l <= -sep /\ sep * l \in Int
        BY <1>1, <2>3, <3>1 DEF Positive, l
      <4> QED  BY <1>1, <1>2, <2>1, <2>2, <4>1 DEF Positive, l
    <3> QED  BY <2>3, <3>1 DEF l
  <2>5. k >= 0
    <3>1. CASE k <= -1
      <4>1. BP * k <= -BP /\ BP * k \in Int
        BY <1>1, <2>1, <3>1 DEF Positive
      <4> QED  BY <1>1, <1>2, <2>1, <2>2, <4>1 DEF Positive
    <3> QED  BY <2>1, <3>1
  <2>6. sep * l \in Int /\ sep * l >= 0
    BY <1>1, <2>3, <2>4 DEF Positive, l
  <2> QED  BY <1>1, <1>2, <2>1, <2>2, <2>5, <2>6 DEF Positive, l
<1>6. CDiv(CMod(q, sep) * S, sep) = -b
  <2> DEFINE x == m * S
  <2>1. x \in Nat /\ (-m) * S = -x
    <3> HIDE DEF m, S
    <3> QED  BY <1>1, <1>5 DEF Positive
  <2> HIDE DEF x
  <2>2. CDiv(-x, sep) = -(x \div sep)
    BY <1>1, <2>1, NegativeDivision
  <2>3. x \div sep = b
    BY <1>3 DEF x
  <2> QED  BY <1>4, <2>1, <2>2, <2>3
<1>7. RawStartRow(w, q) = BR * (-k) + adv * (-i) + SubpassOffset(w, S, -b)
  BY <1>4, <1>6, Zenon DEF RawStartRow
<1>8. Base(w, n) = BR * k + adv * i
  BY Zenon DEF Base
<1>9. Base(w, n) >= n * adv /\ Base(w, n) \in Nat
  <2> HIDE DEF n
  <2>1. Base(w, 0 + n) >= Base(w, 0) + n * AdvanceBasis(w)
    BY <1>2, Rise
  <2>2. Base(w, 0) \in Nat /\ Base(w, n) \in Nat /\ 0 + n = n
    BY <1>2, StartIs
  <2>3. n * adv \in Int
    BY <1>1, <1>2 DEF Positive
  <2> QED  BY <2>1, <2>2, <2>3
<1>10. RawStartRow(w, 0) = Base(w, 0) + SubpassOffset(w, S, b0) /\ b0 = 0
       /\ Base(w, 0) \in Nat
  <2>1. RawStartRow(w, 0) = Base(w, 0) + SubpassOffset(w, S, b0)
        /\ Base(w, 0) \in Nat
    BY StartIs
  <2>2. 0 % sep = 0
    <3>1. 0 = sep * 0 + 0 /\ 0 \in 0 .. sep - 1
      BY <1>1 DEF Positive
    <3> QED  BY <1>1, <3>1, DivisionIs
  <2>3. 0 \div t = 0
    <3>1. 0 = t * 0 + 0 /\ 0 \in 0 .. t - 1
      BY <1>1 DEF Positive
    <3> QED  BY <1>1, <3>1, DivisionIs
  <2> QED  BY <2>1, <2>2, <2>3
<1> HIDE DEF n, S, t, sep, BP, BR, adv, b, b0, k, i, m
<1>11. /\ SubpassOffset(w, S, -b) \in Int
       /\ SubpassOffset(w, S, 0) \in Int
       /\ SubpassOffset(w, S, -b) <= SubpassOffset(w, S, 0) + b
  <2>1. S \in Int /\ S > 0 /\ b \in Int /\ b >= 0
    BY <1>1, <1>3 DEF Positive
  <2>2. w.strategy \in {"zigzag", "ascending", "descending", "ascending2x", "staggered"}
    BY DEF ProperHead, Strategies
  <2> DEFINE y == -b
  <2>3. y \in Int /\ y <= 0 /\ y + b = 0
    BY <2>1
  <2> HIDE DEF y
  <2>4. CASE w.strategy = "zigzag"
    <3>1. /\ SubpassOffset(w, S, y) = IF 2 * y < S THEN 2 * y ELSE 2 * (S - y) - 1
          /\ SubpassOffset(w, S, 0) = IF 2 * 0 < S THEN 2 * 0 ELSE 2 * (S - 0) - 1
      BY <2>4 DEF SubpassOffset
    <3> QED  BY <2>1, <2>3, <3>1 DEF y
  <2>5. CASE w.strategy = "ascending"
    <3>1. SubpassOffset(w, S, y) = y /\ SubpassOffset(w, S, 0) = 0
      BY <2>5 DEF SubpassOffset
    <3> QED  BY <2>1, <2>3, <3>1 DEF y
  <2>6. CASE w.strategy = "descending"
    <3>1. SubpassOffset(w, S, y) = S - 1 - y /\ SubpassOffset(w, S, 0) = S - 1 - 0
      BY <2>6 DEF SubpassOffset
    <3> QED  BY <2>1, <2>3, <3>1 DEF y
  <2>7. CASE w.strategy = "ascending2x"
    <3>1. /\ SubpassOffset(w, S, y) =
               IF 2 * y < S THEN 2 * y ELSE 1 + 2 * (y - (S + 1) \div 2)
          /\ SubpassOffset(w, S, 0) =
               IF 2 * 0 < S THEN 2 * 0 ELSE 1 + 2 * (0 - (S + 1) \div 2)
      BY <2>7 DEF SubpassOffset
    <3> QED  BY <2>1, <2>3, <3>1 DEF y
  <2>8. CASE w.strategy = "staggered"
    <3>1. /\ SubpassOffset(w, S, y) =
               IF 2 * y < S THEN 2 * y
               ELSE IF 2 * y < S + 2 THEN 1 ELSE 2 * (S - y) + 1
          /\ SubpassOffset(w, S, 0) =
               IF 2 * 0 < S THEN 2 * 0
               ELSE IF 2 * 0 < S + 2 THEN 1 ELSE 2 * (S - 0) + 1
      BY <2>8 DEF SubpassOffset
    <3> QED  BY <2>1, <2>3, <3>1 DEF y
  <2> QED  BY <2>2, <2>4, <2>5, <2>6, <2>7, <2>8
<1>12. n * adv > b
  <2>1. PICK a \in Positive : adv = S * a
    BY Blocks DEF adv, S
  <2>2. adv >= S
    BY <1>1, <2>1 DEF Positive
  <2>3. n * adv >= adv /\ n * adv \in Int
    BY <1>1, <1>2 DEF Positive
  <2> QED  BY <1>1, <1>3, <2>2, <2>3 DEF Positive
<1>13. BR * (-k) + adv * (-i) = -Base(w, n)
  <2>1. BR * (-k) = -(BR * k) /\ adv * (-i) = -(adv * i)
        /\ BR * k \in Int /\ adv * i \in Int
    BY <1>1, <1>5 DEF Positive
  <2> QED  BY <1>8, <2>1
<1>14. n * adv \in Int
  BY <1>1, <1>2 DEF Positive
<1> DEFINE z == SubpassOffset(w, S, -b)
           z0 == SubpassOffset(w, S, 0)
<1>15. RawStartRow(w, q) = -Base(w, n) + z /\ RawStartRow(w, 0) = Base(w, 0) + z0
  BY <1>7, <1>10, <1>13
<1> HIDE DEF z, z0
<1>16. z \in Int /\ z0 \in Int /\ z <= z0 + b /\ b \in Int
  BY <1>3, <1>11 DEF z, z0
<1> QED  BY <1>9, <1>10, <1>12, <1>14, <1>15, <1>16

(* Where nothing has to be pulled up, the map at the bottom changes no     *)
(* pass, however far up it reaches.                                        *)
LEMMA BottomIdentity ==
  ASSUME NEW pg, HighPage(pg), ScanPostmapped(pg) = FirstUnusedPass(pg),
         NEW p \in Nat, p >= Normal(pg), p >= Postmapped(pg),
         p < FirstUnusedPass(pg)
  PROVE  LET map == PassMap(pg).postmap
         IN  /\ map[p].stagger = 0
             /\ map[p].pass = p - FirstPremappedPass(pg)
<1> DEFINE P == FirstPremappedPass(pg)
           N == ScanNormal(pg)
           U == FirstUnusedPass(pg)
           post == Postmapped(pg)
           sep == pg.separation
           BR == BandRows(pg)
           map == PassMap(pg).postmap
           R == post .. U - 1
           max == Maximal(pg)
           b == BottomSeps(pg)
<1>1. /\ ProperHead(pg) /\ Scanned(pg, P, N, U, U) /\ ProperPage(pg)
      /\ \A q \in Nat : RawStartRow(pg, q) \in Nat
      /\ sep \in Positive /\ sep \in Int /\ BR \in Int /\ sep > 0
  <2>1. ProperPage(pg) /\ ProperHead(pg)
    BY DEF HighPage, ProperPage
  <2>2. Scanned(pg, P, N, U, U)
    BY <2>1, ScansAre
  <2> QED  BY <2>1, <2>2, HeadNumbers, StartIs DEF Positive
<1>2. P \in Nat /\ N \in Nat /\ U \in Nat /\ U \in Int
  BY <1>1 DEF Scanned
<1>3. max \in Nat /\ b \in Nat /\ max + sep * (pg.jets - 1) < PageHeight(pg)
      /\ max = PageHeight(pg) - 1 - sep * (pg.jets - 1)
      /\ PageHeight(pg) \in Nat
  BY <1>1, BottomNumbers, EdgeNumbers DEF Maximal
<1>4. post \in Int /\ post <= U
  <2>1. BottomMapped(pg) \in Nat
    BY <1>1, EdgeNumbers
  <2> QED  BY <1>2, <2>1 DEF Postmapped
<1>5. map = MakePassMap(pg, post, U, U, U, max, b)
  BY PassMapIs
<1>6. p \in R /\ p >= P
  <2>1. p >= P
    BY OnceNormal
  <2> QED  BY <1>2, <1>4, <2>1
<1>7. ASSUME NEW q \in R, q < p
      PROVE  RawStartRow(pg, q) \in Int
             /\ RawStartRow(pg, q) < RawStartRow(pg, p)
  <2>1. q \in Int
    BY <1>2, <1>4
  <2>2. CASE q >= 0
    <3>1. q \in Nat
      BY <2>1, <2>2
    <3> QED  BY <1>1, <1>7, <3>1, StartsRise
  <2>3. CASE q < 0
    <3>1. RawStartRow(pg, q) \in Int /\ RawStartRow(pg, q) < RawStartRow(pg, 0)
      BY <1>1, <2>1, <2>3, NegativeStart
    <3>2. 0 <= p
      OBVIOUS
    <3>3. RawStartRow(pg, 0) <= RawStartRow(pg, p)
      BY <1>1, <3>2, StartsRise
    <3>4. RawStartRow(pg, 0) \in Int /\ RawStartRow(pg, p) \in Int
      BY <1>1
    <3> QED  BY <3>1, <3>3, <3>4
  <2> QED  BY <2>1, <2>2, <2>3
<1>8. ASSUME NEW q \in R, p <= q
      PROVE  /\ q \in Nat /\ RawStartRow(pg, q) \in Nat
             /\ max - (RawStartRow(pg, q) - BR) >= 0
             /\ p < q => RawStartRow(pg, p) < RawStartRow(pg, q)
  <2>1. q \in Nat /\ q < U /\ q >= P
    BY <1>2, <1>4, <1>6, <1>8
  <2>2. RawStartRow(pg, q) - sep < PageHeight(pg) /\ RawStartRow(pg, q) \in Nat
    BY <1>1, <2>1 DEF Scanned
  <2>3. BR = sep * pg.jets /\ pg.jets \in Positive
    BY <1>1, HeadNumbers
  <2>4. sep * (pg.jets - 1) = BR - sep
    BY <1>1, <2>3 DEF Positive
  <2>5. max - (RawStartRow(pg, q) - BR) >= 0
    BY <1>1, <1>3, <2>2, <2>4
  <2>6. p < q => RawStartRow(pg, p) < RawStartRow(pg, q)
    BY <1>1, <2>1, StartsRise
  <2> QED  BY <2>1, <2>2, <2>5, <2>6
<1> HIDE DEF P, N, U, post, sep, BR, map, max, b
<1>9. ASSUME NEW q \in R PROVE RawStartRow(pg, q) \in Int
  <2>1. q \in Int
    BY <1>2, <1>4
  <2> QED  BY <1>7, <1>8, <2>1
<1>10. PICK number, final, turn :
         Mapped(pg, map, post, U, U, U, max, b, number, final, turn)
  <2>1. pg.separation \in Positive /\ BandRows(pg) \in Int
    BY <1>1 DEF sep, BR
  <2>2. \A q \in post .. U - 1 : RawStartRow(pg, q) \in Int
    BY <1>9
  <2>3. \E number, final, turn :
          Mapped(pg, MakePassMap(pg, post, U, U, U, max, b),
                 post, U, U, U, max, b, number, final, turn)
    BY <1>2, <1>3, <1>4, <2>1, <2>2, MapIs
  <2> QED  BY <1>5, <2>3
<1>11. PulledUp(pg, map, post, U, U, U, max, b, number, final)
  <2>1. pg.separation \in Positive /\ BandRows(pg) \in Int
    BY <1>1 DEF sep, BR
  <2>2. \A q \in post .. U - 1 : RawStartRow(pg, q) \in Int
    BY <1>9
  <2> QED  BY <1>2, <1>3, <1>4, <1>10, <2>1, <2>2, BottomFacts
<1>12. ASSUME NEW q \in R
       PROVE  /\ map[q].pass = number[q] - 1 + post - FirstPremappedPass(pg)
              /\ final[q] \in Int
              /\ final[q] <= RawStartRow(pg, q) - BR
              /\ p <= q => /\ map[q].stagger = 0
                           /\ final[q] = RawStartRow(pg, q) - BR
  <2> DEFINE st == map[q].stagger
             z == sep * st
             x == RawStartRow(pg, q)
  <2>1. /\ map[q].pass = number[q] - 1 + post - FirstPremappedPass(pg)
        /\ final[q] \in Int /\ st \in Int /\ st <= 0
        /\ final[q] = x - BR + z
        /\ U = U /\ max - (x - BR) >= 0 => st = 0
    BY <1>11, Zenon DEF PulledUp, sep, BR
  <2>2. x \in Int
    BY <1>9
  <2>3. p <= q => st = 0
    BY <1>8, <2>1
  <2>4. z \in Int /\ z <= 0 /\ (st = 0 => z = 0)
    <3> HIDE DEF st
    <3> QED  BY <1>1, <2>1
  <2> HIDE DEF z, x, st
  <2>5. final[q] <= x - BR /\ (st = 0 => final[q] = x - BR)
    BY <1>1, <2>1, <2>2, <2>4
  <2> QED  BY <2>1, <2>3, <2>5 DEF x, st
<1>13. \A q \in post .. U - 1, r \in post .. U - 1 : number[q] = number[r] => q = r
  BY <1>10, Zenon DEF Mapped
<1>14. \A q \in R, r \in R : number[q] < number[r] => final[q] <= final[r]
  BY <1>10, Zenon DEF Mapped
<1>15. number \in [post .. U - 1 -> 1 .. U - post]
  BY <1>10, Zenon DEF Mapped
<1>16. ASSUME NEW q \in R, NEW r \in R, final[q] < final[r]
       PROVE  number[q] < number[r]
  <2>1. number[q] \in Int /\ number[r] \in Int /\ final[q] \in Int /\ final[r] \in Int
    <3>1. number[q] \in 1 .. U - post /\ number[r] \in 1 .. U - post
      BY <1>15
    <3> QED  BY <1>2, <1>4, <1>12, <3>1
  <2>2. CASE number[r] < number[q]
    <3>1. final[r] <= final[q]
      BY <1>14, <2>2, Zenon
    <3> QED  BY <1>16, <2>1, <3>1
  <2>3. CASE number[q] = number[r]
    <3>1. q = r
      BY <1>13, <2>3, Zenon
    <3> QED  BY <1>16, <2>1, <3>1
  <2> QED  BY <2>1, <2>2, <2>3
<1>17. final[p] = RawStartRow(pg, p) - BR /\ final[p] \in Int
       /\ RawStartRow(pg, p) \in Int /\ p \in Int
  BY <1>1, <1>6, <1>12
<1>18. ASSUME NEW q \in post .. p - 1 PROVE number[q] < number[p]
  <2>3. p <= U - 1 /\ U \in Int /\ post \in Int
    BY <1>2, <1>4, <1>6
  <2>4. q \in Int /\ q >= post /\ q <= p - 1
    BY <1>17, <2>3
  <2>1. q \in R /\ q < p
    BY <1>17, <2>3, <2>4
  <2>2. final[q] < final[p]
    <3>1. /\ RawStartRow(pg, q) \in Int
          /\ RawStartRow(pg, q) < RawStartRow(pg, p)
      BY <1>7, <2>1
    <3>2. final[q] \in Int /\ final[q] <= RawStartRow(pg, q) - BR
      BY <1>12, <2>1
    <3> QED  BY <1>1, <1>17, <3>1, <3>2
  <2> QED  BY <1>6, <1>16, <2>1, <2>2
<1>19. ASSUME NEW q \in p + 1 .. U - 1 PROVE number[p] < number[q]
  <2>1. q \in R /\ p < q /\ p <= q
    BY <1>2, <1>4, <1>6, <1>17
  <2>2. final[p] < final[q]
    <3>1. /\ RawStartRow(pg, q) \in Nat
          /\ RawStartRow(pg, p) < RawStartRow(pg, q)
      BY <1>8, <2>1
    <3>2. final[q] = RawStartRow(pg, q) - BR
      BY <1>12, <2>1
    <3> QED  BY <1>1, <1>17, <3>1, <3>2
  <2> QED  BY <1>6, <1>16, <2>1, <2>2
<1>20. number[p] >= p - post + 1
  <2>1. p \in post .. U - 1 /\ p <= U
    BY <1>2, <1>4, <1>6, <1>17
  <2> QED  BY <1>2, <1>4, <1>13, <1>15, <1>17, <1>18, <2>1, RankLow
<1>21. number[p] <= p - post + 1 + (U - U)
  <2>1. p \in post .. U - 1 /\ p + 1 <= U /\ U <= U
    BY <1>2, <1>4, <1>6, <1>17
  <2> QED  BY <1>2, <1>4, <1>13, <1>15, <1>19, <2>1, RankHigh
<1>22. number[p] \in Int
  <2>1. number[p] \in 1 .. U - post
    BY <1>6, <1>15
  <2> QED  BY <1>2, <1>4, <2>1
<1>23. map[p].pass = number[p] - 1 + post - P /\ map[p].stagger = 0
  BY <1>6, <1>12, <1>17 DEF P
<1>24. map[p].pass = p - P
  BY <1>2, <1>4, <1>17, <1>20, <1>21, <1>22, <1>23
<1> QED  BY <1>23, <1>24 DEF map, P

-----------------------------------------------------------------------------
(* The passes of the page.                                                 *)

(* The page's number of a raw pass, how far it is pulled, and where the    *)
(* head stands for it.                                                     *)
Number(pg, p) == Cooked(PassMap(pg), p).pass
Pulled(pg, p) == Cooked(PassMap(pg), p).stagger
Place(pg, p)  ==
  RawStartRow(pg, p) - BandRows(pg) + pg.separation * Pulled(pg, p)

Used(pg) == FirstPremappedPass(pg) .. FirstUnusedPass(pg) - 1

(* The maps of the top and of the bottom have no pass in common, or        *)
(* nothing is pulled up.                                                   *)
Apart(pg) ==
  \/ Normal(pg) <= Postmapped(pg)
  \/ ScanPostmapped(pg) = FirstUnusedPass(pg)

(* The numbers that the parts of a page are bounded by.                    *)
LEMMA PageNumbers ==
  ASSUME NEW pg, HighPage(pg)
  PROVE  LET P == FirstPremappedPass(pg)
             N == ScanNormal(pg)
             Q == ScanPostmapped(pg)
             U == FirstUnusedPass(pg)
         IN  /\ P \in Nat /\ N \in Nat /\ Q \in Nat /\ U \in Nat
             /\ P <= N /\ N <= Q /\ Q <= U
             /\ Scanned(pg, P, N, Q, U) /\ ProperHead(pg) /\ ProperPage(pg)
             /\ Normal(pg) \in Nat /\ P <= Normal(pg) /\ N <= Normal(pg)
             /\ Postmapped(pg) \in Int /\ Postmapped(pg) <= Q
             /\ pg.separation \in Positive /\ BandRows(pg) \in Positive
             /\ BandPasses(pg) \in Positive /\ pg.jets \in Positive
             /\ pg.separation * (pg.jets - 1) = BandRows(pg) - pg.separation
             /\ PageHeight(pg) \in Nat /\ PageHeight(pg) >= pg.last + 1
             /\ TopEdge(pg) \in Nat /\ TopEdge(pg) < pg.first + pg.separation
             /\ pg.first \in Nat /\ pg.last \in Nat
             /\ pg.last - pg.first + 1 >= BandRows(pg)
             /\ \A p \in Nat : RawStartRow(pg, p) \in Nat
<1> DEFINE P == FirstPremappedPass(pg)
           N == ScanNormal(pg)
           Q == ScanPostmapped(pg)
           U == FirstUnusedPass(pg)
<1>1. ProperPage(pg) /\ ProperHead(pg)
  BY DEF HighPage, ProperPage
<1>2. Scanned(pg, P, N, Q, U)
  BY <1>1, ScansAre
<1>3. P \in Nat /\ N \in Nat /\ Q \in Nat /\ U \in Nat /\ P <= N /\ N <= Q /\ Q <= U
  BY <1>2 DEF Scanned
<1>4. /\ pg.separation \in Positive /\ BandRows(pg) \in Positive
      /\ BandPasses(pg) \in Positive /\ pg.jets \in Positive
      /\ BandRows(pg) = pg.separation * pg.jets
  BY <1>1, HeadNumbers
<1>5. pg.separation * (pg.jets - 1) = BandRows(pg) - pg.separation
  <2> DEFINE s == pg.separation
             j == pg.jets
  <2>1. s \in Int /\ j \in Int /\ BandRows(pg) = s * j
    BY <1>4 DEF Positive
  <2> HIDE DEF s, j
  <2>2. s * (j - 1) = s * j - s
    BY <2>1
  <2> QED  BY <2>1, <2>2 DEF s, j
<1>6. Normal(pg) \in Nat /\ P <= Normal(pg) /\ N <= Normal(pg)
  <2>1. CASE N > P
    BY <1>1, <1>3, <2>1, TopSize
  <2>2. CASE ~(N > P)
    BY <1>3, <2>2 DEF Normal
  <2> QED  BY <2>1, <2>2
<1>7. Postmapped(pg) \in Int /\ Postmapped(pg) <= Q
  <2>1. BottomMapped(pg) \in Nat
    BY <1>1, EdgeNumbers
  <2> QED  BY <1>3, <2>1 DEF Postmapped
<1>8. pg.first \in Nat /\ pg.last \in Nat /\ pg.last - pg.first + 1 >= BandRows(pg)
  BY DEF HighPage, ProperPage
<1>9. /\ PageHeight(pg) \in Nat /\ PageHeight(pg) >= pg.last + 1
      /\ TopEdge(pg) \in Nat /\ TopEdge(pg) < pg.first + pg.separation
  <2> DEFINE y == pg.separation * TopSeps(pg)
  <2>1. /\ PageHeight(pg) \in Nat /\ PageHeight(pg) >= pg.last + 1
        /\ TopEdge(pg) \in Nat /\ TopSeps(pg) \in Nat /\ y <= pg.first
    BY <1>1, EdgeNumbers
  <2>2. y \in Int /\ TopEdge(pg) = pg.separation - 1 + y
    BY <1>4, <2>1 DEF TopEdge, Positive
  <2> HIDE DEF y
  <2> QED  BY <1>4, <1>8, <2>1, <2>2 DEF Positive
<1>10. \A p \in Nat : RawStartRow(pg, p) \in Nat
  BY <1>1, StartIs
<1> QED  BY <1>1, <1>2, <1>3, <1>4, <1>5, <1>6, <1>7, <1>8, <1>9, <1>10

(* The passes of the top.                                                  *)
LEMMA TopRegion ==
  ASSUME NEW pg, HighPage(pg), Apart(pg)
  PROVE  \A p \in Used(pg) : p < Normal(pg) =>
           /\ FirstPremappedPass(pg) < ScanNormal(pg)
           /\ p < ScanPostmapped(pg)
           /\ Number(pg, p) \in Nat /\ Number(pg, p) < BandPasses(pg)
           /\ Number(pg, p) < Normal(pg) - FirstPremappedPass(pg)
           /\ Number(pg, p) >= p - FirstPremappedPass(pg) - (BandPasses(pg) - 1)
           /\ Pulled(pg, p) \in Nat /\ Place(pg, p) \in Nat
           /\ Place(pg, p) + pg.separation * (pg.jets - 1) < PageHeight(pg)
           /\ Pulled(pg, p) > 0 => Place(pg, p) <= TopEdge(pg)
           /\ \/ Place(pg, p) <= TopEdge(pg)
              \/ Number(pg, p) >= p - FirstPremappedPass(pg)
           /\ \A q \in Used(pg) : q < Normal(pg) =>
                /\ Number(pg, p) = Number(pg, q) => p = q
                /\ Number(pg, p) < Number(pg, q) => Place(pg, p) <= Place(pg, q)
<1> DEFINE P == FirstPremappedPass(pg)
           N == ScanNormal(pg)
           Q == ScanPostmapped(pg)
           U == FirstUnusedPass(pg)
           n == Normal(pg)
           sep == pg.separation
           BR == BandRows(pg)
           BP == BandPasses(pg)
           z == sep * (pg.jets - 1)
           map == PassMap(pg).premap
           R == P .. n - 1
<1>1. /\ P \in Nat /\ N \in Nat /\ Q \in Nat /\ U \in Nat
      /\ P <= N /\ N <= Q /\ Q <= U
      /\ Scanned(pg, P, N, Q, U) /\ ProperPage(pg)
      /\ n \in Nat /\ P <= n /\ N <= n
      /\ Postmapped(pg) \in Int /\ Postmapped(pg) <= Q
      /\ sep \in Positive /\ BR \in Positive /\ BP \in Positive /\ z = BR - sep
      /\ PageHeight(pg) \in Nat /\ PageHeight(pg) >= pg.last + 1
      /\ TopEdge(pg) \in Nat /\ TopEdge(pg) < pg.first + sep
      /\ pg.first \in Nat /\ pg.last \in Nat /\ pg.last - pg.first + 1 >= BR
      /\ \A p \in Nat : RawStartRow(pg, p) \in Nat
  BY PageNumbers
<1> SUFFICES ASSUME N > P
             PROVE  \A p \in Used(pg) : p < n =>
               /\ P < N
               /\ p < Q
               /\ Number(pg, p) \in Nat /\ Number(pg, p) < BP
               /\ Number(pg, p) < n - P
               /\ Number(pg, p) >= p - P - (BP - 1)
               /\ Pulled(pg, p) \in Nat /\ Place(pg, p) \in Nat
               /\ Place(pg, p) + z < PageHeight(pg)
               /\ Pulled(pg, p) > 0 => Place(pg, p) <= TopEdge(pg)
               /\ \/ Place(pg, p) <= TopEdge(pg)
                  \/ Number(pg, p) >= p - P
               /\ \A q \in Used(pg) : q < n =>
                    /\ Number(pg, p) = Number(pg, q) => p = q
                    /\ Number(pg, p) < Number(pg, q) =>
                         Place(pg, p) <= Place(pg, q)
  <2>1. CASE N > P
    BY <2>1, Zenon
  <2>2. CASE ~(N > P)
    <3>1. n = N /\ N = P
      BY <1>1, <2>2 DEF Normal
    <3>2. \A p \in Used(pg) : ~(p < n)
      BY <1>1, <3>1 DEF Used
    <3> QED  BY <3>2
  <2> QED  BY <2>1, <2>2
<1>2. PICK number, final : TopArranged(pg, number, final)
  BY <1>1, TopPasses
<1>3. n - P <= BP /\ P < n
  BY <1>1, TopSize
<1> HIDE DEF P, N, Q, U, n, sep, BR, BP, z, map
<1>4. /\ number \in [R -> 1 .. n - P]
      /\ \A p \in R :
           /\ map[p].pass = number[p] - 1 + P - P
           /\ map[p].stagger \in Int /\ final[p] \in Int
           /\ final[p] = RawStartRow(pg, p) - BR + sep * map[p].stagger
      /\ \A p \in R, q \in R :
           /\ number[p] = number[q] => p = q
           /\ number[p] < number[q] => final[p] <= final[q]
  BY <1>2, Zenon DEF TopArranged, Arranged, P, n, map, sep, BR
<1>5. \A p \in R :
        /\ map[p].stagger >= 0 /\ final[p] >= 0
        /\ map[p].stagger > 0 => final[p] <= TopEdge(pg)
        /\ final[p] <= TopEdge(pg) \/ number[p] - 1 >= p - P
  BY <1>2, Zenon DEF TopArranged, P, n, map
<1>6. ASSUME NEW p \in Used(pg), p < n
      PROVE  /\ p \in R /\ p \in Nat /\ p >= P /\ p < Q
             /\ number[p] \in Int /\ number[p] >= 1 /\ number[p] <= n - P
             /\ Number(pg, p) = number[p] - 1
             /\ Pulled(pg, p) = map[p].stagger
             /\ Place(pg, p) = final[p]
             /\ RawStartRow(pg, p) \in Nat
  <2>1. p \in Nat /\ p >= P /\ p < U
    BY <1>1 DEF Used, P, U
  <2>2. p \in R
    BY <1>1, <1>6, <2>1
  <2>3. p < Q
    <3>1. CASE n <= Postmapped(pg)
      BY <1>1, <1>6, <2>1, <3>1
    <3>2. CASE Q = U
      BY <2>1, <3>2
    <3> QED  BY <3>1, <3>2 DEF Apart, n, Q, U
  <2>4. number[p] \in 1 .. n - P
    BY <1>4, <2>2
  <2>5. number[p] \in Int /\ number[p] >= 1 /\ number[p] <= n - P
    BY <1>1, <2>4
  <2>6. Cooked(PassMap(pg), p) = map[p]
    <3>1. PassMap(pg).normal = n
      BY PassMapIs DEF n
    <3> QED  BY <1>6, <3>1, Zenon DEF Cooked, map
  <2>7. Number(pg, p) = map[p].pass /\ Pulled(pg, p) = map[p].stagger
    BY <2>6, Zenon DEF Number, Pulled
  <2>8. map[p].pass = number[p] - 1
    <3>1. map[p].pass = number[p] - 1 + P - P
      BY <1>4, <2>2, Zenon
    <3> QED  BY <1>1, <2>5, <3>1
  <2>9. Place(pg, p) = final[p]
    <3>1. final[p] = RawStartRow(pg, p) - BR + sep * map[p].stagger
      BY <1>4, <2>2, Zenon
    <3> QED  BY <2>7, <3>1, Zenon DEF Place, BR, sep
  <2> QED  BY <1>1, <2>1, <2>2, <2>3, <2>5, <2>7, <2>8, <2>9
<1>7. ASSUME NEW p \in Used(pg), p < n
      PROVE  /\ Number(pg, p) \in Nat /\ Number(pg, p) < BP
             /\ Number(pg, p) < n - P
             /\ Number(pg, p) >= p - P - (BP - 1)
             /\ Pulled(pg, p) \in Nat /\ Place(pg, p) \in Nat
             /\ Pulled(pg, p) > 0 => Place(pg, p) <= TopEdge(pg)
             /\ Place(pg, p) <= TopEdge(pg) \/ Number(pg, p) >= p - P
  <2>1. /\ p \in R /\ p \in Nat /\ p >= P
        /\ number[p] \in Int /\ number[p] >= 1 /\ number[p] <= n - P
        /\ Number(pg, p) = number[p] - 1
        /\ Pulled(pg, p) = map[p].stagger
        /\ Place(pg, p) = final[p]
    BY <1>6, <1>7
  <2>2. /\ map[p].stagger \in Int /\ final[p] \in Int
        /\ map[p].stagger >= 0 /\ final[p] >= 0
        /\ map[p].stagger > 0 => final[p] <= TopEdge(pg)
        /\ final[p] <= TopEdge(pg) \/ number[p] - 1 >= p - P
    BY <1>4, <1>5, <2>1
  <2>3. Number(pg, p) \in Nat /\ Number(pg, p) < n - P
    BY <1>1, <2>1
  <2>4. Number(pg, p) < BP /\ Number(pg, p) >= p - P - (BP - 1)
    BY <1>1, <1>3, <1>7, <2>1, <2>3 DEF Positive
  <2>5. Place(pg, p) <= TopEdge(pg) \/ Number(pg, p) >= p - P
    BY <2>1, <2>2
  <2> QED  BY <2>1, <2>2, <2>3, <2>4, <2>5
<1>8. ASSUME NEW p \in Used(pg), p < n
      PROVE  Place(pg, p) + z < PageHeight(pg)
  <2>1. p \in Nat /\ p >= P /\ p < Q /\ RawStartRow(pg, p) \in Nat
    BY <1>6, <1>8
  <2>2. /\ Pulled(pg, p) \in Nat /\ Place(pg, p) \in Nat
        /\ Pulled(pg, p) > 0 => Place(pg, p) <= TopEdge(pg)
    BY <1>7, <1>8
  <2>3. CASE Pulled(pg, p) > 0
    BY <1>1, <2>2, <2>3 DEF Positive
  <2>4. CASE Pulled(pg, p) = 0
    <3>1. RawStartRow(pg, p) - sep < PageHeight(pg)
      BY <1>1, <2>1 DEF Scanned, sep
    <3>2. Place(pg, p) = RawStartRow(pg, p) - BR + sep * 0
      BY <2>4, Zenon DEF Place, BR, sep
    <3> QED  BY <1>1, <2>1, <3>1, <3>2 DEF Positive
  <2> QED  BY <2>2, <2>3, <2>4
<1>9. ASSUME NEW p \in Used(pg), p < n, NEW q \in Used(pg), q < n
      PROVE  /\ Number(pg, p) = Number(pg, q) => p = q
             /\ Number(pg, p) < Number(pg, q) => Place(pg, p) <= Place(pg, q)
  <2>1. /\ p \in R /\ number[p] \in Int /\ Number(pg, p) = number[p] - 1
        /\ Place(pg, p) = final[p]
    BY <1>6, <1>9
  <2>2. /\ q \in R /\ number[q] \in Int /\ Number(pg, q) = number[q] - 1
        /\ Place(pg, q) = final[q]
    BY <1>6, <1>9
  <2>3. /\ number[p] = number[q] => p = q
        /\ number[p] < number[q] => final[p] <= final[q]
    BY <1>4, <2>1, <2>2, Zenon
  <2> QED  BY <2>1, <2>2, <2>3
<1>10. \A p \in Used(pg) : p < n => p < Q
  BY <1>6
<1>11. P < N
  BY <1>1
<1> HIDE DEF P, N
<1> QED  BY <1>7, <1>8, <1>9, <1>10, <1>11

(* Is the raw pass p left where it is?                                     *)
Unmoved(pg, p) ==
  /\ p >= Normal(pg)
  /\ p < Postmapped(pg) \/ ScanPostmapped(pg) = FirstUnusedPass(pg)

(* The passes in the middle.                                               *)
LEMMA MiddleRegion ==
  ASSUME NEW pg, HighPage(pg)
  PROVE  \A p \in Used(pg) : Unmoved(pg, p) =>
           /\ Number(pg, p) = p - FirstPremappedPass(pg)
           /\ Pulled(pg, p) = 0 /\ Place(pg, p) \in Nat
           /\ Place(pg, p) = RawStartRow(pg, p) - BandRows(pg)
           /\ Place(pg, p) + pg.separation * (pg.jets - 1) < PageHeight(pg)
           /\ ScanNormal(pg) <= p /\ p < ScanPostmapped(pg)
<1> SUFFICES ASSUME NEW p \in Used(pg), Unmoved(pg, p)
             PROVE  /\ Number(pg, p) = p - FirstPremappedPass(pg)
                    /\ Pulled(pg, p) = 0 /\ Place(pg, p) \in Nat
                    /\ Place(pg, p) = RawStartRow(pg, p) - BandRows(pg)
                    /\ Place(pg, p) + pg.separation * (pg.jets - 1) < PageHeight(pg)
                    /\ ScanNormal(pg) <= p /\ p < ScanPostmapped(pg)
  OBVIOUS
<1> DEFINE P == FirstPremappedPass(pg)
           N == ScanNormal(pg)
           Q == ScanPostmapped(pg)
           U == FirstUnusedPass(pg)
           n == Normal(pg)
           sep == pg.separation
           BR == BandRows(pg)
           z == sep * (pg.jets - 1)
<1>1. /\ P \in Nat /\ N \in Nat /\ Q \in Nat /\ U \in Nat
      /\ P <= N /\ N <= Q /\ Q <= U
      /\ Scanned(pg, P, N, Q, U)
      /\ n \in Nat /\ P <= n /\ N <= n
      /\ Postmapped(pg) \in Int /\ Postmapped(pg) <= Q
      /\ sep \in Positive /\ BR \in Positive /\ z = BR - sep
      /\ PageHeight(pg) \in Nat
      /\ \A q \in Nat : RawStartRow(pg, q) \in Nat
  BY PageNumbers
<1>2. p \in Nat /\ p >= P /\ p < U /\ p >= n
  BY <1>1 DEF Used, Unmoved
<1>3. p < Q
  <2>1. CASE p < Postmapped(pg)
    BY <1>1, <1>2, <2>1
  <2>2. CASE Q = U
    BY <1>2, <2>2
  <2> QED  BY <2>1, <2>2 DEF Unmoved
<1>4. Cooked(PassMap(pg), p).pass = p - P /\ Cooked(PassMap(pg), p).stagger = 0
  <2>1. /\ PassMap(pg).normal = n /\ PassMap(pg).postmapped = Postmapped(pg)
        /\ PassMap(pg).premapped = P
    BY PassMapIs
  <2>2. ~(p < PassMap(pg).normal)
    BY <1>1, <1>2, <2>1
  <2>3. CASE p < Postmapped(pg)
    <3>1. ~(p >= PassMap(pg).postmapped)
      BY <1>1, <1>2, <2>1, <2>3
    <3>2. Cooked(PassMap(pg), p) = [pass |-> p - PassMap(pg).premapped, stagger |-> 0]
      BY <2>2, <3>1, Zenon DEF Cooked
    <3> QED  BY <2>1, <3>2
  <2>4. CASE ~(p < Postmapped(pg))
    <3>1. p >= Postmapped(pg) /\ Q = U
      BY <1>1, <1>2, <2>4 DEF Unmoved
    <3>2. PassMap(pg).postmap[p].stagger = 0 /\ PassMap(pg).postmap[p].pass = p - P
      BY <1>2, <3>1, BottomIdentity
    <3>3. Cooked(PassMap(pg), p) = PassMap(pg).postmap[p]
      BY <2>1, <2>2, <3>1, Zenon DEF Cooked
    <3> QED  BY <3>2, <3>3
  <2> QED  BY <2>3, <2>4
<1>5. Number(pg, p) = p - P /\ Pulled(pg, p) = 0
  BY <1>4 DEF Number, Pulled
<1>6. Place(pg, p) = RawStartRow(pg, p) - BR
  <2>1. Place(pg, p) = RawStartRow(pg, p) - BR + sep * 0
    BY <1>5, Zenon DEF Place
  <2> QED  BY <1>1, <1>2, <2>1 DEF Positive
<1>7. RawStartRow(pg, p) >= BR /\ p >= N
  BY <1>2, OnceNormal
<1>8. RawStartRow(pg, p) - sep < PageHeight(pg)
  BY <1>1, <1>2, <1>3 DEF Scanned
<1> HIDE DEF z
<1>9. Place(pg, p) \in Nat /\ Place(pg, p) + z < PageHeight(pg)
  BY <1>1, <1>2, <1>6, <1>7, <1>8 DEF Positive
<1> QED  BY <1>3, <1>5, <1>6, <1>7, <1>9 DEF z

(* The passes of the bottom, on a page that pulls some up.                 *)
LEMMA BottomRegion ==
  ASSUME NEW pg, HighPage(pg), Normal(pg) <= Postmapped(pg)
  PROVE  \A p \in Used(pg) : p >= Postmapped(pg) =>
           /\ Number(pg, p) \in Nat
           /\ Number(pg, p) >= Postmapped(pg) - FirstPremappedPass(pg)
           /\ Number(pg, p) < FirstUnusedPass(pg) - FirstPremappedPass(pg)
           /\ Pulled(pg, p) \in Int /\ Pulled(pg, p) <= 0 /\ Place(pg, p) \in Nat
           /\ Place(pg, p) + pg.separation * (pg.jets - 1) < PageHeight(pg)
           /\ Pulled(pg, p) < 0 =>
                /\ Place(pg, p) >= BottomEdge(pg)
                /\ FirstUnusedPass(pg) - FirstPremappedPass(pg)
                     <= Number(pg, p) + BandPasses(pg)
           /\ Pulled(pg, p) = 0 => Number(pg, p) >= p - FirstPremappedPass(pg)
           /\ \/ Place(pg, p) >= BottomEdge(pg)
              \/ Number(pg, p) <= p - FirstPremappedPass(pg)
           /\ Number(pg, p) <= p - FirstPremappedPass(pg) + BandPasses(pg)
           /\ \A q \in Used(pg) : q >= Postmapped(pg) =>
                /\ Number(pg, p) = Number(pg, q) => p = q
                /\ Number(pg, p) < Number(pg, q) => Place(pg, p) <= Place(pg, q)
<1> DEFINE P == FirstPremappedPass(pg)
           U == FirstUnusedPass(pg)
           n == Normal(pg)
           post == Postmapped(pg)
           sep == pg.separation
           BR == BandRows(pg)
           BP == BandPasses(pg)
           map == PassMap(pg).postmap
           R == post .. U - 1
           z == pg.separation * (pg.jets - 1)
<1>1. /\ P \in Nat /\ U \in Nat /\ n \in Nat /\ P <= n /\ post \in Int /\ n <= post
      /\ BP \in Positive
  BY PageNumbers
<1>2. PICK number, final : BottomArranged(pg, number, final)
  BY BottomPasses
<1> HIDE DEF P, U, n, post, sep, BR, BP, map, z
<1>3. /\ number \in [R -> 1 .. U - post]
      /\ \A p \in R :
           /\ map[p].pass = number[p] - 1 + post - P
           /\ map[p].stagger \in Int /\ final[p] \in Int
           /\ final[p] = RawStartRow(pg, p) - BR + sep * map[p].stagger
      /\ \A p \in R, q \in R :
           /\ number[p] = number[q] => p = q
           /\ number[p] < number[q] => final[p] <= final[q]
  BY <1>2, Zenon DEF BottomArranged, Arranged, P, U, post, map, sep, BR
<1>4. \A p \in R :
        /\ map[p].stagger <= 0 /\ final[p] >= 0
        /\ final[p] + z < PageHeight(pg)
        /\ map[p].stagger < 0 => /\ final[p] >= BottomEdge(pg)
                                 /\ number[p] >= U - post + 1 - BP
        /\ map[p].stagger = 0 => number[p] >= p - post + 1
        /\ final[p] >= BottomEdge(pg) \/ number[p] <= p - post + 1
        /\ number[p] <= p - post + 1 + BP
  BY <1>2, Zenon DEF BottomArranged, U, post, map, BP, z
<1>5. ASSUME NEW p \in Used(pg), p >= post
      PROVE  /\ p \in R /\ p \in Nat /\ p < U
             /\ number[p] \in Int /\ number[p] >= 1 /\ number[p] <= U - post
             /\ Number(pg, p) = number[p] - 1 + post - P
             /\ Pulled(pg, p) = map[p].stagger
             /\ Place(pg, p) = final[p]
  <2>1. p \in Nat /\ p < U
    BY <1>1 DEF Used, P, U
  <2>2. p \in R
    BY <1>1, <1>5, <2>1
  <2>3. number[p] \in 1 .. U - post
    BY <1>3, <2>2
  <2>4. number[p] \in Int /\ number[p] >= 1 /\ number[p] <= U - post
    BY <1>1, <2>3
  <2>5. Cooked(PassMap(pg), p) = map[p]
    <3>1. PassMap(pg).normal = n /\ PassMap(pg).postmapped = post
      BY PassMapIs DEF n, post
    <3>2. ~(p < n)
      BY <1>1, <1>5, <2>1
    <3> QED  BY <1>5, <3>1, <3>2, Zenon DEF Cooked, map
  <2>6. Number(pg, p) = map[p].pass /\ Pulled(pg, p) = map[p].stagger
    BY <2>5, Zenon DEF Number, Pulled
  <2>7. map[p].pass = number[p] - 1 + post - P
    BY <1>3, <2>2, Zenon
  <2>8. Place(pg, p) = final[p]
    <3>1. final[p] = RawStartRow(pg, p) - BR + sep * map[p].stagger
      BY <1>3, <2>2, Zenon
    <3> QED  BY <2>6, <3>1, Zenon DEF Place, BR, sep
  <2> QED  BY <2>1, <2>2, <2>4, <2>6, <2>7, <2>8
<1>6. ASSUME NEW p \in Used(pg), p >= post
      PROVE  /\ Number(pg, p) \in Nat /\ Number(pg, p) >= post - P
             /\ Number(pg, p) < U - P
             /\ Pulled(pg, p) \in Int /\ Pulled(pg, p) <= 0 /\ Place(pg, p) \in Nat
             /\ Place(pg, p) + z < PageHeight(pg)
             /\ Pulled(pg, p) < 0 => /\ Place(pg, p) >= BottomEdge(pg)
                                     /\ U - P <= Number(pg, p) + BP
             /\ Pulled(pg, p) = 0 => Number(pg, p) >= p - P
             /\ Place(pg, p) >= BottomEdge(pg) \/ Number(pg, p) <= p - P
             /\ Number(pg, p) <= p - P + BP
  <2>1. /\ p \in R /\ p \in Nat /\ p < U
        /\ number[p] \in Int /\ number[p] >= 1 /\ number[p] <= U - post
        /\ Number(pg, p) = number[p] - 1 + post - P
        /\ Pulled(pg, p) = map[p].stagger
        /\ Place(pg, p) = final[p]
    BY <1>5, <1>6
  <2>2. /\ map[p].stagger \in Int /\ final[p] \in Int
        /\ map[p].stagger <= 0 /\ final[p] >= 0
        /\ final[p] + z < PageHeight(pg)
        /\ map[p].stagger < 0 => /\ final[p] >= BottomEdge(pg)
                                 /\ number[p] >= U - post + 1 - BP
        /\ map[p].stagger = 0 => number[p] >= p - post + 1
        /\ final[p] >= BottomEdge(pg) \/ number[p] <= p - post + 1
        /\ number[p] <= p - post + 1 + BP
    BY <1>3, <1>4, <2>1
  <2>3. /\ Number(pg, p) \in Nat /\ Number(pg, p) >= post - P
        /\ Number(pg, p) < U - P
    BY <1>1, <2>1
  <2>4. Pulled(pg, p) < 0 => /\ Place(pg, p) >= BottomEdge(pg)
                             /\ U - P <= Number(pg, p) + BP
    BY <1>1, <2>1, <2>2 DEF Positive
  <2>5. Pulled(pg, p) = 0 => Number(pg, p) >= p - P
    BY <1>1, <2>1, <2>2
  <2>6. Place(pg, p) >= BottomEdge(pg) \/ Number(pg, p) <= p - P
    BY <1>1, <2>1, <2>2
  <2>7. Number(pg, p) <= p - P + BP
    BY <1>1, <2>1, <2>2 DEF Positive
  <2>8. /\ Pulled(pg, p) \in Int /\ Pulled(pg, p) <= 0 /\ Place(pg, p) \in Nat
        /\ Place(pg, p) + z < PageHeight(pg)
    <3>1. final[p] \in Nat
      BY <2>2
    <3> QED  BY <2>1, <2>2, <3>1
  <2> QED  BY <2>3, <2>4, <2>5, <2>6, <2>7, <2>8
<1>7. ASSUME NEW p \in Used(pg), p >= post, NEW q \in Used(pg), q >= post
      PROVE  /\ Number(pg, p) = Number(pg, q) => p = q
             /\ Number(pg, p) < Number(pg, q) => Place(pg, p) <= Place(pg, q)
  <2>1. /\ p \in R /\ number[p] \in Int /\ Number(pg, p) = number[p] - 1 + post - P
        /\ Place(pg, p) = final[p]
    BY <1>5, <1>7
  <2>2. /\ q \in R /\ number[q] \in Int /\ Number(pg, q) = number[q] - 1 + post - P
        /\ Place(pg, q) = final[q]
    BY <1>5, <1>7
  <2>3. /\ number[p] = number[q] => p = q
        /\ number[p] < number[q] => final[p] <= final[q]
    BY <1>3, <2>1, <2>2, Zenon
  <2> QED  BY <1>1, <2>1, <2>2, <2>3
<1> QED  BY <1>6, <1>7 DEF P, U, post, BP, z

(* Every pass of the page is of the top, of the middle or of the bottom.   *)
LEMMA Regions ==
  ASSUME NEW pg, HighPage(pg), Apart(pg), NEW p \in Used(pg)
  PROVE  /\ p \in Nat
         /\ \/ p < Normal(pg)
            \/ Unmoved(pg, p)
            \/ Normal(pg) <= Postmapped(pg) /\ p >= Postmapped(pg)
<1>1. /\ FirstPremappedPass(pg) \in Nat /\ FirstUnusedPass(pg) \in Nat
      /\ Normal(pg) \in Nat /\ Postmapped(pg) \in Int
  BY PageNumbers
<1>2. p \in Nat
  BY <1>1 DEF Used
<1> QED  BY <1>1, <1>2 DEF Unmoved, Apart

(* Where a pass of the page stands, and how far its number may differ from *)
(* its place in the raw weave.                                             *)
LEMMA PassFacts ==
  ASSUME NEW pg, HighPage(pg), Apart(pg), NEW p \in Used(pg)
  PROVE  LET P == FirstPremappedPass(pg)
             BP == BandPasses(pg)
         IN  /\ Number(pg, p) \in Nat /\ Pulled(pg, p) \in Int
             /\ Place(pg, p) \in Nat
             /\ Place(pg, p) + pg.separation * (pg.jets - 1) < PageHeight(pg)
             /\ Pulled(pg, p) > 0 => Place(pg, p) <= TopEdge(pg)
             /\ Pulled(pg, p) < 0 => Place(pg, p) >= BottomEdge(pg)
             /\ \/ Pulled(pg, p) < 0
                \/ Place(pg, p) <= TopEdge(pg)
                \/ Number(pg, p) >= p - P
             /\ Pulled(pg, p) < 0 \/ Number(pg, p) >= p - P - (BP - 1)
             /\ \/ Number(pg, p) < BP
                \/ Place(pg, p) >= BottomEdge(pg)
                \/ Number(pg, p) <= p - P
             /\ Number(pg, p) < BP \/ Number(pg, p) <= p - P + BP
<1> DEFINE P == FirstPremappedPass(pg)
           BP == BandPasses(pg)
           fits == Place(pg, p) + pg.separation * (pg.jets - 1) < PageHeight(pg)
<1>1. BP \in Positive /\ P \in Nat
  BY PageNumbers
<1>2. p \in Nat
  BY Regions
<1>3. CASE p < Normal(pg)
  <2>1. /\ Number(pg, p) \in Nat /\ Number(pg, p) < BP
        /\ Number(pg, p) >= p - P - (BP - 1)
        /\ Pulled(pg, p) \in Nat /\ Place(pg, p) \in Nat /\ fits
        /\ Pulled(pg, p) > 0 => Place(pg, p) <= TopEdge(pg)
        /\ Place(pg, p) <= TopEdge(pg) \/ Number(pg, p) >= p - P
    BY <1>3, TopRegion
  <2>2. ~(Pulled(pg, p) < 0) /\ Pulled(pg, p) \in Int
    BY <2>1
  <2> QED  BY <2>1, <2>2
<1>4. CASE Unmoved(pg, p)
  <2>1. /\ Number(pg, p) = p - P /\ Pulled(pg, p) = 0 /\ Place(pg, p) \in Nat
        /\ fits
    BY <1>4, MiddleRegion
  <2>2. p >= P
    BY <1>1, PageNumbers DEF Used
  <2>3. p - P >= p - P - (BP - 1) /\ p - P \in Nat
    BY <1>1, <1>2, <2>2 DEF Positive
  <2>4. /\ Number(pg, p) \in Nat /\ Number(pg, p) >= p - P
        /\ Number(pg, p) >= p - P - (BP - 1) /\ Number(pg, p) <= p - P
        /\ Number(pg, p) <= p - P + BP
    BY <1>1, <1>2, <2>1, <2>3 DEF Positive
  <2>5. Pulled(pg, p) \in Int /\ ~(Pulled(pg, p) > 0) /\ ~(Pulled(pg, p) < 0)
    BY <2>1
  <2> QED  BY <2>1, <2>4, <2>5, Zenon
<1>5. CASE Normal(pg) <= Postmapped(pg) /\ p >= Postmapped(pg)
  <2>1. /\ Number(pg, p) \in Nat
        /\ Pulled(pg, p) \in Int /\ Pulled(pg, p) <= 0 /\ Place(pg, p) \in Nat
        /\ fits
        /\ Pulled(pg, p) < 0 => Place(pg, p) >= BottomEdge(pg)
        /\ Pulled(pg, p) = 0 => Number(pg, p) >= p - P
        /\ Place(pg, p) >= BottomEdge(pg) \/ Number(pg, p) <= p - P
        /\ Number(pg, p) <= p - P + BP
    BY <1>5, BottomRegion
  <2>2. Pulled(pg, p) = 0 => Number(pg, p) >= p - P - (BP - 1)
    BY <1>1, <1>2, <2>1 DEF Positive
  <2>3. /\ ~(Pulled(pg, p) > 0)
        /\ Pulled(pg, p) < 0 \/ Pulled(pg, p) = 0
    BY <2>1
  <2> QED  BY <2>1, <2>2, <2>3, Zenon
<1> QED  BY <1>3, <1>4, <1>5, Regions

(* No two passes have the same number, and a pass that is pulled up is     *)
(* among the last ones.                                                    *)
LEMMA PassNumbers ==
  ASSUME NEW pg, HighPage(pg), Apart(pg), NEW p \in Used(pg), NEW q \in Used(pg)
  PROVE  /\ Number(pg, p) = Number(pg, q) => p = q
         /\ Pulled(pg, p) < 0 => Number(pg, q) < Number(pg, p) + BandPasses(pg)
<1> DEFINE P == FirstPremappedPass(pg)
           U == FirstUnusedPass(pg)
           n == Normal(pg)
           post == Postmapped(pg)
           BP == BandPasses(pg)
           Low(x) == x < n
           High(x) == n <= post /\ x >= post
<1>1. /\ P \in Nat /\ U \in Nat /\ n \in Nat /\ P <= n /\ post \in Int
      /\ BP \in Positive
      /\ ScanPostmapped(pg) \in Nat /\ post <= ScanPostmapped(pg)
      /\ ScanPostmapped(pg) <= U
  BY PageNumbers
<1>2. ASSUME NEW x \in Used(pg), Low(x)
      PROVE  x \in Nat /\ Number(pg, x) \in Nat /\ Number(pg, x) < n - P
             /\ Pulled(pg, x) \in Nat /\ Number(pg, x) < BP
  BY <1>2, TopRegion, Regions
<1>3. ASSUME NEW x \in Used(pg), Unmoved(pg, x)
      PROVE  x \in Nat /\ Number(pg, x) = x - P /\ Pulled(pg, x) = 0
             /\ x >= n /\ x < U /\ (x < post \/ ScanPostmapped(pg) = U)
  <2>1. x \in Nat /\ Number(pg, x) = x - P /\ Pulled(pg, x) = 0
    BY <1>3, MiddleRegion, Regions
  <2> QED  BY <1>1, <1>3, <2>1 DEF Unmoved, Used
<1>4. ASSUME NEW x \in Used(pg), High(x)
      PROVE  /\ x \in Nat /\ Number(pg, x) \in Nat /\ Number(pg, x) >= post - P
             /\ Number(pg, x) < U - P
             /\ Pulled(pg, x) < 0 => U - P <= Number(pg, x) + BP
  BY <1>4, BottomRegion, Regions
<1>5. ASSUME NEW x \in Used(pg) PROVE x \in Nat /\ (Low(x) \/ Unmoved(pg, x) \/ High(x))
  BY Regions
<1>6. ASSUME NEW x \in Used(pg), NEW y \in Used(pg), Low(x), Low(y)
      PROVE  Number(pg, x) = Number(pg, y) => x = y
  BY <1>6, TopRegion
<1>7. ASSUME NEW x \in Used(pg), NEW y \in Used(pg), High(x), High(y)
      PROVE  Number(pg, x) = Number(pg, y) => x = y
  BY <1>7, BottomRegion
<1>8. ASSUME NEW x \in Used(pg), NEW y \in Used(pg), Low(x), ~Low(y)
      PROVE  Number(pg, x) < Number(pg, y)
  <2>1. Number(pg, x) \in Nat /\ Number(pg, x) < n - P
    BY <1>2, <1>8
  <2>2. CASE Unmoved(pg, y)
    BY <1>1, <1>3, <2>1, <2>2
  <2>3. CASE High(y)
    BY <1>1, <1>4, <2>1, <2>3
  <2> QED  BY <1>5, <1>8, <2>2, <2>3
<1>9. ASSUME NEW x \in Used(pg), NEW y \in Used(pg), ~Low(x), ~Low(y)
      PROVE  Number(pg, x) = Number(pg, y) => x = y
  <2>1. CASE ScanPostmapped(pg) = U
    <3>1. x \in Nat /\ y \in Nat
      BY <1>5
    <3>2. Unmoved(pg, x) /\ Unmoved(pg, y)
      BY <1>1, <1>9, <2>1, <3>1 DEF Unmoved
    <3> QED  BY <1>1, <1>3, <3>2
  <2>2. CASE Unmoved(pg, x) /\ Unmoved(pg, y)
    BY <1>1, <1>3, <2>2
  <2>3. CASE High(x) /\ High(y)
    BY <1>7, <2>3
  <2>4. CASE ~(ScanPostmapped(pg) = U) /\ Unmoved(pg, x) /\ High(y)
    BY <1>1, <1>3, <1>4, <2>4
  <2>5. CASE ~(ScanPostmapped(pg) = U) /\ High(x) /\ Unmoved(pg, y)
    BY <1>1, <1>3, <1>4, <2>5
  <2> QED  BY <1>5, <1>9, <2>1, <2>2, <2>3, <2>4, <2>5
<1>10. Number(pg, p) = Number(pg, q) => p = q
  <2>0. Number(pg, p) \in Nat /\ Number(pg, q) \in Nat
    BY PassFacts
  <2>1. CASE Low(p) /\ Low(q)
    BY <1>6, <2>1
  <2>2. CASE Low(p) /\ ~Low(q)
    BY <1>8, <2>0, <2>2
  <2>3. CASE ~Low(p) /\ Low(q)
    BY <1>8, <2>0, <2>3
  <2>4. CASE ~Low(p) /\ ~Low(q)
    BY <1>9, <2>4
  <2> QED  BY <2>1, <2>2, <2>3, <2>4
<1>11. Pulled(pg, p) < 0 => Number(pg, q) < Number(pg, p) + BP
  <2> SUFFICES ASSUME Pulled(pg, p) < 0
               PROVE  Number(pg, q) < Number(pg, p) + BP
    OBVIOUS
  <2>1. ~Low(p) /\ ~Unmoved(pg, p)
    <3>1. ASSUME Low(p) PROVE FALSE
      <4>1. Pulled(pg, p) \in Nat
        BY <1>2, <3>1
      <4> QED  BY <4>1
    <3>2. ASSUME Unmoved(pg, p) PROVE FALSE
      <4>1. Pulled(pg, p) = 0
        BY <1>3, <3>2
      <4> QED  BY <4>1
    <3> QED  BY <3>1, <3>2
  <2>2. High(p)
    BY <1>5, <2>1
  <2>3. Number(pg, p) \in Nat /\ U - P <= Number(pg, p) + BP
    BY <1>4, <2>2
  <2>4. Number(pg, q) \in Nat /\ Number(pg, q) < U - P
    <3>1. CASE Low(q)
      <4>1. n <= U
        BY <1>1, <2>2
      <4> QED  BY <1>1, <1>2, <3>1, <4>1
    <3>2. CASE Unmoved(pg, q)
      BY <1>1, <1>3, <3>2
    <3>3. CASE High(q)
      BY <1>4, <3>3
    <3> QED  BY <1>5, <3>1, <3>2, <3>3
  <2> QED  BY <1>1, <2>3, <2>4 DEF Positive
<1> QED  BY <1>10, <1>11

(* The passes in the order of their numbers never go back up the page.     *)
LEMMA PassOrder ==
  ASSUME NEW pg, HighPage(pg), Apart(pg),
         pg.last - pg.first + 1 >= BandRows(pg) + pg.separation,
         NEW p \in Used(pg), NEW q \in Used(pg), Number(pg, p) < Number(pg, q)
  PROVE  Place(pg, p) <= Place(pg, q)
<1> DEFINE P == FirstPremappedPass(pg)
           N == ScanNormal(pg)
           Q == ScanPostmapped(pg)
           U == FirstUnusedPass(pg)
           n == Normal(pg)
           post == Postmapped(pg)
           BR == BandRows(pg)
           sep == pg.separation
           H == PageHeight(pg)
           te == TopEdge(pg)
           be == BottomEdge(pg)
           Low(x) == x < n
           High(x) == n <= post /\ x >= post
           S(x) == RawStartRow(pg, x)
           L(x) == Place(pg, x)
<1>1. /\ P \in Nat /\ N \in Nat /\ Q \in Nat /\ U \in Nat
      /\ n \in Nat /\ post \in Int /\ post <= Q /\ N <= n
      /\ BR \in Positive /\ sep \in Positive
      /\ sep * (pg.jets - 1) = BR - sep
      /\ H \in Nat /\ H >= pg.last + 1
      /\ te \in Nat /\ te < pg.first + sep
      /\ pg.first \in Nat /\ pg.last \in Nat
      /\ Scanned(pg, P, N, Q, U) /\ ProperHead(pg) /\ ProperPage(pg)
      /\ \A x \in Nat : S(x) \in Nat
  BY PageNumbers
<1>2. be \in Nat /\ be >= pg.last + 1 - BR
  BY BottomNumbers
<1>3. te < be
  BY <1>1, <1>2 DEF Positive
<1>4. ASSUME NEW x \in Used(pg)
      PROVE  x \in Nat /\ P <= x /\ x < U /\ (Low(x) \/ Unmoved(pg, x) \/ High(x))
             /\ Number(pg, x) \in Nat /\ L(x) \in Nat /\ S(x) \in Nat
  <2>1. x \in Nat /\ (Low(x) \/ Unmoved(pg, x) \/ High(x))
    BY Regions
  <2>2. P <= x /\ x < U
    BY <1>1 DEF Used
  <2>3. Number(pg, x) \in Nat /\ L(x) \in Nat
    BY PassFacts
  <2> QED  BY <1>1, <2>1, <2>2, <2>3
<1> HIDE DEF L
<1>5. ASSUME NEW x \in Used(pg), Low(x)
      PROVE  /\ P < N
             /\ Number(pg, x) < n - P
             /\ L(x) <= te \/ L(x) = S(x) - BR
  <2>1. /\ P < N /\ Number(pg, x) < n - P
        /\ Pulled(pg, x) \in Nat /\ (Pulled(pg, x) > 0 => Place(pg, x) <= te)
    BY <1>5, TopRegion
  <2>2. CASE Pulled(pg, x) = 0
    <3>1. Place(pg, x) = S(x) - BR + sep * 0
      BY <2>2, Zenon DEF Place
    <3>2. S(x) \in Nat
      BY <1>4
    <3>3. Place(pg, x) = S(x) - BR
      BY <1>1, <3>1, <3>2 DEF Positive
    <3> QED  BY <2>1, <3>3 DEF L
  <2> QED  BY <2>1, <2>2 DEF L
<1>6. ASSUME NEW x \in Used(pg), Unmoved(pg, x)
      PROVE  /\ Number(pg, x) = x - P /\ L(x) = S(x) - BR
             /\ N <= x /\ x < Q /\ x >= n
             /\ x < post \/ Q = U
  <2>1. Number(pg, x) = x - P /\ L(x) = S(x) - BR /\ N <= x /\ x < Q
    BY <1>6, MiddleRegion DEF L
  <2> QED  BY <1>6, <2>1 DEF Unmoved
<1>7. ASSUME NEW x \in Used(pg), High(x)
      PROVE  /\ Number(pg, x) >= post - P
             /\ \/ L(x) >= be
                \/ L(x) = S(x) - BR /\ x < Q
  <2>1. /\ Number(pg, x) >= post - P
        /\ Pulled(pg, x) \in Int /\ Pulled(pg, x) <= 0
        /\ Place(pg, x) + sep * (pg.jets - 1) < H
        /\ Pulled(pg, x) < 0 => Place(pg, x) >= be
    BY <1>7, BottomRegion
  <2>2. CASE Pulled(pg, x) = 0
    <3>1. Place(pg, x) = S(x) - BR + sep * 0
      BY <2>2, Zenon DEF Place
    <3>2. S(x) \in Nat /\ x \in Nat /\ x < U
      BY <1>4
    <3>3. Place(pg, x) = S(x) - BR
      BY <1>1, <3>1, <3>2 DEF Positive
    <3> DEFINE z == sep * (pg.jets - 1)
    <3>4. Place(pg, x) + z < H /\ z = BR - sep
      BY <1>1, <2>1
    <3> HIDE DEF z
    <3>5. S(x) - sep < H
      BY <1>1, <3>2, <3>3, <3>4 DEF Positive
    <3>6. x < Q
      <4>1. CASE x >= Q
        <5>1. S(x) - sep >= H
          BY <1>1, <3>2, <4>1 DEF Scanned
        <5> QED  BY <1>1, <3>2, <3>5, <5>1 DEF Positive
      <4> QED  BY <1>1, <3>2, <4>1
    <3> QED  BY <2>1, <3>3, <3>6 DEF L
  <2> QED  BY <2>1, <2>2 DEF L
<1>8. ASSUME NEW x \in Used(pg), NEW y \in Used(pg), x < y PROVE S(x) < S(y)
  BY <1>1, <1>4, <1>8, StartsRise
<1>9. ASSUME NEW x \in Used(pg), P < N, x >= n, x < Q
      PROVE  S(x) - BR > te
  <2>1. N < Q /\ x \in Nat
    BY <1>1, <1>4, <1>9
  <2>2. S(n) - BR > te
    BY <1>1, <1>9, <2>1, TopSize
  <2>3. S(n) <= S(x)
    BY <1>1, <1>9, <2>1, StartsRise
  <2> QED  BY <1>1, <2>1, <2>2, <2>3 DEF Positive
<1>10. ASSUME NEW x \in Used(pg), x < post PROVE S(x) - BR <= be
  <2>1. x \in Nat /\ x >= P
    BY <1>4
  <2> QED  BY <1>1, <1>10, <2>1, BottomSize
<1> USE DEF Positive
<1>11. CASE Low(p) /\ Low(q)
  BY <1>11, TopRegion DEF L
<1>12. CASE Low(p) /\ ~Low(q)
  <2>1. /\ P < N /\ (L(p) <= te \/ L(p) = S(p) - BR) /\ p < q /\ q >= n
        /\ p \in Nat /\ q \in Nat /\ L(p) \in Nat /\ L(q) \in Nat
        /\ S(p) \in Nat /\ S(q) \in Nat
    BY <1>1, <1>4, <1>5, <1>12
  <2>2. S(p) < S(q)
    BY <1>8, <2>1
  <2>3. CASE L(q) = S(q) - BR /\ q < Q
    <3>1. S(q) - BR > te
      BY <1>9, <2>1, <2>3
    <3>2. L(p) <= L(q)
      BY <1>1, <2>1, <2>2, <2>3, <3>1
    <3> QED  BY <3>2 DEF L
  <2>4. CASE L(q) >= be /\ n <= post
    <3>1. S(p) - BR <= be
      BY <1>1, <1>10, <1>12, <2>1, <2>4
    <3>2. L(p) <= L(q)
      BY <1>1, <1>2, <1>3, <2>1, <2>4, <3>1
    <3> QED  BY <3>2 DEF L
  <2>5. CASE Unmoved(pg, q)
    BY <1>6, <2>3, <2>5
  <2>6. CASE High(q)
    BY <1>7, <2>3, <2>4, <2>6
  <2> QED  BY <1>4, <1>12, <2>5, <2>6
<1>13. CASE ~Low(p) /\ Low(q)
  <2>1. Number(pg, q) < n - P /\ Number(pg, p) \in Nat /\ Number(pg, q) \in Nat
        /\ p \in Nat
    BY <1>4, <1>5, <1>13
  <2>2. CASE Unmoved(pg, p)
    BY <1>1, <1>6, <2>1, <2>2
  <2>3. CASE High(p)
    BY <1>1, <1>7, <2>1, <2>3
  <2> QED  BY <1>4, <1>13, <2>2, <2>3
<1>14. CASE Unmoved(pg, p) /\ Unmoved(pg, q)
  <2>1. /\ L(p) = S(p) - BR /\ L(q) = S(q) - BR /\ p < q
        /\ S(p) \in Nat /\ S(q) \in Nat
    BY <1>1, <1>4, <1>6, <1>14
  <2>2. L(p) <= L(q)
    BY <1>1, <1>8, <2>1
  <2> QED  BY <2>2 DEF L
<1>15. CASE High(p) /\ High(q)
  BY <1>15, BottomRegion
<1>16. CASE Q # U /\ Unmoved(pg, p) /\ High(q)
  <2>1. /\ L(p) = S(p) - BR /\ p < post /\ p < q /\ n <= post
        /\ p \in Nat /\ q \in Nat /\ L(q) \in Nat
        /\ S(p) \in Nat /\ S(q) \in Nat
    BY <1>1, <1>4, <1>6, <1>16
  <2>2. S(p) < S(q) /\ S(p) - BR <= be
    BY <1>8, <1>10, <2>1
  <2>3. L(p) <= L(q)
    BY <1>1, <1>2, <1>7, <1>16, <2>1, <2>2
  <2> QED  BY <2>3 DEF L
<1>17. CASE Q # U /\ High(p) /\ Unmoved(pg, q)
  <2>1. Number(pg, p) >= post - P /\ Number(pg, q) = q - P /\ q < post
        /\ q \in Nat /\ Number(pg, p) \in Nat
    BY <1>4, <1>6, <1>7, <1>17
  <2> QED  BY <1>1, <2>1
<1>18. CASE Q = U /\ ~Low(p) /\ ~Low(q)
  <2>1. p \in Nat /\ q \in Nat
    BY <1>4
  <2>2. Unmoved(pg, p) /\ Unmoved(pg, q)
    BY <1>1, <1>18, <2>1 DEF Unmoved
  <2> QED  BY <1>14, <2>2
<1> QED  BY <1>4, <1>11, <1>12, <1>13, <1>14, <1>15, <1>16, <1>17, <1>18

-----------------------------------------------------------------------------
(* The page of a request.                                                  *)

(* A finite set of naturals that is not empty has a greatest.              *)
LEMMA FiniteGreatest ==
  ASSUME NEW S \in SUBSET Nat, S # {}, IsFiniteSet(S)
  PROVE  \E x \in S : \A z \in S : z <= x
<1> DEFINE R == StrictSubsetOrdering(Nat)
           Above(x) == {z \in S : x < z}
           T == {Above(x) : x \in S}
<1>1. IsWellFoundedOn(R, FiniteSubsetsOf(Nat))
  BY FS_StrictSubsetOrderingWellFounded
<1>2. T \subseteq FiniteSubsetsOf(Nat)
  <2>1. \A x \in S : Above(x) \subseteq Nat /\ IsFiniteSet(Above(x))
    <3>1. \A x \in S : Above(x) \subseteq S
      OBVIOUS
    <3> HIDE DEF Above
    <3> QED  BY <3>1, FS_Subset
  <2> QED  BY <2>1 DEF FiniteSubsetsOf
<1>3. T # {}
  OBVIOUS
<1> HIDE DEF R
<1>4. PICK t \in T : \A u \in T : <<u, t>> \notin R
  BY <1>1, <1>2, <1>3, WFMin
<1>5. PICK x \in S : t = Above(x)
  BY <1>4
<1>6. ASSUME NEW z \in S, x < z PROVE FALSE
  <2>1. z \in Above(x) /\ z \notin Above(z)
    BY <1>6
  <2>2. Above(z) \subseteq Above(x) /\ Above(z) # Above(x)
    <3>1. \A y \in Above(z) : y \in Above(x)
      BY <1>6
    <3> QED  BY <2>1, <3>1
  <2>3. <<Above(z), Above(x)>> \in R
    BY <2>2 DEF R, StrictSubsetOrdering
  <2> QED  BY <2>3, <1>4, <1>5
<1> QED  BY <1>6

(* The largest head offset is at least every offset.                       *)
LEMMA HeadOffsets ==
  ASSUME NEW rq \in Requests
  PROVE  /\ NColors(rq) \in Nat
         /\ \A j \in 1 .. NColors(rq) : HeadOffset(rq, j) \in Nat
         /\ MaxHeadOffset(rq) \in Nat
         /\ \A j \in 1 .. NColors(rq) : HeadOffset(rq, j) <= MaxHeadOffset(rq)
<1> DEFINE n == NColors(rq)
           f == [j \in 1 .. n |-> HeadOffset(rq, j)]
           T == {HeadOffset(rq, j) : j \in 1 .. n}
           S == {0} \union T
<1>1. rq.head_offset \in Seq(Nat)
  BY RequestsAssumption
<1>2. n \in Nat /\ \A j \in 1 .. n : HeadOffset(rq, j) \in Nat
  BY <1>1 DEF NColors, HeadOffset
<1>3. IsFiniteSet(T)
  <2>1. IsFiniteSet(1 .. n)
    <3>1. 1 \in Int /\ n \in Int
      BY <1>2
    <3> HIDE DEF n
    <3> QED  BY <3>1, FS_Interval, Zenon
  <2>2. f \in Surjection(1 .. n, T)
    BY DEF Surjection
  <2> HIDE DEF T, f
  <2> QED  BY <2>1, <2>2, FS_Surjection
<1>4. IsFiniteSet(S)
  <2>1. IsFiniteSet({0})
    BY FS_Singleton
  <2> HIDE DEF T
  <2> QED  BY <1>3, <2>1, FS_Union
<1>5. S \in SUBSET Nat /\ S # {}
  BY <1>2
<1>6. \E x \in S : \A z \in S : z <= x
  <2> HIDE DEF S
  <2> QED  BY <1>4, <1>5, FiniteGreatest
<1>7. \E x \in S : \A j \in 1 .. n : HeadOffset(rq, j) <= x
  BY <1>6
<1>8. MaxHeadOffset(rq) = CHOOSE x \in S : \A j \in 1 .. n : HeadOffset(rq, j) <= x
  BY Zenon DEF MaxHeadOffset
<1>9. /\ MaxHeadOffset(rq) \in S
      /\ \A j \in 1 .. n : HeadOffset(rq, j) <= MaxHeadOffset(rq)
  <2> HIDE DEF S, n
  <2> QED  BY <1>7, <1>8
<1>10. MaxHeadOffset(rq) \in Nat
  BY <1>5, <1>9
<1> QED  BY <1>2, <1>9, <1>10

(* A repeat count exists, as the request was accepted.                     *)
LEMMA RepeatCountIs ==
  ASSUME NEW rq \in Requests
  PROVE  RepeatCount(rq) \in Positive
<1> DEFINE R == RepeatCounts(rq)
<1>1. rq.osample \in Positive /\ rq.jets \in Positive /\ R # {}
  BY RequestsAssumption DEF Accepted
<1>2. R \in SUBSET Positive
  BY <1>1 DEF RepeatCounts, Positive
<1>3. R \in SUBSET Nat
  BY <1>2 DEF Positive
<1>4. \E i \in R : \A k \in R : i <= k
  <2> HIDE DEF R
  <2> QED  BY <1>1, <1>3, LeastMember
<1>5. RepeatCount(rq) \in R
  BY <1>4 DEF RepeatCount
<1> QED  BY <1>2, <1>5

(* The numbers of a page.                                                  *)
LEMMA RequestPage ==
  ASSUME NEW rq \in Requests, rq.strategy # "ascending3x"
  PROVE  LET pg == PageOf(rq)
         IN  /\ ProperHead(pg) /\ ProperPage(pg)
             /\ pg.separation = Separation(rq) /\ pg.jets = rq.jets
             /\ pg.oversampling = Oversample(rq)
             /\ pg.first = rq.first_line /\ pg.last = LastLine(rq)
             /\ pg.height = rq.page_height
             /\ BandRows(pg) = Separation(rq) * rq.jets
             /\ pg.last - pg.first + 1 >= rq.line_count
             /\ {Separation(rq), rq.jets, Oversample(rq), RepeatCount(rq)}
                  \subseteq Positive
             /\ rq.first_line \in Nat /\ LastLine(rq) \in Nat
             /\ rq.line_count \in Positive
<1> DEFINE pg == PageOf(rq)
<1>1. /\ rq.first_line \in Nat /\ rq.line_count \in Positive
      /\ rq.page_height \in Int
  BY RequestsAssumption
<1>2. ProperHead(pg) /\ pg.oversampling = Oversample(rq)
  BY PageIsHead
<1>3. /\ pg.separation = Separation(rq) /\ pg.jets = rq.jets
      /\ pg.first = rq.first_line /\ pg.last = LastLine(rq)
      /\ pg.height = rq.page_height
  BY DEF PageOf
<1>4. /\ LastLine(rq) \in Nat /\ LastLine(rq) >= rq.first_line
      /\ LastLine(rq) - rq.first_line + 1 >= rq.line_count
  <2>1. MaxHeadOffset(rq) \in Nat
    BY HeadOffsets
  <2> QED  BY <1>1, <2>1 DEF LastLine, Positive
<1>5. {pg.separation, pg.oversampling, pg.jets} \subseteq Positive
  BY <1>2, HeadNumbers
<1>6. RepeatCount(rq) \in Positive
  BY RepeatCountIs
<1>7. BandRows(pg) = Separation(rq) * rq.jets
  BY <1>3, Zenon DEF BandRows
<1> HIDE DEF pg
<1>8. ProperPage(pg)
  BY <1>1, <1>2, <1>3, <1>4 DEF ProperPage
<1> QED  BY <1>1, <1>2, <1>3, <1>4, <1>5, <1>6, <1>7, <1>8 DEF pg

(* A tall image makes a high page.                                         *)
LEMMA TallPage ==
  ASSUME NEW rq \in Requests, rq.strategy # "ascending3x",
         NEW heads \in Positive, Tall(rq, heads)
  PROVE  LET pg == PageOf(rq)
         IN  /\ HighPage(pg)
             /\ pg.last - pg.first + 1 >= heads * BandRows(pg)
<1> DEFINE pg == PageOf(rq)
           BR == BandRows(pg)
           x == heads * BR
<1>1. /\ ProperPage(pg) /\ ProperHead(pg) /\ BR = Separation(rq) * rq.jets
      /\ pg.last - pg.first + 1 >= rq.line_count
      /\ rq.line_count \in Positive
  BY RequestPage
<1>2. BR \in Positive
  BY <1>1, HeadNumbers
<1>3. pg.first \in Nat /\ pg.last \in Nat
  BY <1>1 DEF ProperPage
<1>4. rq.line_count >= x
  BY <1>1 DEF Tall
<1>5. x \in Int /\ x >= BR
  <2> HIDE DEF BR
  <2> QED  BY <1>2 DEF Positive
<1> HIDE DEF pg, BR, x
<1>6. pg.last - pg.first + 1 >= x /\ pg.last - pg.first + 1 >= BR
  BY <1>1, <1>2, <1>3, <1>4, <1>5 DEF Positive
<1> QED  BY <1>1, <1>6 DEF HighPage, BR, x, pg

(* Pages whose maps are apart.                                             *)
LEMMA PageApart ==
  ASSUME NEW rq \in Requests, MapsApart(rq)
  PROVE  Apart(PageOf(rq))
BY PassMapIs DEF MapsApart, Apart

(* The banks that a colour's passes take in turn hold the passes of two    *)
(* head heights, and of two more as soon as a colour lags.                 *)
LEMMA BanksOf ==
  ASSUME NEW rq \in Requests, rq.strategy # "ascending3x"
  PROVE  \E f \in Positive :
           /\ VMod(rq) = (2 * (BandPasses(PageOf(rq)) * f)) * RepeatCount(rq)
           /\ f * BandRows(PageOf(rq)) >= BandRows(PageOf(rq)) + MaxHeadOffset(rq)
           /\ f >= 2 \/ MaxHeadOffset(rq) = 0
<1> DEFINE pg == PageOf(rq)
           sep == Separation(rq)
           jets == rq.jets
           os == Oversample(rq)
           rep == RepeatCount(rq)
           max == MaxHeadOffset(rq)
           extra == (max + sep - 1) \div sep
           vj == VirtualJets(rq)
           banks == (vj + jets - 1) \div jets
           f == IF vj > jets THEN banks ELSE 1
<1>1. /\ sep \in Positive /\ jets \in Positive /\ os \in Positive /\ rep \in Positive
      /\ BandRows(pg) = sep * jets /\ pg.separation = sep /\ pg.oversampling = os
  BY RequestPage
<1>2. max \in Nat
  BY HeadOffsets
<1>3. BandPasses(pg) = sep * os
  BY <1>1, Zenon DEF BandPasses
<1>4. vj = jets + extra
  BY Zenon DEF VirtualJets
<1>5. VMod(rq) = 2 * sep * os * rep * f
  BY Zenon DEF VMod
<1>6. extra \in Int /\ sep * extra >= max /\ (extra <= 0 => max = 0)
  <2> DEFINE y == max + sep - 1
             m == y % sep
  <2>1. y \in Int
    BY <1>1, <1>2 DEF Positive
  <2>2. extra \in Int /\ m \in 0 .. sep - 1 /\ y = sep * extra + m
    <3> DEFINE Parts(z) == /\ z \div sep \in Int /\ z % sep \in 0 .. sep - 1
                           /\ z = sep * (z \div sep) + (z % sep)
    <3>1. \A z \in Int : Parts(z)
      BY <1>1, Division
    <3>2. Parts(y)
      <4> HIDE DEF y, Parts
      <4> QED  BY <2>1, <3>1
    <3> QED  BY <3>2, Zenon
  <2> HIDE DEF extra, m
  <2>3. sep * extra >= max
    <3> DEFINE z == sep * extra
    <3>1. z \in Int
      BY <1>1, <2>2 DEF Positive
    <3> HIDE DEF z
    <3>2. y = z + m
      BY <2>2 DEF z
    <3>3. z >= max
      BY <1>1, <1>2, <2>2, <3>1, <3>2 DEF Positive
    <3> QED  BY <3>3 DEF z
  <2>4. ASSUME extra <= 0 PROVE max = 0
    <3>1. sep * extra <= 0
      BY <1>1, <2>2, <2>4 DEF Positive
    <3>2. sep * extra \in Int
      BY <1>1, <2>2 DEF Positive
    <3> QED  BY <1>2, <2>3, <3>1, <3>2
  <2> QED  BY <2>2, <2>3, <2>4
<1> HIDE DEF extra, vj
<1>7. /\ f \in Positive /\ f * (sep * jets) >= sep * jets + max
      /\ f >= 2 \/ max = 0
  <2>1. CASE vj > jets
    <3>1. vj \in Int /\ extra >= 1
      BY <1>1, <1>4, <1>6, <2>1 DEF Positive
    <3> DEFINE y == vj + jets - 1
               m == y % jets
    <3>2. y \in Int
      BY <1>1, <3>1 DEF Positive
    <3>3. banks \in Int /\ m \in 0 .. jets - 1 /\ y = jets * banks + m
      <4> DEFINE Parts(z) == /\ z \div jets \in Int /\ z % jets \in 0 .. jets - 1
                             /\ z = jets * (z \div jets) + (z % jets)
      <4>1. \A z \in Int : Parts(z)
        BY <1>1, Division
      <4>2. Parts(y)
        <5> HIDE DEF y, Parts
        <5> QED  BY <3>2, <4>1
      <4> QED  BY <4>2, Zenon
    <3> HIDE DEF banks, m
    <3>4. jets * banks >= vj
      <4> DEFINE z == jets * banks
      <4>1. z \in Int
        BY <1>1, <3>3 DEF Positive
      <4> HIDE DEF z
      <4>2. y = z + m
        BY <3>3 DEF z
      <4>3. z >= vj
        BY <1>1, <3>1, <3>3, <4>1, <4>2 DEF Positive
      <4> QED  BY <4>3 DEF z
    <3>5. banks >= 2
      <4>1. CASE banks <= 1
        <5>1. jets * banks <= jets /\ jets * banks \in Int
          BY <1>1, <3>3, <4>1 DEF Positive
        <5> QED  BY <1>1, <2>1, <3>1, <3>4, <5>1 DEF Positive
      <4> QED  BY <3>3, <4>1
    <3>6. banks * (sep * jets) >= sep * jets + max
      <4> DEFINE z == jets * banks
      <4>1. z \in Int /\ z >= jets + extra
        BY <1>1, <1>4, <3>3, <3>4 DEF Positive
      <4> HIDE DEF z
      <4>2. sep * z >= sep * (jets + extra)
        BY <1>1, <1>6, <4>1 DEF Positive
      <4>3. sep * (jets + extra) = sep * jets + sep * extra
        BY <1>1, <1>6 DEF Positive
      <4>4. banks * (sep * jets) = sep * z
        <5>1. banks * (sep * jets) = sep * (jets * banks)
          BY <1>1, <3>3 DEF Positive
        <5> QED  BY <5>1 DEF z
      <4>5. sep * jets \in Int /\ sep * extra \in Int /\ sep * z \in Int
        BY <1>1, <1>6, <4>1 DEF Positive
      <4> QED  BY <1>2, <1>6, <4>2, <4>3, <4>4, <4>5
    <3> QED  BY <2>1, <3>3, <3>5, <3>6 DEF Positive
  <2>2. CASE ~(vj > jets)
    <3>1. max = 0
      BY <1>1, <1>4, <1>6, <2>2 DEF Positive
    <3>2. f = 1 /\ sep * jets \in Int
      BY <1>1, <2>2 DEF Positive
    <3> HIDE DEF f
    <3> QED  BY <3>1, <3>2 DEF Positive
  <2> QED  BY <2>1, <2>2
<1> HIDE DEF f
<1>8. 2 * sep * os * rep * f = (2 * ((sep * os) * f)) * rep
  BY <1>1, <1>7 DEF Positive
<1> HIDE DEF pg
<1>9. /\ VMod(rq) = (2 * (BandPasses(pg) * f)) * rep
      /\ f * BandRows(pg) >= BandRows(pg) + max
  BY <1>1, <1>3, <1>5, <1>7, <1>8
<1> QED  BY <1>7, <1>9 DEF pg

-----------------------------------------------------------------------------
(* The lines of the page.                                                  *)

(* What a pass's lines have in common: the jets of the head that are not   *)
(* used at its top and at its bottom, and the rows where it starts and     *)
(* ends on the page.                                                       *)
Up(pg, p)   == IF Pulled(pg, p) < 0 THEN -Pulled(pg, p) ELSE 0
Down(pg, p) == IF Pulled(pg, p) > 0 THEN Pulled(pg, p) ELSE 0

Above(pg, p) ==
  JetsOver(pg.separation, pg.first - (Place(pg, p) + pg.separation * Up(pg, p)))

LastJetRow(pg, p) ==
  Place(pg, p) + pg.separation * (pg.jets - Down(pg, p) - 1)

PassEnd(pg, p) ==
  LastJetRow(pg, p)
    - pg.separation * JetsOver(pg.separation, LastJetRow(pg, p) - pg.last)

(* The line that jet j of the raw pass p prints.                           *)
Line(pg, p, j, number) ==
  [pass             |-> number,
   jet              |-> j - Pulled(pg, p),
   missingstartrows |-> Up(pg, p) + Above(pg, p),
   logicalpassstart |-> Place(pg, p),
   physpassstart    |-> Place(pg, p) + pg.separation * (Up(pg, p) + Above(pg, p)),
   physpassend      |-> PassEnd(pg, p)]

(* A row of the page is on a jet of a pass that the page uses.             *)
LEMMA PassUsed ==
  ASSUME NEW pg, ProperPage(pg), NEW r \in pg.first .. pg.last,
         NEW p \in Nat, NEW j \in 0 .. pg.jets - 1,
         RawStartRow(pg, p) = (r + BandRows(pg)) - j * pg.separation
  PROVE  p \in Used(pg)
<1> DEFINE P == FirstPremappedPass(pg)
           N == ScanNormal(pg)
           Q == ScanPostmapped(pg)
           U == FirstUnusedPass(pg)
           sep == pg.separation
           jets == pg.jets
           BR == BandRows(pg)
           S == RawStartRow(pg, p)
           x == j * sep
<1>1. /\ Scanned(pg, P, N, Q, U) /\ ProperHead(pg)
      /\ pg.first \in Nat /\ pg.last \in Nat
  BY ScansAre DEF ProperPage
<1>2. sep \in Positive /\ BR \in Positive /\ jets \in Positive /\ BR = sep * jets
  BY <1>1, HeadNumbers
<1>3. x \in Nat /\ x <= BR - sep
  <2> HIDE DEF sep, jets
  <2>1. j \in Nat /\ j <= jets - 1
    BY <1>2 DEF Positive, jets
  <2>2. x \in Nat
    BY <1>2, <2>1 DEF Positive
  <2>3. x <= (jets - 1) * sep
    BY <1>2, <2>1 DEF Positive
  <2>4. (jets - 1) * sep = sep * jets - sep
    BY <1>2 DEF Positive
  <2> QED  BY <1>2, <2>2, <2>3, <2>4
<1>4. r \in Int /\ pg.first <= r /\ r <= pg.last
  BY <1>1
<1>5. P \in Nat /\ U \in Nat /\ S = (r + BR) - x
  BY <1>1 DEF Scanned
<1>6. S - sep >= pg.first
  BY <1>1, <1>2, <1>3, <1>4, <1>5 DEF Positive
<1>7. S <= pg.last + BR
  BY <1>1, <1>2, <1>3, <1>4, <1>5 DEF Positive
<1>8. S \in Int
  BY <1>2, <1>3, <1>4, <1>5 DEF Positive
<1>9. p >= P
  BY <1>1, <1>6 DEF Scanned
<1>10. p < U
  <2>1. CASE p >= U
    <3>1. S > pg.last + BR
      BY <1>1, <2>1 DEF Scanned
    <3> QED  BY <1>1, <1>2, <1>7, <1>8, <3>1 DEF Positive
  <2> QED  BY <1>5, <2>1
<1> HIDE DEF P, U
<1>11. p \in P .. U - 1
  BY <1>5, <1>9, <1>10
<1> QED  BY <1>11, Zenon DEF Used, P, U

(* What the page's weave parameters say of a line.                         *)
LEMMA LineIs ==
  ASSUME NEW rq \in Requests, rq.strategy # "ascending3x",
         HighPage(PageOf(rq)), Apart(PageOf(rq)),
         NEW r \in rq.first_line .. LastLine(rq),
         NEW s \in 0 .. Oversample(rq) * RepeatCount(rq) - 1
  PROVE  LET pg == PageOf(rq)
         IN  \E p \in Used(pg), j \in 0 .. pg.jets - 1 :
               /\ RawSubpass(pg, p) = s \div RepeatCount(rq)
               /\ RawStartRow(pg, p) + j * pg.separation = r + BandRows(pg)
               /\ WeaveTable(rq)[<<r, s>>] =
                    Line(pg, p, j,
                         Number(pg, p) * RepeatCount(rq) + (s % RepeatCount(rq)))
<1> DEFINE pg == PageOf(rq)
           rep == RepeatCount(rq)
           os == Oversample(rq)
           sep == pg.separation
           BR == BandRows(pg)
           t == s \div rep
           e == s % rep
           raw == RawRowParameters(pg, r + BR, t)
           p == raw.pass
           j == raw.jet
           st == Pulled(pg, p)
           rows == rq.first_line .. LastLine(rq)
           map == PassMap(pg)
           line == RowParameters(pg, map, r, t)
<1>1. /\ ProperHead(pg) /\ ProperPage(pg)
      /\ pg.oversampling = os /\ pg.first = rq.first_line /\ pg.last = LastLine(rq)
      /\ os \in Positive /\ rep \in Positive
      /\ rq.first_line \in Nat /\ LastLine(rq) \in Nat
  BY RequestPage, Zenon
<1>2. BR \in Positive /\ sep \in Positive
  BY <1>1, HeadNumbers
<1>3. t \in 0 .. os - 1 /\ e \in 0 .. rep - 1
  <2> HIDE DEF rep, os
  <2> DEFINE m == os * rep
  <2>1. m \in Int
    BY <1>1 DEF Positive
  <2>2. s \in Int /\ 0 <= s /\ s < m
    <3>1. s \in 0 .. m - 1
      BY DEF rep, os
    <3> HIDE DEF m
    <3> QED  BY <2>1, <3>1
  <2>3. t \in Int /\ e \in 0 .. rep - 1 /\ s = rep * t + e
    <3>1. s \in Int
      BY <2>2
    <3> QED  BY <1>1, <3>1, Division
  <2> HIDE DEF t, e
  <2>4. t >= 0
    <3>1. CASE t <= -1
      <4>1. rep * t <= -rep /\ rep * t \in Int
        BY <1>1, <2>3, <3>1 DEF Positive
      <4> QED  BY <1>1, <2>2, <2>3, <4>1 DEF Positive
    <3> QED  BY <2>3, <3>1
  <2>5. t < os
    <3>1. CASE t >= os
      <4>1. rep * t >= os * rep /\ rep * t \in Int
        BY <1>1, <2>3, <3>1 DEF Positive
      <4> QED  BY <1>1, <2>1, <2>2, <2>3, <4>1 DEF Positive
    <3> QED  BY <1>1, <2>3, <3>1 DEF Positive
  <2> QED  BY <1>1, <2>3, <2>4, <2>5 DEF Positive
<1>4. r \in Nat /\ r + BR \in Nat /\ r + BR >= BR
  BY <1>1, <1>2 DEF Positive
<1> HIDE DEF pg, rep, os, sep, BR, t, e, map
<1>5. /\ raw = [pass |-> p, jet |-> j, startrow |-> RawStartRow(pg, p)]
      /\ p \in Nat /\ j \in 0 .. pg.jets - 1
      /\ RawStartRow(pg, p) = (r + BR) - j * sep
      /\ RawSubpass(pg, p) = t
  <2> DEFINE w == r + BR
             R(x) == /\ x = [pass |-> x.pass, jet |-> x.jet,
                             startrow |-> RawStartRow(pg, x.pass)]
                     /\ x.pass \in Nat /\ x.jet \in 0 .. pg.jets - 1
                     /\ RawStartRow(pg, x.pass) = w - x.jet * pg.separation
                     /\ RawSubpass(pg, x.pass) = t
  <2>1. w \in Nat /\ w >= BandRows(pg) /\ t \in 0 .. pg.oversampling - 1
    BY <1>1, <1>3, <1>4 DEF BR
  <2> HIDE DEF w
  <2>2. R(RawRowParameters(pg, w, t))
    BY <1>1, <2>1, RowIs
  <2> QED  BY <2>2, Zenon DEF w, sep
<1>6. WeaveTable(rq)[<<r, s>>] = [line EXCEPT !.pass = @ * rep + e]
  <2> DEFINE base == [l \in rows \X (0 .. os - 1) |->
                        RowParameters(pg, map, l[1], l[2])]
             tab == [l \in rows \X (0 .. os * rep - 1) |->
                       [base[<<l[1], l[2] \div rep>>] EXCEPT
                          !.pass = @ * rep + (l[2] % rep)]]
  <2>1. WeaveTable(rq) = tab
    BY Zenon DEF WeaveTable, pg, map, rep, os
  <2>2. base[<<r, t>>] = line
    BY <1>3
  <2>3. s \in 0 .. os * rep - 1
    BY DEF os, rep
  <2> HIDE DEF base
  <2>4. tab[<<r, s>>] = [base[<<r, t>>] EXCEPT !.pass = @ * rep + e]
    BY <2>3 DEF t, e
  <2> QED  BY <2>1, <2>2, <2>4
<1>7. line = PassParameters(pg, raw, Cooked(map, p))
  BY Zenon DEF RowParameters, BR
<1> HIDE DEF raw, line
<1>8. p \in Used(pg)
  BY <1>1, <1>5, PassUsed DEF BR, sep
<1>9. Number(pg, p) \in Nat /\ st \in Int
  BY <1>8, PassFacts DEF pg
<1>10. Cooked(map, p).pass = Number(pg, p) /\ Cooked(map, p).stagger = st
  BY Zenon DEF Number, Pulled, map
<1> DEFINE c == Cooked(map, p)
<1>11. (raw.startrow - BR) + c.stagger * sep = Place(pg, p)
  <2>1. raw.startrow = RawStartRow(pg, p)
    BY <1>5
  <2>2. c.stagger * sep = sep * st
    <3> HIDE DEF c, st
    <3> QED  BY <1>2, <1>9, <1>10 DEF Positive, c, st
  <2> QED  BY <2>1, <2>2, Zenon DEF Place, BR, sep
<1> HIDE DEF c
<1>12. line = [Line(pg, p, j, Number(pg, p)) EXCEPT !.pass = c.pass]
  <2> DEFINE start == raw.startrow - BandRows(pg) + c.stagger * pg.separation
             up    == IF c.stagger < 0 THEN -c.stagger ELSE 0
             down  == IF c.stagger > 0 THEN c.stagger ELSE 0
             above == JetsOver(pg.separation,
                               pg.first - (start + pg.separation * up))
             last  == start + pg.separation * (pg.jets - down - 1)
  <2>1. line = [pass             |-> c.pass,
                jet              |-> raw.jet - c.stagger,
                missingstartrows |-> up + above,
                logicalpassstart |-> start,
                physpassstart    |-> start + pg.separation * (up + above),
                physpassend      |-> last - pg.separation
                                              * JetsOver(pg.separation, last - pg.last)]
    BY <1>7, Zenon DEF PassParameters, c
  <2>2. start = Place(pg, p)
    BY <1>11 DEF BR, sep
  <2>3. c.stagger = Pulled(pg, p)
    BY <1>10 DEF c
  <2> HIDE DEF start
  <2>4. up = Up(pg, p) /\ down = Down(pg, p)
    BY <2>3 DEF Up, Down
  <2> HIDE DEF up, down
  <2>5. above = Above(pg, p) /\ last = LastJetRow(pg, p)
    BY <2>2, <2>4 DEF Above, LastJetRow
  <2> HIDE DEF above, last
  <2>6. last - pg.separation * JetsOver(pg.separation, last - pg.last) = PassEnd(pg, p)
    BY <2>5 DEF PassEnd
  <2>7. line = [pass             |-> c.pass,
                jet              |-> j - Pulled(pg, p),
                missingstartrows |-> Up(pg, p) + Above(pg, p),
                logicalpassstart |-> Place(pg, p),
                physpassstart    |-> Place(pg, p) + pg.separation *
                                       (Up(pg, p) + Above(pg, p)),
                physpassend      |-> PassEnd(pg, p)]
    BY <2>1, <2>2, <2>3, <2>4, <2>5, <2>6
  <2> QED  BY <2>7 DEF Line
<1>13. WeaveTable(rq)[<<r, s>>] = Line(pg, p, j, Number(pg, p) * rep + e)
  <2>1. c.pass = Number(pg, p)
    BY <1>10 DEF c
  <2>2. line = Line(pg, p, j, Number(pg, p))
    BY <1>12, <2>1 DEF Line
  <2>3. [Line(pg, p, j, Number(pg, p)) EXCEPT !.pass = @ * rep + e]
          = Line(pg, p, j, Number(pg, p) * rep + e)
    BY DEF Line
  <2> QED  BY <1>6, <2>2, <2>3
<1>14. RawStartRow(pg, p) + j * sep = r + BR
  <2> DEFINE y == j * sep
             S == RawStartRow(pg, p)
  <2>1. y \in Int
    BY <1>2, <1>5 DEF Positive
  <2>2. S = (r + BR) - y
    BY <1>5
  <2> HIDE DEF y, S
  <2>3. S + y = r + BR
    BY <1>2, <1>4, <2>1, <2>2 DEF Positive
  <2> QED  BY <2>3 DEF y, S
<1> DEFINE Good(x, y) == /\ RawSubpass(pg, x) = t
                         /\ RawStartRow(pg, x) + y * sep = r + BR
                         /\ WeaveTable(rq)[<<r, s>>]
                              = Line(pg, x, y, Number(pg, x) * rep + e)
<1>15. Good(p, j)
  BY <1>5, <1>13, <1>14, Zenon
<1>16. \E x \in Used(pg), y \in 0 .. pg.jets - 1 : Good(x, y)
  <2> HIDE DEF Good, p, j
  <2> QED  BY <1>5, <1>8, <1>15
<1> QED  BY <1>16, Zenon DEF pg, rep, sep, BR, t, e

(* The jets that reach out over an edge are the fewest that do not.        *)
LEMMA JetsOverIs ==
  ASSUME NEW sep \in Positive, NEW n \in Int
  PROVE  /\ JetsOver(sep, n) \in Nat
         /\ sep * JetsOver(sep, n) >= n
         /\ \A k \in Nat : sep * k >= n => JetsOver(sep, n) <= k
<1> DEFINE k == (n + sep - 1) \div sep
           m == (n + sep - 1) % sep
<1>1. CASE n > 0
  <2> DEFINE y == n + sep - 1
  <2>1. y \in Int
    BY DEF Positive
  <2>2. k \in Int /\ m \in 0 .. sep - 1 /\ y = sep * k + m
    <3> DEFINE Parts(z) == /\ z \div sep \in Int /\ z % sep \in 0 .. sep - 1
                           /\ z = sep * (z \div sep) + (z % sep)
    <3>1. \A z \in Int : Parts(z)
      BY Division
    <3>2. Parts(y)
      <4> HIDE DEF y, Parts
      <4> QED  BY <2>1, <3>1
    <3> QED  BY <3>2, Zenon
  <2>3. JetsOver(sep, n) = k
    BY <1>1 DEF JetsOver
  <2> HIDE DEF k, m
  <2>4. sep * k \in Int
    BY <2>2 DEF Positive
  <2>5. sep * k >= n /\ sep * k <= n + sep - 1
    <3> DEFINE z == sep * k
    <3>1. z \in Int /\ y = z + m
      BY <2>2, <2>4
    <3> HIDE DEF z
    <3>2. z >= n /\ z <= n + sep - 1
      BY <2>2, <3>1 DEF Positive
    <3> QED  BY <3>2 DEF z
  <2>6. k >= 0
    <3>1. CASE k <= -1
      <4>1. sep * k <= -sep
        BY <2>2, <3>1 DEF Positive
      <4> QED  BY <1>1, <2>4, <2>5, <4>1 DEF Positive
    <3> QED  BY <2>2, <3>1
  <2>7. ASSUME NEW i \in Nat, sep * i >= n PROVE k <= i
    <3>1. CASE k >= i + 1
      <4>1. sep * k >= sep * (i + 1)
        BY <2>2, <3>1 DEF Positive
      <4>2. sep * (i + 1) = sep * i + sep /\ sep * i \in Int
        BY DEF Positive
      <4> QED  BY <2>4, <2>5, <2>7, <4>1, <4>2 DEF Positive
    <3> QED  BY <2>2, <3>1
  <2> QED  BY <2>2, <2>3, <2>5, <2>6, <2>7
<1>2. CASE ~(n > 0)
  <2>1. JetsOver(sep, n) = 0
    BY <1>2 DEF JetsOver
  <2> QED  BY <1>2, <2>1 DEF Positive
<1> QED  BY <1>1, <1>2

(* A line lies on a jet of its pass, on the page.                          *)
LEMMA LineOnJet ==
  ASSUME NEW pg, HighPage(pg), Apart(pg), NEW r \in pg.first .. pg.last,
         NEW p \in Used(pg), NEW j \in 0 .. pg.jets - 1,
         RawStartRow(pg, p) + j * pg.separation = r + BandRows(pg),
         NEW number
  PROVE  LET w == Line(pg, p, j, number)
         IN  /\ w.jet \in 0 .. pg.jets - 1
             /\ w.logicalpassstart + pg.separation * w.jet = r
             /\ w.missingstartrows \in 0 .. w.jet
             /\ r \in w.physpassstart .. w.physpassend
             /\ w.logicalpassstart >= 0
             /\ w.logicalpassstart + pg.separation * (pg.jets - 1) < PageHeight(pg)
             /\ w.physpassend \in Int
             /\ w.physpassend <= w.logicalpassstart + pg.separation * (pg.jets - 1)
             /\ w.physpassend <= RawStartRow(pg, p) - pg.separation
<1> DEFINE sep == pg.separation
           jets == pg.jets
           BR == BandRows(pg)
           S == RawStartRow(pg, p)
           L == Place(pg, p)
           st == Pulled(pg, p)
           H == PageHeight(pg)
           first == pg.first
           last == pg.last
           jet == j - st
           up == Up(pg, p)
           down == Down(pg, p)
           above == Above(pg, p)
           lastjet == LastJetRow(pg, p)
           z == sep * (jets - 1)
           end == PassEnd(pg, p)
           ts == TopSeps(pg)
           bs == BottomSeps(pg)
<1>1. /\ ProperPage(pg) /\ sep \in Positive /\ jets \in Positive /\ BR \in Positive
      /\ z = BR - sep
      /\ H \in Nat /\ H >= last + 1 /\ first \in Nat /\ last \in Nat
      /\ \A x \in Nat : RawStartRow(pg, x) \in Nat
  BY PageNumbers
<1>2. p \in Nat /\ S \in Nat
  BY <1>1, Regions
<1>3. /\ st \in Int /\ L \in Nat /\ L + z < H
      /\ st > 0 => L <= TopEdge(pg)
      /\ st < 0 => L >= BottomEdge(pg)
  BY PassFacts
<1>4. /\ ts \in Nat /\ bs \in Nat /\ sep * ts <= first
      /\ sep * bs <= H - 1 - last
      /\ TopEdge(pg) = sep - 1 + sep * ts
      /\ BottomEdge(pg) = H - BR - sep * bs
  BY <1>1, EdgeNumbers DEF TopEdge, BottomEdge
<1>5. L = S - BR + sep * st
  BY Zenon DEF Place
<1>6. /\ up = (IF st < 0 THEN -st ELSE 0)
      /\ down = (IF st > 0 THEN st ELSE 0)
  BY DEF Up, Down
<1>7. above = JetsOver(sep, first - (L + sep * up))
      /\ lastjet = L + sep * (jets - down - 1)
      /\ end = lastjet - sep * JetsOver(sep, lastjet - last)
  BY DEF Above, LastJetRow, PassEnd
<1>8. r \in Int /\ first <= r /\ r <= last /\ j \in Int /\ 0 <= j /\ j <= jets - 1
      /\ S + j * sep = r + BR
  BY <1>1 DEF Positive
<1>9. BR = sep * jets
  BY Zenon DEF BandRows
<1> HIDE DEF sep, jets, BR, S, L, st, H, first, last, jet, up, down, above, lastjet,
             z, end, ts, bs
<1> USE DEF Positive
<1>10. jet \in Int /\ L + sep * jet = r
  <2>1. jet \in Int
    BY <1>3, <1>8 DEF jet
  <2>2. sep * jet = j * sep - sep * st
    BY <1>1, <1>3, <1>8 DEF jet
  <2>3. j * sep \in Int /\ sep * st \in Int /\ sep * jet \in Int
    BY <1>1, <1>3, <1>8, <2>1
  <2> QED  BY <1>1, <1>2, <1>3, <1>5, <1>8, <2>1, <2>2, <2>3
(* A pass that is pulled down starts so near to the top that the jets      *)
(* pulled past the line would be above the page.                           *)
<1>11. jet >= 0
  <2>1. CASE st > 0
    <3>1. CASE jet <= -1
      <4>1. sep * jet <= -sep /\ sep * jet \in Int /\ sep * ts \in Int
        BY <1>1, <1>4, <1>10, <3>1
      <4> QED  BY <1>1, <1>3, <1>4, <1>8, <1>10, <2>1, <4>1
    <3> QED  BY <1>10, <3>1
  <2>2. CASE st <= 0
    BY <1>3, <1>8, <2>2 DEF jet
  <2> QED  BY <1>3, <2>1, <2>2
<1>12. jet <= jets - 1
  <2>1. CASE st < 0
    <3>1. CASE jet >= jets
      <4>1. sep * jet >= sep * jets /\ sep * jet \in Int /\ sep * bs \in Int
        BY <1>1, <1>4, <1>10, <3>1
      <4> QED  BY <1>1, <1>3, <1>4, <1>8, <1>9, <1>10, <2>1, <4>1
    <3> QED  BY <1>1, <1>10, <3>1
  <2>2. CASE st >= 0
    BY <1>1, <1>3, <1>8, <2>2 DEF jet
  <2> QED  BY <1>3, <2>1, <2>2
<1>13. up \in Nat /\ down \in Nat /\ up <= jet /\ jet <= jets - down - 1
  BY <1>1, <1>3, <1>6, <1>8, <1>11, <1>12 DEF jet
<1>14. above \in Nat /\ above <= jet - up
       /\ L + sep * (up + above) <= r
  <2> DEFINE n == first - (L + sep * up)
             k == jet - up
  <2>1. sep * up \in Int /\ n \in Int /\ k \in Nat /\ sep * k \in Int /\ sep * jet \in Int
    BY <1>1, <1>3, <1>10, <1>13
  <2>2. sep * k = sep * jet - sep * up
    BY <1>1, <1>10, <1>13
  <2>3. sep * k >= n
    BY <1>1, <1>3, <1>8, <1>10, <2>1, <2>2
  <2>4. above \in Nat /\ above <= k
    <3> HIDE DEF n, k
    <3>1. above = JetsOver(sep, n)
      BY <1>7 DEF n
    <3> QED  BY <1>1, <2>1, <2>3, <3>1, JetsOverIs
  <2>5. sep * (up + above) <= sep * jet /\ sep * (up + above) \in Int
    BY <1>1, <1>10, <1>13, <2>4
  <2> QED  BY <1>3, <1>10, <2>1, <2>4, <2>5
<1>15. end \in Int /\ r <= end /\ end <= L + z /\ end <= S - sep
  <2> DEFINE d == jets - down - 1
             k == d - jet
             n == lastjet - last
             o == JetsOver(sep, n)
  <2>1. /\ d \in Int /\ k \in Nat /\ sep * d \in Int /\ sep * k \in Int
        /\ sep * jet \in Int
    BY <1>1, <1>10, <1>11, <1>13
  <2>2. sep * k = sep * d - sep * jet
    BY <1>1, <1>10, <2>1
  <2>3. lastjet = L + sep * d /\ lastjet \in Int
    BY <1>3, <1>7, <2>1
  <2> HIDE DEF d
  <2>4. sep * k >= n /\ n \in Int
    BY <1>1, <1>3, <1>8, <1>10, <2>1, <2>2, <2>3
  <2>5. o \in Nat /\ o <= k
    <3> HIDE DEF n, k
    <3> QED  BY <1>1, <2>1, <2>4, JetsOverIs
  <2>6. sep * o \in Nat /\ sep * o <= sep * k
    BY <1>1, <2>1, <2>5
  <2>7. end = lastjet - sep * o
    BY <1>7
  <2> HIDE DEF o, k
  <2>8. end \in Int /\ r <= end /\ end <= lastjet
    BY <1>3, <1>8, <1>10, <2>1, <2>2, <2>3, <2>6, <2>7
  <2>9. sep * d <= z /\ z \in Int
    <3>1. d <= jets - 1
      BY <1>1, <1>13 DEF d
    <3> QED  BY <1>1, <2>1, <3>1 DEF z
  <2>10. lastjet <= S - sep
    <3>1. sep * d = sep * jets - sep * down - sep
      BY <1>1, <1>13 DEF d
    <3>2. sep * st <= sep * down
      <4>1. st <= down
        BY <1>3, <1>6
      <4> QED  BY <1>1, <1>3, <1>13, <4>1
    <3>3. sep * st \in Int /\ sep * down \in Int /\ sep * jets \in Int
      BY <1>1, <1>3, <1>13
    <3> QED  BY <1>1, <1>2, <1>5, <1>9, <2>1, <2>3, <3>1, <3>2, <3>3
  <2>11. end <= L + z
    <3>1. lastjet <= L + z
      BY <1>3, <2>1, <2>3, <2>9
    <3> QED  BY <1>3, <2>3, <2>8, <2>9, <3>1
  <2>12. end <= S - sep
    BY <1>1, <1>2, <2>3, <2>8, <2>10
  <2> QED  BY <2>8, <2>11, <2>12
<1> DEFINE w == Line(pg, p, j, number)
<1>16. /\ w.jet = jet /\ w.logicalpassstart = L
       /\ w.missingstartrows = up + above
       /\ w.physpassstart = L + sep * (up + above) /\ w.physpassend = end
  <2>1. w = [pass             |-> number,
             jet              |-> jet,
             missingstartrows |-> up + above,
             logicalpassstart |-> L,
             physpassstart    |-> L + sep * (up + above),
             physpassend      |-> end]
    BY Zenon DEF Line, jet, st, L, up, above, sep, end
  <2> HIDE DEF w
  <2> QED  BY <2>1
<1> HIDE DEF w
<1>17. /\ w.jet \in 0 .. jets - 1
       /\ w.logicalpassstart + sep * w.jet = r
       /\ w.missingstartrows \in 0 .. w.jet
       /\ r \in w.physpassstart .. w.physpassend
       /\ w.logicalpassstart >= 0
       /\ w.logicalpassstart + z < H
       /\ w.physpassend \in Int
       /\ w.physpassend <= w.logicalpassstart + z
       /\ w.physpassend <= S - sep
  <2>1. w.jet \in 0 .. jets - 1 /\ w.logicalpassstart + sep * w.jet = r
    BY <1>1, <1>10, <1>11, <1>12, <1>16
  <2>2. w.missingstartrows \in 0 .. w.jet
    BY <1>10, <1>13, <1>14, <1>16
  <2>3. r \in w.physpassstart .. w.physpassend
    <3>1. sep * (up + above) \in Int
      BY <1>1, <1>13, <1>14
    <3> QED  BY <1>3, <1>8, <1>14, <1>15, <1>16, <3>1
  <2>4. w.logicalpassstart >= 0 /\ w.logicalpassstart + z < H
    BY <1>3, <1>16
  <2>5. w.physpassend \in Int /\ w.physpassend <= w.logicalpassstart + z
    BY <1>15, <1>16
  <2>6. w.physpassend <= S - sep
    BY <1>15, <1>16
  <2> QED  BY <2>1, <2>2, <2>3, <2>4, <2>5, <2>6
<1> QED  BY <1>17 DEF w, sep, jets, z, H, S

-----------------------------------------------------------------------------
(* The properties of the page, line by line.                               *)

(* What a regular page is good for.                                       *)
LEMMA RegularPage ==
  ASSUME NEW rq \in Requests, NEW heads \in Positive, Regular(rq, heads)
  PROVE  LET pg == PageOf(rq)
         IN  /\ rq.strategy # "ascending3x"
             /\ HighPage(pg) /\ Apart(pg)
             /\ pg.last - pg.first + 1 >= heads * BandRows(pg)
BY TallPage, PageApart DEF Regular

(* The line l of the page is printed by jet j of the raw pass p.           *)
LineFrom(rq, l, p, j) ==
  LET pg  == PageOf(rq)
      rep == RepeatCount(rq)
  IN  /\ l[1] \in pg.first .. pg.last
      /\ l[2] \in 0 .. Oversample(rq) * rep - 1
      /\ l = <<l[1], l[2]>>
      /\ p \in Used(pg) /\ j \in 0 .. pg.jets - 1
      /\ RawSubpass(pg, p) = l[2] \div rep
      /\ RawStartRow(pg, p) + j * pg.separation = l[1] + BandRows(pg)
      /\ WeaveTable(rq)[l] = Line(pg, p, j, Number(pg, p) * rep + (l[2] % rep))

(* Every line comes from a pass that the page uses.                        *)
LEMMA LineOf ==
  ASSUME NEW rq \in Requests, Regular(rq, 1), NEW l \in DOMAIN WeaveTable(rq)
  PROVE  \E p, j : LineFrom(rq, l, p, j)
<1> DEFINE pg == PageOf(rq)
           rep == RepeatCount(rq)
           os == Oversample(rq)
           rows == rq.first_line .. LastLine(rq)
           map == PassMap(pg)
           base == [x \in rows \X (0 .. os - 1) |-> RowParameters(pg, map, x[1], x[2])]
           r == l[1]
           s == l[2]
<1>1. WeaveTable(rq) = [x \in rows \X (0 .. os * rep - 1) |->
                          [base[<<x[1], x[2] \div rep>>] EXCEPT
                             !.pass = @ * rep + (x[2] % rep)]]
  BY Zenon DEF WeaveTable
<1>2. l \in rows \X (0 .. os * rep - 1)
  <2> HIDE DEF base, os, rep, rows, pg, map
  <2>1. DOMAIN WeaveTable(rq) = rows \X (0 .. os * rep - 1)
    BY <1>1, Zenon
  <2> QED  BY <2>1
<1>3. r \in rows /\ s \in 0 .. os * rep - 1 /\ l = <<r, s>>
  <2> HIDE DEF base, os, rep, rows, pg, map
  <2> QED  BY <1>2
<1>4. 1 \in Positive
  BY DEF Positive
<1>5. rq.strategy # "ascending3x" /\ HighPage(pg) /\ Apart(pg)
  BY <1>4, RegularPage
<1>6. pg.first = rq.first_line /\ pg.last = LastLine(rq)
  BY DEF PageOf
<1> DEFINE Good(x, y) ==
             /\ RawSubpass(pg, x) = s \div rep
             /\ RawStartRow(pg, x) + y * pg.separation = r + BandRows(pg)
             /\ WeaveTable(rq)[<<r, s>>] =
                  Line(pg, x, y, Number(pg, x) * rep + (s % rep))
<1> HIDE DEF r, s
<1>7. \E x \in Used(pg), y \in 0 .. pg.jets - 1 : Good(x, y)
  BY <1>3, <1>5, LineIs, Zenon
<1> HIDE DEF Good
<1>8. PICK p \in Used(pg), j \in 0 .. pg.jets - 1 : Good(p, j)
  BY <1>7
<1>9. /\ RawSubpass(pg, p) = s \div rep
      /\ RawStartRow(pg, p) + j * pg.separation = r + BandRows(pg)
      /\ WeaveTable(rq)[l] = Line(pg, p, j, Number(pg, p) * rep + (s % rep))
  BY <1>3, <1>8 DEF Good
<1>10. LineFrom(rq, l, p, j)
  <2>1. r \in pg.first .. pg.last
    BY <1>3, <1>6
  <2> QED  BY <1>3, <1>8, <1>9, <2>1, Zenon DEF LineFrom, r, s
<1> QED  BY <1>10

(* A line is printed by a jet of the head that lies on it.                 *)
LEMMA LineRows ==
  ASSUME NEW rq \in Requests, Regular(rq, 1), NEW l, NEW p, NEW j,
         LineFrom(rq, l, p, j)
  PROVE  LET pg == PageOf(rq)
             w  == WeaveTable(rq)[l]
         IN  /\ w.jet \in 0 .. pg.jets - 1
             /\ w.logicalpassstart + pg.separation * w.jet = l[1]
             /\ w.missingstartrows \in 0 .. w.jet
             /\ l[1] \in w.physpassstart .. w.physpassend
             /\ w.logicalpassstart >= 0
             /\ w.logicalpassstart + pg.separation * (pg.jets - 1) < PageHeight(pg)
             /\ w.physpassend \in Int
             /\ w.physpassend <= w.logicalpassstart + pg.separation * (pg.jets - 1)
             /\ w.physpassend <= RawStartRow(pg, p) - pg.separation
             /\ w.logicalpassstart = Place(pg, p)
             /\ w.pass = Number(pg, p) * RepeatCount(rq) + (l[2] % RepeatCount(rq))
             /\ w.jet = j - Pulled(pg, p)
<1> DEFINE pg == PageOf(rq)
           w == WeaveTable(rq)[l]
           r == l[1]
           number == Number(pg, p) * RepeatCount(rq) + (l[2] % RepeatCount(rq))
<1>1. 1 \in Positive
  BY DEF Positive
<1>2. HighPage(pg) /\ Apart(pg)
  BY <1>1, RegularPage
<1> HIDE DEF pg
<1>3. /\ r \in pg.first .. pg.last /\ p \in Used(pg) /\ j \in 0 .. pg.jets - 1
      /\ RawStartRow(pg, p) + j * pg.separation = r + BandRows(pg)
      /\ w = Line(pg, p, j, number)
  BY DEF LineFrom, pg
<1> DEFINE Good(x) ==
             /\ x.jet \in 0 .. pg.jets - 1
             /\ x.logicalpassstart + pg.separation * x.jet = r
             /\ x.missingstartrows \in 0 .. x.jet
             /\ r \in x.physpassstart .. x.physpassend
             /\ x.logicalpassstart >= 0
             /\ x.logicalpassstart + pg.separation * (pg.jets - 1) < PageHeight(pg)
             /\ x.physpassend \in Int
             /\ x.physpassend <= x.logicalpassstart + pg.separation * (pg.jets - 1)
             /\ x.physpassend <= RawStartRow(pg, p) - pg.separation
<1> HIDE DEF w, r, number
<1>4. Good(Line(pg, p, j, number))
  BY <1>2, <1>3, LineOnJet
<1>5. /\ w.logicalpassstart = Place(pg, p) /\ w.pass = number
      /\ w.jet = j - Pulled(pg, p)
  BY <1>3 DEF Line
<1>6. Good(w)
  <2> HIDE DEF Good
  <2> QED  BY <1>3, <1>4
<1> QED  BY <1>5, <1>6, Zenon DEF pg, w, r, number

(* The numbers of repeated passes.                                         *)
LEMMA Repeats ==
  ASSUME NEW rep \in Positive, NEW a \in Nat, NEW b \in Nat,
         NEW e \in 0 .. rep - 1, NEW f \in 0 .. rep - 1
  PROVE  /\ a * rep + e \in Nat
         /\ a * rep + e = b * rep + f => a = b /\ e = f
         /\ a * rep + e < b * rep + f => a <= b
         /\ \A d \in Nat :
              (a * rep + e) + d * rep <= b * rep + f => a + d <= b
<1> DEFINE x == a * rep
           y == b * rep
<1>1. x \in Nat /\ y \in Nat /\ rep \in Int /\ e \in Int /\ f \in Int
      /\ 0 <= e /\ e < rep /\ 0 <= f /\ f < rep
  BY DEF Positive
<1>2. ASSUME NEW c \in Nat, NEW d \in Nat, d >= c + 1
      PROVE  d * rep >= c * rep + rep
  <2>1. d * rep >= (c + 1) * rep
    BY <1>2 DEF Positive
  <2>2. (c + 1) * rep = c * rep + rep
    BY DEF Positive
  <2> QED  BY <2>1, <2>2
<1>3. b >= a + 1 => y >= x + rep
  BY <1>2
<1>4. a >= b + 1 => x >= y + rep
  BY <1>2
<1>5. ASSUME NEW d \in Nat, (x + e) + d * rep <= y + f PROVE a + d <= b
  <2>1. CASE a + d >= b + 1
    <3>1. (a + d) * rep >= y + rep
      BY <1>2, <2>1
    <3>2. (a + d) * rep = x + d * rep /\ d * rep \in Int
      BY DEF Positive
    <3> HIDE DEF x, y
    <3> QED  BY <1>1, <1>5, <3>1, <3>2
  <2> QED  BY <2>1
<1> HIDE DEF x, y
<1>6. x + e \in Nat
  BY <1>1
<1>7. x + e = y + f => a = b
  BY <1>1, <1>3, <1>4
<1>8. x + e = y + f => e = f
  <2>1. a = b => x = y
    BY DEF x, y
  <2> QED  BY <1>1, <1>7, <2>1
<1>9. x + e < y + f => a <= b
  BY <1>1, <1>4
<1> QED  BY <1>5, <1>6, <1>7, <1>8, <1>9 DEF x, y

(* What the pass number of a line is made of.                              *)
LEMMA LineNumbers ==
  ASSUME NEW rq \in Requests, Regular(rq, 1), NEW l, NEW p, NEW j,
         LineFrom(rq, l, p, j)
  PROVE  LET pg  == PageOf(rq)
             rep == RepeatCount(rq)
         IN  /\ HighPage(pg) /\ Apart(pg) /\ rep \in Positive
             /\ p \in Used(pg) /\ Number(pg, p) \in Nat
             /\ l[2] \in Nat /\ l[2] % rep \in 0 .. rep - 1
             /\ l[2] = rep * (l[2] \div rep) + (l[2] % rep)
             /\ l[1] \in Int /\ l[1] >= pg.first /\ l[1] <= pg.last
<1> DEFINE pg == PageOf(rq)
           rep == RepeatCount(rq)
           os == Oversample(rq)
           s == l[2]
<1>1. 1 \in Positive
  BY DEF Positive
<1>2. rq.strategy # "ascending3x" /\ HighPage(pg) /\ Apart(pg)
  BY <1>1, RegularPage
<1>3. /\ rep \in Positive /\ os \in Positive
      /\ pg.first \in Nat /\ pg.last \in Nat
  BY <1>2, RequestPage DEF HighPage, ProperPage
<1>4. /\ p \in Used(pg) /\ s \in 0 .. os * rep - 1 /\ l[1] \in pg.first .. pg.last
  BY Zenon DEF LineFrom
<1> HIDE DEF pg, rep, os, s
<1>5. Number(pg, p) \in Nat
  BY <1>2, <1>4, PassFacts
<1>6. s \in Nat
  <2> DEFINE n == os * rep
  <2>1. n \in Int
    BY <1>3 DEF Positive
  <2>2. s \in 0 .. n - 1
    BY <1>4
  <2> HIDE DEF n
  <2> QED  BY <2>1, <2>2
<1>7. s % rep \in 0 .. rep - 1 /\ s = rep * (s \div rep) + (s % rep)
  <2>1. s \in Int
    BY <1>6
  <2> QED  BY <1>3, <2>1, Division
<1>8. l[1] \in Int /\ l[1] >= pg.first /\ l[1] <= pg.last
  BY <1>3, <1>4
<1> QED  BY <1>2, <1>3, <1>4, <1>5, <1>6, <1>7, <1>8 DEF pg, rep, s

(* Lines with the same page pass number come from the same raw pass, in    *)
(* the same subpass.                                                       *)
LEMMA OnePass ==
  ASSUME NEW rq \in Requests, Regular(rq, 1),
         NEW l, NEW p, NEW j, LineFrom(rq, l, p, j),
         NEW m, NEW q, NEW k, LineFrom(rq, m, q, k),
         WeaveTable(rq)[l].pass = WeaveTable(rq)[m].pass
  PROVE  p = q /\ l[2] = m[2]
<1> DEFINE pg == PageOf(rq)
           rep == RepeatCount(rq)
           e == l[2] % rep
           f == m[2] % rep
           a == Number(pg, p)
           b == Number(pg, q)
           u == l[2] \div rep
           v == m[2] \div rep
<1>1. /\ HighPage(pg) /\ Apart(pg) /\ rep \in Positive /\ p \in Used(pg) /\ a \in Nat
      /\ e \in 0 .. rep - 1 /\ l[2] = rep * u + e
  BY LineNumbers
<1>2. /\ q \in Used(pg) /\ b \in Nat /\ f \in 0 .. rep - 1 /\ m[2] = rep * v + f
  BY LineNumbers
<1>3. WeaveTable(rq)[l].pass = a * rep + e
  BY LineRows
<1>4. WeaveTable(rq)[m].pass = b * rep + f
  BY LineRows
<1>5. RawSubpass(pg, p) = u
  BY Zenon DEF LineFrom
<1>6. RawSubpass(pg, q) = v
  BY Zenon DEF LineFrom
<1> HIDE DEF pg, rep, e, f, u, v
<1>7. a = b /\ e = f
  <2>1. a * rep + e = b * rep + f
    BY <1>3, <1>4
  <2> HIDE DEF a, b
  <2> QED  BY <1>1, <1>2, <2>1, Repeats
<1>8. p = q
  BY <1>1, <1>2, <1>7, PassNumbers
<1>9. u = v
  BY <1>5, <1>6, <1>8
<1>10. l[2] = m[2]
  BY <1>1, <1>2, <1>7, <1>9, Zenon
<1> QED  BY <1>8, <1>10

(* ... and agree on everything but the jet.                                *)
SameButJet(v, w) == [v EXCEPT !.jet = 0] = [w EXCEPT !.jet = 0]

(* The lines of a pass differ by their jets only.                         *)
LEMMA LinesAgree ==
  ASSUME NEW rq \in Requests, Regular(rq, 1),
         NEW l \in DOMAIN WeaveTable(rq), NEW m \in DOMAIN WeaveTable(rq),
         WeaveTable(rq)[l].pass = WeaveTable(rq)[m].pass
  PROVE  /\ SameButJet(WeaveTable(rq)[l], WeaveTable(rq)[m])
         /\ l[2] = m[2]
         /\ WeaveTable(rq)[l].jet = WeaveTable(rq)[m].jet => l = m
<1> DEFINE pg == PageOf(rq)
           rep == RepeatCount(rq)
           v == WeaveTable(rq)[l]
           w == WeaveTable(rq)[m]
<1>1. PICK p, j : LineFrom(rq, l, p, j)
  BY LineOf
<1>2. PICK q, k : LineFrom(rq, m, q, k)
  BY LineOf
<1>3. p = q /\ l[2] = m[2]
  BY <1>1, <1>2, OnePass
<1>4. l = <<l[1], l[2]>> /\ v = Line(pg, p, j, Number(pg, p) * rep + (l[2] % rep))
  BY <1>1, Zenon DEF LineFrom
<1>5. m = <<m[1], m[2]>> /\ w = Line(pg, q, k, Number(pg, q) * rep + (m[2] % rep))
  BY <1>2, Zenon DEF LineFrom
<1>6. v.logicalpassstart + pg.separation * v.jet = l[1]
  BY <1>1, LineRows
<1>7. w.logicalpassstart + pg.separation * w.jet = m[1]
  BY <1>2, LineRows
<1> HIDE DEF v, w, pg, rep
<1> DEFINE n == Number(pg, p) * rep + (l[2] % rep)
<1>8. v = Line(pg, p, j, n) /\ w = Line(pg, p, k, n)
  BY <1>3, <1>4, <1>5, Zenon
<1> HIDE DEF n
<1>9. SameButJet(v, w)
  BY <1>8 DEF Line, SameButJet
<1>10. v.logicalpassstart = w.logicalpassstart
  BY <1>8 DEF Line
<1>11. ASSUME v.jet = w.jet PROVE l = m
  <2>1. l[1] = m[1]
    BY <1>6, <1>7, <1>10, <1>11, Zenon
  <2> QED  BY <1>3, <1>4, <1>5, <2>1, Zenon
<1> QED  BY <1>3, <1>9, <1>11 DEF v, w

(* The passes start in the order of their numbers.                         *)
LEMMA LinesForward ==
  ASSUME NEW rq \in Requests, Regular(rq, 1),
         rq.line_count >= Separation(rq) * (rq.jets + 1),
         NEW l \in DOMAIN WeaveTable(rq), NEW m \in DOMAIN WeaveTable(rq),
         WeaveTable(rq)[l].pass < WeaveTable(rq)[m].pass
  PROVE  WeaveTable(rq)[l].logicalpassstart <= WeaveTable(rq)[m].logicalpassstart
<1> DEFINE pg == PageOf(rq)
           rep == RepeatCount(rq)
           v == WeaveTable(rq)[l]
           w == WeaveTable(rq)[m]
<1>1. PICK p, j : LineFrom(rq, l, p, j)
  BY LineOf
<1>2. PICK q, k : LineFrom(rq, m, q, k)
  BY LineOf
<1> DEFINE e == l[2] % rep
           f == m[2] % rep
           a == Number(pg, p)
           b == Number(pg, q)
<1>3. /\ HighPage(pg) /\ Apart(pg) /\ rep \in Positive /\ p \in Used(pg) /\ a \in Nat
      /\ e \in 0 .. rep - 1
  BY <1>1, LineNumbers
<1>4. q \in Used(pg) /\ b \in Nat /\ f \in 0 .. rep - 1
  BY <1>2, LineNumbers
<1>5. v.pass = a * rep + e /\ v.logicalpassstart = Place(pg, p)
  BY <1>1, LineRows
<1>6. w.pass = b * rep + f /\ w.logicalpassstart = Place(pg, q)
  BY <1>2, LineRows
<1>7. pg.last - pg.first + 1 >= BandRows(pg) + pg.separation
  <2> DEFINE s == Separation(rq)
             n == rq.jets
  <2>1. /\ pg.separation = s /\ BandRows(pg) = s * n
        /\ pg.last - pg.first + 1 >= rq.line_count
        /\ s \in Positive /\ n \in Positive /\ rq.line_count \in Positive
    BY RequestPage DEF Regular
  <2>2. pg.first \in Nat /\ pg.last \in Nat
    BY <1>3 DEF HighPage, ProperPage
  <2>3. rq.line_count >= s * (n + 1)
    OBVIOUS
  <2> HIDE DEF s, n, pg
  <2>4. s * (n + 1) = s * n + s /\ s * n \in Int
    BY <2>1 DEF Positive
  <2> QED  BY <2>1, <2>2, <2>3, <2>4 DEF Positive
<1> HIDE DEF v, w, pg, rep, e, f
<1>8. a <= b
  <2>1. a * rep + e < b * rep + f
    BY <1>5, <1>6 DEF v, w
  <2> HIDE DEF a, b
  <2> QED  BY <1>3, <1>4, <2>1, Repeats
<1>9. CASE a < b
  <2>1. Place(pg, p) <= Place(pg, q)
    BY <1>3, <1>4, <1>7, <1>9, PassOrder
  <2> QED  BY <1>5, <1>6, <2>1 DEF v, w
<1>10. CASE a = b
  <2>1. p = q
    BY <1>3, <1>4, <1>10, PassNumbers
  <2>2. Place(pg, p) \in Nat
    BY <1>3, PassFacts
  <2>3. v.logicalpassstart <= w.logicalpassstart
    BY <1>5, <1>6, <2>1, <2>2
  <2> QED  BY <2>3 DEF v, w
<1> HIDE DEF a, b
<1> QED  BY <1>3, <1>4, <1>8, <1>9, <1>10

(* Two head heights are more than one.                                    *)
LEMMA RegularOnce ==
  ASSUME NEW rq \in Requests, Regular(rq, 2)
  PROVE  Regular(rq, 1)
<1> DEFINE n == Separation(rq) * rq.jets
<1>1. n \in Int /\ n >= 0
  <2>1. Separation(rq) \in Positive /\ rq.jets \in Positive
    BY RequestPage DEF Regular
  <2> QED  BY <2>1 DEF Positive
<1>2. rq.line_count >= 2 * n /\ rq.line_count \in Int
  BY RequestsAssumption DEF Regular, Tall, Positive
<1> HIDE DEF n
<1>3. rq.line_count >= 1 * n
  BY <1>1, <1>2
<1> QED  BY <1>3 DEF Regular, Tall, n

(* Two passes of a bank lie a whole round of the banks apart.              *)
LEMMA RoundsApart ==
  ASSUME NEW x \in Nat, NEW y \in Nat, NEW v \in Positive, x < y, x % v = y % v
  PROVE  x + v <= y
<1> DEFINE a == x \div v
           b == y \div v
           m == x % v
<1>1. a \in Int /\ x = v * a + m /\ m \in 0 .. v - 1
  BY Division
<1>2. b \in Int /\ y = v * b + m
  BY Division
<1> HIDE DEF a, b, m
<1>3. v * a \in Int /\ v * b \in Int /\ m \in Int
  BY <1>1, <1>2 DEF Positive
<1>4. a < b
  <2>1. CASE b <= a
    <3>1. v * b <= v * a
      BY <1>1, <1>2, <2>1 DEF Positive
    <3> QED  BY <1>1, <1>2, <1>3, <3>1
  <2> QED  BY <1>1, <1>2, <2>1
<1>5. v * b >= v * a + v
  <2>1. v * b >= v * (a + 1)
    BY <1>1, <1>2, <1>4 DEF Positive
  <2>2. v * (a + 1) = v * a + v
    BY <1>1 DEF Positive
  <2> QED  BY <2>1, <2>2
<1> QED  BY <1>1, <1>2, <1>3, <1>5 DEF Positive

(* A bank is free again when a later pass comes to it.                     *)
LEMMA BanksFree ==
  ASSUME NEW rq \in Requests, Regular(rq, 2),
         NEW l \in DOMAIN WeaveTable(rq), NEW m \in DOMAIN WeaveTable(rq),
         WeaveTable(rq)[l].pass < WeaveTable(rq)[m].pass,
         WeaveTable(rq)[l].pass % VMod(rq) = WeaveTable(rq)[m].pass % VMod(rq)
  PROVE  WeaveTable(rq)[l].physpassend < m[1] - MaxHeadOffset(rq)
<1> DEFINE pg == PageOf(rq)
           rep == RepeatCount(rq)
           v == WeaveTable(rq)[l]
           w == WeaveTable(rq)[m]
           sep == pg.separation
           BR == BandRows(pg)
           BP == BandPasses(pg)
           P == FirstPremappedPass(pg)
           max == MaxHeadOffset(rq)
           first == pg.first
           last == pg.last
           te == TopEdge(pg)
           be == BottomEdge(pg)
           z == sep * (pg.jets - 1)
<1>1. Regular(rq, 1)
  BY RegularOnce
<1>2. /\ HighPage(pg) /\ Apart(pg) /\ last - first + 1 >= 2 * BR
      /\ rq.strategy # "ascending3x"
  <2>1. 2 \in Positive
    BY DEF Positive
  <2> QED  BY <2>1, RegularPage
<1>3. PICK p, j : LineFrom(rq, l, p, j)
  BY <1>1, LineOf
<1>4. PICK q, k : LineFrom(rq, m, q, k)
  BY <1>1, LineOf
<1> DEFINE e == l[2] % rep
           h == m[2] % rep
           a == Number(pg, p)
           b == Number(pg, q)
           L == Place(pg, p)
           M == Place(pg, q)
           S == RawStartRow(pg, p)
           T == RawStartRow(pg, q)
           end == v.physpassend
           r == m[1]
<1>5. rep \in Positive /\ p \in Used(pg) /\ a \in Nat /\ e \in 0 .. rep - 1
  BY <1>1, <1>3, LineNumbers
<1>6. q \in Used(pg) /\ b \in Nat /\ h \in 0 .. rep - 1 /\ r \in Int
  BY <1>1, <1>4, LineNumbers
<1>7. /\ v.pass = a * rep + e /\ v.logicalpassstart = L
      /\ end \in Int /\ end <= v.logicalpassstart + z /\ end <= S - sep
  BY <1>1, <1>3, LineRows
<1>8. /\ w.pass = b * rep + h /\ w.logicalpassstart = M
      /\ w.logicalpassstart + sep * w.jet = r
      /\ w.jet \in 0 .. pg.jets - 1
  BY <1>1, <1>4, LineRows
<1>9. k \in 0 .. pg.jets - 1 /\ T + k * sep = r + BR
  BY <1>4, Zenon DEF LineFrom
<1>10. /\ sep \in Positive /\ BR \in Positive /\ BP \in Positive /\ pg.jets \in Positive
       /\ z = BR - sep /\ P \in Nat /\ ProperHead(pg)
       /\ te \in Nat /\ te < first + sep
       /\ first \in Nat /\ last \in Nat
       /\ \A x \in Nat : RawStartRow(pg, x) \in Nat
  BY <1>2, PageNumbers
<1>11. be \in Nat /\ be >= last + 1 - BR
  BY <1>2, BottomNumbers
<1>12. p \in Nat /\ q \in Nat
  BY <1>2, <1>5, <1>6, Regions
<1>13. max \in Nat
  BY HeadOffsets
<1>14. PICK f \in Positive : /\ VMod(rq) = (2 * (BP * f)) * rep
                             /\ f * BR >= BR + max
                             /\ f >= 2 \/ max = 0
  BY <1>2, BanksOf
<1>15. /\ Pulled(pg, p) \in Int /\ L \in Nat
       /\ \/ Pulled(pg, p) < 0 \/ L <= te \/ a >= p - P
       /\ Pulled(pg, p) < 0 \/ a >= p - P - (BP - 1)
  BY <1>2, <1>5, PassFacts
<1>16. /\ M \in Nat
       /\ b < BP \/ M >= be \/ b <= q - P
       /\ b < BP \/ b <= q - P + BP
  BY <1>2, <1>6, PassFacts
<1>17. Pulled(pg, p) < 0 => b < a + BP
  BY <1>2, <1>5, <1>6, PassNumbers
<1>18. S \in Nat /\ T \in Nat
  BY <1>10, <1>12
<1>19. ASSUME NEW c \in Nat, q >= p + c * BP PROVE T >= S + c * BR
  <2>1. RawStartRow(pg, p + c * BP) = S + c * BR
    BY <1>10, <1>12, NextBand
  <2>2. c * BP \in Nat
    BY <1>10 DEF Positive
  <2> DEFINE x == c * BP
  <2> HIDE DEF x
  <2>3. p + x \in Nat /\ p + x <= q
    BY <1>12, <1>19, <2>2 DEF x
  <2>4. RawStartRow(pg, p + x) <= T
    BY <1>10, <1>12, <2>3, StartsRise
  <2> QED  BY <2>1, <2>4 DEF x
<1> SUFFICES end < r - max
  OBVIOUS
<1> HIDE DEF pg, rep, v, w, sep, BR, BP, P, max, first, last, te, be, z,
             e, h, a, b, L, M, S, T, end, r
<1> DEFINE g == BP * f
<1>20. g \in Nat /\ g >= BP /\ (f >= 2 => g >= 2 * BP)
  <2>1. f = 1 \/ f >= 2
    BY <1>14 DEF Positive
  <2>2. g \in Nat /\ g >= BP
    BY <1>10, <1>14 DEF Positive
  <2>3. f >= 2 => g >= 2 * BP
    BY <1>10, <1>14 DEF Positive
  <2> QED  BY <2>2, <2>3
<1>21. a + 2 * g <= b
  <2> DEFINE vm == VMod(rq)
             x == v.pass
             y == w.pass
  <2>1. vm = (2 * g) * rep
    BY <1>14
  <2> HIDE DEF g
  <2>2. vm \in Positive
    BY <1>5, <1>10, <1>20, <2>1 DEF Positive
  <2>3. x \in Nat /\ y \in Nat
    <3>1. a * rep + e \in Nat
      BY <1>5, Repeats
    <3>2. b * rep + h \in Nat
      BY <1>5, <1>6, Repeats
    <3> QED  BY <1>7, <1>8, <3>1, <3>2
  <2>4. x < y /\ x % vm = y % vm
    BY DEF v, w
  <2> HIDE DEF vm, x, y
  <2>5. x + vm <= y
    BY <2>2, <2>3, <2>4, RoundsApart
  <2> DEFINE d == 2 * g
  <2>6. d \in Nat
    BY <1>20
  <2>7. (a * rep + e) + d * rep <= b * rep + h
    BY <1>7, <1>8, <2>1, <2>5 DEF x, y
  <2> HIDE DEF d
  <2>8. a + d <= b
    BY <1>5, <1>6, <2>6, <2>7, Repeats
  <2> QED  BY <2>8 DEF d
<1>22. r >= T - BR /\ r >= M
  <2>1. k * sep \in Nat /\ sep * w.jet \in Nat
    BY <1>8, <1>9, <1>10 DEF Positive
  <2> DEFINE x == k * sep
             y == sep * w.jet
  <2> HIDE DEF x, y
  <2>2. x \in Nat /\ y \in Nat /\ T + x = r + BR /\ M + y = r
    BY <1>8, <1>9, <2>1 DEF x, y
  <2> QED  BY <1>6, <1>10, <1>16, <1>18, <2>2 DEF Positive
<1>23. ~(Pulled(pg, p) < 0) /\ ~(b < BP)
  <2> HIDE DEF g
  <2>1. b >= a + 2 * BP
    BY <1>5, <1>6, <1>10, <1>20, <1>21 DEF Positive
  <2> QED  BY <1>5, <1>6, <1>10, <1>17, <2>1 DEF Positive
<1>24. a >= p - P - (BP - 1) /\ b <= q - P + BP
  BY <1>15, <1>16, <1>23
(* The later pass is so many raw passes behind that the head is past the   *)
(* rows of the earlier one...                                              *)
<1>25. ASSUME q >= p + g PROVE end < r - max
  <2>1. q >= p + f * BP
    BY <1>10, <1>14, <1>25 DEF Positive
  <2>2. T >= S + f * BR
    BY <1>14, <1>19, <2>1 DEF Positive
  <2> DEFINE x == f * BR
  <2>3. x \in Int /\ x >= BR + max
    BY <1>10, <1>14 DEF Positive
  <2> HIDE DEF x
  <2>4. T >= S + x
    BY <2>2 DEF x
  <2> QED  BY <1>6, <1>7, <1>10, <1>13, <1>18, <1>22, <2>3, <2>4 DEF Positive
(* ... or one of them is printed at the top and one at the bottom.         *)
<1>26. ASSUME max = 0, L <= te, M >= be PROVE end < r - max
  <2>1. end <= te + BR - sep
    BY <1>7, <1>10, <1>15, <1>26 DEF Positive
  <2> QED  BY <1>2, <1>6, <1>7, <1>10, <1>11, <1>16, <1>22, <1>26, <2>1 DEF Positive
<1>27. CASE f >= 2
  <2> HIDE DEF g
  <2>1. g >= 2 * BP
    BY <1>20, <1>27
  <2>2. q >= p + g
    BY <1>5, <1>6, <1>10, <1>12, <1>20, <1>21, <1>24, <2>1 DEF Positive
  <2> QED  BY <1>25, <2>2 DEF g
<1>28. CASE max = 0
  <2>1. CASE a >= p - P
    <3> HIDE DEF g
    <3>1. q >= p + g
      BY <1>5, <1>6, <1>10, <1>12, <1>20, <1>21, <1>24, <2>1 DEF Positive
    <3> QED  BY <1>25, <3>1 DEF g
  <2>2. CASE b <= q - P
    <3> HIDE DEF g
    <3>1. q >= p + g
      BY <1>5, <1>6, <1>10, <1>12, <1>20, <1>21, <1>24, <2>2 DEF Positive
    <3> QED  BY <1>25, <3>1 DEF g
  <2>3. CASE L <= te /\ M >= be
    BY <1>26, <1>28, <2>3
  <2> QED  BY <1>15, <1>16, <1>23, <2>1, <2>2, <2>3
<1> QED  BY <1>14, <1>27, <1>28

-----------------------------------------------------------------------------
(* The table is the page's, and the row asked for is one of its rows.      *)
TableOfPage ==
  /\ request \in Requests
  /\ table = WeaveTable(request)
  /\ row \in request.first_line .. LastLine(request)

(* It is so all along.                                                    *)
LEMMA TablesOfPage ==
  ASSUME \A rq \in Requests : rq.strategy # "ascending3x"
  PROVE  Spec => []TableOfPage
<1>1. ASSUME NEW rq \in Requests
      PROVE  rq.first_line \in Nat /\ LastLine(rq) \in Nat /\ rq.first_line <= LastLine(rq)
  <2>1. /\ rq.first_line \in Nat /\ LastLine(rq) \in Nat
        /\ ProperPage(PageOf(rq))
        /\ PageOf(rq).first = rq.first_line /\ PageOf(rq).last = LastLine(rq)
    BY RequestPage
  <2> QED  BY <2>1 DEF ProperPage
<1>2. Init => TableOfPage
  <2> SUFFICES ASSUME Init PROVE TableOfPage
    OBVIOUS
  <2>1. /\ request \in Requests /\ table = WeaveTable(request)
        /\ row = request.first_line
    BY DEF Init
  <2> QED  BY <1>1, <2>1 DEF TableOfPage
<1>3. TableOfPage /\ [Next]_vars => TableOfPage'
  <2> SUFFICES ASSUME TableOfPage, [Next]_vars PROVE TableOfPage'
    OBVIOUS
  <2>1. /\ request \in Requests /\ table = WeaveTable(request)
        /\ row \in request.first_line .. LastLine(request)
        /\ request.first_line \in Nat /\ LastLine(request) \in Nat
    BY <1>1 DEF TableOfPage
  <2>2. CASE NextRow
    <3>1. request' = request /\ table' = table /\ row < LastLine(request)
          /\ row' = row + 1
      BY <2>2 DEF NextRow
    <3>2. row' \in request.first_line .. LastLine(request)
      BY <2>1, <3>1
    <3>3. /\ request' \in Requests /\ table' = WeaveTable(request')
          /\ row' \in request'.first_line .. LastLine(request')
      BY <2>1, <3>1, <3>2, Zenon
    <3> QED  BY <3>3, Zenon DEF TableOfPage
  <2>3. CASE UNCHANGED vars
    <3>1. request' = request /\ table' = table /\ row' = row
      BY <2>3 DEF vars
    <3>2. /\ request' \in Requests /\ table' = WeaveTable(request')
          /\ row' \in request'.first_line .. LastLine(request')
      BY <2>1, <3>1, Zenon
    <3> QED  BY <3>2, Zenon DEF TableOfPage
  <2> QED  BY <2>2, <2>3 DEF Next
<1> QED  BY <1>2, <1>3, PTL DEF Spec

(* For every head and page on which the image is at least as tall as the   *)
(* head, and which ends below the last line: every line is printed by a    *)
(* jet of the head that lies on it and is not one of the ghost rows, and   *)
(* no jet leaves the page (stpi_calculate_row_parameters on the maps of    *)
(* calculate_pass_map).                                                    *)
THEOREM LinesOnTheirJets ==
  ASSUME \A rq \in Requests : Regular(rq, 1) /\ LastLine(rq) < rq.page_height
  PROVE  Spec => []RowOnItsJet
<1>1. \A rq \in Requests : rq.strategy # "ascending3x"
  BY DEF Regular
<1>2. TableOfPage => RowOnItsJet
  <2> SUFFICES ASSUME TableOfPage, NEW l \in Here
               PROVE  LET w == table[l]
                      IN  /\ w.jet \in 0 .. request.jets - 1
                          /\ w.logicalpassstart + Separation(request) * w.jet = row
                          /\ w.missingstartrows \in 0 .. w.jet
                          /\ row \in w.physpassstart .. w.physpassend
                          /\ w.logicalpassstart >= 0
                          /\ w.logicalpassstart
                               + Separation(request) * (request.jets - 1)
                               < request.page_height
    BY Zenon DEF RowOnItsJet
  <2> DEFINE pg == PageOf(request)
  <2>1. request \in Requests /\ table = WeaveTable(request)
    BY DEF TableOfPage
  <2>2. l \in DOMAIN WeaveTable(request) /\ l[1] = row
    BY <2>1 DEF Here, Lines
  <2>3. Regular(request, 1) /\ LastLine(request) < request.page_height
    BY <2>1
  <2>4. PICK p, j : LineFrom(request, l, p, j)
    BY <2>1, <2>2, <2>3, LineOf
  <2>5. /\ pg.separation = Separation(request) /\ pg.jets = request.jets
        /\ pg.height = request.page_height /\ pg.last = LastLine(request)
        /\ LastLine(request) \in Nat
    BY <1>1, <2>1, RequestPage
  <2>6. request.page_height \in Int
    BY <2>1, RequestsAssumption
  <2>7. PageHeight(pg) = request.page_height
    BY <2>3, <2>5, <2>6 DEF PageHeight
  <2> DEFINE Good(w, r, sep, jets, height) ==
               /\ w.jet \in 0 .. jets - 1
               /\ w.logicalpassstart + sep * w.jet = r
               /\ w.missingstartrows \in 0 .. w.jet
               /\ r \in w.physpassstart .. w.physpassend
               /\ w.logicalpassstart >= 0
               /\ w.logicalpassstart + sep * (jets - 1) < height
  <2>8. Good(WeaveTable(request)[l], l[1], pg.separation, pg.jets, PageHeight(pg))
    BY <2>1, <2>3, <2>4, LineRows
  <2> HIDE DEF pg
  <2>9. Good(table[l], row, Separation(request), request.jets, request.page_height)
    <3> HIDE DEF Good
    <3> QED  BY <2>1, <2>2, <2>5, <2>7, <2>8
  <2> QED  BY <2>9
<1> QED  BY <1>1, <1>2, TablesOfPage, PTL

(* The lines of a pass agree on where it starts and ends, on its ghost     *)
(* rows and on the subpass: whichever comes first may store them for the   *)
(* pass.                                                                   *)
THEOREM PassesAgree ==
  ASSUME \A rq \in Requests : Regular(rq, 1)
  PROVE  Spec => []PassAgrees
<1>1. \A rq \in Requests : rq.strategy # "ascending3x"
  BY DEF Regular
<1>2. TableOfPage => PassAgrees
  <2> SUFFICES ASSUME TableOfPage, NEW l \in Here, NEW m \in Lines,
                      table[l].pass = table[m].pass
               PROVE  /\ [table[l] EXCEPT !.jet = 0] = [table[m] EXCEPT !.jet = 0]
                      /\ l[2] = m[2]
    BY DEF PassAgrees
  <2>1. /\ request \in Requests /\ table = WeaveTable(request)
        /\ Regular(request, 1)
    BY DEF TableOfPage
  <2>2. l \in DOMAIN WeaveTable(request) /\ m \in DOMAIN WeaveTable(request)
    BY <2>1 DEF Here, Lines
  <2>3. WeaveTable(request)[l].pass = WeaveTable(request)[m].pass
    BY <2>1
  <2>4. SameButJet(WeaveTable(request)[l], WeaveTable(request)[m]) /\ l[2] = m[2]
    BY <2>1, <2>2, <2>3, LinesAgree
  <2> QED  BY <2>1, <2>4 DEF SameButJet
<1> QED  BY <1>1, <1>2, TablesOfPage, PTL

(* No jet prints two lines in a pass: no two rows or subpasses share a jet *)
(* of a page pass, whatever the maps did to the pass.                      *)
THEOREM LinesStayApart ==
  ASSUME \A rq \in Requests : Regular(rq, 1)
  PROVE  Spec => []LinesApart
<1>1. \A rq \in Requests : rq.strategy # "ascending3x"
  BY DEF Regular
<1>2. TableOfPage => LinesApart
  <2> SUFFICES ASSUME TableOfPage, NEW l \in Here, NEW m \in Lines,
                      table[l].pass = table[m].pass, table[l].jet = table[m].jet
               PROVE  l = m
    BY Zenon DEF LinesApart
  <2>1. /\ request \in Requests /\ table = WeaveTable(request)
        /\ Regular(request, 1)
    BY DEF TableOfPage
  <2>2. l \in DOMAIN WeaveTable(request) /\ m \in DOMAIN WeaveTable(request)
    BY <2>1 DEF Here, Lines
  <2>3. /\ WeaveTable(request)[l].pass = WeaveTable(request)[m].pass
        /\ WeaveTable(request)[l].jet = WeaveTable(request)[m].jet
    BY <2>1
  <2>4. WeaveTable(request)[l].jet = WeaveTable(request)[m].jet => l = m
    BY <2>1, <2>2, <2>3, LinesAgree
  <2> QED  BY <2>3, <2>4
<1> QED  BY <1>1, <1>2, TablesOfPage, PTL

(* On an image one jet separation taller than the head: the passes never   *)
(* start above an earlier one, so that the paper need never be moved back. *)
THEOREM PassesStartForward ==
  ASSUME \A rq \in Requests :
           /\ Regular(rq, 1)
           /\ rq.line_count >= Separation(rq) * (rq.jets + 1)
  PROVE  Spec => []StartsForward
<1>1. \A rq \in Requests : rq.strategy # "ascending3x"
  BY DEF Regular
<1>2. TableOfPage => StartsForward
  <2> SUFFICES ASSUME TableOfPage, NEW l \in Here, NEW m \in Lines,
                      table[l].pass < table[m].pass
               PROVE  table[l].logicalpassstart <= table[m].logicalpassstart
    BY DEF StartsForward
  <2>1. /\ request \in Requests /\ table = WeaveTable(request)
        /\ Regular(request, 1)
        /\ request.line_count >= Separation(request) * (request.jets + 1)
    BY Zenon DEF TableOfPage
  <2>2. l \in DOMAIN WeaveTable(request) /\ m \in DOMAIN WeaveTable(request)
    BY <2>1 DEF Here, Lines
  <2>3. WeaveTable(request)[l].pass < WeaveTable(request)[m].pass
    BY <2>1
  <2>4. WeaveTable(request)[l].logicalpassstart
          <= WeaveTable(request)[m].logicalpassstart
    BY <2>1, <2>2, <2>3, LinesForward
  <2> QED  BY <2>1, <2>4
<1> QED  BY <1>1, <1>2, TablesOfPage, PTL

(* On an image at least two heads tall: the vmod banks are enough, a pass  *)
(* comes to a bank only after the last row of the pass that had it, for    *)
(* the colour that lags most too.                                          *)
THEOREM BanksAreFree ==
  ASSUME \A rq \in Requests : Regular(rq, 2)
  PROVE  Spec => []BankFreeInTime
<1>1. \A rq \in Requests : rq.strategy # "ascending3x"
  BY DEF Regular
<1>2. TableOfPage => BankFreeInTime
  <2> SUFFICES ASSUME TableOfPage, NEW l \in Here, NEW m \in Lines,
                      table[l].pass < table[m].pass,
                      table[l].pass % VMod(request) = table[m].pass % VMod(request)
               PROVE  table[l].physpassend < m[1] - MaxHeadOffset(request)
    BY DEF BankFreeInTime
  <2>1. /\ request \in Requests /\ table = WeaveTable(request)
        /\ Regular(request, 2)
    BY DEF TableOfPage
  <2>2. l \in DOMAIN WeaveTable(request) /\ m \in DOMAIN WeaveTable(request)
    BY <2>1 DEF Here, Lines
  <2>3. /\ WeaveTable(request)[l].pass < WeaveTable(request)[m].pass
        /\ WeaveTable(request)[l].pass % VMod(request)
             = WeaveTable(request)[m].pass % VMod(request)
    BY <2>1
  <2>4. WeaveTable(request)[l].physpassend < m[1] - MaxHeadOffset(request)
    BY <2>1, <2>2, <2>3, BanksFree
  <2> QED  BY <2>1, <2>4
<1> QED  BY <1>1, <1>2, TablesOfPage, PTL

-----------------------------------------------------------------------------
(* On a tall image the maps do not meet.                                   *)

(* The first pass of all starts within the first jet separation.           *)
LEMMA FirstStart ==
  ASSUME NEW w, ProperHead(w)
  PROVE  RawStartRow(w, 0) \in Nat /\ RawStartRow(w, 0) < w.separation
<1> DEFINE BP == BandPasses(w)
           BR == BandRows(w)
           adv == AdvanceBasis(w)
           S == SubblocksPerPassblock(w)
           t == PassesPerSubblock(w)
<1>1. /\ BP \in Positive /\ BR \in Positive /\ adv \in Positive /\ S \in Positive
      /\ t \in Positive /\ w.separation = S * t
  BY HeadNumbers
<1>2. Base(w, 0) = BR * (0 \div BP) + adv * (0 % BP)
  BY Zenon DEF Base
<1>3. RawStartRow(w, 0) \in Nat /\ RawStartRow(w, 0) - Base(w, 0) \in 0 .. S - 1
  <2>1. 0 \in Nat
    OBVIOUS
  <2> QED  BY <2>1, StartIs
<1> HIDE DEF BP, BR, adv, S, t
<1>4. 0 \div BP = 0 /\ 0 % BP = 0
  <2>1. 0 \in Int /\ 0 \in 0 .. BP - 1 /\ 0 = BP * 0 + 0
    BY <1>1 DEF Positive
  <2> QED  BY <1>1, <2>1, DivisionIs
<1>5. Base(w, 0) = 0
  BY <1>1, <1>2, <1>4 DEF Positive
<1>6. S <= S * t
  BY <1>1 DEF Positive
<1> QED  BY <1>1, <1>3, <1>5, <1>6 DEF Positive

(* The passes that join the map at the bottom are those of two head        *)
(* heights at most.                                                        *)
LEMMA BottomJoins ==
  ASSUME NEW pg, HighPage(pg), ScanPostmapped(pg) < FirstUnusedPass(pg)
  PROVE  BottomMapped(pg) \in Nat /\ BottomMapped(pg) <= 2 * BandPasses(pg)
<1> DEFINE P == FirstPremappedPass(pg)
           N == ScanNormal(pg)
           Q == ScanPostmapped(pg)
           U == FirstUnusedPass(pg)
           sep == pg.separation
           jets == pg.jets
           os == pg.oversampling
           BR == BandRows(pg)
           BP == BandPasses(pg)
           H == PageHeight(pg)
           adv == AdvanceBasis(pg)
           bm == BottomMapped(pg)
           bs == BottomSeps(pg)
<1>1. /\ P \in Nat /\ Q \in Nat /\ U \in Nat /\ P <= N /\ N <= Q /\ N \in Nat
      /\ Scanned(pg, P, N, Q, U) /\ ProperHead(pg) /\ ProperPage(pg)
      /\ H \in Nat /\ H >= pg.last + 1 /\ pg.last \in Nat
      /\ \A p \in Nat : RawStartRow(pg, p) \in Nat
  BY PageNumbers
<1>2. /\ sep \in Positive /\ jets \in Positive /\ os \in Positive /\ BR \in Positive
      /\ BP \in Positive /\ adv \in Positive
      /\ BR = sep * jets /\ BP = sep * os
  BY <1>1, HeadNumbers
<1>3. /\ bs \in Nat /\ sep * bs <= H - 1 - pg.last /\ bm \in Nat
  BY <1>1, EdgeNumbers
<1>4. bm = ((bs + 1) * sep + adv) \div adv
  BY Zenon DEF BottomMapped
(* A pass that needs the head below the page still prints on it.           *)
<1>5. sep * bs + sep < BR
  <2>1. /\ RawStartRow(pg, Q) - sep >= H
        /\ RawStartRow(pg, Q) <= pg.last + BR
    BY <1>1 DEF Scanned
  <2>2. RawStartRow(pg, Q) \in Nat
    BY <1>1
  <2>3. sep * bs \in Int
    BY <1>2, <1>3 DEF Positive
  <2> HIDE DEF H, BR, sep, bs
  <2> QED  BY <1>1, <1>2, <1>3, <2>1, <2>2, <2>3 DEF Positive
<1>6. BR < 2 * (adv * BP)
  <2> DEFINE q == jets \div os
             m == jets % os
  <2>1. os \in 1 .. jets /\ adv = (IF q = 0 THEN 1 ELSE q)
    BY <1>1 DEF ProperHead, AdvanceBasis
  <2>2. q \in Int /\ m \in 0 .. os - 1 /\ jets = os * q + m
    <3>1. jets \in Int
      BY <1>2 DEF Positive
    <3> HIDE DEF jets, os
    <3> QED  BY <1>2, <3>1, Division
  <2> HIDE DEF q, m, sep, jets, os, adv, BR, BP
  <2>3. q >= 1
    <3>1. CASE q <= 0
      <4>1. os * q <= 0 /\ os * q \in Int
        BY <1>2, <2>2, <3>1 DEF Positive
      <4> QED  BY <1>2, <2>1, <2>2, <4>1 DEF Positive
    <3> QED  BY <2>2, <3>1
  <2>4. adv = q
    BY <2>1, <2>2, <2>3
  <2>5. os * q >= os /\ os * q \in Int
    BY <1>2, <2>2, <2>3 DEF Positive
  <2>6. jets < 2 * (os * q)
    BY <1>2, <2>2, <2>5 DEF Positive
  <2> DEFINE x == os * q
  <2> HIDE DEF x
  <2>7. x \in Int /\ jets < 2 * x
    BY <2>5, <2>6 DEF x
  <2>8. sep * jets < sep * (2 * x)
    BY <1>2, <2>7 DEF Positive
  <2>9. sep * (2 * x) = 2 * (q * (sep * os))
    <3>1. sep * (2 * (os * q)) = 2 * (q * (sep * os))
      BY <1>2, <2>2 DEF Positive
    <3> QED  BY <3>1 DEF x
  <2>10. BR = sep * jets /\ adv * BP = q * (sep * os)
    BY <1>2, <2>4
  <2> QED  BY <2>8, <2>9, <2>10
<1> HIDE DEF P, N, Q, U, sep, jets, os, BR, BP, H, adv, bm, bs
<1>7. adv * bm <= sep * bs + sep + adv /\ adv * bm \in Int
  <2> DEFINE y == (bs + 1) * sep + adv
             m == y % adv
  <2>1. y \in Int
    BY <1>2, <1>3 DEF Positive
  <2>2. y = sep * bs + sep + adv /\ sep * bs \in Int
    BY <1>2, <1>3 DEF Positive
  <2>3. bm = y \div adv
    BY <1>4
  <2> HIDE DEF y
  <2>4. m \in 0 .. adv - 1 /\ y = adv * bm + m
    BY <1>2, <2>1, <2>3, Division
  <2>5. adv * bm \in Int
    BY <1>2, <1>3 DEF Positive
  <2> HIDE DEF m
  <2>6. m \in Nat
    BY <1>2, <2>4
  <2> DEFINE x == adv * bm
             u == sep * bs
  <2>7. x \in Int /\ y = x + m /\ y = u + sep + adv /\ u \in Int
    BY <2>2, <2>4, <2>5
  <2> HIDE DEF x, u
  <2>8. x <= u + sep + adv
    BY <1>2, <2>6, <2>7 DEF Positive
  <2> QED  BY <2>5, <2>8 DEF x, u
<1>8. CASE bm >= 2 * BP + 1
  <2>1. adv * bm >= adv * (2 * BP + 1)
    BY <1>2, <1>3, <1>8 DEF Positive
  <2>2. adv * (2 * BP + 1) = 2 * (adv * BP) + adv
    BY <1>2 DEF Positive
  <2> DEFINE x == adv * bm
             y == adv * BP
             u == sep * bs
  <2>3. x \in Int /\ y \in Int /\ u \in Int
    BY <1>2, <1>3 DEF Positive
  <2>4. /\ x >= 2 * y + adv /\ x <= u + sep + adv /\ u + sep < BR /\ BR < 2 * y
    BY <1>5, <1>6, <1>7, <2>1, <2>2
  <2> HIDE DEF x, y, u
  <2> QED  BY <1>2, <2>3, <2>4 DEF Positive
<1> QED  BY <1>2, <1>3, <1>8 DEF bm, BP, Positive

(* The map of the top reaches down two head heights at most.               *)
LEMMA TopReach ==
  ASSUME NEW pg, HighPage(pg)
  PROVE  RawStartRow(pg, Normal(pg)) < pg.first + 2 * BandRows(pg)
<1> DEFINE P == FirstPremappedPass(pg)
           N == ScanNormal(pg)
           Q == ScanPostmapped(pg)
           U == FirstUnusedPass(pg)
           sep == pg.separation
           jets == pg.jets
           BR == BandRows(pg)
           BP == BandPasses(pg)
           n == Normal(pg)
           first == pg.first
           S(x) == RawStartRow(pg, x)
<1>1. /\ P \in Nat /\ Q \in Nat /\ U \in Nat /\ P <= N /\ N <= Q /\ N \in Nat
      /\ Scanned(pg, P, N, Q, U) /\ ProperHead(pg) /\ ProperPage(pg)
      /\ sep \in Positive /\ BR \in Positive /\ BP \in Positive
      /\ n \in Nat /\ first \in Nat
      /\ \A p \in Nat : S(p) \in Nat
  BY PageNumbers
<1>2. BR >= sep
  <2>1. BR = sep * jets /\ jets \in Positive
    BY <1>1, HeadNumbers
  <2> HIDE DEF sep, jets, BR
  <2> QED  BY <1>1, <2>1 DEF Positive
<1>3. ASSUME NEW x \in Nat PROVE S(x + BP) = S(x) + BR /\ x + BP \in Nat
  <2>1. RawStartRow(pg, x + 1 * BP) = RawStartRow(pg, x) + 1 * BR
    <3>1. 1 \in Nat
      OBVIOUS
    <3> QED  BY <1>1, <3>1, NextBand
  <2>2. 1 * BP = BP /\ 1 * BR = BR /\ x + BP \in Nat
    BY <1>1 DEF Positive
  <2> QED  BY <2>1, <2>2, Zenon
<1>4. CASE N > P
  <2>1. n - P <= BP
    BY <1>1, <1>4, TopSize
  <2>2. S(P) < BR
    BY <1>1, <1>4 DEF Scanned
  <2>3. S(P + BP) = S(P) + BR /\ P + BP \in Nat /\ n <= P + BP
    BY <1>1, <1>3, <2>1 DEF Positive
  <2>4. S(n) <= S(P + BP)
    BY <1>1, <2>3, StartsRise
  <2> QED  BY <1>1, <2>2, <2>3, <2>4 DEF Positive
<1>5. CASE ~(N > P)
  <2>1. n = P
    BY <1>1, <1>5 DEF Normal
  <2>2. CASE P < BP
    <3>1. S(0) \in Nat /\ S(0) < sep
      BY <1>1, FirstStart
    <3>2. S(0 + BP) = S(0) + BR
      BY <1>3
    <3>3. 0 + BP = BP /\ BP \in Nat
      BY <1>1 DEF Positive
    <3>4. S(P) < S(BP)
      BY <1>1, <2>2, <3>3, StartsRise
    <3>5. S(BP) = S(0) + BR
      BY <3>2, <3>3, Zenon
    <3>6. S(n) < first + 2 * BR
      BY <1>1, <1>2, <2>1, <3>1, <3>4, <3>5 DEF Positive
    <3> QED  BY <3>6
  <2>3. CASE P >= BP
    <3> DEFINE x == P - BP
    <3>1. x \in Nat /\ x < P /\ x + BP = P
      BY <1>1, <2>3 DEF Positive
    <3> HIDE DEF x, P
    <3>2. ~(S(x) - sep >= first) /\ S(x) \in Nat
      BY <1>1, <3>1 DEF Scanned
    <3>3. S(P) = S(x) + BR
      BY <1>3, <3>1
    <3>4. S(n) < first + 2 * BR
      BY <1>1, <1>2, <2>1, <3>2, <3>3 DEF Positive
    <3> QED  BY <3>4
  <2> QED  BY <1>1, <2>2, <2>3 DEF Positive
<1> QED  BY <1>4, <1>5

(* Hence they cannot meet on a page of four head heights.                  *)
LEMMA TallApart ==
  ASSUME NEW pg, HighPage(pg), pg.last - pg.first + 1 >= 4 * BandRows(pg)
  PROVE  Apart(pg)
<1> DEFINE P == FirstPremappedPass(pg)
           N == ScanNormal(pg)
           Q == ScanPostmapped(pg)
           U == FirstUnusedPass(pg)
           sep == pg.separation
           BR == BandRows(pg)
           BP == BandPasses(pg)
           H == PageHeight(pg)
           n == Normal(pg)
           post == Postmapped(pg)
           bm == BottomMapped(pg)
           first == pg.first
           last == pg.last
           S(x) == RawStartRow(pg, x)
<1>1. /\ Q \in Nat /\ U \in Nat /\ Q <= U
      /\ Scanned(pg, P, N, Q, U) /\ ProperHead(pg)
      /\ sep \in Positive /\ BR \in Positive /\ BP \in Positive
      /\ n \in Nat /\ post \in Int /\ post <= Q
      /\ H \in Nat /\ H >= last + 1 /\ last \in Nat /\ first \in Nat
      /\ P \in Nat /\ P <= N /\ N <= Q /\ N \in Nat
      /\ \A p \in Nat : S(p) \in Nat
  BY PageNumbers
<1>2. S(n) < first + 2 * BR
  BY TopReach
<1> SUFFICES ASSUME Q < U, post < n PROVE FALSE
  BY <1>1 DEF Apart
<1>3. bm \in Nat /\ bm <= 2 * BP /\ post = Q - bm
  BY BottomJoins DEF Postmapped
<1>4. S(Q) >= H + sep
  <2>1. P <= Q
    BY <1>1
  <2>2. S(Q) - sep >= H /\ S(Q) \in Nat
    BY <1>1, <2>1 DEF Scanned
  <2> QED  BY <1>1, <2>2 DEF Positive
(* The pass two bands before Q starts above n.                             *)
<1>5. S(n + 2 * BP) = S(n) + 2 * BR
  <2>1. 2 \in Nat
    OBVIOUS
  <2> QED  BY <1>1, <2>1, NextBand
<1>6. Q <= n + 2 * BP /\ n + 2 * BP \in Nat
  BY <1>1, <1>3 DEF Positive
<1>7. S(Q) <= S(n + 2 * BP)
  BY <1>1, <1>6, StartsRise
<1>8. S(n) \in Nat /\ S(Q) \in Nat
  BY <1>1
<1> HIDE DEF Q, n, BP, BR, H, first, last, sep, S
<1>9. last - first + 1 >= 4 * BR
  BY DEF last, first, BR
<1> QED  BY <1>1, <1>2, <1>4, <1>5, <1>7, <1>8, <1>9 DEF Positive

(* An image of four head heights makes a regular page.                     *)
LEMMA TallRegular ==
  ASSUME NEW rq \in Requests, rq.strategy # "ascending3x", Tall(rq, 4)
  PROVE  /\ Regular(rq, 1) /\ Regular(rq, 2)
         /\ rq.line_count >= Separation(rq) * (rq.jets + 1)
<1> DEFINE pg == PageOf(rq)
           sep == Separation(rq)
           jets == rq.jets
           x == sep * jets
<1>1. sep \in Positive /\ jets \in Positive /\ rq.line_count \in Positive
  BY RequestPage
<1>2. x \in Int /\ x >= sep
  <2> HIDE DEF sep, jets
  <2> QED  BY <1>1 DEF Positive
<1>3. rq.line_count >= 4 * x
  BY DEF Tall
<1>4. sep * (jets + 1) = x + sep
  <2> HIDE DEF sep, jets
  <2> QED  BY <1>1 DEF Positive
<1>5. HighPage(pg) /\ pg.last - pg.first + 1 >= 4 * BandRows(pg)
  <2>1. 4 \in Positive
    BY DEF Positive
  <2> QED  BY <2>1, TallPage
<1>6. MapsApart(rq)
  <2>1. Apart(pg)
    <3> HIDE DEF pg
    <3> QED  BY <1>5, TallApart
  <2>2. /\ PassMap(pg).normal = Normal(pg)
        /\ PassMap(pg).postmapped = Postmapped(pg)
    BY PassMapIs
  <2>3. MapsApart(rq) <=>
          \/ PassMap(pg).normal <= PassMap(pg).postmapped
          \/ ScanPostmapped(pg) = FirstUnusedPass(pg)
    BY Zenon DEF MapsApart
  <2> QED  BY <2>1, <2>2, <2>3, Zenon DEF Apart
<1> HIDE DEF x
<1>7. rq.line_count >= 1 * x /\ rq.line_count >= 2 * x
      /\ rq.line_count >= x + sep
  BY <1>1, <1>2, <1>3 DEF Positive
<1> QED  BY <1>4, <1>6, <1>7 DEF Regular, Tall, x

(* An image of four head heights, as most pages are: the maps of its top   *)
(* and of its bottom never meet (the FIXME of calculate_pass_map is of no  *)
(* consequence), and the weave is right in every respect at once.          *)
THEOREM TallImagesWeave ==
  ASSUME \A rq \in Requests :
           /\ rq.strategy # "ascending3x" /\ Tall(rq, 4)
           /\ LastLine(rq) < rq.page_height
  PROVE  Spec => [](/\ RowOnItsJet /\ PassAgrees /\ LinesApart
                    /\ StartsForward /\ BankFreeInTime)
<1>1. \A rq \in Requests :
        /\ Regular(rq, 1) /\ Regular(rq, 2) /\ LastLine(rq) < rq.page_height
        /\ rq.line_count >= Separation(rq) * (rq.jets + 1)
  BY TallRegular
<1>2. Spec => []RowOnItsJet
  BY <1>1, LinesOnTheirJets
<1>3. Spec => []PassAgrees
  BY <1>1, PassesAgree
<1>4. Spec => []LinesApart
  BY <1>1, LinesStayApart
<1>5. Spec => []StartsForward
  BY <1>1, PassesStartForward
<1>6. Spec => []BankFreeInTime
  BY <1>1, BanksAreFree
<1> QED  BY <1>2, <1>3, <1>4, <1>5, <1>6, PTL

-----------------------------------------------------------------------------
(* What the softweave expects of the weave.                                *)

(* The passes of the page are numbered within their count.                 *)
LEMMA NumberBound ==
  ASSUME NEW pg, HighPage(pg), Apart(pg),
         pg.last - pg.first + 1 >= 2 * BandRows(pg), NEW p \in Used(pg)
  PROVE  /\ Number(pg, p) \in Nat
         /\ Number(pg, p) < FirstUnusedPass(pg) - FirstPremappedPass(pg)
<1> DEFINE P == FirstPremappedPass(pg)
           N == ScanNormal(pg)
           Q == ScanPostmapped(pg)
           U == FirstUnusedPass(pg)
           n == Normal(pg)
           BR == BandRows(pg)
           S(x) == RawStartRow(pg, x)
<1>1. /\ P \in Nat /\ U \in Nat /\ n \in Nat /\ BR \in Positive
      /\ Scanned(pg, P, N, Q, U) /\ ProperHead(pg)
      /\ pg.first \in Nat /\ pg.last \in Nat
      /\ \A x \in Nat : S(x) \in Nat
  BY PageNumbers
<1>2. p \in Nat /\ p < U
  <2> HIDE DEF P, U
  <2>1. p \in P .. U - 1
    BY Zenon DEF Used, P, U
  <2> QED  BY <1>1, <2>1
<1>3. Number(pg, p) \in Nat
  BY PassFacts
<1>4. n < U
  <2>1. S(n) < pg.first + 2 * BR
    BY TopReach
  <2>2. S(U) > pg.last + BR
    BY <1>1 DEF Scanned
  <2>3. S(n) \in Nat /\ S(U) \in Nat
    BY <1>1
  <2>4. S(n) < S(U)
    <3> HIDE DEF S, U, n, BR
    <3> QED  BY <1>1, <2>1, <2>2, <2>3 DEF Positive, BR
  <2> QED  BY <1>1, <2>4, StartsRise
<1>5. CASE p < n
  <2>1. Number(pg, p) < n - P
    BY <1>5, TopRegion
  <2> HIDE DEF P, U, n
  <2> QED  BY <1>1, <1>3, <1>4, <2>1 DEF P, U
<1>6. CASE Unmoved(pg, p)
  <2>1. Number(pg, p) = p - P
    BY <1>6, MiddleRegion
  <2> HIDE DEF P, U
  <2> QED  BY <1>1, <1>2, <1>3, <2>1 DEF P, U
<1>7. CASE n <= Postmapped(pg) /\ p >= Postmapped(pg)
  BY <1>3, <1>7, BottomRegion
<1> QED  BY <1>5, <1>6, <1>7, Regions

(* They are numbered without a gap.                                        *)
LEMMA NumbersFill ==
  ASSUME NEW pg, HighPage(pg), Apart(pg),
         pg.last - pg.first + 1 >= 2 * BandRows(pg),
         NEW p \in Used(pg), NEW x \in 0 .. Number(pg, p)
  PROVE  \E q \in Used(pg) : Number(pg, q) = x
<1> DEFINE P == FirstPremappedPass(pg)
           U == FirstUnusedPass(pg)
           D == P .. U - 1
           T == 0 .. U - P - 1
           f == [q \in D |-> Number(pg, q)]
<1>1. P \in Nat /\ U \in Nat /\ P <= U
  BY PageNumbers
<1>2. ASSUME NEW q \in D PROVE Number(pg, q) \in Nat /\ Number(pg, q) < U - P
  <2>1. q \in Used(pg)
    BY <1>2, Zenon DEF Used
  <2> QED  BY <2>1, NumberBound
<1>3. ASSUME NEW q \in D, NEW r \in D, Number(pg, q) = Number(pg, r) PROVE q = r
  <2>1. q \in Used(pg) /\ r \in Used(pg)
    BY <1>3, Zenon DEF Used
  <2> QED  BY <1>3, <2>1, PassNumbers
<1>4. /\ IsFiniteSet(D) /\ IsFiniteSet(T)
      /\ Cardinality(D) = Cardinality(T)
  <2> HIDE DEF P, U
  <2>1. P \in Int /\ U - 1 \in Int /\ 0 \in Int /\ U - P - 1 \in Int
    BY <1>1
  <2>2. /\ IsFiniteSet(D)
        /\ Cardinality(D) = IF P > U - 1 THEN 0 ELSE (U - 1) - P + 1
    BY <2>1, FS_Interval
  <2>3. /\ IsFiniteSet(T)
        /\ Cardinality(T) = IF 0 > U - P - 1 THEN 0 ELSE (U - P - 1) - 0 + 1
    BY <2>1, FS_Interval
  <2>4. (IF P > U - 1 THEN 0 ELSE (U - 1) - P + 1)
          = (IF 0 > U - P - 1 THEN 0 ELSE (U - P - 1) - 0 + 1)
    BY <1>1
  <2> QED  BY <2>2, <2>3, <2>4
<1>5. f \in [D -> T]
  <2>1. ASSUME NEW q \in D PROVE Number(pg, q) \in T
    <3> HIDE DEF P, U
    <3> QED  BY <1>1, <1>2
  <2> QED  BY <2>1
<1>6. \A q \in D : f[q] = Number(pg, q)
  OBVIOUS
<1> HIDE DEF f
<1>7. f \in Injection(D, T)
  <2>1. \A q \in D, r \in D : f[q] = f[r] => q = r
    <3> HIDE DEF D
    <3> QED  BY <1>3, <1>6
  <2> HIDE DEF D, T
  <2> QED  BY <1>5, <2>1 DEF Injection, IsInjective
<1>8. f \in Surjection(D, T)
  <2> HIDE DEF D, T
  <2> QED  BY <1>4, <1>7, FS_Injection
<1>9. x \in T
  <2>1. Number(pg, p) \in Nat /\ Number(pg, p) < U - P
    BY NumberBound
  <2> HIDE DEF P, U
  <2> QED  BY <1>1, <2>1
<1>10. PICK q \in D : f[q] = x
  <2> HIDE DEF D, T
  <2> QED  BY <1>8, <1>9 DEF Surjection
<1>11. q \in Used(pg)
  BY <1>10, Zenon DEF Used
<1> QED  BY <1>6, <1>10, <1>11

(* A pass that is given a bank again comes after the ones of the round     *)
(* before with a band to spare: the pass one round of bands above it is    *)
(* behind all those that must have left their banks.                       *)
LEMMA RoundBefore ==
  ASSUME NEW pg, HighPage(pg), Apart(pg),
         pg.last - pg.first + 1 >= 2 * BandRows(pg) + pg.separation,
         NEW p \in Used(pg), NEW f \in Positive,
         Number(pg, p) >= 2 * (BandPasses(pg) * f)
  PROVE  LET q == p - f * BandPasses(pg)
         IN  /\ q \in Used(pg)
             /\ RawStartRow(pg, p) = RawStartRow(pg, q) + f * BandRows(pg)
             /\ \A k \in Used(pg) :
                  Number(pg, k) + 2 * (BandPasses(pg) * f) <= Number(pg, p) => k < q
<1> DEFINE P == FirstPremappedPass(pg)
           N == ScanNormal(pg)
           Q == ScanPostmapped(pg)
           U == FirstUnusedPass(pg)
           sep == pg.separation
           BR == BandRows(pg)
           BP == BandPasses(pg)
           te == TopEdge(pg)
           be == BottomEdge(pg)
           first == pg.first
           last == pg.last
           S(x) == RawStartRow(pg, x)
           g == BP * f
           q == p - f * BP
           b == Number(pg, p)
           M == Place(pg, p)
           st == Pulled(pg, p)
<1>1. /\ P \in Nat /\ U \in Nat /\ BR \in Positive /\ BP \in Positive /\ sep \in Positive
      /\ Scanned(pg, P, N, Q, U) /\ ProperHead(pg)
      /\ first \in Nat /\ last \in Nat
      /\ te \in Nat /\ te < first + sep
      /\ \A x \in Nat : S(x) \in Nat
  BY PageNumbers
<1>2. p \in Nat /\ p < U /\ P <= p
  <2> HIDE DEF P, U
  <2>1. p \in P .. U - 1
    BY Zenon DEF Used, P, U
  <2> QED  BY <1>1, <2>1
<1>3. be \in Nat /\ be >= last + 1 - BR
  BY BottomNumbers
<1>4. /\ b \in Nat /\ st \in Int /\ M \in Nat
      /\ st > 0 => M <= te
      /\ b < BP \/ M >= be \/ b <= p - P
      /\ b < BP \/ b <= p - P + BP
  BY PassFacts
<1>5. b < U - P
  <2>1. last - first + 1 >= 2 * BR
    <3> HIDE DEF BR, sep, first, last
    <3>1. last - first + 1 >= 2 * BR + sep
      BY DEF BR, sep, first, last
    <3> QED  BY <1>1, <3>1 DEF Positive
  <2> QED  BY <2>1, NumberBound
<1>6. g \in Nat /\ g >= BP /\ (f >= 2 => g >= 2 * BP) /\ (f = 1 => g = BP) /\ f * BP = g
  <2> HIDE DEF BP
  <2>1. f = 1 \/ f >= 2
    BY DEF Positive
  <2> QED  BY <1>1, <2>1 DEF Positive
<1>7. b >= 2 * g
  OBVIOUS
<1>8. last - first + 1 >= 2 * BR + sep
  OBVIOUS
<1>9. M = S(p) - BR + sep * st
  BY DEF Place
<1>10. /\ st <= 0 => M <= S(p) - BR
       /\ S(p) \in Nat
  <2>1. S(p) \in Nat
    BY <1>1, <1>2
  <2> HIDE DEF M, S, BR, sep, st
  <2>2. st <= 0 => sep * st <= 0
    BY <1>1, <1>4 DEF Positive
  <2>3. sep * st \in Int
    BY <1>1, <1>4 DEF Positive
  <2> DEFINE y == sep * st
  <2> HIDE DEF y
  <2>4. y \in Int /\ (st <= 0 => y <= 0) /\ M = S(p) - BR + y
    BY <1>9, <2>2, <2>3 DEF y
  <2> QED  BY <1>1, <2>1, <2>4 DEF Positive
<1>11. M >= be => st <= 0
  <2> HIDE DEF M, be, te, st, BR, sep, first, last
  <2> QED  BY <1>1, <1>3, <1>4, <1>8 DEF Positive
<1> HIDE DEF g
<1>12. /\ q \in Nat /\ q >= P /\ q < U /\ q = p - g
  <2> HIDE DEF P, U, BP, b, M, be
  <2> QED  BY <1>1, <1>2, <1>4, <1>6, <1>7 DEF Positive
<1>13. q \in Used(pg)
  <2> HIDE DEF P, U, q
  <2>1. q \in P .. U - 1
    BY <1>1, <1>12
  <2> QED  BY <2>1, Zenon DEF Used, P, U
<1>14. S(p) = S(q) + f * BR
  <2>1. p = q + f * BP
    <3> HIDE DEF BP
    <3> QED  BY <1>2, <1>6
  <2>2. f \in Nat
    BY DEF Positive
  <2> HIDE DEF q
  <2>3. S(q + f * BP) = S(q) + f * BR
    BY <1>1, <1>12, <2>2, NextBand
  <2> QED  BY <2>1, <2>3
<1>15. ASSUME NEW k \in Used(pg), Number(pg, k) + 2 * g <= b
       PROVE  k < q
  <2> DEFINE a == Number(pg, k)
             L == Place(pg, k)
             pk == Pulled(pg, k)
  <2>1. k \in Nat
    <3> HIDE DEF P, U
    <3>1. k \in P .. U - 1
      BY Zenon DEF Used, P, U
    <3> QED  BY <1>1, <3>1
  <2>2. /\ a \in Nat /\ pk \in Int /\ L \in Nat
        /\ pk < 0 \/ L <= te \/ a >= k - P
        /\ pk < 0 \/ a >= k - P - (BP - 1)
    BY PassFacts
  <2>3. pk < 0 => b < a + BP
    BY PassNumbers
  <2>4. a + 2 * g <= b
    BY <1>15
  <2>5. L = S(k) - BR + sep * pk /\ S(k) \in Nat
    BY <1>1, <2>1 DEF Place
  <2> HIDE DEF a, L, pk
  <2>6. pk >= 0 /\ a >= k - P - (BP - 1)
    <3> HIDE DEF b, BP, P, te
    <3> QED  BY <1>1, <1>4, <1>6, <2>2, <2>3, <2>4 DEF Positive
  <2>7. L >= S(k) - BR
    <3> HIDE DEF S, BR, sep
    <3>1. sep * pk >= 0 /\ sep * pk \in Int
      BY <1>1, <2>2, <2>6 DEF Positive
    <3> DEFINE y == sep * pk
    <3> HIDE DEF y
    <3>2. y \in Int /\ y >= 0 /\ L = S(k) - BR + y
      BY <2>5, <3>1 DEF y
    <3> QED  BY <1>1, <2>5, <3>2 DEF Positive
  <2> HIDE DEF b, BP, P, U, te, be, M, st, q
  <2>8. ~(b < BP)
    BY <1>1, <1>4, <1>6, <1>7 DEF Positive
  <2>9. CASE f >= 2
    <3>1. g >= 2 * BP
      BY <1>6, <2>9
    <3> QED  BY <1>1, <1>2, <1>4, <1>6, <1>12, <2>1, <2>2, <2>4, <2>6, <2>8, <3>1
               DEF Positive
  <2>10. CASE f = 1 /\ a >= k - P /\ b <= p - P
    BY <1>1, <1>2, <1>4, <1>6, <1>12, <2>1, <2>2, <2>4, <2>10 DEF Positive
  <2>11. CASE f = 1 /\ a >= k - P /\ M >= be
    <3>1. b # p - P + BP
      <4> SUFFICES ASSUME b = p - P + BP PROVE FALSE
        OBVIOUS
      <4>1. p + BP \in Nat /\ p + BP < U /\ p + BP >= P
        BY <1>1, <1>2, <1>4, <1>5 DEF Positive
      <4>2. S(p + BP) <= last + BR
        <5> HIDE DEF S, BR, last
        <5> QED  BY <1>1, <4>1 DEF Scanned, S, BR, last
      <4>3. S(p + 1 * BP) = S(p) + 1 * BR
        BY <1>1, <1>2, NextBand DEF BP
      <4>4. 1 * BP = BP /\ 1 * BR = BR
        BY <1>1 DEF Positive
      <4>5. S(p + BP) = S(p) + BR
        BY <4>3, <4>4
      <4>6. M <= S(p) - BR
        BY <1>10, <1>11, <2>11
      <4> HIDE DEF S, BR, last
      <4> QED  BY <1>1, <1>3, <1>4, <1>10, <2>11, <4>2, <4>5, <4>6 DEF Positive
    <3> QED  BY <1>1, <1>2, <1>4, <1>6, <1>12, <2>1, <2>2, <2>4, <2>8, <2>11, <3>1
               DEF Positive
  <2>12. CASE f = 1 /\ L <= te
    <3>1. S(k) < first + sep + BR
      <4> HIDE DEF S, BR, sep, first
      <4> QED  BY <1>1, <2>2, <2>5, <2>7, <2>12 DEF Positive
    <3>2. S(p) = S(q) + BR /\ S(q) \in Nat
      <4>1. 1 * BR = BR
        BY <1>1 DEF Positive
      <4>2. S(q) \in Nat
        BY <1>1, <1>12
      <4> QED  BY <1>14, <2>12, <4>1, <4>2
    <3>3. CASE b <= p - P
      <4>1. p >= P + 2 * BP
        BY <1>1, <1>2, <1>4, <1>6, <1>7, <2>12, <3>3 DEF Positive
      <4>2. S(P) >= first + sep
        <5>1. S(P) - sep >= first
          BY <1>1 DEF Scanned
        <5>2. S(P) \in Nat
          BY <1>1
        <5> HIDE DEF S, sep, first
        <5> QED  BY <1>1, <5>1, <5>2 DEF Positive
      <4>3. S(P + 1 * BP) = S(P) + 1 * BR
        BY <1>1, NextBand DEF BP
      <4>4. 1 * BP = BP /\ 1 * BR = BR
        BY <1>1 DEF Positive
      <4>5. S(P + BP) = S(P) + BR
        BY <4>3, <4>4
      <4>6. P + BP \in Nat /\ P + BP <= q
        BY <1>1, <1>2, <1>6, <1>12, <2>12, <4>1 DEF Positive
      <4>7. S(P + BP) <= S(q)
        BY <1>1, <1>12, <4>6, StartsRise
      <4>8. S(k) < S(q)
        <5>1. S(P) \in Nat
          BY <1>1
        <5> HIDE DEF S, BR, sep, first
        <5> QED  BY <1>1, <2>5, <3>1, <3>2, <4>2, <4>5, <4>7, <5>1 DEF Positive
      <4> QED  BY <1>1, <1>12, <2>1, <4>8, StartsRise
    <3>4. CASE M >= be
      <4>1. M <= S(p) - BR
        BY <1>10, <1>11, <3>4
      <4>2. S(k) < S(q)
        <5> HIDE DEF S, BR, sep, first, last
        <5> QED  BY <1>1, <1>3, <1>4, <1>8, <1>10, <2>5, <3>1, <3>2, <3>4, <4>1
                   DEF Positive
      <4> QED  BY <1>1, <1>12, <2>1, <4>2, StartsRise
    <3> QED  BY <1>4, <2>8, <3>3, <3>4
  <2>13. f = 1 \/ f >= 2
    BY DEF Positive
  <2> QED  BY <1>4, <2>2, <2>6, <2>8, <2>9, <2>10, <2>11, <2>12, <2>13
<1> QED  BY <1>13, <1>14, <1>15 DEF g

(* A pass that need not be pulled up ends where its last jet does.         *)
LEMMA PassEndIs ==
  ASSUME NEW pg, HighPage(pg), Apart(pg), NEW p \in Used(pg),
         RawStartRow(pg, p) - pg.separation <= pg.last
  PROVE  PassEnd(pg, p) = RawStartRow(pg, p) - pg.separation
<1> DEFINE sep == pg.separation
           BR == BandRows(pg)
           S == RawStartRow(pg, p)
           st == Pulled(pg, p)
           M == Place(pg, p)
           be == BottomEdge(pg)
           last == pg.last
           z == sep * (pg.jets - 1)
<1>1. /\ sep \in Positive /\ BR \in Positive /\ last \in Nat /\ pg.jets \in Positive
      /\ z = BR - sep
      /\ \A x \in Nat : RawStartRow(pg, x) \in Nat
  BY PageNumbers
<1>2. p \in Nat
  BY Regions
<1>3. S \in Nat /\ S - sep <= last
  BY <1>1, <1>2
<1>4. be \in Nat /\ be >= last + 1 - BR
  BY BottomNumbers
<1>5. /\ st \in Int /\ M \in Nat
      /\ st < 0 => M >= be
  BY PassFacts
<1>6. M = S - BR + sep * st
  BY DEF Place
<1> HIDE DEF S, M, st, be
<1>7. st >= 0
  <2> SUFFICES ASSUME st < 0 PROVE FALSE
    BY <1>5
  <2>1. sep * st <= -sep /\ sep * st \in Int
    <3> HIDE DEF sep
    <3>1. st <= -1
      BY <1>5
    <3>2. sep * st <= sep * (-1)
      BY <1>1, <1>5, <3>1 DEF Positive
    <3> QED  BY <1>1, <1>5, <3>2 DEF Positive
  <2> DEFINE y == sep * st
  <2> HIDE DEF y, sep, BR, last
  <2>2. y \in Int /\ y <= -sep /\ M = S - BR + y
    BY <1>6, <2>1 DEF y
  <2> QED  BY <1>1, <1>3, <1>4, <1>5, <2>2 DEF Positive
<1>8. Down(pg, p) = st
  BY <1>5, <1>7 DEF Down, st
<1>9. LastJetRow(pg, p) = S - sep
  <2>1. LastJetRow(pg, p) = M + sep * (pg.jets - st - 1)
    BY <1>8 DEF LastJetRow, M
  <2> HIDE DEF sep, BR
  <2>2. sep * (pg.jets - st - 1) = z - sep * st /\ sep * st \in Int
    BY <1>1, <1>5 DEF Positive
  <2> DEFINE y == sep * st
  <2> HIDE DEF y, z
  <2>3. y \in Int /\ LastJetRow(pg, p) = M + (z - y) /\ M = S - BR + y
    BY <1>6, <2>1, <2>2 DEF y
  <2> QED  BY <1>1, <1>3, <1>5, <2>3 DEF Positive
<1>10. JetsOver(sep, LastJetRow(pg, p) - last) = 0
  <2>1. ~(LastJetRow(pg, p) - last > 0)
    <3> HIDE DEF sep, last
    <3> QED  BY <1>1, <1>3, <1>9 DEF Positive
  <2> QED  BY <2>1 DEF JetsOver
<1>11. PassEnd(pg, p) = LastJetRow(pg, p) - sep * 0
  BY <1>10 DEF PassEnd
<1>12. sep * 0 = 0
  BY <1>1 DEF Positive
<1> HIDE DEF sep
<1> QED  BY <1>1, <1>3, <1>9, <1>11, <1>12 DEF sep, S, Positive

-----------------------------------------------------------------------------
(* The jobs of a softweave.                                                *)
J == INSTANCE WeaveJobs WITH Jobs <- {}

(* A jet of a pass of the page that stands on a row of the page prints it: *)
(* the line of the pass's subpass.                                         *)
LEMMA PageLine ==
  ASSUME NEW rq \in Requests, Regular(rq, 1), RepeatCount(rq) = 1,
         NEW p \in Used(PageOf(rq)), NEW j \in 0 .. PageOf(rq).jets - 1,
         NEW r \in rq.first_line .. LastLine(rq),
         RawStartRow(PageOf(rq), p) + j * PageOf(rq).separation
           = r + BandRows(PageOf(rq))
  PROVE  LET l == <<r, RawSubpass(PageOf(rq), p)>>
         IN  /\ l \in DOMAIN WeaveTable(rq)
             /\ LineFrom(rq, l, p, j)
<1> DEFINE pg == PageOf(rq)
           rep == RepeatCount(rq)
           os == Oversample(rq)
           s == RawSubpass(pg, p)
           l == <<r, s>>
           rows == rq.first_line .. LastLine(rq)
<1>1. rq.strategy # "ascending3x" /\ HighPage(pg) /\ Apart(pg)
  <2>1. 1 \in Positive
    BY DEF Positive
  <2> QED  BY <2>1, RegularPage
<1>2. /\ ProperHead(pg) /\ pg.oversampling = os /\ os \in Positive
      /\ rq.first_line \in Nat /\ LastLine(rq) \in Nat
  BY <1>1, RequestPage
<1>3. /\ BandRows(pg) \in Positive /\ p \in Nat
      /\ \A x \in Nat : RawStartRow(pg, x) \in Nat
  BY <1>1, PageNumbers, Regions
<1>4. s \in 0 .. os - 1
  <2>1. r + BandRows(pg) >= BandRows(pg)
    BY <1>2, <1>3 DEF Positive
  <2> QED  BY <1>2, <1>3, <2>1, PartsOf
<1>5. os * rep - 1 = os - 1
  BY <1>2 DEF Positive
<1>6. l \in DOMAIN WeaveTable(rq)
  <2>1. DOMAIN WeaveTable(rq) = rows \X (0 .. os * rep - 1)
    BY DEF WeaveTable
  <2> HIDE DEF s, os, rep, rows
  <2>2. r \in rows /\ s \in 0 .. os * rep - 1
    BY <1>4, <1>5 DEF rows
  <2> QED  BY <2>1, <2>2
<1>7. PICK q, k : LineFrom(rq, l, q, k)
  BY <1>6, LineOf
<1>8. /\ l[1] = r /\ l[2] = s
  OBVIOUS
<1>9. /\ q \in Used(pg) /\ k \in 0 .. pg.jets - 1
      /\ RawSubpass(pg, q) = l[2] \div rep
      /\ RawStartRow(pg, q) + k * pg.separation = l[1] + BandRows(pg)
  BY <1>7, Zenon DEF LineFrom
<1>10. l[2] \div rep = s
  <2> HIDE DEF s, l
  <2>1. l[2] = 1 * s + 0 /\ l[2] \in Int /\ s \in Int /\ 1 \in Positive
        /\ 0 \in 0 .. 1 - 1
    BY <1>2, <1>4, <1>8 DEF Positive
  <2>2. l[2] \div 1 = s
    BY <2>1, DivisionIs
  <2> QED  BY <2>2
<1>11. q \in Nat
  BY <1>1, <1>9, Regions
<1>12. p = q /\ j = k
  <2>1. RawSubpass(pg, p) = RawSubpass(pg, q)
    BY <1>9, <1>10
  <2>2. RawStartRow(pg, p) + j * pg.separation = RawStartRow(pg, q) + k * pg.separation
    BY <1>8, <1>9
  <2>3. j \in 0 .. pg.jets - 1
    OBVIOUS
  <2>4. ProperHead(pg) /\ p \in Nat /\ q \in Nat /\ k \in 0 .. pg.jets - 1
    BY <1>2, <1>3, <1>9, <1>11
  <2> HIDE DEF pg, s, l, os, rep, rows
  <2> QED  BY ONLY <2>1, <2>2, <2>3, <2>4, SamePass
<1> QED  BY <1>6, <1>7, <1>12

(* Every pass of the page has one.                                         *)
LEMMA HasLine ==
  ASSUME NEW pg, HighPage(pg), Apart(pg), NEW p \in Used(pg)
  PROVE  \E j \in 0 .. pg.jets - 1, r \in pg.first .. pg.last :
           RawStartRow(pg, p) + j * pg.separation = r + BandRows(pg)
<1> DEFINE S == RawStartRow(pg, p)
           BR == BandRows(pg)
           sep == pg.separation
           n == pg.jets - 1
<1>1. /\ sep \in Positive /\ BR \in Positive /\ pg.first \in Nat /\ pg.last \in Nat
      /\ pg.jets \in Positive /\ sep * n = BR - sep
      /\ pg.last - pg.first + 1 >= BR
      /\ Scanned(pg, FirstPremappedPass(pg), ScanNormal(pg),
                 ScanPostmapped(pg), FirstUnusedPass(pg))
      /\ \A x \in Nat : RawStartRow(pg, x) \in Nat
  BY PageNumbers
<1>2. p \in Nat /\ S \in Nat
  BY <1>1, Regions
<1>3. S - sep >= pg.first /\ S <= pg.last + BR
  <2>1. FirstPremappedPass(pg) \in Nat /\ FirstUnusedPass(pg) \in Nat
    BY <1>1 DEF Scanned
  <2>2. p >= FirstPremappedPass(pg) /\ p < FirstUnusedPass(pg)
    <3>1. p \in FirstPremappedPass(pg) .. FirstUnusedPass(pg) - 1
      BY Zenon DEF Used
    <3> QED  BY <2>1, <3>1
  <2> QED  BY <1>1, <1>2, <2>2 DEF Scanned
<1>4. 0 \in 0 .. pg.jets - 1 /\ n \in 0 .. pg.jets - 1 /\ n \in Int
  BY <1>1 DEF Positive
<1>5. n * sep = BR - sep
  <2>1. n * sep = sep * n
    BY <1>1, <1>4 DEF Positive
  <2> QED  BY <1>1, <2>1
<1> HIDE DEF S, BR, sep, n
<1>6. CASE S - BR >= pg.first
  <2>1. S - BR \in pg.first .. pg.last
    BY <1>1, <1>2, <1>3, <1>6 DEF Positive
  <2>2. S + 0 * sep = (S - BR) + BR
    BY <1>1, <1>2 DEF Positive
  <2> QED  BY <1>4, <2>1, <2>2 DEF S, BR, sep
<1>7. CASE S - BR < pg.first
  <2>1. S - sep \in pg.first .. pg.last
    BY <1>1, <1>2, <1>3, <1>7 DEF Positive
  <2>2. S + n * sep = (S - sep) + BR
    BY <1>1, <1>2, <1>5 DEF Positive
  <2> QED  BY <1>4, <2>1, <2>2 DEF S, BR, sep
<1> QED  BY <1>1, <1>2, <1>6, <1>7 DEF Positive

ImageRows(rq) == rq.first_line .. rq.first_line + rq.line_count - 1

(* The row and subpass whose weave a line handed over is printed with.     *)
Woven(rq, l) == <<l[1] + HeadOffset(rq, l[2]), l[3]>>

(* The numbers of such a page.                                             *)
LEMMA JobNumbers ==
  ASSUME NEW rq \in Requests, rq.strategy # "ascending3x",
         NEW cols, AllRows(rq, cols)
  PROVE  /\ rq.first_line \in Nat /\ rq.line_count \in Positive
         /\ MaxHeadOffset(rq) \in Nat
         /\ LastLine(rq) = rq.first_line + rq.line_count - 1 + MaxHeadOffset(rq)
         /\ \A c \in cols : /\ c \in 1 .. NColors(rq)
                            /\ HeadOffset(rq, c) \in Nat
                            /\ HeadOffset(rq, c) <= MaxHeadOffset(rq)
         /\ {Separation(rq), rq.jets, Oversample(rq)} \subseteq Positive
         /\ Oversample(rq) * RepeatCount(rq) = Oversample(rq)
<1>1. /\ {Separation(rq), rq.jets, Oversample(rq), RepeatCount(rq)} \subseteq Positive
      /\ rq.first_line \in Nat /\ LastLine(rq) \in Nat
      /\ rq.line_count \in Positive
  BY RequestPage
<1>2. /\ MaxHeadOffset(rq) \in Nat
      /\ \A c \in 1 .. NColors(rq) : /\ HeadOffset(rq, c) \in Nat
                                     /\ HeadOffset(rq, c) <= MaxHeadOffset(rq)
  BY HeadOffsets
<1>3. LastLine(rq) = rq.first_line + rq.line_count - 1 + MaxHeadOffset(rq)
  BY DEF LastLine
<1>4. Oversample(rq) * RepeatCount(rq) = Oversample(rq)
  BY <1>1 DEF AllRows, Positive
<1> QED  BY <1>1, <1>2, <1>3, <1>4 DEF AllRows

(* A line buffer has room for every jet of the head.                       *)
LEMMA EnoughJets ==
  ASSUME NEW rq \in Requests, rq.strategy # "ascending3x"
  PROVE  VirtualJets(rq) \in Positive /\ rq.jets <= VirtualJets(rq)
<1> DEFINE sep == Separation(rq)
           n == MaxHeadOffset(rq) + sep - 1
           d == n \div sep
<1>1. {sep, rq.jets} \subseteq Positive /\ MaxHeadOffset(rq) \in Nat
  BY RequestPage, HeadOffsets
<1>2. n \in Nat /\ sep \in Positive
  BY <1>1 DEF Positive
<1>3. VirtualJets(rq) = rq.jets + d
  BY DEF VirtualJets
<1> HIDE DEF n
<1>4. d \in Int /\ n % sep \in 0 .. sep - 1 /\ n = sep * d + (n % sep)
  BY <1>2, Division
<1> HIDE DEF d, sep
<1>5. d >= 0
  <2>1. CASE d <= -1
    <3>1. sep * d <= -sep /\ sep * d \in Int
      BY <1>2, <1>4, <2>1 DEF Positive
    <3> QED  BY <1>2, <1>4, <3>1 DEF Positive
  <2> QED  BY <1>4, <2>1
<1> QED  BY <1>1, <1>3, <1>4, <1>5 DEF Positive

(* The parts of its job.                                                   *)
LEMMA JobIs ==
  ASSUME NEW rq, NEW cols, NEW ink
  PROVE  LET job == JobOf(rq, cols, ink)
         IN  /\ J!Rows(job) = ImageRows(rq)
             /\ J!Subpasses(job) = 0 .. Oversample(rq) - 1
             /\ J!Colors(job) = 1 .. NColors(rq)
             /\ J!Fed(job) = ImageRows(rq) \X cols \X (0 .. Oversample(rq) - 1)
             /\ job.weave = WeaveTable(rq) /\ job.vmod = VMod(rq)
             /\ \A c \in 1 .. NColors(rq) : job.head_offset[c] = HeadOffset(rq, c)
BY DEF JobOf, J!Rows, J!Subpasses, J!Colors, J!Fed, ImageRows

(* A line handed over is a line of the weave, printed by a jet of a pass.  *)
LEMMA FedLine ==
  ASSUME NEW rq \in Requests, Regular(rq, 1), NEW cols, AllRows(rq, cols),
         NEW ink, NEW l \in J!Fed(JobOf(rq, cols, ink))
  PROVE  /\ l = <<l[1], l[2], l[3]>>
         /\ l[1] \in ImageRows(rq) /\ l[2] \in cols
         /\ l[3] \in 0 .. Oversample(rq) - 1
         /\ J!Line(JobOf(rq, cols, ink), l) = WeaveTable(rq)[Woven(rq, l)]
         /\ Woven(rq, l) \in DOMAIN WeaveTable(rq)
         /\ \E p, j : LineFrom(rq, Woven(rq, l), p, j)
<1> DEFINE job == JobOf(rq, cols, ink)
           os == Oversample(rq)
           rows == rq.first_line .. LastLine(rq)
           off == HeadOffset(rq, l[2])
<1>1. rq.strategy # "ascending3x"
  BY DEF Regular
<1>2. /\ l = <<l[1], l[2], l[3]>>
      /\ l[1] \in ImageRows(rq) /\ l[2] \in cols /\ l[3] \in 0 .. os - 1
  <2>1. l \in ImageRows(rq) \X cols \X (0 .. os - 1)
    BY JobIs
  <2> HIDE DEF os
  <2> QED  BY <2>1
<1>3. J!Line(job, l) = WeaveTable(rq)[Woven(rq, l)]
  <2>1. l[2] \in 1 .. NColors(rq)
    BY <1>2 DEF AllRows
  <2>2. job.weave = WeaveTable(rq) /\ job.head_offset[l[2]] = off
    BY <2>1, JobIs
  <2> HIDE DEF job, off
  <2> QED  BY <2>2 DEF J!Line, Woven, off
<1>4. l[1] + off \in rows
  <2>1. /\ rq.first_line \in Nat /\ rq.line_count \in Positive
        /\ MaxHeadOffset(rq) \in Nat /\ off \in Nat /\ off <= MaxHeadOffset(rq)
        /\ LastLine(rq) = rq.first_line + rq.line_count - 1 + MaxHeadOffset(rq)
    BY <1>1, <1>2, JobNumbers
  <2>2. l[1] \in rq.first_line .. rq.first_line + rq.line_count - 1
    BY <1>2 DEF ImageRows
  <2> HIDE DEF off
  <2> QED  BY <2>1, <2>2 DEF Positive
<1>5. Woven(rq, l) \in DOMAIN WeaveTable(rq)
  <2>1. DOMAIN WeaveTable(rq) = rows \X (0 .. os * RepeatCount(rq) - 1)
    BY DEF WeaveTable
  <2>2. os * RepeatCount(rq) = os
    BY <1>1, JobNumbers
  <2> HIDE DEF os, rows, off
  <2> QED  BY <1>2, <1>4, <2>1, <2>2 DEF Woven, off
<1> QED  BY <1>2, <1>3, <1>5, LineOf

(* Every line of the weave is handed over.                                 *)
LEMMA Covered ==
  ASSUME NEW rq \in Requests, rq.strategy # "ascending3x", NEW cols, AllRows(rq, cols),
         NEW ink, NEW r \in rq.first_line .. LastLine(rq),
         NEW s \in 0 .. Oversample(rq) - 1
  PROVE  \E l \in J!Fed(JobOf(rq, cols, ink)) : Woven(rq, l) = <<r, s>>
<1> DEFINE first == rq.first_line
           count == rq.line_count
           max == MaxHeadOffset(rq)
<1>1. /\ first \in Nat /\ count \in Positive /\ max \in Nat
      /\ LastLine(rq) = first + count - 1 + max
  BY JobNumbers
<1>2. max <= count
  BY DEF AllRows
<1>3. \E c \in cols : /\ HeadOffset(rq, c) \in Nat
                      /\ r - HeadOffset(rq, c) \in ImageRows(rq)
  <2>1. CASE r < first + count
    <3>1. PICK c \in cols : HeadOffset(rq, c) = 0
      BY DEF AllRows
    <3>2. r - 0 \in first .. first + count - 1
      BY <1>1, <2>1 DEF Positive
    <3> QED  BY <3>1, <3>2 DEF ImageRows
  <2>2. CASE r >= first + count
    <3>1. PICK c \in cols : HeadOffset(rq, c) = max
      BY DEF AllRows
    <3>2. r - max \in first .. first + count - 1
      BY <1>1, <1>2, <2>2 DEF Positive
    <3> QED  BY <1>1, <3>1, <3>2 DEF ImageRows
  <2> QED  BY <1>1, <2>1, <2>2 DEF Positive
<1>4. PICK c \in cols : /\ HeadOffset(rq, c) \in Nat
                        /\ r - HeadOffset(rq, c) \in ImageRows(rq)
  BY <1>3
<1> DEFINE l == <<r - HeadOffset(rq, c), c, s>>
<1>5. l \in J!Fed(JobOf(rq, cols, ink))
  <2>1. J!Fed(JobOf(rq, cols, ink)) =
          ImageRows(rq) \X cols \X (0 .. Oversample(rq) - 1)
    BY JobIs
  <2> QED  BY <1>4, <2>1
<1>6. Woven(rq, l) = <<r, s>>
  <2>1. (r - HeadOffset(rq, c)) + HeadOffset(rq, c) = r
    BY <1>1, <1>4 DEF Positive
  <2>2. l[1] = r - HeadOffset(rq, c) /\ l[2] = c /\ l[3] = s
    OBVIOUS
  <2> HIDE DEF l
  <2> QED  BY <2>1, <2>2 DEF Woven
<1> QED  BY <1>5, <1>6

(* A pass that is not repeated has its number on the page.                 *)
LEMMA OnceNumber ==
  ASSUME NEW rq \in Requests, Regular(rq, 1), RepeatCount(rq) = 1,
         NEW l, NEW p, NEW j, LineFrom(rq, l, p, j)
  PROVE  /\ WeaveTable(rq)[l].pass = Number(PageOf(rq), p)
         /\ Number(PageOf(rq), p) \in Nat
         /\ p \in Used(PageOf(rq)) /\ p \in Nat
         /\ l[2] = RawSubpass(PageOf(rq), p)
<1> DEFINE pg == PageOf(rq)
           n == Number(pg, p)
<1>1. /\ HighPage(pg) /\ Apart(pg) /\ p \in Used(pg) /\ n \in Nat
      /\ l[2] \in Nat /\ l[2] % 1 \in 0 .. 1 - 1
      /\ l[2] = 1 * (l[2] \div 1) + (l[2] % 1)
  BY LineNumbers
<1>2. WeaveTable(rq)[l].pass = n * 1 + (l[2] % 1)
  BY LineRows
<1>3. p \in Nat
  BY <1>1, Regions
<1>4. RawSubpass(pg, p) = l[2] \div 1
  BY Zenon DEF LineFrom
<1>5. l[2] % 1 = 0
  BY <1>1
<1> HIDE DEF n, pg
<1>6. WeaveTable(rq)[l].pass = n
  BY <1>1, <1>2, <1>5
<1>7. l[2] = l[2] \div 1
  <2>1. l[2] \div 1 \in Int
    <3>1. l[2] \in Int /\ 1 \in Positive
      BY <1>1 DEF Positive
    <3> QED  BY <3>1, Division
  <2> DEFINE q == l[2] \div 1
  <2> HIDE DEF q
  <2>2. l[2] = 1 * q + 0
    BY <1>1, <1>5 DEF q
  <2> QED  BY <1>1, <2>1, <2>2 DEF q
<1> QED  BY <1>1, <1>3, <1>4, <1>6, <1>7 DEF n, pg

(* The passes of the lines handed over are the passes of the page.         *)
LEMMA FedPasses ==
  ASSUME NEW rq \in Requests, Regular(rq, 1), NEW cols, AllRows(rq, cols), NEW ink
  PROVE  LET job == JobOf(rq, cols, ink)
             pg  == PageOf(rq)
         IN  /\ \A l \in J!Fed(job) : \E p \in Used(pg) :
                  J!Line(job, l).pass = Number(pg, p)
             /\ \A p \in Used(pg) : \E l \in J!Fed(job) :
                  J!Line(job, l).pass = Number(pg, p)
<1> DEFINE job == JobOf(rq, cols, ink)
           pg  == PageOf(rq)
<1>1. RepeatCount(rq) = 1
  BY DEF AllRows
<1>2. rq.strategy # "ascending3x" /\ HighPage(pg) /\ Apart(pg)
  <2>1. 1 \in Positive
    BY DEF Positive
  <2> QED  BY <2>1, RegularPage
<1>3. ASSUME NEW l \in J!Fed(job)
      PROVE  \E p \in Used(pg) : J!Line(job, l).pass = Number(pg, p)
  <2>1. J!Line(job, l) = WeaveTable(rq)[Woven(rq, l)]
    BY <1>3, FedLine
  <2>2. PICK p, j : LineFrom(rq, Woven(rq, l), p, j)
    BY <1>3, FedLine
  <2>3. p \in Used(pg) /\ WeaveTable(rq)[Woven(rq, l)].pass = Number(pg, p)
    BY <1>1, <2>2, OnceNumber
  <2> QED  BY <2>1, <2>3
<1>4. ASSUME NEW p \in Used(pg)
      PROVE  \E l \in J!Fed(job) : J!Line(job, l).pass = Number(pg, p)
  <2>1. /\ pg.first = rq.first_line /\ pg.last = LastLine(rq)
        /\ pg.oversampling = Oversample(rq) /\ ProperHead(pg)
    BY <1>2, RequestPage
  <2>2. PICK j \in 0 .. pg.jets - 1, r \in pg.first .. pg.last :
          RawStartRow(pg, p) + j * pg.separation = r + BandRows(pg)
    BY <1>2, <1>4, HasLine
  <2> DEFINE s == RawSubpass(pg, p)
             k == <<r, s>>
  <2>3. r \in rq.first_line .. LastLine(rq)
    BY <2>1, <2>2
  <2>4. LineFrom(rq, k, p, j)
    BY <1>1, <1>4, <2>2, <2>3, PageLine
  <2>5. WeaveTable(rq)[k].pass = Number(pg, p) /\ p \in Nat
    BY <1>1, <2>4, OnceNumber
  <2>6. s \in 0 .. Oversample(rq) - 1
    <3>1. s \in 0 .. pg.oversampling - 1
      BY <2>1, <2>5, PartsOf
    <3> QED  BY <2>1, <3>1
  <2>7. PICK l \in J!Fed(job) : Woven(rq, l) = k
    <3> HIDE DEF s, job
    <3>1. \E l \in J!Fed(job) : Woven(rq, l) = <<r, s>>
      BY <1>2, <2>3, <2>6, Covered DEF job
    <3> QED  BY <3>1
  <2>8. J!Line(job, l) = WeaveTable(rq)[Woven(rq, l)]
    BY <2>7, FedLine
  <2> QED  BY <2>5, <2>7, <2>8
<1> QED  BY <1>3, <1>4

(* They are numbered consecutively.                                        *)
LEMMA FedNumbers ==
  ASSUME NEW rq \in Requests, Regular(rq, 2), NEW cols, AllRows(rq, cols), NEW ink,
         NEW p \in {J!Line(JobOf(rq, cols, ink), l).pass :
                      l \in J!Fed(JobOf(rq, cols, ink))},
         NEW x \in 0 .. p
  PROVE  x \in {J!Line(JobOf(rq, cols, ink), l).pass :
                  l \in J!Fed(JobOf(rq, cols, ink))}
<1> DEFINE job == JobOf(rq, cols, ink)
           pg  == PageOf(rq)
<1>1. Regular(rq, 1)
  BY RegularOnce
<1>2. /\ HighPage(pg) /\ Apart(pg)
      /\ pg.last - pg.first + 1 >= 2 * BandRows(pg)
  <2>1. 2 \in Positive
    BY DEF Positive
  <2> QED  BY <2>1, RegularPage
<1>3. /\ \A l \in J!Fed(job) : \E q \in Used(pg) :
           J!Line(job, l).pass = Number(pg, q)
      /\ \A q \in Used(pg) : \E l \in J!Fed(job) :
           J!Line(job, l).pass = Number(pg, q)
  BY <1>1, FedPasses
<1>4. PICK l \in J!Fed(job) : p = J!Line(job, l).pass
  OBVIOUS
<1>5. PICK q \in Used(pg) : p = Number(pg, q)
  BY <1>3, <1>4
<1>6. x \in 0 .. Number(pg, q)
  BY <1>5
<1>7. PICK k \in Used(pg) : Number(pg, k) = x
  BY <1>2, <1>5, <1>6, NumbersFill
<1> QED  BY <1>3, <1>7

(* The bank of a pass is free when its first line comes: the pass a round  *)
(* of bands above it ends on a row of the image above the line, and all    *)
(* passes that must have been sent have ended by then.                     *)
LEMMA FedInTime ==
  ASSUME NEW rq \in Requests, Regular(rq, 2),
         rq.line_count >= Separation(rq) * (2 * rq.jets + 1),
         NEW cols, AllRows(rq, cols), NEW ink,
         NEW l \in J!Fed(JobOf(rq, cols, ink)),
         J!Line(JobOf(rq, cols, ink), l).pass >= VMod(rq)
  PROVE  LET job == JobOf(rq, cols, ink)
         IN  \E r \in J!Rows(job) :
               /\ r < l[1]
               /\ J!EndsPass(job, r)
               /\ J!Behind(job, J!Line(job, l).pass - VMod(rq), r)
<1> DEFINE job == JobOf(rq, cols, ink)
           pg  == PageOf(rq)
           sep == pg.separation
           BR  == BandRows(pg)
           BP  == BandPasses(pg)
           max == MaxHeadOffset(rq)
           first == rq.first_line
           off == HeadOffset(rq, l[2])
           w   == J!Line(job, l)
           S(x) == RawStartRow(pg, x)
<1>1. Regular(rq, 1) /\ RepeatCount(rq) = 1 /\ rq.strategy # "ascending3x"
  BY RegularOnce DEF AllRows, Regular
<1>2. /\ HighPage(pg) /\ Apart(pg)
  <2>1. 1 \in Positive
    BY DEF Positive
  <2> QED  BY <1>1, <2>1, RegularPage
<1>3. /\ sep \in Positive /\ BR \in Positive /\ BP \in Positive /\ pg.jets \in Positive
      /\ pg.first \in Nat /\ pg.last \in Nat
      /\ sep * (pg.jets - 1) = BR - sep
      /\ Scanned(pg, FirstPremappedPass(pg), ScanNormal(pg),
                 ScanPostmapped(pg), FirstUnusedPass(pg))
      /\ ProperHead(pg)
      /\ \A x \in Nat : S(x) \in Nat
  BY <1>2, PageNumbers
<1>4. /\ pg.first = first /\ pg.last = LastLine(rq) /\ pg.separation = Separation(rq)
      /\ pg.jets = rq.jets /\ BR = Separation(rq) * rq.jets
      /\ pg.oversampling = Oversample(rq)
      /\ pg.last - pg.first + 1 >= rq.line_count
  BY <1>1, RequestPage
<1>5. /\ first \in Nat /\ rq.line_count \in Positive /\ max \in Nat
      /\ LastLine(rq) = first + rq.line_count - 1 + max
      /\ \A c \in cols : HeadOffset(rq, c) \in Nat /\ HeadOffset(rq, c) <= max
  BY <1>1, JobNumbers
<1>6. pg.last - pg.first + 1 >= 2 * BR + sep
  <2> DEFINE e == Separation(rq)
             n == rq.jets
  <2>1. e \in Int /\ n \in Int
    BY <1>3, <1>4 DEF Positive
  <2> HIDE DEF e, n
  <2>2. e * (2 * n + 1) = 2 * (e * n) + e
    BY <2>1
  <2>3. rq.line_count >= 2 * BR + sep
    BY <1>4, <2>2 DEF e, n
  <2> HIDE DEF BR, sep
  <2> QED  BY <1>3, <1>4, <1>5, <2>3 DEF Positive
<1>7. /\ l[1] \in ImageRows(rq) /\ l[2] \in cols
      /\ w = WeaveTable(rq)[Woven(rq, l)]
      /\ Woven(rq, l)[1] = l[1] + off
  BY <1>1, FedLine DEF Woven
<1>8. PICK p, j : LineFrom(rq, Woven(rq, l), p, j)
  BY <1>1, FedLine
<1>9. /\ p \in Used(pg) /\ p \in Nat /\ Number(pg, p) \in Nat
      /\ w.pass = Number(pg, p)
  BY <1>1, <1>7, <1>8, OnceNumber
<1>10. j \in 0 .. pg.jets - 1 /\ S(p) + j * sep = (l[1] + off) + BR
  <2>1. j \in 0 .. pg.jets - 1 /\ S(p) + j * sep = Woven(rq, l)[1] + BR
    BY <1>8, Zenon DEF LineFrom
  <2> QED  BY <1>7, <2>1
<1>11. PICK f \in Positive : /\ VMod(rq) = 2 * (BP * f)
                             /\ f * BR >= BR + max
  <2>1. PICK f \in Positive : /\ VMod(rq) = (2 * (BP * f)) * RepeatCount(rq)
                              /\ f * BR >= BR + max
    BY <1>1, BanksOf
  <2>2. (2 * (BP * f)) * 1 = 2 * (BP * f)
    BY <1>3 DEF Positive
  <2> QED  BY <1>1, <2>1, <2>2
<1> DEFINE q == p - f * BP
           r == S(q) - sep
<1>12. /\ q \in Used(pg)
       /\ S(p) = S(q) + f * BR
       /\ \A k \in Used(pg) : Number(pg, k) + 2 * (BP * f) <= Number(pg, p) => k < q
  <2>1. Number(pg, p) >= 2 * (BP * f)
    BY <1>9, <1>11
  <2> QED  BY <1>2, <1>6, <1>9, <2>1, RoundBefore
<1>13. q \in Nat /\ S(q) \in Nat
  BY <1>2, <1>3, <1>12, Regions
<1> HIDE DEF q
<1>14. r >= pg.first
  <2>1. FirstPremappedPass(pg) \in Nat /\ FirstUnusedPass(pg) \in Nat
    BY <1>3 DEF Scanned
  <2>2. q \in FirstPremappedPass(pg) .. FirstUnusedPass(pg) - 1
    BY <1>12, Zenon DEF Used
  <2>3. q >= FirstPremappedPass(pg)
    BY <2>1, <2>2
  <2> QED  BY <1>3, <1>13, <2>3 DEF Scanned
<1>15. l[1] \in first .. first + rq.line_count - 1 /\ off \in Nat /\ off <= max
  BY <1>5, <1>7 DEF ImageRows
<1>16. j * sep \in Int /\ j * sep <= BR - sep /\ f * BR \in Int
  <2>1. j \in Int /\ j <= pg.jets - 1 /\ sep \in Int /\ sep > 0 /\ pg.jets \in Int
    BY <1>3, <1>10 DEF Positive
  <2>2. j * sep <= (pg.jets - 1) * sep
    <3> DEFINE n == pg.jets - 1
    <3>1. n \in Int /\ j <= n
      BY <2>1
    <3> HIDE DEF n
    <3> QED  BY <2>1, <3>1
  <2>3. (pg.jets - 1) * sep = sep * (pg.jets - 1)
    BY <2>1
  <2> QED  BY <1>3, <2>1, <2>2, <2>3 DEF Positive
<1> HIDE DEF off, BR, sep, first, max, S, w, job
<1>17. r < l[1] /\ r \in Int
  <2> DEFINE y == S(p)
             z == j * sep
             u == f * BR
  <2>1. /\ y \in Nat /\ z \in Int /\ u \in Int /\ y = S(q) + u /\ u >= BR + max
        /\ y + z = (l[1] + off) + BR /\ z >= 0
    <3>1. j \in Nat
      BY <1>3, <1>10 DEF Positive
    <3>2. j * sep >= 0
      BY <1>3, <3>1 DEF Positive
    <3> QED  BY <1>3, <1>9, <1>10, <1>11, <1>12, <1>16, <3>2
  <2> HIDE DEF y, z, u
  <2>2. z <= BR - sep
    BY <1>16 DEF z
  <2> QED  BY <1>3, <1>5, <1>13, <1>15, <2>1, <2>2 DEF Positive
<1>18. r \in ImageRows(rq) /\ r \in rq.first_line .. LastLine(rq) /\ r <= pg.last
  <2>1. r \in first .. first + rq.line_count - 1 /\ r \in first .. LastLine(rq)
    BY <1>4, <1>5, <1>14, <1>15, <1>17 DEF Positive
  <2> QED  BY <1>4, <1>5, <1>17, <2>1 DEF ImageRows, first
<1>19. J!EndsPass(job, r)
  <2> DEFINE s == RawSubpass(pg, q)
             n == pg.jets - 1
  <2>1. n \in 0 .. pg.jets - 1 /\ S(q) + n * sep = r + BR
    <3>1. n \in Int /\ n * sep = sep * n
      BY <1>3 DEF Positive
    <3>2. sep * n = BR - sep
      BY <1>3
    <3>3. n \in 0 .. pg.jets - 1
      BY <1>3 DEF Positive
    <3> HIDE DEF n
    <3> QED  BY <1>3, <1>13, <3>1, <3>2, <3>3 DEF Positive
  <2>2. LineFrom(rq, <<r, s>>, q, n)
    <3> HIDE DEF n, r
    <3> QED  BY <1>1, <1>12, <1>18, <2>1, PageLine DEF S, BR, sep, n
  <2>3. s \in 0 .. Oversample(rq) - 1
    <3>1. s \in 0 .. pg.oversampling - 1
      BY <1>3, <1>13, PartsOf
    <3> QED  BY <1>4, <3>1
  <2> DEFINE m == <<r, s>>
             number == Number(pg, q) * RepeatCount(rq) + (m[2] % RepeatCount(rq))
  <2>4. WeaveTable(rq)[m] = Line(pg, q, n, number)
    BY <2>2, Zenon DEF LineFrom
  <2>5. Line(pg, q, n, number).physpassend = PassEnd(pg, q)
    BY DEF Line
  <2>6. PassEnd(pg, q) = r
    BY <1>2, <1>12, <1>18, PassEndIs DEF S, sep
  <2>7. WeaveTable(rq)[<<r, s>>].physpassend = r
    BY <2>4, <2>5, <2>6
  <2>8. s \in J!Subpasses(job) /\ job.weave = WeaveTable(rq)
    BY <2>3, JobIs DEF job
  <2> HIDE DEF s, r, m
  <2> QED  BY <2>7, <2>8 DEF J!EndsPass
<1>20. J!Behind(job, w.pass - VMod(rq), r)
  <2> SUFFICES ASSUME NEW k \in J!Fed(job), J!Line(job, k).pass <= w.pass - VMod(rq)
               PROVE  J!Line(job, k).physpassend < r
    BY DEF J!Behind
  <2>1. J!Line(job, k) = WeaveTable(rq)[Woven(rq, k)]
    BY <1>1, FedLine DEF job
  <2>2. PICK t, i : LineFrom(rq, Woven(rq, k), t, i)
    BY <1>1, FedLine DEF job
  <2> DEFINE v == J!Line(job, k)
  <2>3. t \in Used(pg) /\ t \in Nat /\ Number(pg, t) \in Nat /\ v.pass = Number(pg, t)
    BY <1>1, <2>1, <2>2, OnceNumber
  <2>4. v.physpassend \in Int /\ v.physpassend <= S(t) - sep
    BY <1>1, <2>1, <2>2, LineRows DEF S, sep
  <2>5. t < q
    <3>1. Number(pg, t) <= Number(pg, p) - 2 * (BP * f)
      BY <1>9, <1>11, <2>3
    <3> DEFINE g == 2 * (BP * f)
    <3>2. g \in Int
      BY <1>3 DEF Positive
    <3>3. Number(pg, t) + g <= Number(pg, p)
      <4> HIDE DEF g
      <4> QED  BY <1>9, <2>3, <3>1, <3>2 DEF g
    <3> QED  BY <1>12, <2>3, <3>3
  <2>6. S(t) < S(q) /\ S(t) \in Nat
    BY <1>3, <1>13, <2>3, <2>5, StartsRise DEF S
  <2> HIDE DEF v
  <2> QED  BY <1>3, <1>13, <2>4, <2>6 DEF Positive, v
<1>21. J!Rows(job) = ImageRows(rq)
  BY JobIs DEF job
<1> HIDE DEF r
<1> QED  BY <1>17, <1>18, <1>19, <1>20, <1>21 DEF job, w

(* The parameters of a line are numbers.                                   *)
LEMMA LineTyped ==
  ASSUME NEW rq \in Requests, Regular(rq, 1), RepeatCount(rq) = 1,
         NEW l \in DOMAIN WeaveTable(rq)
  PROVE  /\ WeaveTable(rq)[l] \in J!Params
         /\ l[1] <= WeaveTable(rq)[l].physpassend
<1> DEFINE pg == PageOf(rq)
           w  == WeaveTable(rq)[l]
<1>1. PICK p, j : LineFrom(rq, l, p, j)
  BY LineOf
<1> DEFINE number == Number(pg, p) * RepeatCount(rq) + (l[2] % RepeatCount(rq))
<1>2. w = Line(pg, p, j, number) /\ l[1] \in pg.first .. pg.last
  BY <1>1, Zenon DEF LineFrom
<1>3. /\ w.pass \in Nat /\ p \in Used(pg) /\ p \in Nat
  BY <1>1, OnceNumber
<1>4. /\ w.jet \in 0 .. pg.jets - 1
      /\ w.missingstartrows \in 0 .. w.jet
      /\ w.logicalpassstart >= 0 /\ w.physpassend \in Int
      /\ l[1] \in w.physpassstart .. w.physpassend
      /\ w.logicalpassstart = Place(pg, p)
  BY <1>1, LineRows
<1>5. HighPage(pg) /\ Apart(pg)
  <2>1. 1 \in Positive
    BY DEF Positive
  <2> QED  BY <2>1, RegularPage
<1>6. /\ pg.separation \in Positive /\ pg.first \in Nat /\ pg.last \in Nat
      /\ pg.jets \in Positive
  BY <1>5, PageNumbers
<1>7. Place(pg, p) \in Nat /\ Pulled(pg, p) \in Int
  BY <1>3, <1>5, PassFacts
<1>8. Up(pg, p) \in Nat /\ Above(pg, p) \in Nat
  <2>1. Up(pg, p) \in Nat
    <3> DEFINE z == Pulled(pg, p)
    <3>1. z \in Int /\ Up(pg, p) = IF z < 0 THEN -z ELSE 0
      BY <1>7 DEF Up
    <3> HIDE DEF z
    <3> QED  BY <3>1
  <2> DEFINE n == pg.first - (Place(pg, p) + pg.separation * Up(pg, p))
  <2>2. n \in Int
    BY <1>6, <1>7, <2>1 DEF Positive
  <2>3. Above(pg, p) = JetsOver(pg.separation, n)
    BY DEF Above
  <2> HIDE DEF n
  <2> QED  BY <1>6, <2>1, <2>2, <2>3, JetsOverIs
<1>9. w.physpassstart \in Int
  <2>1. w.physpassstart = Place(pg, p) + pg.separation * (Up(pg, p) + Above(pg, p))
    BY <1>2 DEF Line
  <2> QED  BY <1>6, <1>7, <1>8, <2>1 DEF Positive
<1>10. w = [pass |-> w.pass, jet |-> w.jet, missingstartrows |-> w.missingstartrows,
            logicalpassstart |-> w.logicalpassstart,
            physpassstart |-> w.physpassstart, physpassend |-> w.physpassend]
  BY <1>2 DEF Line
<1>11. w.jet \in Nat /\ w.missingstartrows \in Nat /\ l[1] <= w.physpassend
  <2> HIDE DEF w
  <2> QED  BY <1>2, <1>4, <1>6, <1>9 DEF Positive
<1>12. w.logicalpassstart \in Int
  BY <1>4, <1>7
<1> HIDE DEF w
<1>13. w \in J!Params
  BY <1>3, <1>4, <1>9, <1>10, <1>11, <1>12 DEF J!Params
<1> QED  BY <1>11, <1>13 DEF w

(* They fit the job.                                                       *)
LEMMA JobWeaveFits ==
  ASSUME NEW rq \in Requests, Regular(rq, 1), NEW cols, AllRows(rq, cols), NEW ink
  PROVE  J!WeaveFits(JobOf(rq, cols, ink))
<1> DEFINE job == JobOf(rq, cols, ink)
           T == WeaveTable(rq)
           lines == J!WeaveRows(job) \X J!Subpasses(job)
           rows == rq.first_line .. LastLine(rq)
           os == Oversample(rq)
<1>1. RepeatCount(rq) = 1 /\ rq.strategy # "ascending3x"
  BY DEF AllRows, Regular
<1>2. /\ J!Rows(job) = ImageRows(rq)
      /\ J!Subpasses(job) = 0 .. os - 1
      /\ J!Colors(job) = 1 .. NColors(rq)
      /\ job.weave = T
      /\ \A c \in 1 .. NColors(rq) : job.head_offset[c] = HeadOffset(rq, c)
  BY JobIs
<1>3. /\ rq.first_line \in Nat /\ rq.line_count \in Positive
      /\ MaxHeadOffset(rq) \in Nat
      /\ LastLine(rq) = rq.first_line + rq.line_count - 1 + MaxHeadOffset(rq)
      /\ os * RepeatCount(rq) = os
  BY <1>1, JobNumbers
<1>4. \A c \in 1 .. NColors(rq) : /\ HeadOffset(rq, c) \in Nat
                                  /\ HeadOffset(rq, c) <= MaxHeadOffset(rq)
  BY HeadOffsets
<1> HIDE DEF job
<1>5. J!WeaveRows(job) \subseteq rows
  <2> SUFFICES ASSUME NEW x \in J!WeaveRows(job) PROVE x \in rows
    OBVIOUS
  <2>1. CASE x \in ImageRows(rq)
    BY <1>3, <2>1 DEF ImageRows, Positive
  <2>2. ASSUME NEW r \in ImageRows(rq), NEW c \in 1 .. NColors(rq),
               x = r + HeadOffset(rq, c)
        PROVE  x \in rows
    <3> DEFINE off == HeadOffset(rq, c)
    <3>1. off \in Nat /\ off <= MaxHeadOffset(rq) /\ x = r + off
      BY <1>4, <2>2
    <3> HIDE DEF off
    <3> QED  BY <1>3, <2>2, <3>1 DEF ImageRows, Positive
  <2>3. \/ x \in ImageRows(rq)
        \/ \E r \in ImageRows(rq), c \in 1 .. NColors(rq) : x = r + HeadOffset(rq, c)
    BY <1>2 DEF J!WeaveRows
  <2> QED  BY <2>1, <2>2, <2>3
<1>6. lines \subseteq DOMAIN T
  <2>1. DOMAIN T = rows \X (0 .. os * RepeatCount(rq) - 1)
    BY DEF WeaveTable
  <2> HIDE DEF rows, os, T
  <2> QED  BY <1>2, <1>3, <1>5, <2>1
<1>7. \A l \in lines : T[l] \in J!Params /\ l[1] <= T[l].physpassend
  <2> HIDE DEF lines, T
  <2> QED  BY <1>1, <1>6, LineTyped DEF T
<1>8. \A l \in lines, m \in lines :
        T[l].pass = T[m].pass => T[l].physpassend = T[m].physpassend
  <2> SUFFICES ASSUME NEW l \in lines, NEW m \in lines, T[l].pass = T[m].pass
               PROVE  T[l].physpassend = T[m].physpassend
    OBVIOUS
  <2> DEFINE v == T[l]
             w == T[m]
  <2>1. l \in DOMAIN T /\ m \in DOMAIN T
    BY <1>6
  <2>2. SameButJet(v, w)
    BY <2>1, LinesAgree
  <2>3. v \in J!Params /\ w \in J!Params
    BY <1>7
  <2> HIDE DEF v, w
  <2>4. v.physpassend = w.physpassend
    <3>1. [v EXCEPT !.jet = 0] = [w EXCEPT !.jet = 0]
      BY <2>2 DEF SameButJet
    <3>2. [v EXCEPT !.jet = 0].physpassend = v.physpassend
      BY <2>3 DEF J!Params
    <3>3. [w EXCEPT !.jet = 0].physpassend = w.physpassend
      BY <2>3 DEF J!Params
    <3> QED  BY <3>1, <3>2, <3>3
  <2> QED  BY <2>4 DEF v, w
<1> DEFINE ends == {<<job.weave[l].pass, job.weave[l].physpassend>> : l \in lines}
<1>9. \A e, f \in ends : e[1] = f[1] => e[2] = f[2]
  <2> HIDE DEF lines, T
  <2> SUFFICES ASSUME NEW e \in ends, NEW f \in ends, e[1] = f[1]
               PROVE  e[2] = f[2]
    OBVIOUS
  <2>1. PICK l \in lines : e = <<T[l].pass, T[l].physpassend>>
    BY <1>2
  <2>2. PICK m \in lines : f = <<T[m].pass, T[m].physpassend>>
    BY <1>2
  <2>3. e[1] = T[l].pass /\ e[2] = T[l].physpassend
    BY <2>1
  <2>4. f[1] = T[m].pass /\ f[2] = T[m].physpassend
    BY <2>2
  <2> QED  BY <1>8, <2>3, <2>4
<1> HIDE DEF T, ends
<1>10. lines \subseteq DOMAIN job.weave /\
       \A l \in lines : /\ job.weave[l] \in J!Params
                        /\ l[1] <= job.weave[l].physpassend
  <2> HIDE DEF lines
  <2> QED  BY <1>2, <1>6, <1>7
<1> QED  BY <1>9, <1>10, Zenon DEF J!WeaveFits, ends, job

(* A jet between two of a pass that print a line prints one as well.       *)
LEMMA NoGap ==
  ASSUME NEW rq \in Requests, Regular(rq, 1), NEW cols, AllRows(rq, cols), NEW ink,
         NEW l \in J!Fed(JobOf(rq, cols, ink)), NEW m \in J!Fed(JobOf(rq, cols, ink)),
         J!Line(JobOf(rq, cols, ink), l).pass = J!Line(JobOf(rq, cols, ink), m).pass,
         l[2] = m[2], l[1] < m[1]
  PROVE  J!Line(JobOf(rq, cols, ink), <<m[1] - Separation(rq), m[2], m[3]>>).pass
           = J!Line(JobOf(rq, cols, ink), m).pass
<1> DEFINE job == JobOf(rq, cols, ink)
           pg  == PageOf(rq)
           sep == pg.separation
           BR  == BandRows(pg)
           off == HeadOffset(rq, m[2])
           x   == l[1] + off
           y   == m[1] + off
           r   == y - sep
           S(z) == RawStartRow(pg, z)
<1>1. RepeatCount(rq) = 1 /\ rq.strategy # "ascending3x"
  BY DEF AllRows, Regular
<1>2. HighPage(pg) /\ Apart(pg)
  <2>1. 1 \in Positive
    BY DEF Positive
  <2> QED  BY <2>1, RegularPage
<1>3. /\ sep \in Positive /\ BR \in Positive /\ pg.jets \in Positive
      /\ pg.first \in Nat /\ pg.last \in Nat
      /\ \A z \in Nat : S(z) \in Nat
  BY <1>2, PageNumbers
<1>4. /\ pg.first = rq.first_line /\ pg.last = LastLine(rq) /\ sep = Separation(rq)
  BY <1>1, RequestPage
<1>5. /\ l[1] \in ImageRows(rq) /\ Woven(rq, l) = <<x, l[3]>>
      /\ J!Line(job, l) = WeaveTable(rq)[Woven(rq, l)]
  BY FedLine DEF Woven
<1>6. /\ m[1] \in ImageRows(rq) /\ Woven(rq, m) = <<y, m[3]>>
      /\ J!Line(job, m) = WeaveTable(rq)[Woven(rq, m)]
      /\ m[2] \in cols
  BY FedLine DEF Woven
<1>7. PICK p, j : LineFrom(rq, <<x, l[3]>>, p, j)
  BY <1>5, FedLine
<1>8. PICK q, k : LineFrom(rq, <<y, m[3]>>, q, k)
  BY <1>6, FedLine
<1>9. p = q
  BY <1>5, <1>6, <1>7, <1>8, OnePass
<1>10. /\ j \in 0 .. pg.jets - 1 /\ S(p) + j * sep = x + BR
       /\ x \in pg.first .. pg.last
  <2> DEFINE e == <<x, l[3]>>
  <2>1. /\ j \in 0 .. pg.jets - 1 /\ S(p) + j * sep = e[1] + BR
        /\ e[1] \in pg.first .. pg.last
    BY <1>7, Zenon DEF LineFrom
  <2>2. e[1] = x
    OBVIOUS
  <2> QED  BY <2>1, <2>2
<1>11. /\ k \in 0 .. pg.jets - 1 /\ S(p) + k * sep = y + BR
       /\ y \in pg.first .. pg.last
  <2> DEFINE e == <<y, m[3]>>
  <2>1. /\ k \in 0 .. pg.jets - 1 /\ S(q) + k * sep = e[1] + BR
        /\ e[1] \in pg.first .. pg.last
    BY <1>8, Zenon DEF LineFrom
  <2>2. e[1] = y
    OBVIOUS
  <2> QED  BY <1>9, <2>1, <2>2
<1>12. /\ p \in Used(pg) /\ p \in Nat
       /\ J!Line(job, m).pass = Number(pg, p)
       /\ m[3] = RawSubpass(pg, p)
  <2> DEFINE e == <<y, m[3]>>
  <2>1. e[2] = m[3]
    OBVIOUS
  <2>2. /\ WeaveTable(rq)[e].pass = Number(pg, q)
        /\ q \in Used(pg) /\ q \in Nat
        /\ e[2] = RawSubpass(pg, q)
    BY <1>1, <1>8, OnceNumber
  <2> QED  BY <1>6, <1>9, <2>1, <2>2
<1>13. x < y
  <2>1. off \in Nat /\ rq.first_line \in Nat /\ rq.line_count \in Positive
    BY <1>1, <1>6, JobNumbers
  <2>2. l[1] \in Int /\ m[1] \in Int
    BY <1>5, <1>6, <2>1 DEF ImageRows, Positive
  <2> HIDE DEF off
  <2> QED  BY <2>1, <2>2
<1>14. x \in Int /\ y \in Int
  <2> HIDE DEF x, y
  <2> QED  BY <1>3, <1>10, <1>11
<1> HIDE DEF x, y, sep, BR, S, off
<1>15. j <= k - 1 /\ k - 1 \in 0 .. pg.jets - 1
  <2>1. j \in Nat /\ k \in Nat /\ sep \in Int /\ sep > 0
    BY <1>3, <1>10, <1>11 DEF Positive
  <2>2. j < k
    <3>1. CASE j >= k
      <4>1. j * sep >= k * sep /\ j * sep \in Int /\ k * sep \in Int
        BY <2>1, <3>1
      <4> QED  BY <1>3, <1>10, <1>11, <1>12, <1>13, <1>14, <4>1 DEF Positive
    <3> QED  BY <2>1, <3>1
  <2> QED  BY <1>3, <1>11, <2>1, <2>2 DEF Positive
<1> DEFINE i == k - 1
<1>16. S(p) + i * sep = r + BR /\ r \in pg.first .. pg.last
  <2>1. j \in Nat /\ k \in Nat /\ sep \in Int /\ sep > 0 /\ i \in Int /\ j <= i
    BY <1>3, <1>10, <1>11, <1>15 DEF Positive
  <2>2. i * sep = k * sep - sep /\ k * sep \in Int
    BY <2>1
  <2>3. j * sep <= i * sep /\ j * sep \in Int /\ i * sep \in Int
    <3> HIDE DEF i
    <3> QED  BY <2>1
  <2>4. S(p) + i * sep = r + BR
    <3> HIDE DEF i
    <3> QED  BY <1>3, <1>11, <1>12, <1>14, <2>1, <2>2
  <2>5. r >= x
    <3> HIDE DEF i, r
    <3>1. r \in Int
      BY <1>14, <2>1 DEF r
    <3> QED  BY <1>3, <1>10, <1>12, <1>14, <2>3, <2>4, <3>1 DEF Positive
  <2>6. r <= y
    BY <1>14, <2>1
  <2>7. r \in Int
    BY <1>14, <2>1
  <2> HIDE DEF i, r
  <2> QED  BY <1>3, <1>10, <1>11, <1>14, <2>4, <2>5, <2>6, <2>7
<1> DEFINE n == <<m[1] - Separation(rq), m[2], m[3]>>
<1>17. J!Line(job, n) = WeaveTable(rq)[<<r, m[3]>>]
  <2>1. m[2] \in 1 .. NColors(rq)
    BY <1>6 DEF AllRows
  <2>2. job.weave = WeaveTable(rq) /\ job.head_offset[m[2]] = off
    BY <2>1, JobIs DEF off
  <2>3. n[1] = m[1] - sep /\ n[2] = m[2] /\ n[3] = m[3]
    BY <1>4
  <2>4. (m[1] - sep) + off = r
    <3>1. off \in Nat /\ rq.first_line \in Nat /\ rq.line_count \in Positive
      BY <1>1, <1>6, JobNumbers DEF off
    <3>2. m[1] \in Int
      BY <1>6, <3>1 DEF ImageRows, Positive
    <3> QED  BY <1>3, <3>1, <3>2 DEF y, Positive
  <2> HIDE DEF n, job, r
  <2> QED  BY <2>2, <2>3, <2>4 DEF J!Line
<1>18. LineFrom(rq, <<r, m[3]>>, p, i)
  <2>1. S(p) + i * sep = r + BR /\ r \in rq.first_line .. LastLine(rq)
    BY <1>4, <1>16
  <2> HIDE DEF i, r
  <2>2. i \in 0 .. pg.jets - 1
    BY <1>15 DEF i
  <2> QED  BY <1>1, <1>12, <2>1, <2>2, PageLine DEF S, sep, BR
<1>19. WeaveTable(rq)[<<r, m[3]>>].pass = Number(pg, p)
  BY <1>1, <1>18, OnceNumber
<1> QED  BY <1>12, <1>17, <1>19

(* What printing the page expects of the weave.                            *)
LEMMA JobPrintsWell ==
  ASSUME NEW rq \in Requests, Regular(rq, 1),
         rq.line_count >= Separation(rq) * (rq.jets + 1),
         NEW cols, AllRows(rq, cols), NEW ink
  PROVE  J!PrintsWell(JobOf(rq, cols, ink))
<1> DEFINE job == JobOf(rq, cols, ink)
           T == WeaveTable(rq)
<1>1. rq.strategy # "ascending3x" /\ RepeatCount(rq) = 1
  BY DEF AllRows, Regular
<1>2. /\ {Separation(rq), rq.jets} \subseteq Positive /\ MaxHeadOffset(rq) \in Nat
  BY <1>1, JobNumbers
<1>3. rq.jets <= VirtualJets(rq)
  BY <1>1, EnoughJets
<1>4. ASSUME NEW l \in J!Fed(job)
      PROVE  /\ J!Line(job, l).jet < rq.jets
             /\ J!Line(job, l).logicalpassstart >= 0
             /\ l[1] + HeadOffset(rq, l[2]) =
                  J!Line(job, l).logicalpassstart + Separation(rq) * J!Line(job, l).jet
  <2> DEFINE k == Woven(rq, l)
             w == T[k]
  <2>1. J!Line(job, l) = w
    BY FedLine
  <2>2. PICK p, j : LineFrom(rq, k, p, j)
    BY FedLine
  <2>3. k[1] = l[1] + HeadOffset(rq, l[2])
    BY DEF Woven
  <2>4. /\ w.jet \in 0 .. PageOf(rq).jets - 1
        /\ w.logicalpassstart + PageOf(rq).separation * w.jet = k[1]
        /\ w.logicalpassstart >= 0
    BY <2>2, LineRows
  <2>5. PageOf(rq).jets = rq.jets /\ PageOf(rq).separation = Separation(rq)
    BY <1>1, RequestPage
  <2> HIDE DEF w, k
  <2>6. w.jet < rq.jets
    BY <1>2, <2>4, <2>5 DEF Positive
  <2> QED  BY <2>1, <2>3, <2>4, <2>5, <2>6
<1>5. ASSUME NEW l \in J!Fed(job), NEW m \in J!Fed(job)
      PROVE  /\ J!Line(job, l).pass = J!Line(job, m).pass =>
                  /\ J!Line(job, l).logicalpassstart = J!Line(job, m).logicalpassstart
                  /\ l[3] = m[3]
             /\ J!Line(job, l).pass < J!Line(job, m).pass =>
                  J!Line(job, l).logicalpassstart <= J!Line(job, m).logicalpassstart
  <2> DEFINE v == T[Woven(rq, l)]
             w == T[Woven(rq, m)]
  <2>1. /\ J!Line(job, l) = v /\ Woven(rq, l) \in DOMAIN T
        /\ Woven(rq, l)[2] = l[3]
    BY FedLine DEF Woven
  <2>2. /\ J!Line(job, m) = w /\ Woven(rq, m) \in DOMAIN T
        /\ Woven(rq, m)[2] = m[3]
    BY FedLine DEF Woven
  <2>3. v \in J!Params /\ w \in J!Params
    BY <1>1, <2>1, <2>2, LineTyped
  <2>4. v.pass = w.pass => SameButJet(v, w) /\ l[3] = m[3]
    BY <2>1, <2>2, LinesAgree
  <2>5. v.pass < w.pass => v.logicalpassstart <= w.logicalpassstart
    BY <2>1, <2>2, LinesForward
  <2> HIDE DEF v, w
  <2>6. SameButJet(v, w) => v.logicalpassstart = w.logicalpassstart
    <3> SUFFICES ASSUME SameButJet(v, w)
                 PROVE  v.logicalpassstart = w.logicalpassstart
      OBVIOUS
    <3>1. [v EXCEPT !.jet = 0] = [w EXCEPT !.jet = 0]
      BY DEF SameButJet
    <3>2. [v EXCEPT !.jet = 0].logicalpassstart = v.logicalpassstart
      BY <2>3 DEF J!Params
    <3>3. [w EXCEPT !.jet = 0].logicalpassstart = w.logicalpassstart
      BY <2>3 DEF J!Params
    <3> QED  BY <3>1, <3>2, <3>3
  <2> QED  BY <2>1, <2>2, <2>4, <2>5, <2>6
<1>6. ASSUME NEW l \in J!Fed(job), NEW m \in J!Fed(job),
             J!Line(job, l).pass = J!Line(job, m).pass, l[2] = m[2], l[1] < m[1]
      PROVE  J!Line(job, <<m[1] - Separation(rq), m[2], m[3]>>).pass
               = J!Line(job, m).pass
  BY <1>6, NoGap
<1>7. /\ job.jets = rq.jets /\ job.virtual_jets = VirtualJets(rq)
      /\ job.separation = Separation(rq)
  BY DEF JobOf
<1>8. \A l \in J!Fed(job) : job.head_offset[l[2]] = HeadOffset(rq, l[2])
  <2> SUFFICES ASSUME NEW l \in J!Fed(job)
               PROVE  job.head_offset[l[2]] = HeadOffset(rq, l[2])
    OBVIOUS
  <2>1. l[2] \in 1 .. NColors(rq)
    BY FedLine DEF AllRows
  <2> QED  BY <2>1, JobIs
<1> HIDE DEF job
<1> QED  BY <1>3, <1>4, <1>5, <1>6, <1>7, <1>8 DEF J!PrintsWell, job

(* The job of a page is one.                                               *)
LEMMA JobTyped ==
  ASSUME NEW rq \in Requests, rq.strategy # "ascending3x",
         NEW cols, AllRows(rq, cols), NEW ink \in SUBSET ImageRows(rq)
  PROVE  LET job == JobOf(rq, cols, ink)
         IN  /\ J!IsJob(job)
             /\ job.firstline <= job.lastline
             /\ job.oversample = job.h_passes * job.vertical_oversample
<1> DEFINE job == JobOf(rq, cols, ink)
<1>1. /\ {Separation(rq), rq.jets, Oversample(rq)} \subseteq Positive
      /\ rq.first_line \in Nat /\ rq.line_count \in Positive
      /\ MaxHeadOffset(rq) \in Nat
      /\ \A c \in cols : c \in 1 .. NColors(rq)
  BY JobNumbers
<1>2. /\ rq.osample \in Positive /\ rq.v_subpasses \in Positive
      /\ rq.v_subsample \in Positive
  BY RequestsAssumption
<1>3. RepeatCount(rq) = 1 /\ cols \subseteq 1 .. NColors(rq) /\ cols # {}
  BY DEF AllRows
<1>4. NColors(rq) \in Positive
  <2>1. NColors(rq) \in Nat
    BY HeadOffsets
  <2>2. PICK c \in cols : c \in 1 .. NColors(rq)
    BY <1>1, <1>3
  <2> QED  BY <2>1, <2>2 DEF Positive
<1>5. /\ rq.osample * rq.v_subpasses \in Positive
      /\ Oversample(rq) = (rq.osample * rq.v_subpasses) * rq.v_subsample
  <2> DEFINE a == rq.osample
             b == rq.v_subpasses
             c == rq.v_subsample
  <2>1. a \in Positive /\ b \in Positive /\ c \in Positive
    BY <1>2
  <2>2. Oversample(rq) = (a \div 1) * b * c
    BY <1>3 DEF Oversample
  <2> HIDE DEF a, b, c
  <2>3. a \div 1 = a
    <3>1. /\ 1 \in Positive /\ a \in Int /\ 0 \in 0 .. 1 - 1 /\ a = 1 * a + 0
      BY <2>1 DEF Positive
    <3> QED  BY <3>1, DivisionIs
  <2>4. a * b \in Positive
    BY <2>1 DEF Positive
  <2> QED  BY <2>2, <2>3, <2>4 DEF a, b, c
<1>6. VMod(rq) \in Positive
  <2> DEFINE BP == BandPasses(PageOf(rq))
  <2>1. PICK f \in Positive : VMod(rq) = (2 * (BP * f)) * RepeatCount(rq)
    BY BanksOf
  <2>2. BP \in Positive
    <3>1. ProperHead(PageOf(rq))
      BY RequestPage
    <3> QED  BY <3>1, HeadNumbers
  <2> HIDE DEF BP
  <2>3. BP * f \in Positive
    BY <2>2 DEF Positive
  <2> DEFINE g == BP * f
  <2>4. VMod(rq) = (2 * g) * 1 /\ g \in Positive
    BY <1>3, <2>1, <2>3
  <2> HIDE DEF g
  <2> QED  BY <2>4 DEF Positive
<1>7. VirtualJets(rq) \in Positive
  BY EnoughJets
<1>8. [j \in 1 .. NColors(rq) |-> HeadOffset(rq, j)] \in [1 .. NColors(rq) -> Nat]
  BY HeadOffsets
<1>9. J!Positive = Positive
  BY DEF J!Positive, Positive
<1>10. J!Rows(job) = ImageRows(rq) /\ J!Colors(job) = 1 .. NColors(rq)
  BY JobIs
<1>11. rq.first_line + rq.line_count - 1 \in Nat
       /\ rq.first_line <= rq.first_line + rq.line_count - 1
  BY <1>1 DEF Positive
<1>12. J!IsJob(job)
  BY <1>1, <1>2, <1>3, <1>4, <1>5, <1>6, <1>7, <1>8, <1>9, <1>10, <1>11
     DEF J!IsJob, JobOf
<1>13. job.firstline <= job.lastline
  BY <1>11 DEF JobOf
<1>14. job.oversample = job.h_passes * job.vertical_oversample
  BY <1>5 DEF JobOf
<1> QED  BY <1>12, <1>13, <1>14

(* The pages of the drivers are jobs as the softweave expects them, and    *)
(* weave as its theorems ask (WovenProofs): two head heights and a         *)
(* separation tall, the colours' offsets in the range of the image.        *)
THEOREM RequestsMakeGoodJobs ==
  ASSUME NEW rq \in Requests, Regular(rq, 2),
         rq.line_count >= Separation(rq) * (2 * rq.jets + 1),
         NEW cols, AllRows(rq, cols), NEW ink \in SUBSET ImageRows(rq)
  PROVE  LET job == JobOf(rq, cols, ink)
         IN  /\ J!IsJob(job)
             /\ job.firstline <= job.lastline
             /\ job.oversample = job.h_passes * job.vertical_oversample
             /\ J!WeaveFits(job)
             /\ J!WovenWell(job)
             /\ J!PrintsWell(job)
<1> DEFINE job == JobOf(rq, cols, ink)
<1>1. Regular(rq, 1) /\ rq.strategy # "ascending3x"
  BY RegularOnce DEF Regular
<1>2. rq.line_count >= Separation(rq) * (rq.jets + 1)
  <2> DEFINE e == Separation(rq)
             n == rq.jets
  <2>1. e \in Positive /\ n \in Positive /\ rq.line_count \in Positive
    BY <1>1, RequestPage
  <2>2. rq.line_count >= e * (2 * n + 1)
    OBVIOUS
  <2> HIDE DEF e, n
  <2>3. e * (2 * n + 1) = e * (n + 1) + e * n /\ e * n \in Nat /\ e * (n + 1) \in Nat
    BY <2>1 DEF Positive
  <2>4. rq.line_count >= e * (n + 1)
    BY <2>1, <2>2, <2>3 DEF Positive
  <2> QED  BY <2>4 DEF e, n
<1>3. J!WovenWell(job)
  <2> DEFINE numbers == {J!Line(job, l).pass : l \in J!Fed(job)}
  <2>1. \A p \in numbers : 0 .. p \subseteq numbers
    <3>1. ASSUME NEW p \in numbers, NEW x \in 0 .. p PROVE x \in numbers
      BY <3>1, FedNumbers
    <3> QED  BY <3>1
  <2>2. ASSUME NEW l \in J!Fed(job), J!Line(job, l).pass >= job.vmod
        PROVE  \E r \in J!Rows(job) :
                 /\ r < l[1]
                 /\ J!EndsPass(job, r)
                 /\ J!Behind(job, J!Line(job, l).pass - job.vmod, r)
    <3>1. job.vmod = VMod(rq)
      BY JobIs
    <3> QED  BY <2>2, <3>1, FedInTime
  <2> HIDE DEF job
  <2> QED  BY <2>1, <2>2 DEF J!WovenWell
<1>4. J!WeaveFits(job)
  BY <1>1, JobWeaveFits
<1>5. J!PrintsWell(job)
  BY <1>1, <1>2, JobPrintsWell
<1>6. /\ J!IsJob(job)
      /\ job.firstline <= job.lastline
      /\ job.oversample = job.h_passes * job.vertical_oversample
  BY <1>1, JobTyped
<1> QED  BY <1>3, <1>4, <1>5, <1>6

(* Images four head heights tall are such pages, whatever the margins, the *)
(* offsets and the strategy of the driver.                                 *)
THEOREM TallRequestsMakeGoodJobs ==
  ASSUME NEW rq \in Requests, rq.strategy # "ascending3x", Tall(rq, 4),
         NEW cols, AllRows(rq, cols), NEW ink \in SUBSET ImageRows(rq)
  PROVE  LET job == JobOf(rq, cols, ink)
         IN  /\ J!IsJob(job)
             /\ job.firstline <= job.lastline
             /\ job.oversample = job.h_passes * job.vertical_oversample
             /\ J!WeaveFits(job)
             /\ J!WovenWell(job)
             /\ J!PrintsWell(job)
<1>1. Regular(rq, 2)
  BY TallRegular
<1>2. rq.line_count >= Separation(rq) * (2 * rq.jets + 1)
  <2> DEFINE e == Separation(rq)
             n == rq.jets
  <2>1. e \in Positive /\ n \in Positive /\ rq.line_count \in Positive
    BY RequestPage
  <2>2. rq.line_count >= 4 * (e * n)
    BY DEF Tall
  <2> HIDE DEF e, n
  <2>3. e * (2 * n + 1) = 2 * (e * n) + e /\ e * n \in Nat /\ e * n >= e
    BY <2>1 DEF Positive
  <2>4. rq.line_count >= e * (2 * n + 1)
    BY <2>1, <2>2, <2>3 DEF Positive
  <2> QED  BY <2>4 DEF e, n
<1> QED  BY <1>1, <1>2, RequestsMakeGoodJobs
=============================================================================
