---------------------------- MODULE WovenProofs ----------------------------
(***************************************************************************)
(* What TLAPS proves of the softweave: for every set of pages that         *)
(* JobsAssumption allows, its states are well formed; and for a page whose *)
(* weave is a good one (WovenWell), passes are sent in the order of their  *)
(* numbers and none is left out, each line goes into the buffer of its own *)
(* pass, and no line comes after its pass has been sent.  For pages that   *)
(* are Good (WovenWell and PrintsWell) the buffers, the counts and the     *)
(* paper are right as well, and the softweave implements Page.             *)
(***************************************************************************)
EXTENDS SoftWeave, SequenceTheorems, TLAPS

(* Two numbers in the same residue class are at least a modulus apart.     *)
LEMMA SameBankApart ==
  ASSUME NEW v \in Positive, NEW p \in Nat, NEW q \in Nat,
         p < q, p % v = q % v
  PROVE  p + v <= q
<1> DEFINE a == p \div v
           b == q \div v
<1>1. a \in Nat /\ b \in Nat /\ p = v * a + (p % v) /\ q = v * b + (q % v)
  BY DEF Positive
<1>2. p % v \in 0 .. v - 1
  BY DEF Positive
<1> HIDE DEF a, b
<1>3. q - p = v * b - v * a
  BY <1>1, <1>2 DEF Positive
<1>4. a < b
  <2>1. CASE b <= a
    <3>1. PICK d \in Nat : a = b + d
      BY <2>1, <1>1
    <3>2. v * a = v * b + v * d /\ v * d >= 0
      BY <3>1, <1>1 DEF Positive
    <3> QED  BY <3>2, <1>1, <1>3 DEF Positive
  <2> QED  BY <2>1, <1>1
<1>5. PICK d \in Nat : b = a + 1 + d
  BY <1>4, <1>1
<1>6. v * b = v * a + v + v * d /\ v * d >= 0
  BY <1>5, <1>1 DEF Positive
<1> QED  BY <1>1, <1>3, <1>6 DEF Positive

-----------------------------------------------------------------------------
(* What JobsAssumption says of a page and of its lines.                    *)
LEMMA JobFacts ==
  ASSUME NEW jb \in Jobs
  PROVE  /\ IsJob(jb)
         /\ jb.firstline <= jb.lastline
         /\ jb.oversample = jb.h_passes * jb.vertical_oversample
BY JobsAssumption

(* The weave parameters of a row that the driver hands over are defined.   *)
LEMMA RowParams ==
  ASSUME NEW jb \in Jobs, NEW row \in Rows(jb), NEW s \in Subpasses(jb)
  PROVE  jb.weave[row, s] \in Params
<1>1. <<row, s>> \in WeaveRows(jb) \X Subpasses(jb)
  BY DEF WeaveRows
<1>2. WeaveFits(jb)
  BY JobsAssumption
<1> QED  BY <1>1, <1>2 DEF WeaveFits

(* So are those of a line of a colour with data, whose pass does not end   *)
(* above the line.                                                         *)
LEMMA FedLine ==
  ASSUME NEW jb \in Jobs, NEW l \in Fed(jb)
  PROVE  /\ l = <<l[1], l[2], l[3]>>
         /\ l[1] \in Rows(jb) /\ l[1] \in Nat
         /\ l[2] \in jb.cols /\ l[2] \in Colors(jb)
         /\ l[3] \in Subpasses(jb)
         /\ jb.head_offset[l[2]] \in Nat
         /\ <<l[1] + jb.head_offset[l[2]], l[3]>> \in WeaveRows(jb) \X Subpasses(jb)
         /\ Line(jb, l) \in Params
         /\ l[1] <= Line(jb, l).physpassend
<1>1. /\ l = <<l[1], l[2], l[3]>> /\ l[1] \in Rows(jb)
      /\ l[2] \in jb.cols /\ l[3] \in Subpasses(jb)
  BY DEF Fed
<1>2. l[2] \in Colors(jb) /\ jb.head_offset[l[2]] \in Nat
  BY <1>1, JobFacts DEF IsJob
<1>3. l[1] \in Nat
  BY <1>1, JobFacts DEF IsJob, Rows
<1>4. <<l[1] + jb.head_offset[l[2]], l[3]>> \in WeaveRows(jb) \X Subpasses(jb)
  BY <1>1, <1>2 DEF WeaveRows
<1>5. WeaveFits(jb)
  BY JobsAssumption
<1>6. /\ Line(jb, l) \in Params
      /\ l[1] + jb.head_offset[l[2]] <= Line(jb, l).physpassend
  BY <1>4, <1>5 DEF WeaveFits, Line
<1> QED  BY <1>1, <1>2, <1>3, <1>4, <1>6 DEF Params

(* Two lines of one pass agree on where the pass ends.                     *)
LEMMA OneEnd ==
  ASSUME NEW jb \in Jobs, NEW l \in Fed(jb), NEW m \in Fed(jb),
         Line(jb, l).pass = Line(jb, m).pass
  PROVE  Line(jb, l).physpassend = Line(jb, m).physpassend
<1> DEFINE lines == WeaveRows(jb) \X Subpasses(jb)
           ends  == {<<jb.weave[k].pass, jb.weave[k].physpassend>> : k \in lines}
           End(n) == <<Line(jb, n).pass, Line(jb, n).physpassend>>
<1>1. \A e, f \in ends : e[1] = f[1] => e[2] = f[2]
  BY JobsAssumption DEF WeaveFits
<1>2. ASSUME NEW n \in Fed(jb) PROVE End(n) \in ends
  BY FedLine DEF Line
<1>3. End(l) \in ends /\ End(m) \in ends
  BY <1>2
<1>4. End(l)[1] = End(m)[1] => End(l)[2] = End(m)[2]
  BY <1>1, <1>3
<1> QED  BY <1>4

(* The subpass of add_to_row's loop is one of the line's.                  *)
LEMMA SubpassInRange ==
  ASSUME NEW h \in Positive, NEW v \in Positive,
         NEW n \in Nat, n < v, NEW k \in Nat, k < h
  PROVE  n * h + k \in 0 .. h * v - 1 /\ h <= h * v
<1>1. PICK d \in Nat : v = n + 1 + d
  BY DEF Positive
<1>2. h * v = n * h + h + h * d /\ n * h >= 0 /\ h * d >= 0
  BY <1>1 DEF Positive
<1> QED  BY <1>2 DEF Positive

(* A pass number modulo vmod is the number of a bank.                      *)
LEMMA BankIsASlot ==
  ASSUME NEW jb \in Jobs, NEW p \in Nat
  PROVE  p % jb.vmod \in Slots(jb)
BY JobFacts DEF IsJob, Positive, Slots

-----------------------------------------------------------------------------
(* Type correctness.                                                       *)
Typed == job \in Jobs /\ TypeOK /\ Control

(* The initial states are well formed.                                     *)
LEMMA TypedInit == Init => Typed
<1> SUFFICES ASSUME Init PROVE Typed
  OBVIOUS
<1>1. job \in Jobs /\ IsJob(job) /\ job.firstline <= job.lastline
  BY JobFacts DEF Init
<1>2. << >> \in Seq(Int \X Nat)
  OBVIOUS
<1>3. FreePass \in PassType
  BY DEF FreePass, PassType
<1>4. /\ passes \in [Slots(job) -> PassType]
      /\ linecount \in [Slots(job) -> [Colors(job) -> Nat]]
      /\ linebuf \in [Slots(job) -> [Colors(job) -> Seq(Int \X Nat)]]
      /\ lineactive \in [Slots(job) -> [Colors(job) -> BOOLEAN]]
  BY <1>2, <1>3 DEF Init
<1>5. /\ lineno \in job.firstline .. job.lastline + 1 /\ lineno <= job.lastline
      /\ subline \in 0 .. job.vertical_oversample
      /\ subline < job.vertical_oversample
      /\ i \in 0 .. job.oversample /\ j \in Colors(job)
  BY <1>1 DEF Init, IsJob, Positive, Colors
<1>6. pc = "driver" /\ last_pass = -1 /\ paper = 0
  BY DEF Init
<1>7. TypeOK
  BY <1>1, <1>4, <1>5, <1>6 DEF TypeOK
<1>8. Control
  BY <1>5, <1>6 DEF Control
<1> QED  BY <1>1, <1>7, <1>8 DEF Typed

(* Every action leaves the state well formed: one step per action.         *)
LEMMA TypedStep == Typed /\ [Next]_vars => Typed'
<1> SUFFICES ASSUME Typed, [Next]_vars PROVE Typed'
  OBVIOUS
<1> USE DEF Typed
<1>1. /\ IsJob(job) /\ job.firstline \in Nat /\ job.lastline \in Nat
      /\ job.oversample \in Positive /\ job.h_passes \in Positive
      /\ job.vertical_oversample \in Positive /\ job.ncolors \in Positive
      /\ job.vmod \in Positive /\ job.cols \subseteq Colors(job)
      /\ job.oversample = job.h_passes * job.vertical_oversample
  BY JobFacts DEF IsJob
<1>2. job' = job
  BY DEF Next, WriteWeave, InitializeRow, AddToRow, AddLine, FinalizeRow, EndRow,
     FlushPass, SetVerticalPosition, EndFlush, FlushAll, Done, vars
<1>3. ASSUME NEW c \in job.cols, NEW s \in Subpasses(job),
             lineno <= job.lastline
      PROVE  Param(c, s) \in Params /\ Bank(c, s) \in Slots(job)
  <2>1. <<lineno, c, s>> \in Fed(job) /\ Line(job, <<lineno, c, s>>) = Param(c, s)
    BY <1>3 DEF Fed, Line, Param, Rows, TypeOK
  <2>2. Param(c, s) \in Params
    BY <2>1, FedLine
  <2> QED  BY <2>2, BankIsASlot DEF Bank, Params
<1>4. NextBank \in Slots(job)
  BY BankIsASlot DEF NextBank, TypeOK
<1>5. CASE WriteWeave
  <2>1. lineno <= job.lastline
    BY <1>5 DEF WriteWeave
  <2> QED  BY <1>1, <1>5 DEF WriteWeave, TypeOK, Control, engine, printer, Positive,
               Colors, Typed
<1>6. CASE InitializeRow
  <2> DEFINE w == Param(j, i)
             b == Bank(j, i)
             begin == passes[b].pass < 0
             fill  == (begin \/ linecount[b][j] = 0) /\ IdleJets(w) > 0
             Started(f, empty, filled) ==
               [f EXCEPT ![b] = [c \in Colors(job) |->
                 IF c = j /\ fill THEN filled ELSE IF begin THEN empty ELSE @[c]]]
             pass == [pass |-> w.pass, subpass |-> i,
                      logicalpassstart |-> w.logicalpassstart,
                      physpassend |-> w.physpassend]
             row  == [k \in 1 .. IdleJets(w) |-> Phantom]
  <2>1. pc = "initialize" /\ lineno <= job.lastline /\ i < job.oversample /\ subline = 0
    BY <1>6 DEF InitializeRow, Control
  <2>2. i \in Subpasses(job)
    BY <2>1, <1>1 DEF Subpasses, TypeOK, Positive
  <2>3. /\ i' \in 0 .. job.oversample /\ j' \in Colors(job)
        /\ pc' \in {"initialize", "add"}
        /\ pc' = "initialize" => i' < job.oversample
        /\ pc' = "add" => i' = 0
    <3>1. CASE j < job.ncolors
      BY <1>1, <1>6, <2>1, <3>1 DEF InitializeRow, TypeOK, Colors, Positive
    <3>2. CASE j >= job.ncolors
      <4>1. i \in Nat /\ job.oversample \in Nat \ {0}
        BY <1>1 DEF TypeOK, Positive
      <4>2. (i + 1 < job.oversample /\ (i + 1) % job.oversample = i + 1)
            \/ (i + 1 = job.oversample /\ (i + 1) % job.oversample = 0)
        BY <4>1, <2>1
      <4>3. /\ j' = 1 /\ i' = (i + 1) % job.oversample
            /\ pc' = IF i + 1 < job.oversample THEN "initialize" ELSE "add"
        BY <1>1, <1>6, <3>2 DEF InitializeRow, TypeOK, Colors, Positive
      <4> QED  BY <1>1, <4>1, <4>2, <4>3 DEF Colors, Positive
    <3> QED  BY <1>1, <3>1, <3>2 DEF TypeOK, Colors, Positive
  <2>4. Control'
    BY <1>1, <1>2, <2>1, <2>3, <1>6 DEF InitializeRow, Control, Positive, engine
  <2>5. CASE j \in job.cols
    <3>1. w \in Params /\ b \in Slots(job) /\ i \in Nat
      BY <1>3, <2>1, <2>2, <2>5 DEF TypeOK
    <3>2. IdleJets(w) \in Nat /\ pass \in PassType
      BY <3>1 DEF Params, IdleJets, PassType
    <3>3. row \in Seq(Int \X Nat)
      BY <3>2 DEF Phantom
    <3> HIDE DEF w, b, row, pass
    <3>4. passes' \in [Slots(job) -> PassType]
      BY <1>6, <2>5, <3>1, <3>2 DEF InitializeRow, TypeOK, w, b, pass
    <3>5. lineactive' \in [Slots(job) -> [Colors(job) -> BOOLEAN]]
      <4>1. lineactive' = Started(lineactive, FALSE, lineactive[b][j] /\ ~begin)
        BY <1>6, <2>5, Zenon DEF InitializeRow, w, b
      <4> QED  BY <4>1, <3>1 DEF TypeOK
    <3>6. linecount' \in [Slots(job) -> [Colors(job) -> Nat]]
      <4>1. linecount' = Started(linecount, 0, IdleJets(w))
        BY <1>6, <2>5, Zenon DEF InitializeRow, w, b
      <4> QED  BY <4>1, <3>1, <3>2 DEF TypeOK
    <3>7. linebuf' \in [Slots(job) -> [Colors(job) -> Seq(Int \X Nat)]]
      <4>1. linebuf' = Started(linebuf, << >>, row)
        BY <1>6, <2>5, Zenon DEF InitializeRow, w, b, row
      <4>2. << >> \in Seq(Int \X Nat)
        OBVIOUS
      <4> QED  BY <4>1, <4>2, <3>1, <3>3 DEF TypeOK
    <3> QED  BY <1>1, <1>2, <1>6, <2>3, <2>4, <3>4, <3>5, <3>6, <3>7
             DEF InitializeRow, TypeOK, printer
  <2>6. CASE j \notin job.cols
    BY <1>1, <1>2, <1>6, <2>3, <2>4, <2>6 DEF InitializeRow, TypeOK, printer
  <2> QED  BY <2>5, <2>6
<1>7. CASE AddToRow
  <2> DEFINE s == subline * job.h_passes + i
             b == Bank(j, s)
  <2>1. /\ pc = "add" /\ lineno <= job.lastline /\ i < job.h_passes
        /\ subline < job.vertical_oversample
    BY <1>7 DEF AddToRow, AddLine, Control
  <2>2. s \in Subpasses(job) /\ s \in Nat /\ job.h_passes <= job.oversample
    <3>1. i \in Nat /\ subline \in Nat
      BY <1>1 DEF TypeOK, Positive
    <3>2. /\ s \in 0 .. job.h_passes * job.vertical_oversample - 1
          /\ job.h_passes <= job.h_passes * job.vertical_oversample
      BY <1>1, <2>1, <3>1, SubpassInRange
    <3> HIDE DEF s
    <3> QED  BY <1>1, <3>2 DEF Subpasses
  <2> HIDE DEF s
  <2>3. /\ i' \in 0 .. job.oversample /\ j' \in Colors(job)
        /\ subline' \in 0 .. job.vertical_oversample
        /\ pc' \in {"add", "finalize", "driver"}
        /\ Control'
    <3>1. /\ i \in Nat /\ subline \in Nat /\ j \in 1 .. job.ncolors
          /\ lineno' = lineno
      BY <1>1, <1>7 DEF AddToRow, AddLine, TypeOK, Positive, Colors
    <3>2. CASE i + 1 < job.h_passes
      <4>1. i' = i + 1 /\ j' = j /\ pc' = pc /\ subline' = subline
        BY <1>7, <3>2 DEF AddToRow, AddLine
      <4> QED  BY <1>1, <1>2, <2>1, <2>2, <3>1, <3>2, <4>1 DEF Control, Colors, Positive
    <3>3. CASE i + 1 >= job.h_passes /\ j < job.ncolors
      <4>1. i' = 0 /\ j' = j + 1 /\ pc' = pc /\ subline' = subline
        BY <1>1, <1>7, <3>1, <3>3 DEF AddToRow, AddLine, Positive
      <4> QED  BY <1>1, <1>2, <2>1, <2>2, <3>1, <3>3, <4>1 DEF Control, Colors, Positive
    <3>4. CASE i + 1 >= job.h_passes /\ j >= job.ncolors
      <4>1. /\ i' = 0 /\ j' = 1 /\ subline' = subline + 1
            /\ pc' = IF subline + 1 >= job.vertical_oversample
                     THEN "finalize" ELSE "driver"
        BY <1>1, <1>7, <3>1, <3>4 DEF AddToRow, AddLine, Positive
      <4> QED  BY <1>1, <1>2, <2>1, <2>2, <3>1, <3>4, <4>1 DEF Control, Colors, Positive
    <3> QED  BY <1>1, <3>1, <3>2, <3>3, <3>4 DEF Positive
  <2>4. CASE j \in job.cols
    <3>1. b \in Slots(job)
      BY <1>3, <2>1, <2>2, <2>4
    <3> HIDE DEF b
    <3>2. linebuf' = [linebuf EXCEPT ![b][j] = Append(@, <<lineno, s>>)]
      BY <1>7, <2>4 DEF AddToRow, AddLine, b, s
    <3>3. <<lineno, s>> \in Int \X Nat
      BY <1>1, <2>2 DEF TypeOK
    <3>4. linebuf' \in [Slots(job) -> [Colors(job) -> Seq(Int \X Nat)]]
      BY <3>1, <3>2, <3>3 DEF TypeOK
    <3>5. lineactive' = [lineactive EXCEPT ![b][j] = @ \/ lineno \in job.ink]
      BY <1>7, <2>4, Zenon DEF AddToRow, AddLine, b, s
    <3>6. lineactive' \in [Slots(job) -> [Colors(job) -> BOOLEAN]]
      BY <3>1, <3>5 DEF TypeOK
    <3> QED  BY <1>1, <1>2, <1>7, <2>3, <3>4, <3>6 DEF AddToRow, AddLine, TypeOK, printer
  <2>5. CASE j \notin job.cols
    BY <1>1, <1>2, <1>7, <2>3, <2>5 DEF AddToRow, AddLine, TypeOK, printer
  <2> QED  BY <2>4, <2>5
<1>8. CASE FinalizeRow
  <2>1. pc = "finalize" /\ i < job.oversample /\ lineno <= job.lastline /\ subline > 0
    BY <1>8 DEF FinalizeRow, Control
  <2>2. i' \in 0 .. job.oversample /\ pc' \in {"finalize", "flush"}
    <3>1. i' = i + 1
      BY <1>8, Zenon DEF FinalizeRow
    <3>2. pc' = "finalize" \/ pc' = "flush"
      BY <1>8, <2>1, Zenon DEF FinalizeRow
    <3> QED  BY <1>1, <2>1, <3>1, <3>2 DEF TypeOK, Positive
  <2>3. linecount' \in [Slots(job) -> [Colors(job) -> Nat]]
    <3> DEFINE More(b, c) == IF Bank(c, i) = b THEN 1 ELSE 0
    <3>1. linecount' = [b \in Slots(job) |-> [c \in Colors(job) |->
                          linecount[b][c] + More(b, c)]]
      BY <1>8, Zenon DEF FinalizeRow
    <3>2. \A b \in Slots(job), c \in Colors(job) : More(b, c) \in Nat
      OBVIOUS
    <3> HIDE DEF More
    <3> QED  BY <3>1, <3>2 DEF TypeOK
  <2>4. UNCHANGED <<job, lineno, subline, j, passes, linebuf, lineactive, printer>>
    BY <1>8, Zenon DEF FinalizeRow
  <2> QED  BY <1>1, <2>1, <2>2, <2>3, <2>4 DEF TypeOK, Control, printer
<1>9. CASE EndRow
  BY <1>1, <1>9 DEF EndRow, TypeOK, Control, printer, Positive
<1>10. CASE FlushPass
  <2>1. passes[NextBank] \in PassType /\ passes[NextBank].pass >= 0
    BY <1>4, <1>10 DEF FlushPass, SetVerticalPosition, Ready, TypeOK
  <2>2. passes' \in [Slots(job) -> PassType] /\ last_pass' \in Nat
    <3> DEFINE nb == NextBank
    <3>1. last_pass' = passes[nb].pass /\ passes' = [passes EXCEPT ![nb].pass = -1]
      BY <1>10 DEF FlushPass, SetVerticalPosition, FreeBank
    <3>2. [passes[nb] EXCEPT !.pass = -1] \in PassType
      BY <2>1 DEF PassType
    <3>3. passes' = [passes EXCEPT ![nb] = [passes[nb] EXCEPT !.pass = -1]]
      BY <3>1, Zenon
    <3> HIDE DEF nb
    <3>4. passes' \in [Slots(job) -> PassType]
      BY <1>4, <3>2, <3>3 DEF TypeOK, nb
    <3>5. last_pass' \in Nat
      BY <2>1, <3>1 DEF PassType, nb
    <3> QED  BY <3>4, <3>5
  <2>3. paper' \in Int
    BY <1>10, <2>1 DEF FlushPass, SetVerticalPosition, TypeOK, PassType
  <2>4. linebuf' \in [Slots(job) -> [Colors(job) -> Seq(Int \X Nat)]]
    <3>1. << >> \in Seq(Int \X Nat)
      OBVIOUS
    <3> QED  BY <1>4, <1>10, <3>1 DEF FlushPass, SetVerticalPosition, TypeOK
  <2>5. linecount' \in [Slots(job) -> [Colors(job) -> Nat]]
    BY <1>4, <1>10 DEF FlushPass, SetVerticalPosition, TypeOK
  <2> QED  BY <1>1, <1>2, <1>10, <2>2, <2>3, <2>4, <2>5 DEF FlushPass, SetVerticalPosition, TypeOK, Control
<1>11. CASE EndFlush
  BY <1>1, <1>11 DEF EndFlush, TypeOK, Control, engine, printer
<1>12. CASE FlushAll
  BY <1>1, <1>12 DEF FlushAll, TypeOK, Control, engine, printer
<1>13. CASE UNCHANGED vars
  BY <1>13 DEF vars, TypeOK, Control, engine, printer
<1> QED  BY <1>5, <1>6, <1>7, <1>8, <1>9, <1>10, <1>11, <1>12, <1>13 DEF Next, Done

(* Every state of the softweave is well formed: the loops stay in their    *)
(* bounds, and each bank, count and buffer belongs to a bank and a colour. *)
THEOREM TypeCorrect == Spec => []TypeOK
<1>1. Typed => TypeOK
  BY DEF Typed
<1> QED  BY TypedInit, TypedStep, <1>1, PTL DEF Spec

-----------------------------------------------------------------------------
(* A page whose weave is a good one.                                       *)
Woven == \A jb \in Jobs : WovenWell(jb)

(* The inductive invariant: the banks hold the passes of the lines so far  *)
(* that wait to be sent, those already sent are over, and the others could *)
(* not be sent yet.                                                        *)
IInv ==
  /\ Typed
  /\ BanksHoldTheirPasses
  /\ ReachedPassesWait
  /\ SentPassesAreOver
  /\ NoneHeldBack

-----------------------------------------------------------------------------
(* What a good weave says of one line: every smaller pass has a line, and  *)
(* the pass before it in its bank could be sent above it.                  *)
LEMMA NoPassLeftOut ==
  ASSUME Woven, NEW jb \in Jobs, NEW l \in Fed(jb), NEW x \in 0 .. Line(jb, l).pass
  PROVE  \E m \in Fed(jb) : Line(jb, m).pass = x
<1> DEFINE numbers == {Line(jb, m).pass : m \in Fed(jb)}
<1>1. \A p \in numbers : 0 .. p \subseteq numbers
  BY DEF Woven, WovenWell
<1>2. Line(jb, l).pass \in numbers
  OBVIOUS
<1>3. x \in numbers
  BY <1>1, <1>2
<1> QED  BY <1>3

(* ... and the pass that had its bank before it is over and sent on some   *)
(* row above the line's own.                                               *)
LEMMA BankFreedAbove ==
  ASSUME Woven, NEW jb \in Jobs, NEW l \in Fed(jb), Line(jb, l).pass >= jb.vmod
  PROVE  \E row \in Rows(jb) : /\ row < l[1]
                               /\ EndsPass(jb, row)
                               /\ Behind(jb, Line(jb, l).pass - jb.vmod, row)
BY DEF Woven, WovenWell

(* No line of the current row or of a later one belongs to a pass that has *)
(* been sent.                                                              *)
LEMMA LinesAheadAreUnsent ==
  ASSUME Typed, SentPassesAreOver, pc \notin {"flushall", "done"},
         NEW l \in Fed(job), lineno <= l[1]
  PROVE  Line(job, l).pass > last_pass
<1>1. job \in Jobs /\ lineno \in Int /\ last_pass \in Int
  BY JobFacts DEF Typed, TypeOK, IsJob
<1>2. l[1] <= Line(job, l).physpassend /\ l[1] \in Nat /\ Line(job, l) \in Params
  BY <1>1, FedLine
<1>3. Line(job, l).physpassend \in Int /\ Line(job, l).pass \in Nat
  BY <1>2 DEF Params
<1>4. Line(job, l).pass <= last_pass => Line(job, l).physpassend < lineno
  BY DEF SentPassesAreOver
<1> QED  BY <1>1, <1>2, <1>3, <1>4

(* Any pass that is a modulus below that of a line so far has been sent.   *)
LEMMA PassesBelowAreSent ==
  ASSUME Woven, IInv, NEW l \in Fed(job), l[1] <= lineno,
         NEW m \in Fed(job), Line(job, m).pass + job.vmod <= Line(job, l).pass
  PROVE  Line(job, m).pass <= last_pass
<1>1. job \in Jobs /\ lineno \in Int /\ job.vmod \in Positive
  BY JobFacts DEF IInv, Typed, TypeOK, IsJob
<1>2. Line(job, l) \in Params /\ Line(job, m) \in Params /\ l[1] \in Nat
  BY <1>1, FedLine
<1>3. Line(job, l).pass \in Nat /\ Line(job, m).pass \in Nat
  BY <1>2 DEF Params
<1>4. PICK row \in Rows(job) :
        /\ row < l[1]
        /\ EndsPass(job, row)
        /\ Behind(job, Line(job, l).pass - job.vmod, row)
  <2>1. Line(job, l).pass >= job.vmod
    BY <1>1, <1>3 DEF Positive
  <2> QED  BY <2>1, <1>1, BankFreedAbove
<1>5. Looked(row)
  <2>1. row \in Int
    BY <1>1, JobFacts DEF Rows, IsJob
  <2>2. row < lineno
    BY <1>1, <1>2, <1>4, <2>1
  <2> QED  BY <1>4, <2>2, Zenon DEF Looked
<1>6. Behind(job, Line(job, m).pass, row)
  <2> SUFFICES ASSUME NEW k \in Fed(job), Line(job, k).pass <= Line(job, m).pass
               PROVE  Line(job, k).physpassend < row
    BY DEF Behind
  <2>1. Line(job, k).pass \in Nat
    BY <1>1, FedLine DEF Params
  <2>2. Line(job, k).pass <= Line(job, l).pass - job.vmod
    BY <1>1, <1>3, <2>1 DEF Positive
  <2> QED  BY <1>4, <2>2 DEF Behind
<1> QED  BY <1>5, <1>6 DEF IInv, NoneHeldBack

(* The bank of a line of the current row is free or has the line's pass.   *)
LEMMA BankIsFreeOrRight ==
  ASSUME Woven, IInv, pc = "initialize",
         NEW l \in Fed(job), l[1] = lineno,
         passes[Line(job, l).pass % job.vmod].pass >= 0
  PROVE  passes[Line(job, l).pass % job.vmod].pass = Line(job, l).pass
<1> DEFINE q == Line(job, l).pass
           b == Line(job, l).pass % job.vmod
           r == passes[b].pass
<1>1. job \in Jobs /\ lineno \in Int /\ job.vmod \in Positive /\ last_pass \in Int
  BY JobFacts DEF IInv, Typed, TypeOK, IsJob
<1>2. Line(job, l) \in Params /\ q \in Nat /\ l[1] \in Nat
  BY <1>1, FedLine DEF Params
<1>3. b \in Slots(job)
  BY <1>1, <1>2, BankIsASlot
<1>4. PICK m \in Fed(job) : m[1] <= lineno /\ Line(job, m).pass = r
  BY <1>3 DEF IInv, BanksHoldTheirPasses
<1>5. r % job.vmod = b /\ r > last_pass
  BY <1>3 DEF IInv, BanksHoldTheirPasses
<1>6. r \in Nat
  BY <1>1, <1>4, FedLine DEF Params
<1>7. q > last_pass
  BY <1>1, LinesAheadAreUnsent DEF IInv
<1>8. ~ (r < q)
  <2> SUFFICES ASSUME r < q PROVE FALSE
    OBVIOUS
  <2>1. r + job.vmod <= q
    BY <1>1, <1>2, <1>5, <1>6, SameBankApart
  <2>2. l[1] <= lineno
    BY <1>1
  <2>3. r <= last_pass
    BY <1>4, <2>1, <2>2, PassesBelowAreSent
  <2> QED  BY <1>1, <1>5, <1>6, <2>3
<1>9. ~ (q < r)
  <2> SUFFICES ASSUME q < r PROVE FALSE
    OBVIOUS
  <2>1. q + job.vmod <= r
    BY <1>1, <1>2, <1>5, <1>6, SameBankApart
  <2>2. q <= last_pass
    BY <1>4, <2>1, PassesBelowAreSent
  <2> QED  BY <1>1, <1>2, <1>7, <2>2
<1> QED  BY <1>2, <1>6, <1>8, <1>9

(* The bank that stpi_flush_passes sends has the next pass, no later one.  *)
LEMMA NextBankHasNextPass ==
  ASSUME Woven, IInv, passes[NextBank].pass >= 0
  PROVE  passes[NextBank].pass = last_pass + 1
<1> DEFINE x == last_pass + 1
           r == passes[NextBank].pass
<1>1. /\ job \in Jobs /\ lineno \in Int
      /\ job.vmod \in Positive /\ last_pass \in Int
      /\ x \in Nat
  BY JobFacts DEF IInv, Typed, TypeOK, IsJob
<1>2. NextBank = x % job.vmod /\ NextBank \in Slots(job)
  BY <1>1, BankIsASlot DEF NextBank
<1>3. PICK l \in Fed(job) : l[1] <= lineno /\ Line(job, l).pass = r
  BY <1>2 DEF IInv, BanksHoldTheirPasses
<1>4. r % job.vmod = x % job.vmod /\ r > last_pass
  BY <1>2 DEF IInv, BanksHoldTheirPasses
<1>5. r \in Nat
  BY <1>1, <1>3, FedLine DEF Params
<1> SUFFICES ASSUME x # r PROVE FALSE
  OBVIOUS
<1>6. x < r /\ x \in 0 .. Line(job, l).pass
  BY <1>1, <1>3, <1>4, <1>5
<1>7. x + job.vmod <= r
  BY <1>1, <1>4, <1>5, <1>6, SameBankApart
<1>8. PICK m \in Fed(job) : Line(job, m).pass = x
  BY <1>1, <1>6, NoPassLeftOut
<1>9. Line(job, m).pass <= last_pass
  BY <1>3, <1>7, <1>8, PassesBelowAreSent
<1> QED  BY <1>1, <1>8, <1>9

-----------------------------------------------------------------------------
(* The invariant is inductive.                                             *)
LEMMA IInvInit == Init => IInv
<1> SUFFICES ASSUME Init PROVE IInv
  OBVIOUS
<1>1. Typed
  BY TypedInit
<1>2. job \in Jobs /\ job.firstline \in Int /\ lineno = job.firstline
  BY JobFacts DEF Init, IsJob
<1>3. BanksHoldTheirPasses
  BY DEF Init, BanksHoldTheirPasses, FreePass
<1>4. ASSUME NEW l \in Fed(job)
      PROVE  ~ (l[1] < lineno) /\ Line(job, l).pass \in Nat
  <2>1. l[1] \in Rows(job) /\ Line(job, l) \in Params /\ l[1] \in Nat
    BY <1>2, FedLine
  <2>2. job.lastline \in Int
    BY <1>2, JobFacts DEF IsJob
  <2> QED  BY <1>2, <2>1, <2>2 DEF Params, Rows
<1>5. ReachedPassesWait
  BY <1>4 DEF Init, ReachedPassesWait, Reached
<1>6. SentPassesAreOver
  BY <1>4 DEF Init, SentPassesAreOver
<1>7. ASSUME NEW row \in Rows(job) PROVE ~ Looked(row)
  <2>1. ~ (row < lineno)
    BY <1>2 DEF Rows
  <2>2. pc # "finalize"
    BY DEF Init
  <2> QED  BY <2>1, <2>2, Zenon DEF Looked
<1>8. NoneHeldBack
  BY <1>7 DEF NoneHeldBack
<1> QED  BY <1>1, <1>3, <1>5, <1>6, <1>8 DEF IInv

(* The steps that only move on in a loop leave banks and passes as they    *)
(* are, and deal with no further line and no further row.                  *)
LEMMA BanksUntouched ==
  ASSUME IInv, UNCHANGED <<job, lineno, passes, last_pass>>,
         pc' \notin {"flushall", "done"} => pc \notin {"flushall", "done"},
         \A l \in Fed(job) : Reached(l)' => Reached(l),
         \A row \in Rows(job) : Looked(row)' => Looked(row)
  PROVE  /\ BanksHoldTheirPasses' /\ ReachedPassesWait'
         /\ SentPassesAreOver' /\ NoneHeldBack'
<1>1. BanksHoldTheirPasses'
  BY DEF IInv, BanksHoldTheirPasses
<1>2. ReachedPassesWait'
  BY DEF IInv, ReachedPassesWait
<1>3. SentPassesAreOver'
  BY DEF IInv, SentPassesAreOver
<1>4. NoneHeldBack'
  BY DEF IInv, NoneHeldBack
<1> QED  BY <1>1, <1>2, <1>3, <1>4

(* stp_write_weave begins a row: nothing of the banks changes.             *)
LEMMA StepWriteWeave ==
  ASSUME IInv, WriteWeave
  PROVE  /\ BanksHoldTheirPasses' /\ ReachedPassesWait'
         /\ SentPassesAreOver' /\ NoneHeldBack'
<1>1. /\ UNCHANGED <<job, lineno, passes, last_pass, subline>>
      /\ pc = "driver" /\ i' = 0 /\ j' = 1
      /\ pc' = IF subline = 0 THEN "initialize" ELSE "add"
  BY DEF WriteWeave, engine, printer
<1>2. job \in Jobs /\ subline \in Nat
  BY JobFacts DEF IInv, Typed, TypeOK, IsJob, Positive
<1>3. ASSUME NEW l \in Fed(job), Reached(l)' PROVE Reached(l)
  <2>1. l[3] \in Nat /\ l[2] \in 1 .. job.ncolors /\ job.ncolors \in Nat
    <3>1. l[3] \in Subpasses(job) /\ l[2] \in Colors(job)
      BY <1>2, FedLine
    <3>2. job.oversample \in Nat /\ job.ncolors \in Nat
      BY <1>2, JobFacts DEF IsJob, Positive
    <3> QED  BY <3>1, <3>2 DEF Subpasses, Colors
  <2> QED  BY <1>1, <1>2, <1>3, <2>1 DEF Reached
<1>4. ASSUME NEW row \in Rows(job), Looked(row)' PROVE Looked(row)
  <2>1. pc' # "finalize" /\ lineno' = lineno /\ job' = job
    BY <1>1
  <2> QED  BY <1>4, <2>1, Zenon DEF Looked
<1> QED  BY <1>1, <1>3, <1>4, BanksUntouched

(* add_to_row fills buffers of passes that have their banks already.       *)
LEMMA StepAddToRow ==
  ASSUME IInv, AddToRow
  PROVE  /\ BanksHoldTheirPasses' /\ ReachedPassesWait'
         /\ SentPassesAreOver' /\ NoneHeldBack'
<1>1. UNCHANGED <<job, lineno, passes, last_pass>> /\ pc = "add"
  BY DEF AddToRow, AddLine, printer
<1>2. pc' \in {"add", "driver"} \/ (pc' = "finalize" /\ i' = 0)
  BY <1>1 DEF AddToRow, AddLine
<1>3. ASSUME NEW l \in Fed(job), Reached(l)' PROVE Reached(l)
  BY <1>1, <1>3 DEF Reached
<1>4. ASSUME NEW row \in Rows(job), Looked(row)' PROVE Looked(row)
  <2>1. pc' = "finalize" => 0 .. i' - 1 = {}
    BY <1>2
  <2> QED  BY <1>1, <1>4, <2>1, Zenon DEF Looked
<1> QED  BY <1>1, <1>3, <1>4, BanksUntouched

(* finalize_row counts a subpass; where a pass ends it goes on to look for *)
(* passes to send, and has not yet looked on this row.                     *)
LEMMA StepFinalizeRow ==
  ASSUME IInv, FinalizeRow
  PROVE  /\ BanksHoldTheirPasses' /\ ReachedPassesWait'
         /\ SentPassesAreOver' /\ NoneHeldBack'
<1>1. /\ UNCHANGED <<job, lineno, subline, passes, last_pass>>
      /\ pc = "finalize" /\ i' = i + 1
  BY Zenon DEF FinalizeRow, printer
<1>2. pc' = IF job.weave[lineno, i].physpassend = lineno THEN "flush" ELSE pc
  BY Zenon DEF FinalizeRow
<1>3. pc' = "finalize" \/ pc' = "flush"
  BY <1>1, <1>2, Zenon
<1>4. subline > 0 /\ i \in Nat
  <2>1. pc = "finalize"
    BY <1>1
  <2>2. job.oversample \in Nat
    BY JobFacts DEF IInv, Typed, IsJob, Positive
  <2> QED  BY <2>1, <2>2 DEF IInv, Typed, Control, TypeOK
<1>5. ASSUME NEW l \in Fed(job), Reached(l)' PROVE Reached(l)
  <2>1. subline' = subline /\ lineno' = lineno
    BY <1>1
  <2> QED  BY <1>4, <1>5, <2>1 DEF Reached
<1>6. ASSUME NEW row \in Rows(job), Looked(row)' PROVE Looked(row)
  <2>1. CASE row < lineno /\ EndsPass(job, row)
    BY <2>1, Zenon DEF Looked
  <2>2. CASE ~ (row < lineno /\ EndsPass(job, row))
    <3>1. /\ row = lineno /\ pc' = "finalize"
          /\ \E s \in 0 .. i' - 1 : job.weave[row, s].physpassend = row
      BY <1>1, <1>6, <2>2, Zenon DEF Looked
    <3>2. PICK s \in 0 .. i' - 1 : job.weave[row, s].physpassend = row
      BY <3>1
    <3>3. s # i
      BY <1>1, <1>2, <3>1, <3>2, Zenon
    <3>4. s \in 0 .. i - 1
      <4>1. s \in 0 .. i' - 1
        BY <3>2, Zenon
      <4> QED  BY <1>1, <1>4, <3>3, <4>1
    <3> QED  BY <1>1, <3>1, <3>2, <3>4, Zenon DEF Looked
  <2> QED  BY <2>1, <2>2
<1> QED  BY <1>1, <1>3, <1>5, <1>6, BanksUntouched

(* The row is behind: every pass that ended on it has been looked for.     *)
LEMMA StepEndRow ==
  ASSUME IInv, EndRow
  PROVE  /\ BanksHoldTheirPasses' /\ ReachedPassesWait'
         /\ SentPassesAreOver' /\ NoneHeldBack'
<1>1. /\ UNCHANGED <<job, passes, last_pass>>
      /\ pc = "finalize" /\ pc' = "driver" /\ i = job.oversample
      /\ lineno' = lineno + 1 /\ subline' = 0
  BY DEF EndRow, printer
<1>2. subline > 0 /\ lineno \in Int /\ job \in Jobs
  BY <1>1, JobFacts DEF IInv, Typed, Control, TypeOK, IsJob
<1>3. BanksHoldTheirPasses'
  <2>1. ASSUME NEW l \in Fed(job), l[1] <= lineno PROVE l[1] <= lineno'
    <3>1. l[1] \in Nat
      BY <1>2, FedLine
    <3> QED  BY <1>1, <1>2, <2>1, <3>1
  <2> QED  BY <1>1, <2>1 DEF IInv, BanksHoldTheirPasses
<1>4. ReachedPassesWait'
  <2>1. ASSUME NEW l \in Fed(job), Reached(l)' PROVE Reached(l)
    <3>1. l[1] \in Nat
      BY <1>2, FedLine
    <3> QED  BY <1>1, <1>2, <2>1, <3>1 DEF Reached
  <2> QED  BY <1>1, <2>1 DEF IInv, ReachedPassesWait
<1>5. SentPassesAreOver'
  <2>1. \A l \in Fed(job) : Line(job, l).physpassend \in Int
    BY <1>2, FedLine DEF Params
  <2> QED  BY <1>1, <1>2, <2>1 DEF IInv, SentPassesAreOver
<1>6. NoneHeldBack'
  <2>1. ASSUME NEW row \in Rows(job), Looked(row)' PROVE Looked(row)
    <3>1. row < lineno' /\ EndsPass(job, row)
      BY <1>1, <2>1, Zenon DEF Looked
    <3>2. CASE row < lineno
      BY <3>1, <3>2, Zenon DEF Looked
    <3>3. CASE ~ (row < lineno)
      <4>1. row = lineno
        <5>1. row \in Int
          BY <1>2, JobFacts DEF Rows, IsJob
        <5> QED  BY <1>1, <1>2, <3>1, <3>3, <5>1
      <4>2. PICK s \in Subpasses(job) : job.weave[row, s].physpassend = row
        BY <3>1, Zenon DEF EndsPass
      <4>3. s \in 0 .. i - 1
        BY <1>1, <4>2, Zenon DEF Subpasses
      <4> QED  BY <1>1, <4>1, <4>2, <4>3, Zenon DEF Looked
    <3> QED  BY <3>2, <3>3
  <2> QED  BY <1>1, <2>1 DEF IInv, NoneHeldBack
<1> QED  BY <1>3, <1>4, <1>5, <1>6

(* initialize_row gives the line's bank to the line's pass, where the bank *)
(* is not taken; no other bank changes.                                    *)
LEMMA StepInitializeRow ==
  ASSUME Woven, IInv, InitializeRow
  PROVE  /\ BanksHoldTheirPasses' /\ ReachedPassesWait'
         /\ SentPassesAreOver' /\ NoneHeldBack'
<1> DEFINE here == <<lineno, j, i>>
           b    == Bank(j, i)
           w    == Param(j, i)
<1>1. /\ UNCHANGED <<job, lineno, subline, last_pass>>
      /\ pc = "initialize"
  BY DEF InitializeRow, printer
<1>2. /\ job \in Jobs /\ lineno \in Rows(job) /\ lineno \in Int
      /\ i \in Nat /\ j \in 1 .. job.ncolors
      /\ job.ncolors \in Nat /\ job.oversample \in Nat /\ last_pass \in Int
      /\ i \in Subpasses(job) /\ subline = 0
  <2>1. /\ job.oversample \in Nat /\ job.ncolors \in Nat
        /\ job.firstline \in Nat /\ job.lastline \in Nat
    BY JobFacts DEF IInv, Typed, IsJob, Positive
  <2>2. lineno <= job.lastline /\ i < job.oversample /\ subline = 0
    BY <1>1 DEF IInv, Typed, Control
  <2> QED  BY <2>1, <2>2 DEF IInv, Typed, TypeOK, Rows, Subpasses, Colors
<1>3. \/ pc' = "initialize" /\ i' = i /\ j' = j + 1
      \/ pc' = "initialize" /\ i' = i + 1 /\ j' = 1 /\ j = job.ncolors
      \/ pc' = "add" /\ i + 1 = job.oversample /\ j = job.ncolors
  <2>1. CASE j < job.ncolors
    BY <1>1, <2>1 DEF InitializeRow
  <2>2. CASE ~ (j < job.ncolors)
    <3>1. /\ j' = 1 /\ i' = (i + 1) % job.oversample
          /\ pc' = IF i + 1 < job.oversample THEN "initialize" ELSE "add"
      BY <2>2 DEF InitializeRow
    <3>2. j = job.ncolors
      BY <1>2, <2>2
    <3>3. i < job.oversample
      BY <1>2 DEF Subpasses
    <3>4. i + 1 < job.oversample => (i + 1) % job.oversample = i + 1
      BY <1>2
    <3> QED  BY <1>2, <3>1, <3>2, <3>3, <3>4
  <2> QED  BY <2>1, <2>2
<1>4. ASSUME NEW l \in Fed(job), Reached(l)'
      PROVE  Reached(l) \/ l = here
  <2>1. /\ l = <<l[1], l[2], l[3]>> /\ l[1] \in Nat
        /\ l[2] \in Colors(job) /\ l[3] \in Subpasses(job)
    BY <1>2, FedLine
  <2>2. l[2] \in 1 .. job.ncolors /\ l[3] \in 0 .. job.oversample - 1
    BY <2>1 DEF Colors, Subpasses
  <2>3. l[1] < lineno \/ l[1] = lineno
    BY <1>1, <1>4 DEF Reached
  <2>4. CASE l[1] = lineno
    <3>1. l[3] < i \/ (l[3] = i /\ l[2] <= j)
      <4>1. \/ pc' = "add"
            \/ pc' = "initialize" /\ (l[3] < i' \/ (l[3] = i' /\ l[2] < j'))
        BY <1>1, <1>2, <1>4, <2>4 DEF Reached
      <4>2. CASE pc' = "initialize" /\ i' = i /\ j' = j + 1
        BY <1>2, <2>2, <4>1, <4>2
      <4>3. CASE j = job.ncolors /\ l[3] <= i
        BY <1>2, <2>2, <4>3
      <4> QED  BY <1>2, <1>3, <2>2, <4>1, <4>2, <4>3
    <3>2. CASE l[3] < i \/ (l[3] = i /\ l[2] < j)
      BY <1>1, <2>4, <3>2 DEF Reached
    <3>3. CASE l[3] = i /\ l[2] = j
      BY <2>1, <2>4, <3>3
    <3> QED  BY <1>2, <2>2, <3>1, <3>2, <3>3
  <2> QED  BY <2>3, <2>4 DEF Reached
<1>5. SentPassesAreOver'
  BY <1>1, <1>3 DEF IInv, SentPassesAreOver
<1>6. NoneHeldBack'
  <2>1. ASSUME NEW row \in Rows(job), Looked(row)' PROVE Looked(row)
    <3>1. pc' # "finalize" /\ lineno' = lineno /\ job' = job
      BY <1>1, <1>3
    <3> QED  BY <2>1, <3>1, Zenon DEF Looked
  <2> QED  BY <1>1, <2>1 DEF IInv, NoneHeldBack
<1>7. CASE j \in job.cols
  <2>1. here \in Fed(job) /\ Line(job, here) = w /\ here[1] = lineno
    BY <1>2, <1>7 DEF Fed, Line, Param
  <2>2. w \in Params /\ w.pass \in Nat /\ b = w.pass % job.vmod /\ b \in Slots(job)
    BY <1>2, <2>1, FedLine, BankIsASlot DEF Params, Bank
  <2>3. w.pass > last_pass
    BY <1>1, <1>2, <2>1, LinesAheadAreUnsent DEF IInv
  <2> DEFINE pass == [pass |-> w.pass, subpass |-> i,
                      logicalpassstart |-> w.logicalpassstart,
                      physpassend |-> w.physpassend]
  <2>4. passes' = IF passes[b].pass < 0 THEN [passes EXCEPT ![b] = pass] ELSE passes
    BY <1>7 DEF InitializeRow
  <2>5. pass.pass = w.pass /\ pass.physpassend = w.physpassend
    OBVIOUS
  <2>6. passes \in [Slots(job) -> PassType]
    BY DEF IInv, Typed, TypeOK
  <2>7. passes[b].pass >= 0 => passes[b].pass = w.pass
    BY <1>1, <2>1, <2>2, BankIsFreeOrRight
  <2>8. passes[b].pass \in Int
    BY <2>2, <2>6 DEF PassType
  <2> HIDE DEF pass, b, w, here
  <2>9. /\ passes'[b].pass = w.pass
        /\ \A k \in Slots(job) : k # b \/ passes[b].pass >= 0 => passes'[k] = passes[k]
        /\ passes[b].pass < 0 => passes'[b].physpassend = w.physpassend
    BY <2>2, <2>4, <2>5, <2>6, <2>7, <2>8
  <2>10. BanksHoldTheirPasses'
    <3> SUFFICES ASSUME NEW k \in Slots(job), passes'[k].pass >= 0
                 PROVE  /\ passes'[k].pass % job.vmod = k
                        /\ passes'[k].pass > last_pass
                        /\ \E l \in Fed(job) :
                             /\ l[1] <= lineno
                             /\ Line(job, l).pass = passes'[k].pass
                             /\ Line(job, l).physpassend = passes'[k].physpassend
      BY <1>1 DEF BanksHoldTheirPasses
    <3>1. CASE k # b \/ passes[b].pass >= 0
      BY <2>9, <3>1 DEF IInv, BanksHoldTheirPasses
    <3>2. CASE k = b /\ passes[b].pass < 0
      BY <1>2, <2>1, <2>2, <2>3, <2>9, <3>2
    <3> QED  BY <2>8, <3>1, <3>2
  <2>11. ReachedPassesWait'
    <3> SUFFICES ASSUME NEW l \in Fed(job), Reached(l)', Line(job, l).pass > last_pass
                 PROVE  passes'[Line(job, l).pass % job.vmod].pass = Line(job, l).pass
      BY <1>1 DEF ReachedPassesWait
    <3>1. CASE Reached(l)
      <4> DEFINE k == Line(job, l).pass % job.vmod
      <4>1. passes[k].pass = Line(job, l).pass
        BY <3>1 DEF IInv, ReachedPassesWait
      <4>2. Line(job, l).pass \in Nat /\ k \in Slots(job)
        BY <1>2, FedLine, BankIsASlot DEF Params
      <4> HIDE DEF k
      <4>3. k # b \/ passes[b].pass >= 0
        BY <4>1, <4>2
      <4> QED  BY <2>9, <4>1, <4>2, <4>3 DEF k
    <3>2. CASE l = here
      BY <2>1, <2>2, <2>9, <3>2
    <3> QED  BY <1>4, <3>1, <3>2
  <2> QED  BY <1>5, <1>6, <2>10, <2>11
<1>8. CASE j \notin job.cols
  <2>1. passes' = passes
    BY <1>8 DEF InitializeRow
  <2>2. BanksHoldTheirPasses'
    BY <1>1, <2>1 DEF IInv, BanksHoldTheirPasses
  <2>3. here \notin Fed(job)
    BY <1>8 DEF Fed
  <2>4. ReachedPassesWait'
    BY <1>1, <1>4, <2>1, <2>3 DEF IInv, ReachedPassesWait
  <2> QED  BY <1>5, <1>6, <2>2, <2>4
<1> QED  BY <1>7, <1>8

(* The pass that is sent is the next one, and all its lines are behind.    *)
LEMMA StepFlushPass ==
  ASSUME Woven, IInv, FlushPass
  PROVE  /\ BanksHoldTheirPasses' /\ ReachedPassesWait'
         /\ SentPassesAreOver' /\ NoneHeldBack'
         /\ last_pass' = last_pass + 1
<1> DEFINE nb == NextBank
           x  == last_pass + 1
<1>1. /\ UNCHANGED <<job, pc, i, lineno, subline>>
      /\ pc \in {"flush", "flushall"} /\ Ready
      /\ last_pass' = passes[nb].pass
      /\ passes' = [passes EXCEPT ![nb].pass = -1]
  BY DEF FlushPass, SetVerticalPosition, FreeBank
<1>2. /\ job \in Jobs /\ lineno \in Int /\ last_pass \in Int /\ x \in Nat
      /\ passes \in [Slots(job) -> PassType]
  BY JobFacts DEF IInv, Typed, TypeOK, IsJob
<1>3. nb = x % job.vmod /\ nb \in Slots(job)
  BY <1>2, BankIsASlot DEF NextBank
<1>4. passes[nb].pass >= 0 /\ (pc = "flush" => passes[nb].physpassend < lineno)
  BY <1>1 DEF Ready
<1>5. passes[nb].pass = x
  BY <1>4, NextBankHasNextPass
<1>6. passes' = [passes EXCEPT ![nb] = [passes[nb] EXCEPT !.pass = -1]]
  BY <1>1, Zenon
<1>7. [passes[nb] EXCEPT !.pass = -1].pass = -1
  BY <1>2, <1>3 DEF PassType
<1> HIDE DEF nb
<1>8. /\ passes'[nb].pass = -1
      /\ \A k \in Slots(job) : k # nb => passes'[k] = passes[k]
  BY <1>2, <1>3, <1>6, <1>7
<1>9. BanksHoldTheirPasses'
  <2> SUFFICES ASSUME NEW k \in Slots(job), passes'[k].pass >= 0
               PROVE  /\ passes'[k].pass % job.vmod = k
                      /\ passes'[k].pass > last_pass'
                      /\ \E l \in Fed(job) :
                           /\ l[1] <= lineno
                           /\ Line(job, l).pass = passes'[k].pass
                           /\ Line(job, l).physpassend = passes'[k].physpassend
    BY <1>1 DEF BanksHoldTheirPasses
  <2>1. k # nb /\ passes'[k] = passes[k]
    BY <1>8
  <2>2. /\ passes[k].pass % job.vmod = k
        /\ passes[k].pass > last_pass
        /\ \E l \in Fed(job) :
             /\ l[1] <= lineno
             /\ Line(job, l).pass = passes[k].pass
             /\ Line(job, l).physpassend = passes[k].physpassend
    BY <2>1 DEF IInv, BanksHoldTheirPasses
  <2>3. passes[k].pass # x
    BY <1>3, <2>1, <2>2
  <2>4. passes[k].pass \in Int
    BY <1>2 DEF PassType
  <2> QED  BY <1>1, <1>2, <1>5, <2>1, <2>2, <2>3, <2>4
<1>10. ReachedPassesWait'
  <2> SUFFICES ASSUME NEW l \in Fed(job), Reached(l)', Line(job, l).pass > last_pass'
               PROVE  passes'[Line(job, l).pass % job.vmod].pass = Line(job, l).pass
    BY <1>1 DEF ReachedPassesWait
  <2>1. Line(job, l).pass \in Nat /\ Line(job, l).pass % job.vmod \in Slots(job)
    BY <1>2, FedLine, BankIsASlot DEF Params
  <2>2. Reached(l)
    BY <1>1 DEF Reached
  <2>3. Line(job, l).pass > x
    BY <1>1, <1>5
  <2>4. passes[Line(job, l).pass % job.vmod].pass = Line(job, l).pass
    <3>1. Line(job, l).pass > last_pass
      BY <1>2, <2>1, <2>3
    <3> QED  BY <2>2, <3>1 DEF IInv, ReachedPassesWait
  <2>5. Line(job, l).pass % job.vmod # nb
    BY <1>2, <1>5, <2>1, <2>3, <2>4
  <2> QED  BY <1>8, <2>1, <2>4, <2>5
<1>11. SentPassesAreOver'
  <2> SUFFICES ASSUME pc = "flush", NEW l \in Fed(job), Line(job, l).pass <= last_pass'
               PROVE  Line(job, l).physpassend < lineno
    BY <1>1 DEF SentPassesAreOver
  <2>1. Line(job, l).pass \in Nat
    BY <1>2, FedLine DEF Params
  <2>2. CASE Line(job, l).pass <= last_pass
    BY <2>2 DEF IInv, SentPassesAreOver
  <2>3. CASE Line(job, l).pass = x
    <3>1. PICK m \in Fed(job) : /\ Line(job, m).pass = passes[nb].pass
                                /\ Line(job, m).physpassend = passes[nb].physpassend
      BY <1>3, <1>4 DEF IInv, BanksHoldTheirPasses
    <3>2. Line(job, l).physpassend = Line(job, m).physpassend
      BY <1>2, <1>5, <2>3, <3>1, OneEnd
    <3> QED  BY <1>4, <3>1, <3>2
  <2> QED  BY <1>1, <1>2, <1>5, <2>1, <2>2, <2>3
<1>12. NoneHeldBack'
  <2> SUFFICES ASSUME NEW row \in Rows(job), NEW l \in Fed(job),
                      Looked(row)', Behind(job, Line(job, l).pass, row)
               PROVE  Line(job, l).pass <= last_pass'
    BY <1>1 DEF NoneHeldBack
  <2>1. Looked(row)
    BY <1>1, Zenon DEF Looked
  <2>2. Line(job, l).pass <= last_pass
    BY <2>1 DEF IInv, NoneHeldBack
  <2>3. Line(job, l).pass \in Nat
    BY <1>2, FedLine DEF Params
  <2> QED  BY <1>1, <1>2, <1>5, <2>2, <2>3
<1> QED  BY <1>1, <1>5, <1>9, <1>10, <1>11, <1>12

(* stpi_flush_passes stops at the first pass it may not send: every pass   *)
(* that was over on this row has gone out.                                 *)
LEMMA StepEndFlush ==
  ASSUME Woven, IInv, EndFlush
  PROVE  /\ BanksHoldTheirPasses' /\ ReachedPassesWait'
         /\ SentPassesAreOver' /\ NoneHeldBack'
<1> DEFINE x == last_pass + 1
<1>1. /\ UNCHANGED <<job, i, lineno, subline, passes, last_pass>> /\ ~ Ready
      /\ pc \in {"flush", "flushall"}
      /\ pc' = IF pc = "flush" THEN "finalize" ELSE "done"
  BY DEF EndFlush, engine, printer
<1>2. /\ job \in Jobs /\ lineno \in Int /\ last_pass \in Int /\ x \in Nat
  BY JobFacts DEF IInv, Typed, TypeOK, IsJob
<1>3. BanksHoldTheirPasses'
  BY <1>1 DEF IInv, BanksHoldTheirPasses
<1>4. ReachedPassesWait'
  <2>1. ASSUME NEW l \in Fed(job), Reached(l)' PROVE Reached(l)
    BY <1>1, <2>1 DEF Reached
  <2> QED  BY <1>1, <2>1 DEF IInv, ReachedPassesWait
<1>5. SentPassesAreOver'
  BY <1>1 DEF IInv, SentPassesAreOver
<1>6. NoneHeldBack'
  <2> SUFFICES ASSUME NEW row \in Rows(job), NEW l \in Fed(job),
                      Looked(row)', Behind(job, Line(job, l).pass, row)
               PROVE  Line(job, l).pass <= last_pass
    BY <1>1 DEF NoneHeldBack
  <2>1. CASE Looked(row)
    BY <2>1 DEF IInv, NoneHeldBack
  <2>2. CASE ~ Looked(row)
    <3>1. row = lineno /\ pc' = "finalize"
      BY <1>1, <2>2, Zenon DEF Looked
    <3>2. pc = "flush"
      BY <1>1, <3>1
    <3>3. Line(job, l).pass \in Nat
      BY <1>2, FedLine DEF Params
    <3>4. SUFFICES ASSUME Line(job, l).pass > last_pass PROVE FALSE
      BY <1>2, <3>3
    <3>5. PICK m \in Fed(job) : Line(job, m).pass = x
      <4>1. x \in 0 .. Line(job, l).pass
        BY <1>2, <3>3, <3>4
      <4> QED  BY <1>2, <4>1, NoPassLeftOut
    <3>6. Line(job, m).physpassend < lineno
      <4>1. Line(job, m).pass <= Line(job, l).pass
        BY <1>2, <3>3, <3>4, <3>5
      <4> QED  BY <3>1, <4>1 DEF Behind
    <3>7. m[1] < lineno
      <4>1. m[1] \in Nat /\ m[1] <= Line(job, m).physpassend
            /\ Line(job, m).physpassend \in Int
        BY <1>2, FedLine DEF Params
      <4> QED  BY <1>2, <3>6, <4>1
    <3>8. passes[NextBank].pass = x /\ NextBank \in Slots(job)
      <4>1. Reached(m)
        BY <3>7 DEF Reached
      <4>2. x > last_pass /\ NextBank = x % job.vmod
        BY <1>2 DEF NextBank
      <4>3. passes[x % job.vmod].pass = x
        BY <3>5, <4>1, <4>2 DEF IInv, ReachedPassesWait
      <4> QED  BY <1>2, <4>2, <4>3, BankIsASlot
    <3>9. PICK k \in Fed(job) :
            /\ Line(job, k).pass = passes[NextBank].pass
            /\ Line(job, k).physpassend = passes[NextBank].physpassend
      BY <1>2, <3>8 DEF IInv, BanksHoldTheirPasses
    <3>10. passes[NextBank].physpassend < lineno
      <4>1. Line(job, k).physpassend = Line(job, m).physpassend
        BY <1>2, <3>5, <3>8, <3>9, OneEnd
      <4> QED  BY <3>6, <3>9, <4>1
    <3> QED  BY <1>1, <1>2, <3>2, <3>8, <3>10 DEF Ready
  <2> QED  BY <2>1, <2>2
<1> QED  BY <1>3, <1>4, <1>5, <1>6

(* stp_flush_all starts: every later step may send passes with rows to     *)
(* come.                                                                   *)
LEMMA StepFlushAll ==
  ASSUME IInv, FlushAll
  PROVE  /\ BanksHoldTheirPasses' /\ ReachedPassesWait'
         /\ SentPassesAreOver' /\ NoneHeldBack'
<1>1. /\ UNCHANGED <<job, i, lineno, subline, passes, last_pass>>
      /\ pc = "driver" /\ pc' = "flushall"
  BY DEF FlushAll, engine, printer
<1>2. ASSUME NEW l \in Fed(job), Reached(l)' PROVE Reached(l)
  BY <1>1, <1>2 DEF Reached
<1>3. ASSUME NEW row \in Rows(job), Looked(row)' PROVE Looked(row)
  BY <1>1, <1>3, Zenon DEF Looked
<1> QED  BY <1>1, <1>2, <1>3, BanksUntouched

(* The invariant is preserved by every action, if the weave is good.       *)
LEMMA IInvStep == ASSUME Woven PROVE IInv /\ [Next]_vars => IInv'
<1> SUFFICES ASSUME IInv, [Next]_vars PROVE IInv'
  OBVIOUS
<1> DEFINE Others == /\ BanksHoldTheirPasses' /\ ReachedPassesWait'
                     /\ SentPassesAreOver' /\ NoneHeldBack'
<1>1. Typed'
  BY TypedStep DEF IInv
<1>2. ASSUME WriteWeave PROVE Others
  BY <1>2, StepWriteWeave
<1>3. ASSUME InitializeRow PROVE Others
  BY <1>3, StepInitializeRow
<1>4. ASSUME AddToRow PROVE Others
  BY <1>4, StepAddToRow
<1>5. ASSUME FinalizeRow PROVE Others
  BY <1>5, StepFinalizeRow
<1>6. ASSUME EndRow PROVE Others
  BY <1>6, StepEndRow
<1>7. ASSUME FlushPass PROVE Others
  BY <1>7, StepFlushPass
<1>8. ASSUME EndFlush PROVE Others
  BY <1>8, StepEndFlush
<1>9. ASSUME FlushAll PROVE Others
  BY <1>9, StepFlushAll
<1>10. ASSUME UNCHANGED vars PROVE Others
  <2>1. UNCHANGED <<job, lineno, subline, pc, i, j, passes, last_pass>>
    BY <1>10 DEF vars, engine, printer
  <2>2. ASSUME NEW l \in Fed(job), Reached(l)' PROVE Reached(l)
    BY <2>1, <2>2 DEF Reached
  <2>3. ASSUME NEW row \in Rows(job), Looked(row)' PROVE Looked(row)
    BY <2>1, <2>3, Zenon DEF Looked
  <2> QED  BY <2>1, <2>2, <2>3, BanksUntouched
<1>11. Others
  <2> HIDE DEF Others
  <2> QED  BY <1>2, <1>3, <1>4, <1>5, <1>6, <1>7, <1>8, <1>9, <1>10 DEF Next, Done
<1> QED  BY <1>1, <1>11 DEF IInv

-----------------------------------------------------------------------------
(* If the weave is good, add_to_row finds the right pass in every bank: no *)
(* line goes into the buffer of another pass.                              *)
THEOREM LinesGoToTheirPass ==
  ASSUME Woven PROVE Spec => []LineInItsPass
<1>1. IInv => LineInItsPass
  <2> SUFFICES ASSUME IInv, pc = "add", NEW c \in job.cols, NEW s \in Subpasses(job)
               PROVE  passes[Bank(c, s)].pass = Param(c, s).pass
    BY DEF LineInItsPass
  <2> DEFINE l == <<lineno, c, s>>
  <2>1. job \in Jobs /\ lineno \in Rows(job) /\ lineno \in Int
    BY JobFacts DEF IInv, Typed, Control, TypeOK, Rows, IsJob
  <2>2. l \in Fed(job) /\ Line(job, l) = Param(c, s) /\ l[1] = lineno
    BY <2>1 DEF Fed, Line, Param
  <2>3. Reached(l)
    BY <2>2 DEF Reached
  <2>4. Line(job, l).pass > last_pass
    BY <2>1, <2>2, LinesAheadAreUnsent DEF IInv
  <2>5. passes[Line(job, l).pass % job.vmod].pass = Line(job, l).pass
    BY <2>2, <2>3, <2>4 DEF IInv, ReachedPassesWait
  <2> QED  BY <2>2, <2>5 DEF Bank
<1> QED  BY IInvInit, IInvStep, <1>1, PTL DEF Spec

(* ... no row still to come belongs to a pass that the printer already has.*)
THEOREM NoLineComesLate ==
  ASSUME Woven PROVE Spec => []NoLateLine
<1>1. IInv => NoLateLine
  <2> SUFFICES ASSUME IInv, pc \in {"driver", "initialize", "add"},
                      NEW row \in lineno .. job.lastline,
                      NEW c \in job.cols, NEW s \in Subpasses(job)
               PROVE  last_pass < job.weave[row + job.head_offset[c], s].pass
    BY Zenon DEF NoLateLine
  <2> DEFINE l == <<row, c, s>>
  <2>1. /\ job \in Jobs /\ row \in Rows(job) /\ lineno <= row
        /\ last_pass \in Int
    BY JobFacts DEF IInv, Typed, TypeOK, Rows, IsJob
  <2>2. l \in Fed(job) /\ l[1] = row
    BY <2>1 DEF Fed
  <2>3. Line(job, l).pass > last_pass
    BY <2>1, <2>2, LinesAheadAreUnsent DEF IInv
  <2>4. Line(job, l).pass \in Nat
    BY <2>1, <2>2, FedLine DEF Params
  <2>5. last_pass < Line(job, l).pass
    BY <2>1, <2>3, <2>4
  <2>6. Line(job, l) = job.weave[row + job.head_offset[c], s]
    BY Zenon DEF Line
  <2> QED  BY <2>5, <2>6, Zenon
<1> QED  BY IInvInit, IInvStep, <1>1, PTL DEF Spec

(* ... and stpi_flush_passes sends each pass right after the one before.   *)
THEOREM PassesSentInOrder ==
  ASSUME Woven PROVE Spec => SentInOrder
<1>1. IInv /\ [Next]_vars =>
        [last_pass' # last_pass => last_pass' = last_pass + 1]_vars
  <2> SUFFICES ASSUME IInv, Next, last_pass' # last_pass
               PROVE  last_pass' = last_pass + 1
    BY DEF vars
  <2>1. FlushPass
    BY Zenon DEF Next, WriteWeave, InitializeRow, AddToRow, AddLine, FinalizeRow, EndRow,
       EndFlush, FlushAll, Done, vars, engine, printer
  <2> QED  BY <2>1, StepFlushPass
<1> QED  BY IInvInit, IInvStep, <1>1, PTL DEF Spec, SentInOrder

-----------------------------------------------------------------------------
(* The sheet that leaves the printer: the buffers hold, for each pass and  *)
(* colour, the lines in the order of the jets, as many as are counted;     *)
(* every dot row of a page that came in full is printed once, in its       *)
(* place; and the softweave implements Page.                               *)

(* The pages whose weave is a good one.                                    *)
Good == \A jb \in Jobs : WovenWell(jb) /\ PrintsWell(jb)

-----------------------------------------------------------------------------
(* The lines of a pass in one colour, the jet of a line, what is put in a  *)
(* buffer for it, and the dot row it should become.                        *)
LinesOf(jb, p, c) == {l \in Fed(jb) : l[2] = c /\ Line(jb, l).pass = p}
Jet(jb, l)        == Line(jb, l).jet
Filed(l)          == <<l[1], l[3]>>
Dot(jb, l) ==
  [color |-> l[2], pass |-> Line(jb, l).pass, subpass |-> l[3],
   at |-> l[1] + jb.head_offset[l[2]], line |-> Filed(l)]

(* The first subpass of this call of stp_write_weave.                      *)
FirstSubpass == subline * job.h_passes

(* The lines that initialize_row has reached, those that add_to_row has    *)
(* added and those that finalize_row has counted.                          *)
Added(l) ==
  \/ l[1] < lineno
  \/ /\ l[1] = lineno
     /\ \/ l[3] < FirstSubpass
        \/ /\ pc = "add"
           /\ l[3] < FirstSubpass + job.h_passes
           /\ \/ l[2] < j
              \/ l[2] = j /\ l[3] < FirstSubpass + i

Counted(l) ==
  \/ l[1] < lineno
  \/ l[1] = lineno /\ pc \in {"finalize", "flush"} /\ l[3] < i

ReachedLines == {l \in Fed(job) : Reached(l)}
AddedLines   == {l \in Fed(job) : Added(l)}
CountedLines == {l \in Fed(job) : Counted(l)}

(* A buffer holds the lines added so far, each at its jet, and phantoms;   *)
(* it ends where the line reached last is, or is to come.                  *)
Filled(jb, lines, reached, added, buf) ==
  /\ \A k \in 1 .. Len(buf) :
       buf[k] # Phantom =>
         \E l \in lines \cap added : buf[k] = Filed(l) /\ k = Jet(jb, l) + 1
  /\ \A l \in lines \cap added :
       Jet(jb, l) + 1 <= Len(buf) /\ buf[Jet(jb, l) + 1] = Filed(l)
  /\ \A l \in (lines \cap reached) \ added : Len(buf) = Jet(jb, l)
  /\ Len(buf) > 0 =>
       \E l \in lines \cap reached :
         Len(buf) = IF l \in added THEN Jet(jb, l) + 1 ELSE Jet(jb, l)

(* linecount lags behind by the line that is added and not yet counted.    *)
Tallied(lines, added, counted, buf, count) ==
  Len(buf) = IF lines \cap (added \ counted) = {} THEN count ELSE count + 1

Dotted(jb, buf, active) ==
  active <=> \E k \in 1 .. Len(buf) : buf[k][1] \in jb.ink

-----------------------------------------------------------------------------
(* Of two natural numbers the jets of two rows of a pass.                  *)
LEMMA JetsInOrder ==
  ASSUME NEW d \in Positive, NEW a \in Nat, NEW b \in Nat,
         NEW p \in Int, NEW q \in Int, NEW z \in Int,
         p = z + d * a, q = z + d * b
  PROVE  /\ p < q <=> a < b
         /\ p = q <=> a = b
         /\ p < q => p <= q - d
         /\ p = q - d <=> a + 1 = b
<1>1. CASE a < b
  <2>1. PICK n \in Nat : b = a + 1 + n
    BY <1>1
  <2>2. d * b = d * a + d + d * n /\ d * n >= 0 /\ (n > 0 => d * n > 0)
    BY <2>1 DEF Positive
  <2>3. d * a \in Int /\ d * b \in Int /\ d * n \in Int
    BY <2>1 DEF Positive
  <2> QED  BY <1>1, <2>1, <2>2, <2>3 DEF Positive
<1>2. CASE b < a
  <2>1. PICK n \in Nat : a = b + 1 + n
    BY <1>2
  <2>2. d * a = d * b + d + d * n /\ d * n >= 0
    BY <2>1 DEF Positive
  <2>3. d * a \in Int /\ d * b \in Int /\ d * n \in Int
    BY <2>1 DEF Positive
  <2> QED  BY <1>2, <2>1, <2>2, <2>3 DEF Positive
<1>3. CASE a = b
  <2>1. d * a \in Int
    BY DEF Positive
  <2> QED  BY <1>3, <2>1 DEF Positive
<1> QED  BY <1>1, <1>2, <1>3

(* What PrintsWell says of one line.                                       *)
LEMMA LineOnJet ==
  ASSUME Good, NEW jb \in Jobs, NEW l \in Fed(jb)
  PROVE  /\ Jet(jb, l) \in Nat /\ Jet(jb, l) < jb.jets
         /\ jb.jets <= jb.virtual_jets
         /\ jb.jets \in Nat /\ jb.virtual_jets \in Nat
         /\ Line(jb, l).logicalpassstart \in Int
         /\ Line(jb, l).logicalpassstart >= 0
         /\ l[1] + jb.head_offset[l[2]] =
              Line(jb, l).logicalpassstart + jb.separation * Jet(jb, l)
<1>1. PrintsWell(jb)
  BY DEF Good
<1>2. IsJob(jb) /\ Line(jb, l) \in Params
  BY JobFacts, FedLine
<1> QED  BY <1>1, <1>2 DEF PrintsWell, Params, Jet, IsJob, Positive

(* ... and of two lines of one pass ...                                    *)
LEMMA OneStart ==
  ASSUME Good, NEW jb \in Jobs, NEW l \in Fed(jb), NEW m \in Fed(jb)
  PROVE  /\ Line(jb, l).pass = Line(jb, m).pass =>
              /\ Line(jb, l).logicalpassstart = Line(jb, m).logicalpassstart
              /\ l[3] = m[3]
         /\ Line(jb, l).pass < Line(jb, m).pass =>
              Line(jb, l).logicalpassstart <= Line(jb, m).logicalpassstart
<1>1. PrintsWell(jb)
  BY DEF Good
<1> QED  BY <1>1 DEF PrintsWell

(* ... of which the lower one has the higher jet.                          *)
LEMMA JetsOfAPass ==
  ASSUME Good, NEW jb \in Jobs, NEW c, NEW p,
         NEW l \in LinesOf(jb, p, c), NEW m \in LinesOf(jb, p, c)
  PROVE  /\ l[1] < m[1] <=> Jet(jb, l) < Jet(jb, m)
         /\ l[1] = m[1] => l = m
         /\ l[1] < m[1] =>
              \E k \in LinesOf(jb, p, c) : k[1] < m[1] /\ Jet(jb, k) + 1 = Jet(jb, m)
<1> DEFINE d == jb.separation
           o == jb.head_offset[c]
           z == Line(jb, l).logicalpassstart
           k == <<m[1] - d, c, m[3]>>
<1>1. /\ l \in Fed(jb) /\ m \in Fed(jb)
      /\ l[2] = c /\ m[2] = c
      /\ Line(jb, l).pass = p /\ Line(jb, m).pass = p
  BY DEF LinesOf
<1>2. /\ d \in Positive /\ o \in Nat
      /\ l[1] \in Nat /\ m[1] \in Nat /\ m[1] \in Rows(jb) /\ l[1] \in Rows(jb)
      /\ l = <<l[1], c, l[3]>> /\ m = <<m[1], c, m[3]>>
      /\ c \in jb.cols /\ m[3] \in Subpasses(jb)
  BY <1>1, JobFacts, FedLine DEF IsJob
<1>3. /\ Jet(jb, l) \in Nat /\ Jet(jb, m) \in Nat /\ z \in Int
      /\ l[1] + o = z + d * Jet(jb, l)
      /\ m[1] + o = z + d * Jet(jb, m)
      /\ l[3] = m[3]
  BY <1>1, LineOnJet, OneStart
<1> HIDE DEF z
<1>4. /\ l[1] + o < m[1] + o <=> Jet(jb, l) < Jet(jb, m)
      /\ l[1] + o < m[1] + o => l[1] + o <= (m[1] + o) - d
  <2> DEFINE u == l[1] + o
             v == m[1] + o
  <2>1. /\ u \in Int /\ v \in Int
        /\ u = z + d * Jet(jb, l) /\ v = z + d * Jet(jb, m)
    BY <1>2, <1>3
  <2> HIDE DEF u, v, d
  <2>2. /\ u < v <=> Jet(jb, l) < Jet(jb, m)
        /\ u < v => u <= v - d
    BY <1>2, <1>3, <2>1, JetsInOrder
  <2> QED  BY <2>2 DEF u, v
<1>5. l[1] < m[1] <=> Jet(jb, l) < Jet(jb, m)
  BY <1>2, <1>4
<1>6. l[1] = m[1] => l = m
  BY <1>2, <1>3
<1>7. ASSUME l[1] < m[1]
      PROVE  k \in LinesOf(jb, p, c) /\ k[1] < m[1] /\ Jet(jb, k) + 1 = Jet(jb, m)
  <2>1. l[1] <= m[1] - d /\ m[1] - d < m[1] /\ m[1] - d \in Int
    BY <1>2, <1>4, <1>7 DEF Positive
  <2>2. m[1] - d \in Rows(jb)
    BY <1>2, <2>1, JobFacts DEF Rows, IsJob
  <2>3. k \in Fed(jb)
    BY <1>2, <2>2 DEF Fed
  <2>4. Line(jb, k).pass = p
    <3>1. PrintsWell(jb)
      BY DEF Good
    <3> QED  BY <1>1, <1>7, <3>1 DEF PrintsWell
  <2>5. /\ Jet(jb, k) \in Nat
        /\ k[1] + o = z + d * Jet(jb, k)
    <3>1. Line(jb, k).logicalpassstart = z
      BY <1>1, <2>3, <2>4, OneStart DEF z
    <3>2. k[1] + jb.head_offset[k[2]] =
            Line(jb, k).logicalpassstart + jb.separation * Jet(jb, k)
      BY <2>3, LineOnJet
    <3>3. k[2] = c
      OBVIOUS
    <3> QED  BY <2>3, <3>1, <3>2, <3>3, LineOnJet
  <2>6. k[1] = m[1] - d
    OBVIOUS
  <2>7. k[1] + o = (m[1] + o) - d
    BY <1>2, <2>1, <2>6 DEF Positive
  <2>8. k \in LinesOf(jb, p, c)
    BY <2>3, <2>4 DEF LinesOf
  <2> HIDE DEF k
  <2>9. Jet(jb, k) + 1 = Jet(jb, m)
    <3> DEFINE u == k[1] + o
               v == m[1] + o
    <3>1. /\ u \in Int /\ v \in Int /\ u = v - d
          /\ u = z + d * Jet(jb, k) /\ v = z + d * Jet(jb, m)
      BY <1>2, <1>3, <2>1, <2>5, <2>6, <2>7
    <3> HIDE DEF u, v, d
    <3> QED  BY <1>2, <1>3, <2>5, <3>1, JetsInOrder
  <2> QED  BY <2>1, <2>6, <2>8, <2>9
<1> QED  BY <1>5, <1>6, <1>7

-----------------------------------------------------------------------------
(* finalize_row runs when all the calls for a row have been made, and      *)
(* stp_flush_all before the last of them or before the first.              *)
RowsInFull ==
  /\ pc \in {"finalize", "flush"} => subline = job.vertical_oversample
  /\ pc \in {"flushall", "done"} => subline < job.vertical_oversample

Placed == Typed /\ RowsInFull

(* Where a line lies, and where the loops stand.                           *)
LEMMA LineBounds ==
  ASSUME Placed, NEW l \in Fed(job)
  PROVE  /\ l = <<l[1], l[2], l[3]>>
         /\ l[1] \in Nat /\ l[1] \in Rows(job)
         /\ l[2] \in Nat /\ 1 <= l[2] /\ l[2] <= job.ncolors /\ l[2] \in job.cols
         /\ l[3] \in Nat /\ l[3] < job.oversample
<1>1. job \in Jobs /\ job.oversample \in Nat /\ job.ncolors \in Nat
  BY JobFacts DEF Placed, Typed, IsJob, Positive
<1>2. /\ l = <<l[1], l[2], l[3]>>
      /\ l[1] \in Nat /\ l[1] \in Rows(job)
      /\ l[2] \in 1 .. job.ncolors /\ l[2] \in job.cols
      /\ l[3] \in 0 .. job.oversample - 1
  BY <1>1, FedLine DEF Colors, Subpasses
<1>3. /\ l[2] \in Nat /\ 1 <= l[2] /\ l[2] <= job.ncolors
      /\ l[3] \in Nat /\ l[3] < job.oversample
  BY <1>1, <1>2
<1> QED  BY <1>2, <1>3

LEMMA LoopBounds ==
  ASSUME Placed
  PROVE  /\ job \in Jobs
         /\ lineno \in Nat /\ subline \in Nat /\ i \in Nat
         /\ j \in Nat /\ 1 <= j /\ j <= job.ncolors /\ job.ncolors \in Nat
         /\ job.h_passes \in Nat \ {0} /\ job.vertical_oversample \in Nat \ {0}
         /\ job.oversample \in Nat
         /\ FirstSubpass \in Nat
         /\ subline = 0 => FirstSubpass = 0
         /\ subline = job.vertical_oversample => FirstSubpass = job.oversample
<1>1. /\ job \in Jobs /\ job.h_passes \in Positive /\ job.vertical_oversample \in Positive
      /\ job.oversample = job.h_passes * job.vertical_oversample
      /\ job.oversample \in Positive /\ job.ncolors \in Positive
      /\ job.firstline \in Nat /\ job.lastline \in Nat
  BY JobFacts DEF Placed, Typed, IsJob
<1>2. /\ lineno \in Nat /\ subline \in Nat /\ i \in Nat /\ j \in 1 .. job.ncolors
  BY <1>1 DEF Placed, Typed, TypeOK, Colors, Positive
<1>3. FirstSubpass \in Nat /\ (subline = 0 => FirstSubpass = 0)
  BY <1>1, <1>2 DEF FirstSubpass, Positive
<1>4. subline = job.vertical_oversample => FirstSubpass = job.oversample
  BY <1>1, <1>2 DEF FirstSubpass, Positive
<1> QED  BY <1>1, <1>2, <1>3, <1>4 DEF Positive

(* The steps that begin a call, end a row or send passes deal with no      *)
(* line.                                                                   *)
NoProgress ==
  /\ ReachedLines' = ReachedLines
  /\ AddedLines' = AddedLines
  /\ CountedLines' = CountedLines

LEMMA NoProgressByLine ==
  ASSUME job' = job,
         \A l \in Fed(job) : /\ Reached(l)' <=> Reached(l)
                             /\ Added(l)' <=> Added(l)
                             /\ Counted(l)' <=> Counted(l)
  PROVE  NoProgress
BY Zenon DEF NoProgress, ReachedLines, AddedLines, CountedLines

LEMMA NoProgressWriteWeave ==
  ASSUME Placed, WriteWeave PROVE NoProgress
<1>1. /\ job' = job /\ lineno' = lineno /\ subline' = subline
      /\ pc = "driver" /\ i' = 0 /\ j' = 1
      /\ pc' = IF subline = 0 THEN "initialize" ELSE "add"
  BY DEF WriteWeave, engine
<1>2. FirstSubpass' = FirstSubpass
  BY <1>1 DEF FirstSubpass
<1>3. ASSUME NEW l \in Fed(job)
      PROVE  /\ Reached(l)' <=> Reached(l)
             /\ Added(l)' <=> Added(l)
             /\ Counted(l)' <=> Counted(l)
  <2>1. Reached(l)' <=> Reached(l)
    BY <1>1, LineBounds, LoopBounds DEF Reached
  <2>2. Added(l)' <=> Added(l)
    BY <1>1, <1>2, LineBounds, LoopBounds DEF Added
  <2>3. Counted(l)' <=> Counted(l)
    BY <1>1 DEF Counted
  <2> QED  BY <2>1, <2>2, <2>3
<1> QED  BY <1>1, <1>3, NoProgressByLine

LEMMA NoProgressEndRow ==
  ASSUME Placed, EndRow PROVE NoProgress
<1>1. /\ job' = job /\ lineno' = lineno + 1 /\ subline' = 0
      /\ pc = "finalize" /\ pc' = "driver" /\ i = job.oversample
  BY DEF EndRow
<1>2. /\ FirstSubpass' = 0 /\ FirstSubpass = job.oversample
      /\ subline > 0 /\ job.oversample \in Nat
  BY <1>1, LoopBounds DEF FirstSubpass, Placed, RowsInFull
<1>3. ASSUME NEW l \in Fed(job)
      PROVE  /\ Reached(l)' <=> Reached(l)
             /\ Added(l)' <=> Added(l)
             /\ Counted(l)' <=> Counted(l)
  <2>1. Reached(l)' <=> Reached(l)
    BY <1>1, <1>2, LineBounds, LoopBounds DEF Reached
  <2>2. Added(l)' <=> Added(l)
    BY <1>1, <1>2, LineBounds, LoopBounds DEF Added
  <2>3. Counted(l)' <=> Counted(l)
    BY <1>1, LineBounds, LoopBounds DEF Counted
  <2> QED  BY <2>1, <2>2, <2>3
<1> QED  BY <1>1, <1>3, NoProgressByLine

LEMMA NoProgressFlush ==
  ASSUME Placed, FlushPass \/ EndFlush \/ FlushAll \/ UNCHANGED vars
  PROVE  NoProgress
<1>1. /\ job' = job /\ lineno' = lineno /\ subline' = subline
      /\ i' = i /\ j' = j
      /\ \/ pc' = pc
         \/ pc = "flush" /\ pc' = "finalize"
         \/ pc \in {"driver", "flushall"} /\ pc' \in {"flushall", "done"}
  BY DEF FlushPass, SetVerticalPosition, EndFlush, FlushAll, engine, vars
<1>2. FirstSubpass' = FirstSubpass
  BY <1>1 DEF FirstSubpass
<1>3. ASSUME NEW l \in Fed(job)
      PROVE  /\ Reached(l)' <=> Reached(l)
             /\ Added(l)' <=> Added(l)
             /\ Counted(l)' <=> Counted(l)
  BY <1>1, <1>2, Zenon DEF Reached, Added, Counted
<1> QED  BY <1>1, <1>3, NoProgressByLine

(* initialize_row reaches one line, if its colour has data.                *)
LEMMA InitializeProgress ==
  ASSUME Placed, InitializeRow
  PROVE  /\ ReachedLines' = IF j \in job.cols
                            THEN ReachedLines \union {<<lineno, j, i>>} ELSE ReachedLines
         /\ <<lineno, j, i>> \notin ReachedLines
         /\ AddedLines' = AddedLines /\ CountedLines' = CountedLines
         /\ AddedLines = CountedLines
         /\ j \in job.cols => <<lineno, j, i>> \in Fed(job)
<1> DEFINE here == <<lineno, j, i>>
<1>1. /\ job' = job /\ lineno' = lineno /\ subline' = subline /\ subline = 0
      /\ pc = "initialize" /\ pc' \in {"initialize", "add"}
      /\ lineno <= job.lastline /\ i < job.oversample
  <2>1. /\ job' = job /\ lineno' = lineno /\ subline' = subline
        /\ pc = "initialize" /\ pc' \in {"initialize", "add"}
    BY DEF InitializeRow
  <2> QED  BY <2>1 DEF Placed, Typed, Control
<1>2. \/ pc' = "initialize" /\ i' = i /\ j' = j + 1
      \/ pc' = "initialize" /\ i' = i + 1 /\ j' = 1 /\ j = job.ncolors
      \/ pc' = "add" /\ i' = 0 /\ j' = 1 /\ i + 1 = job.oversample /\ j = job.ncolors
  <2>1. CASE j < job.ncolors
    BY <1>1, <2>1 DEF InitializeRow
  <2>2. CASE ~ (j < job.ncolors)
    <3>1. /\ j' = 1 /\ i' = (i + 1) % job.oversample
          /\ pc' = IF i + 1 < job.oversample THEN "initialize" ELSE "add"
      BY <2>2 DEF InitializeRow
    <3>2. j = job.ncolors
      BY <2>2, LoopBounds
    <3>3. i + 1 < job.oversample => (i + 1) % job.oversample = i + 1
      BY LoopBounds
    <3>4. ~ (i + 1 < job.oversample) => i + 1 = job.oversample
      BY <1>1, LoopBounds
    <3>5. i + 1 = job.oversample => (i + 1) % job.oversample = 0
      BY LoopBounds
    <3> QED  BY <3>1, <3>2, <3>3, <3>4, <3>5
  <2> QED  BY <2>1, <2>2
<1>3. FirstSubpass' = 0 /\ FirstSubpass = 0
  BY <1>1, LoopBounds DEF FirstSubpass
<1>4. ASSUME NEW l \in Fed(job)
      PROVE  /\ Reached(l)' <=> (Reached(l) \/ l = here)
             /\ Added(l)' <=> Added(l)
             /\ Counted(l)' <=> Counted(l)
             /\ Added(l) <=> Counted(l)
  <2>1. l = here <=> l[1] = lineno /\ l[2] = j /\ l[3] = i
    BY LineBounds
  <2> HIDE DEF here
  <2>2. Reached(l)' <=> (Reached(l) \/ l = here)
    BY <1>1, <1>2, <2>1, LineBounds, LoopBounds DEF Reached
  <2>3. Added(l)' <=> l[1] < lineno
    BY <1>1, <1>2, <1>3, LineBounds, LoopBounds DEF Added
  <2>4. Added(l) <=> l[1] < lineno
    BY <1>1, <1>3, LineBounds, LoopBounds DEF Added
  <2>5. /\ Counted(l)' <=> l[1] < lineno
        /\ Counted(l) <=> l[1] < lineno
    BY <1>1 DEF Counted
  <2> QED  BY <2>2, <2>3, <2>4, <2>5
<1>5. j \in job.cols => here \in Fed(job)
  <2>1. lineno \in Rows(job) /\ i \in Subpasses(job)
    BY <1>1, LoopBounds DEF Placed, Typed, TypeOK, Rows, Subpasses
  <2> QED  BY <2>1 DEF Fed
<1>6. here \in Fed(job) => j \in job.cols
  BY DEF Fed
<1>7. ~ Reached(here)
  BY <1>1, LoopBounds DEF Reached
<1> HIDE DEF here
<1>8. ReachedLines' = IF j \in job.cols THEN ReachedLines \union {here} ELSE ReachedLines
  BY <1>1, <1>4, <1>5, <1>6 DEF ReachedLines
<1>9. here \notin ReachedLines
  BY <1>7 DEF ReachedLines
<1>10. /\ AddedLines' = AddedLines /\ CountedLines' = CountedLines
       /\ AddedLines = CountedLines
  BY <1>1, <1>4, Zenon DEF AddedLines, CountedLines
<1> QED  BY <1>5, <1>8, <1>9, <1>10 DEF here

(* add_to_row adds one line, if its colour has data; it had been reached.  *)
LEMMA AddProgress ==
  ASSUME Placed, AddToRow
  PROVE  LET here == <<lineno, j, FirstSubpass + i>>
         IN  /\ AddedLines' = IF j \in job.cols
                              THEN AddedLines \union {here} ELSE AddedLines
             /\ here \notin AddedLines
             /\ ReachedLines' = ReachedLines /\ CountedLines' = CountedLines
             /\ j \in job.cols => here \in Fed(job) /\ here \in ReachedLines
             /\ here \notin CountedLines
<1> DEFINE s    == FirstSubpass + i
           here == <<lineno, j, s>>
           h    == job.h_passes
<1>1. /\ job' = job /\ lineno' = lineno
      /\ pc = "add" /\ i < h /\ subline < job.vertical_oversample
      /\ lineno <= job.lastline
  <2>1. job' = job /\ lineno' = lineno /\ pc = "add"
    BY DEF AddToRow, AddLine
  <2> QED  BY <2>1 DEF Placed, Typed, Control
<1>2. \/ pc' = "add" /\ i' = i + 1 /\ j' = j /\ subline' = subline /\ i + 1 < h
      \/ /\ pc' = "add" /\ i' = 0 /\ j' = j + 1 /\ subline' = subline
         /\ i + 1 = h /\ j < job.ncolors
      \/ /\ pc' \in {"driver", "finalize"} /\ i' = 0 /\ subline' = subline + 1
         /\ i + 1 = h /\ j = job.ncolors
  <2>1. i + 1 < h \/ i + 1 = h
    BY <1>1, LoopBounds
  <2>2. j < job.ncolors \/ j = job.ncolors
    BY LoopBounds
  <2> HIDE DEF h
  <2>3. CASE i + 1 < h
    BY <1>1, <2>3 DEF AddToRow, AddLine, h
  <2>4. CASE ~ (i + 1 < h) /\ j < job.ncolors
    BY <1>1, <2>1, <2>4 DEF AddToRow, AddLine, h
  <2>5. CASE ~ (i + 1 < h) /\ ~ (j < job.ncolors)
    BY <1>1, <2>1, <2>2, <2>5 DEF AddToRow, AddLine, h
  <2> QED  BY <2>3, <2>4, <2>5
<1>3. /\ subline' = subline => FirstSubpass' = FirstSubpass
      /\ subline' = subline + 1 => FirstSubpass' = FirstSubpass + h
  BY <1>1, LoopBounds DEF FirstSubpass
<1>4. s \in Nat /\ s < job.oversample
  <2>1. /\ job.h_passes \in Positive /\ job.vertical_oversample \in Positive
        /\ job.oversample = job.h_passes * job.vertical_oversample
    BY JobFacts DEF Placed, Typed, IsJob
  <2>2. /\ subline * h + i \in 0 .. h * job.vertical_oversample - 1
    BY <1>1, <2>1, LoopBounds, SubpassInRange
  <2> QED  BY <2>1, <2>2, LoopBounds DEF FirstSubpass
<1> HIDE DEF h
<1>5. h \in Nat
  BY LoopBounds DEF h
<1>6. ASSUME NEW l \in Fed(job)
      PROVE  /\ Reached(l)' <=> Reached(l)
             /\ Added(l)' <=> (Added(l) \/ l = here)
             /\ Counted(l)' <=> Counted(l)
  <2>1. l = here <=> l[1] = lineno /\ l[2] = j /\ l[3] = s
    BY LineBounds
  <2> HIDE DEF here
  <2>2. Reached(l) <=> l[1] < lineno \/ l[1] = lineno
    BY <1>1, LineBounds, LoopBounds DEF Reached
  <2>3. Reached(l)' <=> l[1] < lineno \/ l[1] = lineno
    BY <1>1, <1>2, LineBounds, LoopBounds DEF Reached
  <2>4. Counted(l)' <=> l[1] < lineno
    BY <1>1, <1>2, LineBounds, LoopBounds DEF Counted
  <2>5. Counted(l) <=> l[1] < lineno
    BY <1>1 DEF Counted
  <2>6. ASSUME l[1] # lineno PROVE Added(l)' <=> (Added(l) \/ l = here)
    BY <1>1, <2>1, <2>6 DEF Added
  <2>7. ASSUME l[1] = lineno PROVE Added(l)' <=> (Added(l) \/ l = here)
    <3>1. Added(l) <=>
            \/ l[3] < FirstSubpass
            \/ l[3] < FirstSubpass + h /\ (l[2] < j \/ (l[2] = j /\ l[3] < FirstSubpass + i))
      BY <1>1, <2>7, LoopBounds DEF Added, h
    <3>2. Added(l)' <=>
            \/ l[3] < FirstSubpass'
            \/ /\ pc' = "add" /\ l[3] < FirstSubpass' + h
               /\ (l[2] < j' \/ (l[2] = j' /\ l[3] < FirstSubpass' + i'))
      BY <1>1, <2>7, LoopBounds DEF Added, h
    <3>3. /\ l[2] \in Nat /\ l[3] \in Nat /\ l[2] <= job.ncolors
          /\ i \in Nat /\ j \in Nat /\ FirstSubpass \in Nat /\ s \in Nat
          /\ job.ncolors \in Nat /\ s = FirstSubpass + i
      BY LineBounds, LoopBounds
    <3> HIDE DEF s
    <3>4. l = here <=> l[2] = j /\ l[3] = FirstSubpass + i
      BY <2>1, <2>7, <3>3
    <3>5. CASE pc' = "add" /\ i' = i + 1 /\ j' = j /\ subline' = subline /\ i + 1 < h
      <4>1. Added(l)' <=>
              \/ l[3] < FirstSubpass
              \/ /\ l[3] < FirstSubpass + h
                 /\ (l[2] < j \/ (l[2] = j /\ l[3] < FirstSubpass + (i + 1)))
        BY <1>3, <3>2, <3>5
      <4> QED  BY <1>5, <3>1, <3>3, <3>4, <3>5, <4>1
    <3>6. CASE /\ pc' = "add" /\ i' = 0 /\ j' = j + 1 /\ subline' = subline
               /\ i + 1 = h /\ j < job.ncolors
      <4>1. Added(l)' <=>
              \/ l[3] < FirstSubpass
              \/ /\ l[3] < FirstSubpass + h
                 /\ (l[2] < j + 1 \/ (l[2] = j + 1 /\ l[3] < FirstSubpass + 0))
        BY <1>3, <3>2, <3>6
      <4> QED  BY <1>5, <3>1, <3>3, <3>4, <3>6, <4>1
    <3>7. CASE /\ pc' \in {"driver", "finalize"} /\ i' = 0 /\ subline' = subline + 1
               /\ i + 1 = h /\ j = job.ncolors
      <4>1. Added(l)' <=> l[3] < FirstSubpass + h
        BY <1>3, <3>2, <3>7
      <4> QED  BY <1>5, <3>1, <3>3, <3>4, <3>7, <4>1
    <3> QED  BY <1>2, <3>5, <3>6, <3>7
  <2> QED  BY <2>2, <2>3, <2>4, <2>5, <2>6, <2>7
<1>7. ~ Added(here) /\ ~ Counted(here) /\ Reached(here)
  BY <1>1, <1>4, LoopBounds DEF Added, Counted, Reached
<1>8. j \in job.cols => here \in Fed(job)
  <2>1. lineno \in Rows(job) /\ s \in Subpasses(job)
    BY <1>1, <1>4, LoopBounds DEF Placed, Typed, TypeOK, Rows, Subpasses
  <2> QED  BY <2>1 DEF Fed
<1>9. here \in Fed(job) => j \in job.cols
  BY DEF Fed
<1> HIDE DEF here
<1>10. AddedLines' = IF j \in job.cols THEN AddedLines \union {here} ELSE AddedLines
  BY <1>1, <1>6, <1>8, <1>9 DEF AddedLines
<1>11. ReachedLines' = ReachedLines /\ CountedLines' = CountedLines
  BY <1>1, <1>6, Zenon DEF ReachedLines, CountedLines
<1>12. /\ here \notin AddedLines /\ here \notin CountedLines
       /\ j \in job.cols => here \in ReachedLines
  BY <1>7, <1>8 DEF AddedLines, CountedLines, ReachedLines
<1> QED  BY <1>8, <1>10, <1>11, <1>12, Zenon DEF here, s

(* What finalize_row does with pc.                                         *)
LEMMA FinalizeMoves ==
  ASSUME FinalizeRow
  PROVE  /\ pc = "finalize" /\ pc' \in {"finalize", "flush"}
         /\ UNCHANGED <<job, lineno, subline>> /\ i' = i + 1
<1>1. pc = "finalize" /\ UNCHANGED <<job, lineno, subline>> /\ i' = i + 1
  BY Zenon DEF FinalizeRow, printer
<1>2. pc' = IF job.weave[lineno, i].physpassend = lineno THEN "flush" ELSE pc
  BY Zenon DEF FinalizeRow
<1>3. pc' = "finalize" \/ pc' = "flush"
  BY <1>1, <1>2, Zenon
<1> QED  BY <1>1, <1>3

(* finalize_row counts one subpass of the row, in every colour.            *)
LEMMA FinalizeProgress ==
  ASSUME Placed, FinalizeRow
  PROVE  /\ CountedLines' = CountedLines \union
                             {l \in Fed(job) : l[1] = lineno /\ l[3] = i}
         /\ \A l \in CountedLines : ~ (l[1] = lineno /\ l[3] = i)
         /\ AddedLines' = AddedLines /\ ReachedLines' = ReachedLines
         /\ \A l \in Fed(job) : l[1] = lineno => l \in AddedLines
<1>1. /\ job' = job /\ lineno' = lineno /\ subline' = subline /\ i' = i + 1
      /\ pc = "finalize" /\ pc' \in {"finalize", "flush"}
  BY FinalizeMoves
<1>2. /\ FirstSubpass' = FirstSubpass /\ FirstSubpass = job.oversample
      /\ subline > 0
  BY <1>1, LoopBounds DEF FirstSubpass, Placed, RowsInFull
<1>3. ASSUME NEW l \in Fed(job)
      PROVE  /\ Reached(l)' <=> Reached(l)
             /\ Added(l)' <=> Added(l)
             /\ Counted(l)' <=> (Counted(l) \/ (l[1] = lineno /\ l[3] = i))
             /\ l[1] = lineno => Added(l)
             /\ Counted(l) => ~ (l[1] = lineno /\ l[3] = i)
  <2>1. Reached(l)' <=> Reached(l)
    BY <1>1, <1>2 DEF Reached
  <2>2. l[1] = lineno => Added(l)
    BY <1>2, LineBounds DEF Added
  <2>3. Added(l)' <=> Added(l)
    BY <1>1, <1>2 DEF Added
  <2>4. Counted(l)' <=> (Counted(l) \/ (l[1] = lineno /\ l[3] = i))
    BY <1>1, LineBounds, LoopBounds DEF Counted
  <2>5. Counted(l) => ~ (l[1] = lineno /\ l[3] = i)
    BY <1>1, LineBounds, LoopBounds DEF Counted
  <2> QED  BY <2>1, <2>2, <2>3, <2>4, <2>5
<1> QED  BY <1>1, <1>3 DEF ReachedLines, AddedLines, CountedLines

(* Lines above the row are counted; none is added before it is reached, or *)
(* reached before its row has come.                                        *)
LEMMA LinesBehind ==
  ASSUME Placed, NEW l \in Fed(job)
  PROVE  /\ l \in ReachedLines => l[1] <= lineno
         /\ l \in AddedLines => l \in ReachedLines
         /\ l[1] < lineno => /\ l \in CountedLines /\ l \in AddedLines
                            /\ l \in ReachedLines
<1>1. Reached(l) => l[1] <= lineno
  BY LineBounds, LoopBounds DEF Reached
<1>2. Added(l) => Reached(l)
  <2>1. l[3] < FirstSubpass => subline > 0
    BY LineBounds, LoopBounds
  <2> QED  BY <2>1 DEF Added, Reached
<1>3. l[1] < lineno => Counted(l) /\ Added(l) /\ Reached(l)
  BY DEF Counted, Added, Reached
<1> QED  BY <1>1, <1>2, <1>3, Zenon DEF ReachedLines, AddedLines, CountedLines

-----------------------------------------------------------------------------
(* A buffer of phantoms only is right for a pass and colour whose first    *)
(* line is to come next...                                                 *)
LEMMA FirstLine ==
  ASSUME NEW jb, NEW lines, NEW reached, NEW added, NEW here \in lines,
         lines \cap reached = {}, lines \cap added = {},
         NEW buf, Len(buf) = Jet(jb, here),
         \A k \in 1 .. Len(buf) : buf[k] = Phantom
  PROVE  Filled(jb, lines, reached \union {here}, added, buf)
BY DEF Filled

(* ... an empty one where no line has been reached ...                     *)
LEMMA NoLine ==
  ASSUME NEW jb, NEW lines, NEW reached, NEW added,
         lines \cap reached = {}, lines \cap added = {},
         NEW buf, Len(buf) = 0
  PROVE  Filled(jb, lines, reached, added, buf)
BY DEF Filled

(* ... and a buffer that ends where the next line belongs needs no phantom.*)
LEMMA NextLine ==
  ASSUME Good, NEW jb \in Jobs, NEW p, NEW c, NEW reached, NEW added,
         NEW here \in LinesOf(jb, p, c),
         \A l \in LinesOf(jb, p, c) : l[1] < here[1] => l \in added,
         \A l \in LinesOf(jb, p, c) \cap reached : l \in added /\ l[1] < here[1],
         NEW buf, Len(buf) \in Nat, Len(buf) > 0,
         Filled(jb, LinesOf(jb, p, c), reached, added, buf)
  PROVE  Filled(jb, LinesOf(jb, p, c), reached \union {here}, added, buf)
<1> DEFINE lines == LinesOf(jb, p, c)
<1>1. PICK l \in lines \cap reached :
        Len(buf) = IF l \in added THEN Jet(jb, l) + 1 ELSE Jet(jb, l)
  BY DEF Filled
<1>2. l \in added /\ l[1] < here[1] /\ Len(buf) = Jet(jb, l) + 1
  BY <1>1
<1>3. PICK k \in lines : k[1] < here[1] /\ Jet(jb, k) + 1 = Jet(jb, here)
  BY <1>1, <1>2, JetsOfAPass
<1>4. Jet(jb, k) + 1 <= Len(buf)
  BY <1>3 DEF Filled
<1>5. Jet(jb, l) < Jet(jb, here)
  BY <1>1, <1>2, JetsOfAPass
<1>6. Jet(jb, l) \in Nat /\ Jet(jb, here) \in Nat
  BY <1>1, LineOnJet DEF LinesOf
<1>7. Len(buf) = Jet(jb, here)
  BY <1>2, <1>3, <1>4, <1>5, <1>6
<1> HIDE DEF lines
<1> QED  BY <1>7, Zenon DEF Filled, lines

(* Adding the line that was reached.                                       *)
LEMMA LineAdded ==
  ASSUME NEW jb, NEW lines, NEW reached, NEW added,
         NEW here \in lines \cap reached, here \notin added,
         \A l \in (lines \cap reached) \ added : l = here,
         \A l \in lines \cap added : l \in reached,
         Jet(jb, here) \in Nat,
         \A l \in lines : Jet(jb, l) \in Nat,
         NEW T, NEW buf \in Seq(T), Filed(here) \in T,
         Filled(jb, lines, reached, added, buf)
  PROVE  Filled(jb, lines, reached, added \union {here}, Append(buf, Filed(here)))
<1> DEFINE new == Append(buf, Filed(here))
           n   == Len(buf)
<1>1. /\ n \in Nat /\ Len(new) = n + 1 /\ new[n + 1] = Filed(here)
      /\ \A k \in 1 .. n : new[k] = buf[k]
  OBVIOUS
<1>2. n = Jet(jb, here)
  BY DEF Filled
<1> HIDE DEF new
<1>3. ASSUME NEW k \in 1 .. Len(new), new[k] # Phantom
      PROVE  \E l \in lines \cap (added \union {here}) :
               new[k] = Filed(l) /\ k = Jet(jb, l) + 1
  <2>1. CASE k = n + 1
    BY <1>1, <1>2, <2>1
  <2>2. CASE k # n + 1
    <3>1. k \in 1 .. n /\ new[k] = buf[k]
      BY <1>1, <2>2
    <3>2. PICK l \in lines \cap added : buf[k] = Filed(l) /\ k = Jet(jb, l) + 1
      BY <1>3, <3>1 DEF Filled
    <3> QED  BY <3>1, <3>2
  <2> QED  BY <2>1, <2>2
<1>4. ASSUME NEW l \in lines \cap (added \union {here})
      PROVE  Jet(jb, l) + 1 <= Len(new) /\ new[Jet(jb, l) + 1] = Filed(l)
  <2>1. CASE l = here
    BY <1>1, <1>2, <2>1
  <2>2. CASE l # here
    <3>1. Jet(jb, l) + 1 <= n /\ buf[Jet(jb, l) + 1] = Filed(l)
      BY <2>2 DEF Filled
    <3>2. Jet(jb, l) + 1 \in 1 .. n
      BY <1>1, <3>1
    <3> QED  BY <1>1, <3>1, <3>2
  <2> QED  BY <2>1, <2>2
<1>5. (lines \cap reached) \ (added \union {here}) = {}
  OBVIOUS
<1>6. Len(new) = Jet(jb, here) + 1
  BY <1>1, <1>2
<1> QED  BY <1>3, <1>4, <1>5, <1>6 DEF Filled, new

(* A line of another pass or colour does not matter.                       *)
LEMMA OtherReached ==
  ASSUME NEW jb, NEW lines, NEW reached, NEW added, NEW here, here \notin lines,
         NEW buf, Filled(jb, lines, reached, added, buf)
  PROVE  Filled(jb, lines, reached \union {here}, added, buf)
<1>1. lines \cap (reached \union {here}) = lines \cap reached
  OBVIOUS
<1> QED  BY <1>1, Zenon DEF Filled

LEMMA OtherAdded ==
  ASSUME NEW jb, NEW lines, NEW reached, NEW added, NEW here, here \notin lines,
         NEW buf, Filled(jb, lines, reached, added, buf)
  PROVE  Filled(jb, lines, reached, added \union {here}, buf)
<1>1. /\ lines \cap (added \union {here}) = lines \cap added
      /\ (lines \cap reached) \ (added \union {here}) = (lines \cap reached) \ added
      /\ \A l \in lines : l \in added <=> l \in added \union {here}
  OBVIOUS
<1> QED  BY <1>1 DEF Filled

(* All that a bank keeps of one colour of its pass.                        *)
Kept(jb, p, c, reached, added, counted, buf, count, active) ==
  /\ Filled(jb, LinesOf(jb, p, c), reached, added, buf)
  /\ Tallied(LinesOf(jb, p, c), added, counted, buf, count)
  /\ Dotted(jb, buf, active)

BuffersKept ==
  \A b \in Slots(job), c \in job.cols :
    passes[b].pass >= 0 =>
      Kept(job, passes[b].pass, c, ReachedLines, AddedLines, CountedLines,
           linebuf[b][c], linecount[b][c], lineactive[b][c])

(* A free bank and a colour without data have nothing in their buffers.    *)
IdleBuffersEmpty ==
  \A b \in Slots(job), c \in Colors(job) :
    passes[b].pass < 0 \/ c \notin job.cols => linebuf[b][c] = << >>

OnlyDataActive ==
  \A b \in Slots(job), c \in Colors(job) : lineactive[b][c] => c \in job.cols

(* The start and the subpass stored for a pass are those of all its lines. *)
StartsKept ==
  \A b \in Slots(job), l \in Fed(job) :
    passes[b].pass >= 0 /\ Line(job, l).pass = passes[b].pass =>
      /\ passes[b].logicalpassstart = Line(job, l).logicalpassstart
      /\ passes[b].subpass = l[3]

(* The banks and their buffers, and what they rest on.                     *)
BInv ==
  /\ IInv
  /\ RowsInFull
  /\ BuffersKept
  /\ IdleBuffersEmpty
  /\ OnlyDataActive
  /\ StartsKept

LEMMA GoodIsWoven == Good => Woven
BY DEF Good, Woven

(* A line that is reached on the current row has its bank.                 *)
LEMMA BankOfLine ==
  ASSUME IInv, pc \notin {"flushall", "done"},
         NEW l \in ReachedLines, lineno <= l[1]
  PROVE  /\ Line(job, l).pass % job.vmod \in Slots(job)
         /\ passes[Line(job, l).pass % job.vmod].pass = Line(job, l).pass
         /\ Line(job, l).pass \in Nat
<1>1. l \in Fed(job) /\ Reached(l) /\ job \in Jobs
  BY DEF ReachedLines, IInv, Typed
<1>2. Line(job, l).pass > last_pass
  BY <1>1, LinesAheadAreUnsent DEF IInv
<1>3. Line(job, l).pass \in Nat
  BY <1>1, FedLine DEF Params
<1> QED  BY <1>1, <1>2, <1>3, BankIsASlot DEF IInv, ReachedPassesWait

(* A bank holds no pass but its own.                                       *)
LEMMA OtherBank ==
  ASSUME IInv, NEW b \in Slots(job), passes[b].pass >= 0,
         NEW l, Line(job, l).pass % job.vmod # b, NEW c
  PROVE  l \notin LinesOf(job, passes[b].pass, c)
BY DEF IInv, BanksHoldTheirPasses, LinesOf

(* Of a pass and colour only one line is on the current row; it is the     *)
(* only one that can be reached and not added, or added and not counted.   *)
LEMMA OneLineOnRow ==
  ASSUME Good, Placed, NEW p, NEW c, NEW here \in LinesOf(job, p, c), here[1] = lineno
  PROVE  /\ \A l \in LinesOf(job, p, c) \cap ReachedLines :
              l = here \/ (l \in AddedLines /\ l \in CountedLines /\ l[1] < lineno)
         /\ \A l \in LinesOf(job, p, c) \cap AddedLines :
              l = here \/ l \in CountedLines
         /\ \A l \in LinesOf(job, p, c) : l[1] < lineno => l \in AddedLines
<1>1. job \in Jobs /\ lineno \in Nat
  BY LoopBounds
<1>2. \A l \in LinesOf(job, p, c) : l \in Fed(job)
  BY DEF LinesOf
<1>3. ASSUME NEW l \in LinesOf(job, p, c), l \in ReachedLines, l # here
      PROVE  l[1] < lineno
  <2>1. l[1] # here[1]
    BY <1>1, <1>3, JetsOfAPass
  <2>2. l[1] <= lineno /\ l[1] \in Nat
    BY <1>2, <1>3, LinesBehind, LineBounds
  <2> QED  BY <1>1, <2>1, <2>2
<1> QED  BY <1>2, <1>3, LinesBehind

-----------------------------------------------------------------------------
(* Steps that deal with no line and leave banks and buffers alone.         *)
LEMMA BuffersUntouched ==
  ASSUME BInv, NoProgress,
         UNCHANGED <<job, passes, linebuf, linecount, lineactive>>
  PROVE  BuffersKept' /\ IdleBuffersEmpty' /\ OnlyDataActive' /\ StartsKept'
<1>1. BuffersKept'
  BY Zenon DEF BInv, BuffersKept, NoProgress
<1>2. IdleBuffersEmpty' /\ OnlyDataActive' /\ StartsKept'
  BY DEF BInv, IdleBuffersEmpty, OnlyDataActive, StartsKept
<1> QED  BY <1>1, <1>2

(* What the assignments of initialize_row make of the arrays of a bank.    *)
LEMMA StartedBank ==
  ASSUME NEW S, NEW C, NEW f, NEW b \in S, DOMAIN f = S, NEW col,
         NEW fill \in BOOLEAN, NEW begin \in BOOLEAN, NEW empty, NEW filled,
         NEW g, g = [f EXCEPT ![b] = [c \in C |->
                      IF c = col /\ fill THEN filled ELSE IF begin THEN empty ELSE @[c]]]
  PROVE  \A k \in S, c \in C :
           g[k][c] = IF k # b THEN f[k][c]
                     ELSE IF c = col /\ fill THEN filled
                     ELSE IF begin THEN empty ELSE f[b][c]
OBVIOUS

(* initialize_row leaves the buffer of the line's pass and colour ending   *)
(* where the line belongs, and the other buffers of a bank it takes empty. *)
LEMMA InitializeBuffers ==
  ASSUME Good, BInv, InitializeRow
  PROVE  BuffersKept' /\ IdleBuffersEmpty' /\ OnlyDataActive' /\ StartsKept'
<1> DEFINE here  == <<lineno, j, i>>
           b     == Bank(j, i)
           w     == Param(j, i)
           begin == passes[b].pass < 0
           fill  == (begin \/ linecount[b][j] = 0) /\ IdleJets(w) > 0
           row   == [k \in 1 .. IdleJets(w) |-> Phantom]
<1>1. Placed /\ Woven /\ IInv /\ job \in Jobs /\ job' = job /\ pc = "initialize"
  BY GoodIsWoven DEF BInv, Placed, IInv, Typed, InitializeRow
<1>2. /\ passes \in [Slots(job) -> PassType]
      /\ linecount \in [Slots(job) -> [Colors(job) -> Nat]]
      /\ linebuf \in [Slots(job) -> [Colors(job) -> Seq(Int \X Nat)]]
      /\ lineactive \in [Slots(job) -> [Colors(job) -> BOOLEAN]]
      /\ job.cols \subseteq Colors(job)
  BY <1>1, JobFacts DEF IInv, Typed, TypeOK, IsJob
<1>3. /\ ReachedLines' = IF j \in job.cols
                         THEN ReachedLines \union {here} ELSE ReachedLines
      /\ here \notin ReachedLines
      /\ AddedLines' = AddedLines /\ CountedLines' = CountedLines
      /\ AddedLines = CountedLines
      /\ j \in job.cols => here \in Fed(job)
  BY <1>1, InitializeProgress
<1>4. CASE j \notin job.cols
  <2>1. UNCHANGED <<job, passes, linebuf, linecount, lineactive>>
    BY <1>4 DEF InitializeRow
  <2>2. NoProgress
    BY <1>3, <1>4 DEF NoProgress
  <2> QED  BY <2>1, <2>2, BuffersUntouched
<1>5. CASE j \in job.cols
  <2>1. /\ here \in Fed(job) /\ Line(job, here) = w /\ here[1] = lineno
        /\ here[2] = j /\ here[3] = i
    BY <1>3, <1>5 DEF Line, Param
  <2>2. /\ w \in Params /\ w.pass \in Nat /\ b = w.pass % job.vmod /\ b \in Slots(job)
        /\ IdleJets(w) = Jet(job, here) /\ IdleJets(w) \in Nat
    BY <1>1, <2>1, FedLine, BankIsASlot DEF Params, Bank, IdleJets, Jet
  <2>3. passes[b].pass >= 0 => passes[b].pass = w.pass
    BY <1>1, <2>1, <2>2, BankIsFreeOrRight
  <2>4. begin => \A l \in Fed(job) : Line(job, l).pass = w.pass => l \notin ReachedLines
    <3> SUFFICES ASSUME begin, NEW l \in Fed(job), Line(job, l).pass = w.pass, Reached(l)
                 PROVE  FALSE
      BY DEF ReachedLines
    <3>1. w.pass > last_pass
      <4>1. lineno \in Nat
        BY <1>1, LoopBounds
      <4>2. lineno <= here[1]
        BY <2>1, <4>1
      <4> QED  BY <1>1, <2>1, <4>2, LinesAheadAreUnsent DEF IInv
    <3>2. passes[b].pass = w.pass
      BY <1>1, <2>2, <3>1 DEF IInv, ReachedPassesWait
    <3> QED  BY <2>2, <3>2
  <2> DEFINE pass == [pass |-> w.pass, subpass |-> i,
                      logicalpassstart |-> w.logicalpassstart,
                      physpassend |-> w.physpassend]
  <2>5. passes' = IF begin THEN [passes EXCEPT ![b] = pass] ELSE passes
    BY <1>5 DEF InitializeRow
  <2>6. \A k \in Slots(job), c \in Colors(job) :
          lineactive'[k][c] =
            IF k # b THEN lineactive[k][c]
            ELSE IF c = j /\ fill THEN lineactive[b][j] /\ ~begin
            ELSE IF begin THEN FALSE ELSE lineactive[b][c]
    <3>1. lineactive' = [lineactive EXCEPT ![b] = [c \in Colors(job) |->
                          IF c = j /\ fill THEN lineactive[b][j] /\ ~begin
                          ELSE IF begin THEN FALSE ELSE @[c]]]
      BY <1>5, Zenon DEF InitializeRow
    <3> HIDE DEF b, w, fill
    <3> QED  BY <1>2, <2>2, <3>1, StartedBank
  <2>7. \A k \in Slots(job), c \in Colors(job) :
          linecount'[k][c] =
            IF k # b THEN linecount[k][c]
            ELSE IF c = j /\ fill THEN IdleJets(w)
            ELSE IF begin THEN 0 ELSE linecount[b][c]
    <3>1. linecount' = [linecount EXCEPT ![b] = [c \in Colors(job) |->
                          IF c = j /\ fill THEN IdleJets(w)
                          ELSE IF begin THEN 0 ELSE @[c]]]
      BY <1>5, Zenon DEF InitializeRow
    <3> HIDE DEF b, w, fill
    <3> QED  BY <1>2, <2>2, <3>1, StartedBank
  <2>8. \A k \in Slots(job), c \in Colors(job) :
          linebuf'[k][c] =
            IF k # b THEN linebuf[k][c]
            ELSE IF c = j /\ fill THEN row
            ELSE IF begin THEN << >> ELSE linebuf[b][c]
    <3>1. linebuf' = [linebuf EXCEPT ![b] = [c \in Colors(job) |->
                        IF c = j /\ fill THEN row
                        ELSE IF begin THEN << >> ELSE @[c]]]
      BY <1>5, Zenon DEF InitializeRow
    <3> HIDE DEF b, w, fill, row
    <3> QED  BY <1>2, <2>2, <3>1, StartedBank
  <2>9. /\ passes[b].pass \in Int
        /\ passes'[b].pass = w.pass
        /\ \A k \in Slots(job) : k # b => passes'[k] = passes[k]
        /\ begin => passes'[b] = pass
        /\ ~ begin => passes'[b] = passes[b] /\ passes[b].pass = w.pass
    <3>1. pass.pass = w.pass /\ passes[b].pass \in Int
      BY <1>2, <2>2 DEF PassType
    <3> HIDE DEF pass, b, w
    <3> QED  BY <1>2, <2>2, <2>3, <2>5, <3>1
  <2>10. /\ Len(row) = IdleJets(w)
         /\ \A k \in 1 .. Len(row) : row[k] = Phantom
    BY <2>2
  <2>11. IdleBuffersEmpty'
    <3> SUFFICES ASSUME NEW k \in Slots(job), NEW c \in Colors(job),
                        passes'[k].pass < 0 \/ c \notin job.cols
                 PROVE  linebuf'[k][c] = << >>
      BY <1>1 DEF IdleBuffersEmpty
    <3>1. CASE k # b
      BY <2>8, <2>9, <3>1 DEF BInv, IdleBuffersEmpty
    <3>2. CASE k = b
      <4>1. c \notin job.cols /\ c # j
        BY <1>5, <2>2, <2>9, <3>2
      <4>2. linebuf'[b][c] = IF begin THEN << >> ELSE linebuf[b][c]
        BY <2>2, <2>8, <4>1
      <4> QED  BY <2>2, <3>2, <4>1, <4>2 DEF BInv, IdleBuffersEmpty
    <3> QED  BY <3>1, <3>2
  <2>12. OnlyDataActive'
    <3> SUFFICES ASSUME NEW k \in Slots(job), NEW c \in Colors(job), c \notin job.cols
                 PROVE  ~ lineactive'[k][c]
      BY <1>1 DEF OnlyDataActive
    <3>1. ~ lineactive[k][c] /\ c # j
      BY <1>5 DEF BInv, OnlyDataActive
    <3> QED  BY <2>6, <3>1
  <2>13. StartsKept'
    <3> SUFFICES ASSUME NEW k \in Slots(job), NEW l \in Fed(job),
                        passes'[k].pass >= 0, Line(job, l).pass = passes'[k].pass
                 PROVE  /\ passes'[k].logicalpassstart = Line(job, l).logicalpassstart
                        /\ passes'[k].subpass = l[3]
      BY <1>1 DEF StartsKept
    <3>1. CASE k # b \/ ~ begin
      <4>1. passes'[k] = passes[k]
        BY <2>9, <3>1
      <4> QED  BY <4>1 DEF BInv, StartsKept
    <3>2. CASE k = b /\ begin
      <4>1. passes'[k].logicalpassstart = w.logicalpassstart /\ passes'[k].subpass = i
        BY <2>9, <3>2
      <4>2. Line(job, l).pass = Line(job, here).pass
        BY <2>1, <2>9, <3>2
      <4> QED  BY <1>1, <2>1, <4>1, <4>2, OneStart
    <3> QED  BY <3>1, <3>2
  <2>14. BuffersKept'
    <3> SUFFICES ASSUME NEW k \in Slots(job), NEW c \in job.cols, passes'[k].pass >= 0
                 PROVE  Kept(job, passes'[k].pass, c, ReachedLines \union {here},
                             AddedLines, CountedLines,
                             linebuf'[k][c], linecount'[k][c], lineactive'[k][c])
      BY <1>1, <1>3, <1>5, Zenon DEF BuffersKept
    <3> DEFINE lines == LinesOf(job, passes'[k].pass, c)
    <3>1. c \in Colors(job)
      BY <1>2
    <3>2. AddedLines \ CountedLines = {}
      BY <1>3
    <3>3. ASSUME here \notin lines, passes[k].pass = passes'[k].pass,
                 linebuf'[k][c] = linebuf[k][c], linecount'[k][c] = linecount[k][c],
                 lineactive'[k][c] = lineactive[k][c]
          PROVE  Kept(job, passes'[k].pass, c, ReachedLines \union {here},
                      AddedLines, CountedLines,
                      linebuf'[k][c], linecount'[k][c], lineactive'[k][c])
      <4>1. Kept(job, passes'[k].pass, c, ReachedLines, AddedLines, CountedLines,
                 linebuf'[k][c], linecount'[k][c], lineactive'[k][c])
        BY <3>3 DEF BInv, BuffersKept
      <4> QED  BY <3>3, <4>1, OtherReached, Zenon DEF Kept
    <3>4. CASE k # b
      <4>1. passes'[k] = passes[k]
        BY <2>9, <3>4
      <4>2. here \notin lines
        BY <1>1, <2>1, <2>2, <3>4, <4>1, OtherBank
      <4> QED  BY <2>6, <2>7, <2>8, <3>1, <3>3, <3>4, <4>1, <4>2
    <3>5. CASE k = b /\ c # j /\ ~ begin
      <4>1. here \notin lines
        BY <2>1, <3>5 DEF LinesOf
      <4> QED  BY <2>6, <2>7, <2>8, <2>9, <3>1, <3>3, <3>5, <4>1
    <3>6. ASSUME begin, k = b
          PROVE  lines \cap ReachedLines = {} /\ lines \cap AddedLines = {}
      <4>1. ASSUME NEW l \in lines PROVE l \notin ReachedLines /\ l \notin AddedLines
        <5>1. l \in Fed(job) /\ Line(job, l).pass = w.pass
          BY <2>9, <3>6 DEF LinesOf
        <5> QED  BY <1>1, <2>4, <3>6, <5>1, LinesBehind
      <4> QED  BY <4>1
    <3>7. CASE k = b /\ c # j /\ begin
      <4>1. /\ linebuf'[k][c] = << >> /\ linecount'[k][c] = 0
            /\ lineactive'[k][c] = FALSE
        BY <2>6, <2>7, <2>8, <3>1, <3>7
      <4>2. here \notin lines
        BY <2>1, <3>7 DEF LinesOf
      <4>3. Filled(job, lines, ReachedLines \union {here}, AddedLines, << >>)
        <5>1. Len(<< >>) = 0
          OBVIOUS
        <5>2. lines \cap (ReachedLines \union {here}) = {}
          BY <3>6, <3>7, <4>2
        <5> QED  BY <3>6, <3>7, <5>1, <5>2, NoLine
      <4>4. Tallied(lines, AddedLines, CountedLines, << >>, 0)
        BY <3>2 DEF Tallied
      <4>5. Dotted(job, << >>, FALSE)
        BY DEF Dotted
      <4> QED  BY <4>1, <4>3, <4>4, <4>5, Zenon DEF Kept
    <3>8. CASE k = b /\ c = j
      <4>1. here \in lines
        BY <2>1, <2>9, <3>8 DEF LinesOf
      <4> DEFINE old == linebuf[b][j]
      <4>2. old \in Seq(Int \X Nat) /\ linecount[b][j] \in Nat
            /\ lineactive[b][j] \in BOOLEAN
        BY <1>2, <2>2, <3>1, <3>8
      <4>3. ~ begin => /\ Filled(job, lines, ReachedLines, AddedLines, old)
                       /\ Len(old) = linecount[b][j]
                       /\ Dotted(job, old, lineactive[b][j])
        <5> SUFFICES ASSUME ~ begin
                     PROVE  /\ Filled(job, lines, ReachedLines, AddedLines, old)
                            /\ Len(old) = linecount[b][j]
                            /\ Dotted(job, old, lineactive[b][j])
          OBVIOUS
        <5>1. passes[b].pass >= 0 /\ passes'[k].pass = passes[b].pass
          BY <2>2, <2>9, <3>8
        <5>2. Kept(job, passes'[k].pass, j, ReachedLines, AddedLines, CountedLines,
                   linebuf[b][j], linecount[b][j], lineactive[b][j])
          BY <1>5, <2>2, <5>1 DEF BInv, BuffersKept
        <5> QED  BY <3>2, <3>8, <5>2 DEF Kept, Tallied
      <4>4. /\ \A l \in lines : l[1] < here[1] => l \in AddedLines
            /\ \A l \in lines \cap ReachedLines : l \in AddedLines /\ l[1] < here[1]
        BY <1>1, <1>3, <2>1, <4>1, OneLineOnRow
      <4>5. ASSUME begin \/ Len(old) = 0
            PROVE  lines \cap ReachedLines = {} /\ lines \cap AddedLines = {}
        <5>1. CASE begin
          BY <3>6, <3>8, <5>1
        <5>2. CASE ~ begin /\ Len(old) = 0
          <6>1. ASSUME NEW l \in lines \cap AddedLines PROVE FALSE
            <7>1. Jet(job, l) + 1 <= 0
              BY <4>3, <5>2, <6>1 DEF Filled
            <7>2. Jet(job, l) \in Nat
              BY <1>1, LineOnJet DEF LinesOf
            <7> QED  BY <7>1, <7>2
          <6> QED  BY <4>4, <6>1
        <5> QED  BY <4>5, <5>1, <5>2
      <4>6. CASE begin \/ Len(old) = 0
        <5>1. /\ linebuf'[k][c] = IF fill THEN row ELSE IF begin THEN << >> ELSE old
              /\ linecount'[k][c] =
                   IF fill THEN IdleJets(w) ELSE IF begin THEN 0 ELSE linecount[b][j]
              /\ lineactive'[k][c] =
                   IF fill THEN lineactive[b][j] /\ ~begin
                   ELSE IF begin THEN FALSE ELSE lineactive[b][j]
          BY <2>6, <2>7, <2>8, <3>1, <3>8
        <5>2. ~ begin => linecount[b][j] = 0 /\ Len(old) = 0 /\ ~ lineactive[b][j]
          <6>1. Len(old) = 0 => (Dotted(job, old, lineactive[b][j]) => ~ lineactive[b][j])
            BY DEF Dotted
          <6> QED  BY <4>3, <4>6, <6>1
        <5>3. /\ Len(linebuf'[k][c]) = Jet(job, here)
              /\ \A n \in 1 .. Len(linebuf'[k][c]) : linebuf'[k][c][n] = Phantom
              /\ linecount'[k][c] = Len(linebuf'[k][c])
              /\ ~ lineactive'[k][c]
          <6>1. CASE fill
            <7>1. linebuf'[k][c] = row /\ linecount'[k][c] = IdleJets(w)
              BY <5>1, <6>1
            <7>2. lineactive'[k][c] = FALSE
              BY <5>1, <5>2, <6>1
            <7> HIDE DEF row, w
            <7> QED  BY <2>2, <2>10, <7>1, <7>2
          <6>2. CASE ~ fill
            <7>1. IdleJets(w) = 0
              BY <2>2, <5>2, <6>2
            <7>2. Len(linebuf'[k][c]) = 0 /\ linecount'[k][c] = 0
              BY <5>1, <5>2, <6>2
            <7>3. lineactive'[k][c] = FALSE
              BY <5>1, <5>2, <6>2
            <7> QED  BY <2>2, <7>1, <7>2, <7>3
          <6> QED  BY <6>1, <6>2
        <5>4. Filled(job, lines, ReachedLines \union {here}, AddedLines, linebuf'[k][c])
          BY <4>1, <4>5, <4>6, <5>3, FirstLine
        <5>5. Tallied(lines, AddedLines, CountedLines, linebuf'[k][c], linecount'[k][c])
          BY <3>2, <5>3 DEF Tallied
        <5>6. Dotted(job, linebuf'[k][c], lineactive'[k][c])
          <6>1. Phantom[1] \notin job.ink
            BY <1>1, JobFacts DEF Phantom, IsJob, Rows
          <6> QED  BY <5>3, <6>1 DEF Dotted
        <5> QED  BY <5>4, <5>5, <5>6, Zenon DEF Kept
      <4>7. CASE ~ begin /\ Len(old) # 0
        <5>1. Len(old) > 0 /\ ~ fill
          BY <4>2, <4>3, <4>7
        <5>2. /\ linebuf'[k][c] = old /\ linecount'[k][c] = linecount[b][j]
              /\ lineactive'[k][c] = lineactive[b][j]
          BY <2>6, <2>7, <2>8, <3>1, <3>8, <4>7, <5>1
        <5>3. Filled(job, lines, ReachedLines \union {here}, AddedLines, old)
          <6>1. Len(old) \in Nat
            BY <4>2
          <6> HIDE DEF old
          <6> QED  BY <1>1, <4>1, <4>3, <4>4, <4>7, <5>1, <6>1, NextLine
        <5>4. Tallied(lines, AddedLines, CountedLines, old, linecount[b][j])
          BY <3>2, <4>3, <4>7 DEF Tallied
        <5> HIDE DEF lines
        <5> QED  BY <4>3, <4>7, <5>2, <5>3, <5>4, Zenon DEF Kept, lines
      <4> QED  BY <4>6, <4>7
    <3> QED  BY <3>4, <3>5, <3>7, <3>8
  <2> QED  BY <2>11, <2>12, <2>13, <2>14
<1> QED  BY <1>4, <1>5

(* add_to_row puts the line at its jet, at the end of its buffer.          *)
LEMMA AddBuffers ==
  ASSUME Good, BInv, AddToRow
  PROVE  BuffersKept' /\ IdleBuffersEmpty' /\ OnlyDataActive' /\ StartsKept'
<1> DEFINE s    == FirstSubpass + i
           here == <<lineno, j, s>>
           b    == Bank(j, s)
<1>1. Placed /\ IInv /\ job \in Jobs /\ job' = job /\ passes' = passes
      /\ linecount' = linecount /\ pc = "add"
  BY DEF BInv, Placed, IInv, Typed, AddToRow, AddLine
<1>2. /\ linebuf \in [Slots(job) -> [Colors(job) -> Seq(Int \X Nat)]]
      /\ lineactive \in [Slots(job) -> [Colors(job) -> BOOLEAN]]
      /\ job.cols \subseteq Colors(job)
  BY <1>1, JobFacts DEF IInv, Typed, TypeOK, IsJob
<1>3. /\ AddedLines' = IF j \in job.cols
                       THEN AddedLines \union {here} ELSE AddedLines
      /\ here \notin AddedLines
      /\ ReachedLines' = ReachedLines /\ CountedLines' = CountedLines
      /\ j \in job.cols => here \in Fed(job) /\ here \in ReachedLines
      /\ here \notin CountedLines
  BY <1>1, AddProgress
<1>4. StartsKept'
  BY <1>1 DEF BInv, StartsKept
<1>5. CASE j \notin job.cols
  <2>1. UNCHANGED <<job, passes, linebuf, linecount, lineactive>>
    BY <1>1, <1>5 DEF AddToRow
  <2>2. NoProgress
    BY <1>3, <1>5 DEF NoProgress
  <2> QED  BY <2>1, <2>2, BuffersUntouched
<1>6. CASE j \in job.cols
  <2>1. /\ here \in Fed(job) /\ here \in ReachedLines
        /\ Line(job, here) = Param(j, s) /\ here[1] = lineno /\ here[2] = j
        /\ Filed(here) = <<lineno, s>>
    BY <1>3, <1>6 DEF Line, Param, Filed
  <2>2. lineno \in Nat /\ s \in Nat /\ i \in Nat
    BY <1>1, LoopBounds
  <2> HIDE DEF here
  <2>3. b \in Slots(job) /\ passes[b].pass = Line(job, here).pass
        /\ Line(job, here).pass % job.vmod = b /\ passes[b].pass \in Nat
    <3>1. lineno <= here[1]
      BY <2>1, <2>2
    <3>2. b = Line(job, here).pass % job.vmod
      BY <2>1 DEF Bank
    <3> HIDE DEF b
    <3> QED  BY <1>1, <2>1, <3>1, <3>2, BankOfLine
  <2>4. linebuf' = [linebuf EXCEPT ![b][j] = Append(@, Filed(here))]
        /\ lineactive' = [lineactive EXCEPT ![b][j] = @ \/ lineno \in job.ink]
    BY <1>6, <2>1, Zenon DEF AddToRow, AddLine, FirstSubpass
  <2> HIDE DEF s, b
  <2>5. /\ \A k \in Slots(job), c \in Colors(job) :
             linebuf'[k][c] = IF k = b /\ c = j THEN Append(linebuf[b][j], Filed(here))
                              ELSE linebuf[k][c]
        /\ \A k \in Slots(job), c \in Colors(job) :
             lineactive'[k][c] = IF k = b /\ c = j THEN lineactive[b][j] \/ lineno \in job.ink
                                 ELSE lineactive[k][c]
    <3>1. \A k \in Slots(job), c \in Colors(job) :
             linebuf'[k][c] = IF k = b /\ c = j THEN Append(linebuf[b][j], Filed(here))
                              ELSE linebuf[k][c]
      BY <1>2, <1>6, <2>3, <2>4
    <3>2. \A k \in Slots(job), c \in Colors(job) :
             lineactive'[k][c] = IF k = b /\ c = j THEN lineactive[b][j] \/ lineno \in job.ink
                                 ELSE lineactive[k][c]
      BY <1>2, <1>6, <2>3, <2>4, Zenon
    <3> QED  BY <3>1, <3>2
  <2>6. IdleBuffersEmpty'
    <3> SUFFICES ASSUME NEW k \in Slots(job), NEW c \in Colors(job),
                        passes[k].pass < 0 \/ c \notin job.cols
                 PROVE  linebuf'[k][c] = << >>
      BY <1>1 DEF IdleBuffersEmpty
    <3>1. ~ (k = b /\ c = j)
      BY <1>6, <2>3
    <3> QED  BY <2>5, <3>1 DEF BInv, IdleBuffersEmpty
  <2>7. OnlyDataActive'
    <3> SUFFICES ASSUME NEW k \in Slots(job), NEW c \in Colors(job), c \notin job.cols
                 PROVE  ~ lineactive'[k][c]
      BY <1>1 DEF OnlyDataActive
    <3>1. ~ lineactive[k][c] /\ c # j
      BY <1>6 DEF BInv, OnlyDataActive
    <3> QED  BY <2>5, <3>1
  <2>8. BuffersKept'
    <3> SUFFICES ASSUME NEW k \in Slots(job), NEW c \in job.cols, passes[k].pass >= 0
                 PROVE  Kept(job, passes[k].pass, c, ReachedLines,
                             AddedLines \union {here}, CountedLines,
                             linebuf'[k][c], linecount[k][c], lineactive'[k][c])
      BY <1>1, <1>3, <1>6, Zenon DEF BuffersKept
    <3> DEFINE lines == LinesOf(job, passes[k].pass, c)
    <3>1. c \in Colors(job)
      BY <1>2
    <3>2. Kept(job, passes[k].pass, c, ReachedLines, AddedLines, CountedLines,
               linebuf[k][c], linecount[k][c], lineactive[k][c])
      BY DEF BInv, BuffersKept
    <3>3. CASE ~ (k = b /\ c = j)
      <4>1. here \notin lines
        <5>1. CASE k # b
          BY <1>1, <2>3, <5>1, OtherBank
        <5>2. CASE c # j
          BY <2>1, <5>2 DEF LinesOf
        <5> QED  BY <3>3, <5>1, <5>2
      <4>2. linebuf'[k][c] = linebuf[k][c] /\ lineactive'[k][c] = lineactive[k][c]
        BY <2>5, <3>1, <3>3
      <4>3. Filled(job, lines, ReachedLines, AddedLines \union {here}, linebuf[k][c])
        BY <3>2, <4>1, OtherAdded DEF Kept
      <4>4. Tallied(lines, AddedLines \union {here}, CountedLines,
                    linebuf[k][c], linecount[k][c])
        <5>1. lines \cap ((AddedLines \union {here}) \ CountedLines)
                = lines \cap (AddedLines \ CountedLines)
          BY <4>1
        <5> QED  BY <3>2, <5>1, Zenon DEF Kept, Tallied
      <4> QED  BY <3>2, <4>2, <4>3, <4>4, Zenon DEF Kept
    <3>4. CASE k = b /\ c = j
      <4> DEFINE old == linebuf[b][j]
      <4>1. here \in lines
        BY <2>1, <2>3, <3>4 DEF LinesOf
      <4>2. /\ linebuf'[k][c] = Append(old, Filed(here))
            /\ lineactive'[k][c] = (lineactive[b][j] \/ lineno \in job.ink)
        BY <2>5, <3>1, <3>4
      <4>3. /\ old \in Seq(Int \X Nat) /\ Filed(here) \in Int \X Nat
            /\ Filed(here)[1] = lineno
        BY <1>2, <2>1, <2>2, <3>1, <3>4
      <4>4. /\ \A l \in lines \cap ReachedLines : l = here \/ l \in AddedLines
            /\ \A l \in lines \cap AddedLines : l = here \/ l \in CountedLines
        BY <1>1, <2>1, <4>1, OneLineOnRow
      <4>5. \A l \in lines : Jet(job, l) \in Nat /\ (l \in AddedLines => l \in ReachedLines)
        BY <1>1, LineOnJet, LinesBehind DEF LinesOf
      <4>6. Filled(job, lines, ReachedLines, AddedLines, old)
        BY <3>2, <3>4 DEF Kept
      <4> HIDE DEF lines, old
      <4>7. Filled(job, lines, ReachedLines, AddedLines \union {here},
                   Append(old, Filed(here)))
        BY <1>3, <2>1, <4>1, <4>3, <4>4, <4>5, <4>6, LineAdded
      <4>8. /\ Len(Append(old, Filed(here))) = Len(old) + 1 /\ Len(old) \in Nat
            /\ Append(old, Filed(here))[Len(old) + 1] = Filed(here)
            /\ \A n \in 1 .. Len(old) : Append(old, Filed(here))[n] = old[n]
        BY <4>3
      <4>9. Tallied(lines, AddedLines \union {here}, CountedLines,
                    Append(old, Filed(here)), linecount[k][c])
        <5>1. lines \cap (AddedLines \ CountedLines) = {}
          BY <1>3, <4>4
        <5>2. here \in lines \cap ((AddedLines \union {here}) \ CountedLines)
          BY <1>3, <4>1
        <5>3. Len(old) = linecount[k][c]
          BY <3>2, <3>4, <5>1, Zenon DEF Kept, Tallied, lines, old
        <5> HIDE DEF here
        <5> QED  BY <4>8, <5>2, <5>3 DEF Tallied
      <4>10. Dotted(job, Append(old, Filed(here)), lineactive[b][j] \/ lineno \in job.ink)
        <5>1. Dotted(job, old, lineactive[b][j])
          BY <3>2, <3>4, Zenon DEF Kept, old
        <5>2. ASSUME NEW n \in 1 .. Len(old) + 1
              PROVE  n = Len(old) + 1 \/ n \in 1 .. Len(old)
          BY <4>8
        <5>3. Len(old) + 1 \in 1 .. Len(old) + 1 /\ 1 .. Len(old) \subseteq 1 .. Len(old) + 1
          BY <4>8
        <5>4. ASSUME lineactive[b][j] \/ lineno \in job.ink
              PROVE  \E n \in 1 .. Len(old) + 1 : Append(old, Filed(here))[n][1] \in job.ink
          BY <4>3, <4>8, <5>1, <5>3, <5>4 DEF Dotted
        <5>5. ASSUME NEW n \in 1 .. Len(old) + 1, Append(old, Filed(here))[n][1] \in job.ink
              PROVE  lineactive[b][j] \/ lineno \in job.ink
          BY <4>3, <4>8, <5>1, <5>2, <5>5 DEF Dotted
        <5> QED  BY <4>8, <5>4, <5>5, Zenon DEF Dotted
      <4> QED  BY <3>4, <4>2, <4>7, <4>9, <4>10, Zenon DEF Kept, lines
    <3> QED  BY <3>3, <3>4
  <2> QED  BY <1>4, <2>6, <2>7, <2>8
<1> QED  BY <1>5, <1>6

(* finalize_row counts, in the bank of each colour, the line added there.  *)
LEMMA FinalizeBuffers ==
  ASSUME Good, BInv, FinalizeRow
  PROVE  BuffersKept' /\ IdleBuffersEmpty' /\ OnlyDataActive' /\ StartsKept'
<1> DEFINE counted == CountedLines \union {l \in Fed(job) : l[1] = lineno /\ l[3] = i}
<1>1. /\ Placed /\ IInv /\ job \in Jobs
      /\ UNCHANGED <<job, passes, linebuf, lineactive>> /\ pc = "finalize"
      /\ linecount' =
           [b \in Slots(job) |-> [c \in Colors(job) |->
              linecount[b][c] + (IF Bank(c, i) = b THEN 1 ELSE 0)]]
      /\ i < job.oversample
  BY Zenon DEF BInv, Placed, IInv, Typed, FinalizeRow
<1>2. /\ linecount \in [Slots(job) -> [Colors(job) -> Nat]]
      /\ job.cols \subseteq Colors(job)
      /\ lineno \in Rows(job) /\ lineno \in Nat /\ i \in Subpasses(job)
  <2>1. lineno <= job.lastline
    BY <1>1 DEF IInv, Typed, Control
  <2>2. i \in Nat /\ lineno \in Nat /\ job.oversample \in Nat
    BY <1>1, LoopBounds
  <2>3. lineno \in job.firstline .. job.lastline + 1
    BY DEF BInv, IInv, Typed, TypeOK
  <2> QED  BY <1>1, <2>1, <2>2, <2>3, JobFacts
           DEF IInv, Typed, TypeOK, IsJob, Rows, Subpasses
<1>3. /\ CountedLines' = counted
      /\ \A l \in CountedLines : ~ (l[1] = lineno /\ l[3] = i)
      /\ AddedLines' = AddedLines /\ ReachedLines' = ReachedLines
      /\ \A l \in Fed(job) : l[1] = lineno => l \in AddedLines
  BY <1>1, FinalizeProgress
<1>4. IdleBuffersEmpty' /\ OnlyDataActive' /\ StartsKept'
  BY <1>1 DEF BInv, IdleBuffersEmpty, OnlyDataActive, StartsKept
<1>5. BuffersKept'
  <2> SUFFICES ASSUME NEW b \in Slots(job), NEW c \in job.cols, passes[b].pass >= 0
               PROVE  Kept(job, passes[b].pass, c, ReachedLines, AddedLines, counted,
                           linebuf[b][c], linecount'[b][c], lineactive[b][c])
    BY <1>1, <1>3, Zenon DEF BuffersKept
  <2> DEFINE lines == LinesOf(job, passes[b].pass, c)
             here  == <<lineno, c, i>>
  <2>1. Kept(job, passes[b].pass, c, ReachedLines, AddedLines, CountedLines,
             linebuf[b][c], linecount[b][c], lineactive[b][c])
    BY DEF BInv, BuffersKept
  <2>2. /\ here \in Fed(job) /\ here[1] = lineno /\ here[2] = c
        /\ Line(job, here) = Param(c, i) /\ Bank(c, i) = Line(job, here).pass % job.vmod
    BY <1>2 DEF Fed, Line, Param, Bank
  <2>3. here \in AddedLines /\ here \notin CountedLines /\ here \in counted
    BY <1>3, <2>2
  <2>4. ASSUME NEW l \in lines, l[1] = lineno, l[3] = i PROVE l = here
    BY <1>1, <2>4, LineBounds DEF LinesOf
  <2>5. linecount'[b][c] = linecount[b][c] + (IF Bank(c, i) = b THEN 1 ELSE 0)
        /\ linecount[b][c] \in Nat
    BY <1>1, <1>2
  <2> HIDE DEF here
  <2>6. CASE Bank(c, i) = b
    <3>1. here \in lines
      <4>1. passes[b].pass = Line(job, here).pass
        <5>1. here \in ReachedLines /\ lineno <= here[1]
          BY <1>1, <1>2, <2>2, <2>3, LinesBehind
        <5> QED  BY <1>1, <2>2, <2>6, <5>1, BankOfLine
      <4> QED  BY <2>2, <4>1 DEF LinesOf
    <3>2. \A l \in lines \cap AddedLines : l = here \/ l \in CountedLines
      BY <1>1, <2>2, <3>1, OneLineOnRow
    <3>3. lines \cap (AddedLines \ counted) = {}
      BY <2>3, <3>2
    <3>4. lines \cap (AddedLines \ CountedLines) # {}
      BY <2>3, <3>1
    <3> HIDE DEF lines, counted
    <3>5. Len(linebuf[b][c]) = linecount'[b][c]
      BY <2>1, <2>5, <2>6, <3>4 DEF Kept, Tallied, lines
    <3>6. Tallied(lines, AddedLines, counted, linebuf[b][c], linecount'[b][c])
      BY <3>3, <3>5 DEF Tallied
    <3> QED  BY <2>1, <3>6, Zenon DEF Kept, lines
  <2>7. CASE Bank(c, i) # b
    <3>1. here \notin lines
      BY <1>1, <2>2, <2>7, OtherBank
    <3>2. lines \cap (AddedLines \ counted) = lines \cap (AddedLines \ CountedLines)
      BY <2>4, <3>1
    <3>3. linecount'[b][c] = linecount[b][c]
      BY <2>5, <2>7
    <3> HIDE DEF lines, counted
    <3>4. Tallied(lines, AddedLines, counted, linebuf[b][c], linecount'[b][c])
      BY <2>1, <3>2, <3>3, Zenon DEF Kept, Tallied, lines
    <3> QED  BY <2>1, <3>4, Zenon DEF Kept, lines
  <2> QED  BY <2>6, <2>7
<1> QED  BY <1>4, <1>5

(* Sending a pass frees its bank and empties its buffers.                  *)
LEMMA FlushBuffers ==
  ASSUME Good, BInv, FlushPass
  PROVE  BuffersKept' /\ IdleBuffersEmpty' /\ OnlyDataActive' /\ StartsKept'
<1> DEFINE nb == NextBank
<1>1. /\ Placed /\ IInv /\ Woven /\ job \in Jobs
      /\ job' = job /\ lineactive' = lineactive
      /\ passes' = [passes EXCEPT ![nb].pass = -1]
      /\ linebuf' = [linebuf EXCEPT ![nb] = [c \in Colors(job) |-> << >>]]
      /\ linecount' = [linecount EXCEPT ![nb] = [c \in Colors(job) |-> 0]]
  BY GoodIsWoven DEF BInv, Placed, IInv, Typed, FlushPass, SetVerticalPosition, FreeBank
<1>2. /\ passes \in [Slots(job) -> PassType]
      /\ linecount \in [Slots(job) -> [Colors(job) -> Nat]]
      /\ linebuf \in [Slots(job) -> [Colors(job) -> Seq(Int \X Nat)]]
      /\ job.cols \subseteq Colors(job)
      /\ last_pass + 1 \in Nat
  BY <1>1, JobFacts DEF IInv, Typed, TypeOK, IsJob
<1>3. nb \in Slots(job)
  BY <1>1, <1>2, BankIsASlot DEF NextBank
<1>4. NoProgress
  BY <1>1, NoProgressFlush
<1>5. passes' = [passes EXCEPT ![nb] = [passes[nb] EXCEPT !.pass = -1]]
  BY <1>1, Zenon
<1>6. [passes[nb] EXCEPT !.pass = -1].pass = -1
  BY <1>2, <1>3 DEF PassType
<1> HIDE DEF nb
<1>7. /\ passes'[nb].pass = -1
      /\ \A k \in Slots(job) : k # nb => passes'[k] = passes[k]
  BY <1>2, <1>3, <1>5, <1>6
<1>8. \A k \in Slots(job), c \in Colors(job) :
        /\ k # nb => linebuf'[k][c] = linebuf[k][c] /\ linecount'[k][c] = linecount[k][c]
        /\ k = nb => linebuf'[k][c] = << >>
  BY <1>1, <1>2, <1>3
<1>9. IdleBuffersEmpty'
  <2> SUFFICES ASSUME NEW k \in Slots(job), NEW c \in Colors(job),
                      passes'[k].pass < 0 \/ c \notin job.cols
               PROVE  linebuf'[k][c] = << >>
    BY <1>1 DEF IdleBuffersEmpty
  <2>1. CASE k = nb
    BY <1>8, <2>1
  <2>2. CASE k # nb
    BY <1>7, <1>8, <2>2 DEF BInv, IdleBuffersEmpty
  <2> QED  BY <2>1, <2>2
<1>10. OnlyDataActive'
  BY <1>1 DEF BInv, OnlyDataActive
<1>11. StartsKept'
  <2> SUFFICES ASSUME NEW k \in Slots(job), NEW l \in Fed(job),
                      passes'[k].pass >= 0, Line(job, l).pass = passes'[k].pass
               PROVE  /\ passes'[k].logicalpassstart = Line(job, l).logicalpassstart
                      /\ passes'[k].subpass = l[3]
    BY <1>1 DEF StartsKept
  <2>1. passes'[k] = passes[k]
    BY <1>7
  <2> QED  BY <2>1 DEF BInv, StartsKept
<1>12. BuffersKept'
  <2> SUFFICES ASSUME NEW k \in Slots(job), NEW c \in job.cols, passes'[k].pass >= 0
               PROVE  Kept(job, passes'[k].pass, c, ReachedLines, AddedLines, CountedLines,
                           linebuf'[k][c], linecount'[k][c], lineactive[k][c])
    BY <1>1, <1>4, Zenon DEF BuffersKept, NoProgress
  <2>1. k # nb
    BY <1>7
  <2>2. passes'[k] = passes[k] /\ linebuf'[k][c] = linebuf[k][c]
        /\ linecount'[k][c] = linecount[k][c]
    BY <1>2, <1>7, <1>8, <2>1
  <2> QED  BY <2>2 DEF BInv, BuffersKept
<1> QED  BY <1>9, <1>10, <1>11, <1>12

-----------------------------------------------------------------------------
(* The dot rows of one pass and those of all the passes sent.              *)
PassDots(p) ==
  {Dot(job, l) : l \in {l \in AddedLines : l[1] \in job.ink /\ Line(job, l).pass = p}}

SentDots ==
  {Dot(job, l) : l \in {l \in AddedLines : /\ l[1] \in job.ink
                                          /\ Line(job, l).pass <= last_pass}}

(* The printer has printed each line of the passes sent, and nothing else. *)
SheetIsSent == sheet = SentDots

(* The head has not gone beyond the start of a pass still to come.         *)
PaperAbove ==
  /\ paper >= 0
  /\ \A l \in Fed(job) :
       Line(job, l).pass > last_pass => paper <= Line(job, l).logicalpassstart

(* stp_flush_all stops when the next pass has no bank.                     *)
DoneSent == pc = "done" => passes[NextBank].pass < 0

PInv == BInv /\ SheetIsSent /\ PaperAbove /\ DoneSent

(* What stpi_escp2_flush_pass prints: the dot rows of the next pass, with  *)
(* the head at the start of the pass.                                      *)
LEMMA FlushPrints ==
  ASSUME Good, PInv, FlushPass
  PROVE  /\ last_pass' = last_pass + 1
         /\ sheet' = sheet \union PassDots(last_pass + 1)
         /\ paper' \in Int /\ paper <= paper'
         /\ \/ PassDots(last_pass + 1) = {} /\ paper' = paper
            \/ /\ PassDots(last_pass + 1) # {}
               /\ \E m \in Fed(job) : /\ Line(job, m).pass = last_pass + 1
                                      /\ paper' = Line(job, m).logicalpassstart
<1> DEFINE nb    == NextBank
           x     == last_pass + 1
           sent  == \E c \in Colors(job) : lineactive[nb][c]
           start == IF sent /\ passes[nb].logicalpassstart > paper
                    THEN passes[nb].logicalpassstart ELSE paper
<1>1. /\ Placed /\ IInv /\ BInv /\ Woven /\ job \in Jobs
  BY GoodIsWoven DEF PInv, BInv, Placed, IInv, Typed
<1>2. /\ passes \in [Slots(job) -> PassType]
      /\ linebuf \in [Slots(job) -> [Colors(job) -> Seq(Int \X Nat)]]
      /\ job.cols \subseteq Colors(job) /\ job.ink \subseteq Nat
      /\ x \in Nat /\ last_pass \in Int /\ paper \in Int
  BY <1>1, JobFacts DEF IInv, Typed, TypeOK, IsJob, Rows
<1>3. nb \in Slots(job)
  BY <1>1, <1>2, BankIsASlot DEF NextBank
<1>4. /\ paper' = start /\ sheet' = sheet \union Printed(passes[nb], nb, start)
      /\ passes[nb].pass >= 0 /\ last_pass' = passes[nb].pass
  BY DEF FlushPass, SetVerticalPosition, FreeBank, Ready
<1>5. passes[nb].pass = x
  BY <1>1, <1>4, NextBankHasNextPass
<1> HIDE DEF nb, start, sent
(* A dot in a buffer of the bank is that of a line, and the other way.     *)
<1>6. ASSUME NEW c \in Colors(job), NEW k \in 1 .. Len(linebuf[nb][c]),
             linebuf[nb][c][k][1] \in job.ink
      PROVE  \E l \in AddedLines :
               /\ l \in Fed(job) /\ l[2] = c /\ l[1] \in job.ink
               /\ Line(job, l).pass = x
               /\ linebuf[nb][c][k] = Filed(l) /\ k = Jet(job, l) + 1
  <2>1. c \in job.cols
    <3>1. c \notin job.cols => linebuf[nb][c] = << >>
      BY <1>1, <1>3 DEF BInv, IdleBuffersEmpty
    <3>2. 1 .. Len(<< >>) = {}
      OBVIOUS
    <3> QED  BY <1>6, <3>1, <3>2
  <2>2. Filled(job, LinesOf(job, x, c), ReachedLines, AddedLines, linebuf[nb][c])
    BY <1>1, <1>3, <1>4, <1>5, <2>1 DEF BInv, BuffersKept, Kept
  <2>3. linebuf[nb][c][k] # Phantom
    BY <1>2, <1>6 DEF Phantom
  <2>4. PICK l \in LinesOf(job, x, c) \cap AddedLines :
          linebuf[nb][c][k] = Filed(l) /\ k = Jet(job, l) + 1
    BY <2>2, <2>3, Zenon DEF Filled
  <2>5. Filed(l)[1] = l[1]
    BY DEF Filed
  <2> QED  BY <1>6, <2>4, <2>5 DEF LinesOf
<1>7. ASSUME NEW l \in AddedLines, l[1] \in job.ink, Line(job, l).pass = x
      PROVE  /\ l \in Fed(job) /\ l[2] \in Colors(job)
             /\ Jet(job, l) + 1 \in 1 .. Len(linebuf[nb][l[2]])
             /\ linebuf[nb][l[2]][Jet(job, l) + 1] = Filed(l)
             /\ lineactive[nb][l[2]]
             /\ Jet(job, l) + 1 \in 1 .. job.virtual_jets
  <2>1. l \in Fed(job) /\ l[2] \in job.cols /\ l[2] \in Colors(job)
    BY <1>1, FedLine DEF AddedLines
  <2>2. /\ Filled(job, LinesOf(job, x, l[2]), ReachedLines, AddedLines, linebuf[nb][l[2]])
        /\ Dotted(job, linebuf[nb][l[2]], lineactive[nb][l[2]])
    BY <1>1, <1>3, <1>4, <1>5, <2>1 DEF BInv, BuffersKept, Kept
  <2>3. l \in LinesOf(job, x, l[2])
    BY <1>7, <2>1 DEF LinesOf
  <2>4. Jet(job, l) + 1 <= Len(linebuf[nb][l[2]])
        /\ linebuf[nb][l[2]][Jet(job, l) + 1] = Filed(l)
    BY <2>2, <2>3 DEF Filled
  <2>5. /\ Jet(job, l) \in Nat /\ Jet(job, l) + 1 <= job.virtual_jets
        /\ job.virtual_jets \in Nat
    BY <1>1, <2>1, LineOnJet
  <2>6. Len(linebuf[nb][l[2]]) \in Nat
    BY <1>2, <1>3, <2>1
  <2>7. Jet(job, l) + 1 \in 1 .. Len(linebuf[nb][l[2]])
        /\ Jet(job, l) + 1 \in 1 .. job.virtual_jets
    BY <2>4, <2>5, <2>6
  <2>8. Filed(l)[1] = l[1]
    BY DEF Filed
  <2>9. lineactive[nb][l[2]]
    BY <1>7, <2>2, <2>4, <2>7, <2>8 DEF Dotted
  <2> QED  BY <2>1, <2>4, <2>7, <2>9
<1>8. ASSUME NEW l \in Fed(job), Line(job, l).pass = x
      PROVE  /\ passes[nb].logicalpassstart = Line(job, l).logicalpassstart
             /\ passes[nb].subpass = l[3]
             /\ paper <= passes[nb].logicalpassstart
             /\ passes[nb].logicalpassstart \in Int
             /\ sent => start = passes[nb].logicalpassstart
  <2>1. /\ passes[nb].logicalpassstart = Line(job, l).logicalpassstart
        /\ passes[nb].subpass = l[3]
    BY <1>1, <1>3, <1>4, <1>5, <1>8 DEF BInv, StartsKept
  <2>2. paper <= Line(job, l).logicalpassstart
    BY <1>2, <1>8 DEF PInv, PaperAbove
  <2>3. passes[nb].logicalpassstart \in Int
    BY <1>2, <1>3 DEF PassType
  <2> QED  BY <1>2, <2>1, <2>2, <2>3 DEF start
<1>9. Printed(passes[nb], nb, start) = PassDots(x)
  <2>1. ASSUME NEW d \in Printed(passes[nb], nb, start) PROVE d \in PassDots(x)
    <3>1. PICK c \in Colors(job), k \in 1 .. job.virtual_jets :
            /\ lineactive[nb][c] /\ k \in DOMAIN linebuf[nb][c]
            /\ linebuf[nb][c][k][1] \in job.ink
            /\ d = [color |-> c, pass |-> passes[nb].pass, subpass |-> passes[nb].subpass,
                    at |-> start + job.separation * (k - 1),
                    line |-> linebuf[nb][c][k]]
      BY <2>1 DEF Printed
    <3>2. k \in 1 .. Len(linebuf[nb][c])
      BY <1>2, <1>3, <3>1
    <3>3. PICK l \in AddedLines :
            /\ l \in Fed(job) /\ l[2] = c /\ l[1] \in job.ink
            /\ Line(job, l).pass = x
            /\ linebuf[nb][c][k] = Filed(l) /\ k = Jet(job, l) + 1
      BY <1>6, <3>1, <3>2
    <3>4. sent
      BY <3>1 DEF sent
    <3>5. /\ start = Line(job, l).logicalpassstart /\ passes[nb].subpass = l[3]
          /\ Jet(job, l) \in Nat
          /\ l[1] + job.head_offset[l[2]] =
               Line(job, l).logicalpassstart + job.separation * Jet(job, l)
      BY <1>1, <1>8, <3>3, <3>4, LineOnJet
    <3>6. k - 1 = Jet(job, l)
      BY <3>3, <3>5
    <3>7. d = Dot(job, l)
      BY <1>5, <3>1, <3>3, <3>5, <3>6, Zenon DEF Dot
    <3> QED  BY <3>3, <3>7 DEF PassDots
  <2>2. ASSUME NEW l \in AddedLines, l[1] \in job.ink, Line(job, l).pass = x
        PROVE  Dot(job, l) \in Printed(passes[nb], nb, start)
    <3> DEFINE k == Jet(job, l) + 1
    <3>1. /\ l \in Fed(job) /\ l[2] \in Colors(job)
          /\ k \in 1 .. Len(linebuf[nb][l[2]]) /\ k \in 1 .. job.virtual_jets
          /\ linebuf[nb][l[2]][k] = Filed(l)
          /\ lineactive[nb][l[2]]
      BY <1>7, <2>2
    <3>2. k \in DOMAIN linebuf[nb][l[2]] /\ linebuf[nb][l[2]][k][1] \in job.ink
      <4>1. linebuf[nb][l[2]] \in Seq(Int \X Nat)
        BY <1>2, <1>3, <3>1
      <4>2. Filed(l)[1] = l[1]
        BY DEF Filed
      <4> QED  BY <2>2, <3>1, <4>1, <4>2
    <3>3. sent
      BY <3>1 DEF sent
    <3>4. /\ start = Line(job, l).logicalpassstart /\ passes[nb].subpass = l[3]
          /\ l[1] + job.head_offset[l[2]] =
               Line(job, l).logicalpassstart + job.separation * Jet(job, l)
      BY <1>1, <1>8, <2>2, <3>1, <3>3, LineOnJet
    <3>5. k - 1 = Jet(job, l)
      BY <1>1, <3>1, LineOnJet
    <3> HIDE DEF k
    <3> DEFINE n == <<l[2], k>>
               E(q) == [color |-> q[1], pass |-> passes[nb].pass,
                        subpass |-> passes[nb].subpass,
                        at |-> start + job.separation * (q[2] - 1),
                        line |-> linebuf[nb][q[1]][q[2]]]
    <3>6. Dot(job, l) = E(n)
      BY <1>5, <2>2, <3>1, <3>4, <3>5 DEF Dot
    <3>7. n \in {q \in Colors(job) \X (1 .. job.virtual_jets) :
                   /\ lineactive[nb][q[1]]
                   /\ q[2] \in DOMAIN linebuf[nb][q[1]]
                   /\ linebuf[nb][q[1]][q[2]][1] \in job.ink}
      BY <3>1, <3>2
    <3> HIDE DEF n
    <3> QED  BY <3>6, <3>7, Zenon DEF Printed
  <2>3. ASSUME NEW d \in PassDots(x) PROVE d \in Printed(passes[nb], nb, start)
    <3>1. PICK l \in AddedLines :
            l[1] \in job.ink /\ Line(job, l).pass = x /\ d = Dot(job, l)
      BY <2>3 DEF PassDots
    <3> QED  BY <2>2, <3>1
  <2> QED  BY <2>1, <2>3
<1>10. CASE ~ sent
  <2>1. PassDots(x) = {}
    <3>1. ASSUME NEW l \in AddedLines, l[1] \in job.ink, Line(job, l).pass = x
          PROVE  FALSE
      BY <1>7, <1>10, <3>1 DEF sent
    <3> QED  BY <3>1 DEF PassDots
  <2>2. start = paper
    BY <1>10 DEF start
  <2> QED  BY <1>2, <1>4, <1>5, <1>9, <2>1, <2>2
<1>11. CASE sent
  <2>1. PICK c \in Colors(job) : lineactive[nb][c]
    BY <1>11 DEF sent
  <2>2. c \in job.cols
    BY <1>1, <1>3, <2>1 DEF BInv, OnlyDataActive
  <2>3. Dotted(job, linebuf[nb][c], lineactive[nb][c])
    BY <1>1, <1>3, <1>4, <2>2 DEF BInv, BuffersKept, Kept
  <2>4. PICK k \in 1 .. Len(linebuf[nb][c]) : linebuf[nb][c][k][1] \in job.ink
    BY <2>1, <2>3 DEF Dotted
  <2>5. PICK l \in AddedLines :
          l \in Fed(job) /\ l[1] \in job.ink /\ Line(job, l).pass = x
    BY <1>6, <2>4
  <2>6. Dot(job, l) \in PassDots(x)
    BY <2>5 DEF PassDots
  <2>7. /\ start = Line(job, l).logicalpassstart /\ paper <= start
        /\ start \in Int
    BY <1>8, <1>11, <2>5
  <2> QED  BY <1>4, <1>5, <1>9, <2>5, <2>6, <2>7
<1> QED  BY <1>10, <1>11

-----------------------------------------------------------------------------
(* The invariant holds at first.                                           *)
LEMMA PInvInit == Good /\ Init => PInv
<1> SUFFICES ASSUME Good, Init PROVE PInv
  OBVIOUS
<1>1. IInv /\ job \in Jobs
  BY IInvInit DEF IInv, Typed
<1>2. RowsInFull /\ DoneSent
  BY DEF Init, RowsInFull, DoneSent
<1>3. BuffersKept /\ IdleBuffersEmpty /\ OnlyDataActive /\ StartsKept
  <2>1. \A b \in Slots(job) :
          /\ passes[b].pass = -1
          /\ \A c \in Colors(job) :
               linebuf[b][c] = << >> /\ lineactive[b][c] = FALSE
    BY DEF Init, FreePass
  <2>2. \A b \in Slots(job) : ~ (passes[b].pass >= 0)
    BY <2>1
  <2>3. job.cols \subseteq Colors(job)
    BY <1>1, JobFacts DEF IsJob
  <2>4. BuffersKept
    BY <2>2 DEF BuffersKept
  <2>5. IdleBuffersEmpty
    BY <2>1 DEF IdleBuffersEmpty
  <2>6. OnlyDataActive
    BY <2>1 DEF OnlyDataActive
  <2>7. StartsKept
    BY <2>2 DEF StartsKept
  <2> QED  BY <2>4, <2>5, <2>6, <2>7
<1>4. SheetIsSent
  <2>1. \A l \in Fed(job) : ~ (Line(job, l).pass <= last_pass)
    <3>1. \A l \in Fed(job) : Line(job, l).pass \in Nat
      BY <1>1, FedLine DEF Params
    <3> QED  BY <3>1 DEF Init
  <2>2. SentDots = {}
    BY <2>1 DEF SentDots, AddedLines
  <2> QED  BY <2>2 DEF Init, SheetIsSent
<1>5. PaperAbove
  BY <1>1, LineOnJet DEF Init, PaperAbove
<1> QED  BY <1>1, <1>2, <1>3, <1>4, <1>5 DEF PInv, BInv

(* ... the loops come to finalize_row and stp_flush_all as they should...  *)
LEMMA RowsInFullStep ==
  ASSUME BInv, [Next]_vars PROVE RowsInFull'
<1>1. Placed /\ Control
  BY DEF BInv, IInv, Placed, Typed
<1>2. CASE AddToRow
  <2>1. subline < job.vertical_oversample
    BY <1>1, <1>2 DEF Control, AddToRow
  <2>2. pc' = "finalize" => subline' = subline + 1 /\ subline + 1 >= job.vertical_oversample
    BY <1>2 DEF AddToRow
  <2>3. pc' \in {"add", "driver", "finalize"} /\ job' = job
    BY <1>2 DEF AddToRow
  <2> QED  BY <1>1, <2>1, <2>2, <2>3, LoopBounds DEF RowsInFull
<1>3. CASE FinalizeRow
  <2>1. /\ pc = "finalize" /\ pc' \in {"finalize", "flush"}
        /\ subline' = subline /\ job' = job
    BY <1>3, FinalizeMoves
  <2> QED  BY <1>1, <2>1 DEF RowsInFull, Placed
<1>4. CASE WriteWeave \/ InitializeRow \/ EndRow
  <2>1. pc' \in {"initialize", "add", "driver"}
    <3>1. WriteWeave => pc' \in {"initialize", "add"}
      BY DEF WriteWeave
    <3>2. InitializeRow => pc' \in {"initialize", "add"}
      BY DEF InitializeRow
    <3>3. EndRow => pc' = "driver"
      BY DEF EndRow
    <3> QED  BY <1>4, <3>1, <3>2, <3>3
  <2> QED  BY <2>1 DEF RowsInFull
<1>5. CASE FlushAll
  <2>1. pc = "driver" /\ pc' = "flushall" /\ subline' = subline /\ job' = job
    BY <1>5 DEF FlushAll, engine
  <2> QED  BY <1>1, <2>1 DEF RowsInFull, Control
<1>6. CASE FlushPass \/ EndFlush \/ UNCHANGED vars
  <2>1. subline' = subline /\ job' = job
        /\ \/ pc' = pc
           \/ pc = "flush" /\ pc' = "finalize"
           \/ pc = "flushall" /\ pc' = "done"
    BY <1>6 DEF FlushPass, SetVerticalPosition, EndFlush, vars, engine
  <2> QED  BY <1>1, <2>1 DEF RowsInFull, Placed
<1> QED  BY <1>2, <1>3, <1>4, <1>5, <1>6 DEF Next, Done

(* ... and every step keeps the banks and the buffers.                     *)
LEMMA BInvStep ==
  ASSUME Good, BInv, [Next]_vars PROVE BInv'
<1> DEFINE Others == BuffersKept' /\ IdleBuffersEmpty' /\ OnlyDataActive' /\ StartsKept'
<1>1. IInv'
  BY GoodIsWoven, IInvStep DEF BInv
<1>2. RowsInFull'
  BY RowsInFullStep
<1>3. Placed
  BY DEF BInv, IInv, Placed
<1>4. ASSUME WriteWeave PROVE Others
  <2>1. UNCHANGED <<job, passes, linebuf, linecount, lineactive>>
    BY <1>4 DEF WriteWeave, engine
  <2> QED  BY <1>3, <1>4, <2>1, NoProgressWriteWeave, BuffersUntouched
<1>5. ASSUME EndRow PROVE Others
  <2>1. UNCHANGED <<job, passes, linebuf, linecount, lineactive>>
    BY <1>5 DEF EndRow
  <2> QED  BY <1>3, <1>5, <2>1, NoProgressEndRow, BuffersUntouched
<1>6. ASSUME EndFlush \/ FlushAll \/ UNCHANGED vars PROVE Others
  <2>1. UNCHANGED <<job, passes, linebuf, linecount, lineactive>>
    BY <1>6 DEF EndFlush, FlushAll, vars, engine
  <2> QED  BY <1>3, <1>6, <2>1, NoProgressFlush, BuffersUntouched
<1>7. Others
  <2>1. ASSUME InitializeRow PROVE Others
    BY <2>1, InitializeBuffers
  <2>2. ASSUME AddToRow PROVE Others
    BY <2>2, AddBuffers
  <2>3. ASSUME FinalizeRow PROVE Others
    BY <2>3, FinalizeBuffers
  <2>4. ASSUME FlushPass PROVE Others
    BY <2>4, FlushBuffers
  <2> HIDE DEF Others
  <2> QED  BY <1>4, <1>5, <1>6, <2>1, <2>2, <2>3, <2>4 DEF Next, Done
<1> QED  BY <1>1, <1>2, <1>7 DEF BInv

(* Only sending a pass prints or moves the head.                           *)
LEMMA OnlyFlushPrints ==
  ASSUME Next, ~ FlushPass
  PROVE  UNCHANGED <<job, last_pass, sheet, paper>>
BY Zenon DEF Next, WriteWeave, InitializeRow, AddToRow, AddLine, FinalizeRow, EndRow,
   EndFlush, FlushAll, Done, vars, printer

LEMMA PInvStep == ASSUME Good PROVE PInv /\ [Next]_vars => PInv'
<1> SUFFICES ASSUME PInv, [Next]_vars PROVE PInv'
  OBVIOUS
<1>1. BInv' /\ BInv /\ IInv /\ Placed /\ job \in Jobs
  BY BInvStep DEF PInv, BInv, IInv, Placed, Typed
<1>2. job' = job
  BY OnlyFlushPrints DEF FlushPass, SetVerticalPosition, vars
<1>3. \A l \in Fed(job) : Line(job, l).pass \in Nat
  BY <1>1, FedLine DEF Params
<1>4. last_pass \in Int /\ paper \in Int /\ passes \in [Slots(job) -> PassType]
  BY <1>1 DEF IInv, Typed, TypeOK
<1>5. SheetIsSent' /\ PaperAbove'
  <2>1. CASE FlushPass
    <3> DEFINE x == last_pass + 1
    <3>1. /\ last_pass' = x /\ sheet' = sheet \union PassDots(x)
          /\ paper' \in Int /\ paper <= paper'
          /\ \/ paper' = paper
             \/ \E m \in Fed(job) : /\ Line(job, m).pass = x
                                    /\ paper' = Line(job, m).logicalpassstart
      BY <2>1, FlushPrints
    <3>2. AddedLines' = AddedLines
      BY <1>1, <2>1, NoProgressFlush DEF NoProgress
    <3>3. SentDots' = SentDots \union PassDots(x)
      <4>1. \A l \in AddedLines : Line(job, l).pass <= x <=>
              Line(job, l).pass <= last_pass \/ Line(job, l).pass = x
        BY <1>3, <1>4 DEF AddedLines
      <4>2. SentDots' = {Dot(job, l) : l \in {l \in AddedLines :
                          l[1] \in job.ink /\ Line(job, l).pass <= x}}
        BY <1>2, <3>1, <3>2, Zenon DEF SentDots
      <4> HIDE DEF x
      <4> QED  BY <4>1, <4>2 DEF SentDots, PassDots
    <3>4. SheetIsSent'
      BY <3>1, <3>3 DEF PInv, SheetIsSent
    <3>5. PaperAbove'
      <4>1. paper' >= 0
        BY <1>4, <3>1 DEF PInv, PaperAbove
      <4>2. ASSUME NEW l \in Fed(job), Line(job, l).pass > x
            PROVE  paper' <= Line(job, l).logicalpassstart
        <5>1. Line(job, l).pass > last_pass
          BY <1>3, <1>4, <4>2
        <5>2. CASE paper' = paper
          BY <5>1, <5>2 DEF PInv, PaperAbove
        <5>3. CASE paper' # paper
          <6>1. PICK m \in Fed(job) : /\ Line(job, m).pass = x
                                      /\ paper' = Line(job, m).logicalpassstart
            BY <3>1, <5>3
          <6>2. Line(job, m).pass < Line(job, l).pass
            BY <1>3, <1>4, <4>2, <6>1
          <6> QED  BY <1>1, <6>1, <6>2, OneStart
        <5> QED  BY <5>2, <5>3
      <4> QED  BY <1>2, <3>1, <4>1, <4>2 DEF PaperAbove
    <3> QED  BY <3>4, <3>5
  <2>2. CASE ~ FlushPass
    <3>1. UNCHANGED <<job, last_pass, sheet, paper>>
      BY <2>2, OnlyFlushPrints DEF vars, printer
    <3>2. PaperAbove'
      BY <3>1 DEF PInv, PaperAbove
    <3>3. SentDots' = SentDots
      <4>1. CASE AddToRow
        <5> DEFINE here == <<lineno, j, FirstSubpass + i>>
        <5>1. /\ AddedLines' = IF j \in job.cols
                               THEN AddedLines \union {here} ELSE AddedLines
              /\ j \in job.cols => here \in Fed(job)
          BY <1>1, <4>1, AddProgress
        <5>2. j \in job.cols => ~ (Line(job, here).pass <= last_pass)
          <6>1. here[1] = lineno /\ lineno \in Nat /\ pc = "add"
            BY <1>1, <4>1, LoopBounds DEF AddToRow
          <6>2. lineno <= here[1]
            BY <6>1
          <6> HIDE DEF here
          <6>3. j \in job.cols => Line(job, here).pass > last_pass
            BY <1>1, <5>1, <6>1, <6>2, LinesAheadAreUnsent DEF IInv
          <6> QED  BY <1>3, <1>4, <5>1, <6>3
        <5> HIDE DEF here
        <5> QED  BY <3>1, <5>1, <5>2 DEF SentDots
      <4>2. CASE ~ AddToRow
        <5>1. AddedLines' = AddedLines
          BY <1>1, <2>2, <4>2, NoProgressWriteWeave, NoProgressEndRow, NoProgressFlush,
             InitializeProgress, FinalizeProgress, Zenon DEF Next, Done, NoProgress
        <5> QED  BY <3>1, <5>1, Zenon DEF SentDots
      <4> QED  BY <4>1, <4>2
    <3>4. SheetIsSent'
      BY <3>1, <3>3 DEF PInv, SheetIsSent
    <3> QED  BY <3>2, <3>4
  <2> QED  BY <2>1, <2>2
<1>6. DoneSent'
  <2>1. CASE EndFlush /\ pc' = "done"
    <3>1. /\ passes' = passes /\ last_pass' = last_pass /\ job' = job
          /\ pc = "flushall" /\ ~ Ready
      BY <2>1 DEF EndFlush, engine, printer
    <3>2. NextBank \in Slots(job)
      BY <1>1, BankIsASlot DEF NextBank, IInv, Typed, TypeOK
    <3>3. passes[NextBank].pass < 0
      BY <1>4, <3>1, <3>2 DEF Ready, PassType
    <3> QED  BY <3>1, <3>3 DEF DoneSent, NextBank
  <2>2. CASE UNCHANGED vars
    BY <2>2 DEF PInv, DoneSent, NextBank, vars, engine, printer
  <2>3. CASE pc' # "done"
    BY <2>3 DEF DoneSent
  <2>4. Next => EndFlush \/ UNCHANGED vars \/ pc' # "done"
    <3>1. WriteWeave => pc' \in {"initialize", "add"}
      BY DEF WriteWeave
    <3>2. InitializeRow => pc' \in {"initialize", "add"}
      BY DEF InitializeRow
    <3>3. EndRow \/ FlushAll => pc' \in {"driver", "flushall"}
      BY DEF EndRow, FlushAll
    <3>4. AddToRow => pc' \in {"add", "driver", "finalize"}
      BY DEF AddToRow
    <3>5. FlushPass => pc' \in {"flush", "flushall"}
      BY DEF FlushPass, SetVerticalPosition
    <3>6. FinalizeRow => pc' # "done"
      BY FinalizeMoves
    <3> QED  BY <3>1, <3>2, <3>3, <3>4, <3>5, <3>6 DEF Next, Done
  <2> QED  BY <2>1, <2>2, <2>3, <2>4
<1> QED  BY <1>1, <1>5, <1>6 DEF PInv

-----------------------------------------------------------------------------
(* If the weave is good, no buffer gets more lines than it has jets: the   *)
(* abort of add_to_row_1 is never reached.                                 *)
THEOREM BuffersFit ==
  ASSUME Good PROVE Spec => []BufferFits
<1>1. PInv => BufferFits
  <2> SUFFICES ASSUME PInv, NEW b \in Slots(job), NEW c \in Colors(job)
               PROVE  Len(linebuf[b][c]) <= job.virtual_jets
    BY DEF BufferFits
  <2>1. /\ BInv /\ IInv /\ job \in Jobs
        /\ linebuf \in [Slots(job) -> [Colors(job) -> Seq(Int \X Nat)]]
        /\ job.virtual_jets \in Nat
        /\ passes \in [Slots(job) -> PassType]
    BY JobFacts DEF PInv, BInv, IInv, Typed, TypeOK, IsJob, Positive
  <2>2. CASE linebuf[b][c] = << >>
    BY <2>1, <2>2
  <2>3. CASE linebuf[b][c] # << >>
    <3>1. c \in job.cols /\ passes[b].pass >= 0
      <4>1. passes[b].pass \in Int
        BY <2>1 DEF PassType
      <4> QED  BY <2>1, <2>3, <4>1 DEF BInv, IdleBuffersEmpty
    <3> DEFINE lines == LinesOf(job, passes[b].pass, c)
               n     == Len(linebuf[b][c])
    <3>2. Filled(job, lines, ReachedLines, AddedLines, linebuf[b][c])
      BY <2>1, <3>1 DEF BInv, BuffersKept, Kept
    <3>3. n \in Nat /\ n > 0
      BY <2>1, <2>3
    <3>4. PICK l \in lines \cap ReachedLines :
            n = IF l \in AddedLines THEN Jet(job, l) + 1 ELSE Jet(job, l)
      BY <3>2, <3>3 DEF Filled
    <3>5. l \in Fed(job)
      BY <3>4 DEF LinesOf
    <3>6. /\ Jet(job, l) \in Nat /\ Jet(job, l) < job.jets
          /\ job.jets <= job.virtual_jets
          /\ job.jets \in Nat
      BY <2>1, <3>5, LineOnJet
    <3> HIDE DEF n
    <3>7. n <= job.virtual_jets
      BY <2>1, <3>4, <3>6
    <3> QED  BY <3>7 DEF n
  <2> QED  BY <2>2, <2>3
<1> QED  BY PInvInit, PInvStep, <1>1, PTL DEF Spec

(* ... a pass is sent with as many lines as linecount announces ...        *)
THEOREM CountsMatchRaster ==
  ASSUME Good PROVE Spec => []RasterMatchesCount
<1>1. PInv => RasterMatchesCount
  <2> SUFFICES ASSUME PInv, pc \in {"flush", "flushall"}, Ready,
                      subline \in {0, job.vertical_oversample},
                      NEW c \in Colors(job), lineactive[NextBank][c]
               PROVE  linecount[NextBank][c] = Len(linebuf[NextBank][c])
    BY DEF RasterMatchesCount, Sendable
  <2> DEFINE b == NextBank
  <2>1. /\ BInv /\ IInv /\ Placed /\ Typed /\ job \in Jobs /\ passes[b].pass >= 0
    BY DEF PInv, BInv, IInv, Placed, Typed, Ready
  <2>2. b \in Slots(job)
    BY <2>1, BankIsASlot DEF NextBank, Typed, TypeOK
  <2>3. c \in job.cols
    BY <2>1, <2>2 DEF BInv, OnlyDataActive
  <2> DEFINE lines == LinesOf(job, passes[b].pass, c)
  <2>4. Tallied(lines, AddedLines, CountedLines, linebuf[b][c], linecount[b][c])
    BY <2>1, <2>2, <2>3 DEF BInv, BuffersKept, Kept
  <2>5. ASSUME NEW l \in lines, l \in AddedLines PROVE l \in CountedLines
    <3>1. l \in Fed(job) /\ Added(l) /\ l[1] \in Nat /\ lineno \in Nat
      BY <2>1, <2>5, LineBounds, LoopBounds DEF LinesOf, AddedLines
    <3>2. l[1] < lineno
      <4>1. CASE pc = "flush"
        <5>1. passes[b].physpassend < lineno
          BY <4>1 DEF Ready
        <5>2. PICK m \in Fed(job) :
                /\ Line(job, m).pass = passes[b].pass
                /\ Line(job, m).physpassend = passes[b].physpassend
          BY <2>1, <2>2 DEF IInv, BanksHoldTheirPasses
        <5>3. Line(job, l).physpassend = passes[b].physpassend
          BY <2>1, <2>5, <3>1, <5>2, OneEnd DEF LinesOf
        <5>4. l[1] <= Line(job, l).physpassend /\ Line(job, l).physpassend \in Int
          BY <2>1, <3>1, FedLine DEF Params
        <5> QED  BY <3>1, <5>1, <5>3, <5>4
      <4>2. CASE pc = "flushall"
        <5>1. subline = 0
          <6>1. subline < job.vertical_oversample
            BY <2>1, <4>2 DEF BInv, RowsInFull
          <6> QED  BY <2>1, <6>1, LoopBounds
        <5>2. FirstSubpass = 0 /\ l[3] \in Nat
          BY <2>1, <3>1, <5>1, LoopBounds, LineBounds
        <5> QED  BY <3>1, <4>2, <5>2 DEF Added
      <4> QED  BY <4>1, <4>2
    <3> QED  BY <2>1, <3>1, <3>2, LinesBehind
  <2>6. lines \cap (AddedLines \ CountedLines) = {}
    BY <2>5
  <2> QED  BY <2>4, <2>6 DEF Tallied
<1> QED  BY PInvInit, PInvStep, <1>1, PTL DEF Spec
-----------------------------------------------------------------------------
(* The dot row of a line of the page is one that the page wants...         *)
LEMMA DotOfLine ==
  ASSUME NEW jb, NEW l \in Fed(jb)
  PROVE  /\ Dot(jb, l).color = l[2] /\ Dot(jb, l).line = <<l[1], l[3]>>
         /\ Dot(jb, l).pass = Line(jb, l).pass
         /\ Dot(jb, l).subpass = l[3]
         /\ Dot(jb, l).at = l[1] + jb.head_offset[l[2]]
         /\ l[1] \in jb.ink =>
              <<Dot(jb, l).color, Dot(jb, l).line>> \in Wanted(jb)
<1>1. /\ Dot(jb, l).color = l[2] /\ Dot(jb, l).line = <<l[1], l[3]>>
      /\ Dot(jb, l).pass = Line(jb, l).pass
      /\ Dot(jb, l).subpass = l[3]
      /\ Dot(jb, l).at = l[1] + jb.head_offset[l[2]]
  BY DEF Dot, Filed
<1>2. l[1] \in Rows(jb) /\ l[2] \in jb.cols /\ l[3] \in Subpasses(jb)
  BY DEF Fed
<1>3. l[1] \in jb.ink => <<l[2], <<l[1], l[3]>>>> \in Wanted(jb)
  BY <1>2 DEF Wanted, Lines
<1> QED  BY <1>1, <1>3

(* ... and no other line becomes the same.                                 *)
LEMMA OneDotPerLine ==
  ASSUME NEW jb, NEW l \in Fed(jb), NEW m \in Fed(jb),
         Dot(jb, l).color = Dot(jb, m).color, Dot(jb, l).line = Dot(jb, m).line
  PROVE  Dot(jb, l) = Dot(jb, m)
<1>1. l[2] = m[2] /\ <<l[1], l[3]>> = <<m[1], m[3]>>
  BY DotOfLine
<1>2. l = m
  BY <1>1 DEF Fed
<1> QED  BY <1>2

(* When stp_flush_all stops after a page that came in full, the bank of    *)
(* the next pass is free; so no pass is left.                              *)
LEMMA AllPassesSent ==
  ASSUME Good, PInv, pc = "done", lineno > job.lastline, NEW l \in Fed(job)
  PROVE  Added(l) /\ Line(job, l).pass <= last_pass
<1> DEFINE x == last_pass + 1
           p == Line(job, l).pass
<1>1. /\ job \in Jobs /\ BInv /\ IInv /\ Placed /\ Woven
      /\ lineno \in Int /\ last_pass \in Int /\ x \in Nat
      /\ job.lastline \in Nat /\ job.firstline \in Nat /\ job.vmod \in Positive
      /\ passes \in [Slots(job) -> PassType]
  BY GoodIsWoven, JobFacts DEF PInv, BInv, Placed, IInv, Typed, TypeOK, IsJob
<1>2. ASSUME NEW m \in Fed(job) PROVE m[1] < lineno
  <2>1. m[1] \in job.firstline .. job.lastline
    BY DEF Fed, Rows
  <2> QED  BY <1>1, <2>1
<1>3. p \in Nat
  BY <1>1, FedLine DEF Params
<1>4. ASSUME p > last_pass PROVE FALSE
  <2>1. x \in 0 .. p
    BY <1>1, <1>3, <1>4
  <2>2. WovenWell(job)
    BY <1>1 DEF Good
  <2> DEFINE numbers == {Line(job, k).pass : k \in Fed(job)}
  <2>3. p \in numbers /\ (\A q \in numbers : 0 .. q \subseteq numbers)
    BY <2>2 DEF WovenWell
  <2>4. x \in numbers
    <3> HIDE DEF x, p, numbers
    <3> QED  BY <2>1, <2>3
  <2>5. PICK m \in Fed(job) : Line(job, m).pass = x
    BY <2>4
  <2>6. Reached(m)
    BY <1>2 DEF Reached
  <2>7. Line(job, m).pass > last_pass
    BY <1>1, <2>5
  <2>8. passes[Line(job, m).pass % job.vmod].pass = Line(job, m).pass
    BY <1>1, <2>6, <2>7 DEF IInv, ReachedPassesWait
  <2>9. passes[NextBank].pass = x
    BY <2>5, <2>8 DEF NextBank
  <2>10. passes[NextBank].pass < 0
    BY DEF PInv, DoneSent
  <2> HIDE DEF x
  <2> QED  BY <1>1, <2>9, <2>10
<1>5. Added(l)
  BY <1>2 DEF Added
<1> QED  BY <1>1, <1>3, <1>4, <1>5

(* ... so every dot row of a page that came in full is on the paper.       *)
THEOREM EveryLineIsPrinted ==
  ASSUME Good PROVE Spec => []EveryLinePrinted
<1>1. PInv => EveryLinePrinted
  <2> SUFFICES ASSUME PInv, pc = "done", lineno > job.lastline
               PROVE  Wanted(job) = {<<d.color, d.line>> : d \in sheet}
    BY DEF EveryLinePrinted
  <2>1. sheet = SentDots
    BY DEF PInv, SheetIsSent
  <2>2. ASSUME NEW d \in sheet PROVE <<d.color, d.line>> \in Wanted(job)
    <3>1. PICK l \in Fed(job) : l[1] \in job.ink /\ d = Dot(job, l)
      BY <2>1, <2>2 DEF SentDots, AddedLines
    <3> QED  BY <3>1, DotOfLine
  <2>3. ASSUME NEW w \in Wanted(job)
        PROVE  \E d \in sheet : w = <<d.color, d.line>>
    <3> DEFINE l == <<w[2][1], w[1], w[2][2]>>
    <3>1. /\ l \in Fed(job) /\ l[1] \in job.ink
          /\ w = <<l[2], <<l[1], l[3]>>>>
      BY <2>3 DEF Wanted, Lines, Fed
    <3> HIDE DEF l
    <3>2. Added(l) /\ Line(job, l).pass <= last_pass
      BY <3>1, AllPassesSent
    <3>3. Dot(job, l) \in SentDots
      BY <3>1, <3>2 DEF SentDots, AddedLines
    <3>4. w = <<Dot(job, l).color, Dot(job, l).line>>
      BY <3>1, DotOfLine
    <3> QED  BY <2>1, <3>3, <3>4
  <2> QED  BY <2>2, <2>3
<1> QED  BY PInvInit, PInvStep, <1>1, PTL DEF Spec

-----------------------------------------------------------------------------
(* Sending a pass prints nothing or is a pass that Page allows.            *)
LEMMA FlushIsAPass ==
  ASSUME Good, PInv, FlushPass
  PROVE  PromisedPage!PrintPass \/ UNCHANGED <<job, sheet, paper>>
<1> DEFINE x   == last_pass + 1
           new == PassDots(x)
<1>1. /\ job \in Jobs /\ job' = job
      /\ last_pass \in Int /\ x \in Nat /\ paper \in Int
      /\ sheet = SentDots
  BY DEF FlushPass, SetVerticalPosition, PInv, BInv, IInv, Typed, TypeOK, SheetIsSent
<1>2. /\ sheet' = sheet \union new
      /\ paper' \in Int /\ paper <= paper'
      /\ \/ new = {} /\ paper' = paper
         \/ /\ new # {}
            /\ \E m \in Fed(job) : /\ Line(job, m).pass = x
                                   /\ paper' = Line(job, m).logicalpassstart
  BY FlushPrints
<1>3. ASSUME NEW d \in new
      PROVE  /\ d.pass = x
             /\ \E l \in Fed(job) : /\ l[1] \in job.ink /\ d = Dot(job, l)
                                    /\ Line(job, l).pass = x
  BY DotOfLine DEF PassDots, AddedLines
<1>4. ASSUME NEW e \in sheet
      PROVE  e.pass < x /\ \E l \in Fed(job) : e = Dot(job, l)
  <2>1. PICK l \in Fed(job) : e = Dot(job, l) /\ Line(job, l).pass <= last_pass
    BY <1>1, <1>4 DEF SentDots, AddedLines
  <2>2. e.pass = Line(job, l).pass /\ Line(job, l).pass \in Nat
    BY <1>1, <2>1, DotOfLine, FedLine DEF Params
  <2> QED  BY <1>1, <2>1, <2>2
<1> HIDE DEF new, x
<1>5. sheet' \ sheet = new
  <2>1. ASSUME NEW d \in new, d \in sheet PROVE FALSE
    <3>1. d.pass = x /\ d.pass < x
      BY <1>3, <1>4, <2>1
    <3> QED  BY <1>1, <3>1
  <2> QED  BY <1>2, <2>1
<1>6. CASE new = {}
  BY <1>1, <1>2, <1>6
<1>7. CASE new # {}
  <2>1. PICK m \in Fed(job) : /\ Line(job, m).pass = x
                              /\ paper' = Line(job, m).logicalpassstart
    BY <1>2, <1>7
  <2>2. ASSUME NEW d \in new
        PROVE  /\ <<d.color, d.line>> \in PromisedPage!Wanted(job)
               /\ PromisedPage!InPlace(d)
               /\ PromisedPage!UnderAJet(d, paper')
               /\ \A e \in sheet : e.pass < d.pass
               /\ \A e \in new : e.pass = d.pass
               /\ \A e \in sheet' :
                    e.color = d.color /\ e.line = d.line => e = d
    <3>1. PICK l \in Fed(job) : /\ l[1] \in job.ink /\ d = Dot(job, l)
                                /\ Line(job, l).pass = x
      BY <1>3
    <3>2. <<d.color, d.line>> \in PromisedPage!Wanted(job)
      <4>1. <<d.color, d.line>> \in Wanted(job)
        BY <3>1, DotOfLine
      <4> QED  BY <4>1 DEF Wanted, Lines, Rows, Subpasses, PromisedPage!Wanted,
                   PromisedPage!Lines, PromisedPage!Rows, PromisedPage!Subpasses
    <3>3. PromisedPage!InPlace(d)
      <4>1. d.line[1] = l[1] /\ d.line[2] = l[3]
        <5>1. d.line = <<l[1], l[3]>>
          BY <3>1, DotOfLine
        <5> QED  BY <5>1
      <4>2. d.at = l[1] + job.head_offset[l[2]] /\ d.color = l[2]
            /\ d.subpass = l[3]
        BY <3>1, DotOfLine
      <4> QED  BY <4>1, <4>2 DEF PromisedPage!InPlace
    <3>4. PromisedPage!UnderAJet(d, paper')
      <4>1. /\ Jet(job, l) \in Nat /\ Jet(job, l) < job.jets /\ job.jets \in Nat
            /\ l[1] + job.head_offset[l[2]] =
                 Line(job, l).logicalpassstart + job.separation * Jet(job, l)
        BY <1>1, LineOnJet
      <4>2. Line(job, l).logicalpassstart = paper'
        BY <1>1, <2>1, <3>1, OneStart
      <4>3. d.at = paper' + job.separation * Jet(job, l)
        BY <3>1, <4>1, <4>2, DotOfLine
      <4>4. Jet(job, l) \in 0 .. job.jets - 1
        BY <4>1
      <4> QED  BY <4>3, <4>4 DEF PromisedPage!UnderAJet
    <3>5. /\ \A e \in sheet : e.pass < d.pass
          /\ \A e \in new : e.pass = d.pass
      BY <1>3, <1>4
    <3>6. ASSUME NEW e \in sheet', e.color = d.color, e.line = d.line
          PROVE  e = d
      <4>1. PICK k \in Fed(job) : e = Dot(job, k)
        BY <1>2, <1>3, <1>4, <3>6
      <4> QED  BY <3>1, <3>6, <4>1, OneDotPerLine
    <3> QED  BY <3>2, <3>3, <3>4, <3>5, <3>6
  <2>3. paper' >= paper /\ sheet \subseteq sheet'
    BY <1>1, <1>2
  <2> QED  BY <1>1, <1>5, <1>7, <2>2, <2>3 DEF PromisedPage!PrintPass
<1> QED  BY <1>6, <1>7

(* The softweave implements Page: whatever is printed is printed by passes *)
(* in order, each further down than the one before or level with it, each  *)
(* dot row in its place under a jet, and none twice.                       *)
THEOREM WeaveImplementsPage ==
  ASSUME Good PROVE Spec => PagePromise
<1>1. Init => PromisedPage!Init
  <2> SUFFICES ASSUME Init PROVE PromisedPage!Init
    OBVIOUS
  <2>1. job \in Jobs /\ sheet = {} /\ paper = 0
    BY DEF Init
  <2>2. IsJob(job)
    BY <2>1, JobFacts
  <2>3. PromisedPage!IsJob(job)
    BY <2>2 DEF IsJob, Positive, Colors, Rows, PromisedPage!IsJob,
       PromisedPage!Positive, PromisedPage!Colors, PromisedPage!Rows
  <2> QED  BY <2>1, <2>3 DEF PromisedPage!Init
<1>2. PInv /\ [Next]_vars => [PromisedPage!PrintPass]_(PromisedPage!vars)
  <2> SUFFICES ASSUME PInv, [Next]_vars
               PROVE  PromisedPage!PrintPass \/ UNCHANGED <<job, sheet, paper>>
    BY DEF PromisedPage!vars
  <2>1. CASE FlushPass
    BY <2>1, FlushIsAPass
  <2>2. CASE ~ FlushPass
    BY <2>2, OnlyFlushPrints DEF vars, printer
  <2> QED  BY <2>1, <2>2
<1>3. PagePromise <=>
        PromisedPage!Init /\ [][PromisedPage!PrintPass]_(PromisedPage!vars)
  BY DEF PagePromise, PromisedPage!Spec
<1> QED  BY PInvInit, PInvStep, <1>1, <1>2, <1>3, PTL DEF Spec
=============================================================================
