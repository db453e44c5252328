--------------------------- MODULE JobListProofs ---------------------------
(***************************************************************************)
(* What TLAPS proves of the job list, for all documents: the print data of *)
(* every job that waits or is to be added are allocated, and are no other  *)
(* job's, so that nothing is printed or combined that was freed, and none  *)
(* are freed twice.  Two things more need documents that are modest, with  *)
(* at most two copies of a page, and panoramas only where no page can wait *)
(* for another: that no print data are forgotten, and that the pages come  *)
(* out in the order in which they were read.                               *)
(***************************************************************************)
EXTENDS JobList, SequenceTheorems, TLAPS

Ids(s)      == {s[n].data : n \in DOMAIN s}
Distinct(s) == \A n, m \in DOMAIN s : s[n].data = s[m].data => n = m

(* Jobs and their print data: none were freed, none are another job's.     *)
DataAreThere ==
  /\ Distinct(list) /\ Distinct(jobs)
  /\ Ids(list) \intersect Ids(jobs) = {}
  /\ Ids(list) \union Ids(jobs) \subseteq DOMAIN memory

JobType == [copies : Nat \ {0}, kind : STRING, can_combine : BOOLEAN,
            data : Nat]
ReadType == Seq([page : Nat, copies : Nat \ {0}, kind : STRING,
                 can_combine : BOOLEAN])

Shaped ==
  /\ document \in Seq(ReadType)
  /\ \A n \in DOMAIN document : Len(document[n]) \in 1 .. 3
  /\ jobs \in Seq(JobType) /\ list \in Seq(JobType)
  /\ Len(list) <= 3
  /\ fresh \in Nat \ {0}
  /\ DOMAIN memory \subseteq 1 .. fresh - 1
  /\ read_page \in BOOLEAN

(* What there is at each place of the main loop.                           *)
AtRead   == /\ jobs = << >> /\ Len(list) <= 2
            /\ entry = 1 /\ copy = 0 /\ status = "running"
AtAppend == /\ jobs # << >>
            /\ entry = 1 /\ copy = 0 /\ status = "running"
AtPrint  == /\ jobs = << >>
            /\ entry \in 1 .. Len(list) /\ copy \in 0 .. list[entry].copies - 1
            /\ status = "running"
AtEnd    == /\ jobs = << >> /\ list = << >>
            /\ status \in {"ok", "failed"}
Places ==
  /\ pc \in {"read", "append", "print", "done"}
  /\ pc = "read" => AtRead
  /\ pc = "append" => AtAppend
  /\ pc = "print" => AtPrint
  /\ pc = "done" => AtEnd

IInv == Shaped /\ Places /\ DataAreThere

-----------------------------------------------------------------------------
(* What the list takes of some new jobs: the first three of all.           *)
LEMMA AddedIs ==
  ASSUME NEW e \in Seq(JobType), NEW new \in Seq(JobType)
  PROVE  /\ Added(e, new) \in Seq(JobType)
         /\ Len(Added(e, new)) <= 3
         /\ Len(Added(e, new)) <= Len(e) + Len(new)
         /\ Len(e) + Len(new) <= 3 => Len(Added(e, new)) = Len(e) + Len(new)
         /\ Len(e) + Len(new) > 3 => Len(Added(e, new)) = 3
         /\ \A n \in 1 .. Len(Added(e, new)) :
              Added(e, new)[n] = IF n <= Len(e) THEN e[n] ELSE new[n - Len(e)]
<1> DEFINE all == e \o new
           m   == IF Len(all) < 3 THEN Len(all) ELSE 3
<1>1. /\ all \in Seq(JobType) /\ Len(all) = Len(e) + Len(new)
      /\ \A n \in 1 .. Len(all) :
           all[n] = IF n <= Len(e) THEN e[n] ELSE new[n - Len(e)]
  BY ConcatProperties
<1>2. Len(e) \in Nat /\ Len(new) \in Nat
  BY LenProperties
<1>3. Added(e, new) = SubSeq(all, 1, m)
  BY DEF Added, MaxJobEntries
<1> HIDE DEF all
<1>4. m \in 0 .. Len(all) /\ m <= 3 /\ (Len(all) <= 3 => m = Len(all))
      /\ (Len(all) > 3 => m = 3)
  BY <1>1, <1>2
<1> HIDE DEF m
<1>5. /\ SubSeq(all, 1, m) \in Seq(JobType)
      /\ Len(SubSeq(all, 1, m)) = m
      /\ \A n \in 1 .. m : SubSeq(all, 1, m)[n] = all[n]
  <2>1. \A n \in 1 .. m : all[n] \in JobType
    BY <1>1, <1>4, ElementOfSeq
  <2>2. /\ SubSeq(all, 1, m) \in Seq(JobType)
        /\ Len(SubSeq(all, 1, m)) = IF 1 <= m THEN m - 1 + 1 ELSE 0
        /\ \A i \in 1 .. m - 1 + 1 : SubSeq(all, 1, m)[i] = all[1 + i - 1]
    BY <1>1, <1>4, <2>1, SubSeqProperties
  <2> QED  BY <1>2, <1>4, <2>2
<1> QED  BY <1>1, <1>2, <1>3, <1>4, <1>5

LEMMA IdsHas ==
  ASSUME NEW s, NEW n \in DOMAIN s
  PROVE  s[n].data \in Ids(s)
BY DEF Ids

(* An append in general: e is what stays of the list, new what comes for   *)
(* the first of the jobs, freed what is freed, and the data that new jobs  *)
(* have are either that job's or allocated now.                            *)
Allocated == IF fresh' = fresh THEN {} ELSE {fresh}

LEMMA AppendKeeps ==
  ASSUME Shaped, DataAreThere, jobs # << >>,
         NEW e \in Seq(JobType), NEW new \in Seq(JobType), NEW freed,
         Distinct(e), Ids(e) \subseteq Ids(list),
         Distinct(new), Ids(new) \subseteq {jobs[1].data} \union Allocated,
         Ids(e) \intersect freed = {}, Ids(new) \intersect freed = {},
         freed \subseteq Ids(list) \union {jobs[1].data},
         Ids(jobs) \intersect freed \subseteq {jobs[1].data},
         fresh' \in {fresh, fresh + 1},
         DOMAIN memory' = (DOMAIN memory \ freed) \union Allocated,
         list' = Added(e, new), jobs' = Tail(jobs),
         UNCHANGED <<document, read_page>>
  PROVE  Shaped' /\ DataAreThere'
<1>1. /\ list' \in Seq(JobType) /\ Len(list') <= 3
      /\ Len(list') <= Len(e) + Len(new)
      /\ \A n \in 1 .. Len(list') :
           list'[n] = IF n <= Len(e) THEN e[n] ELSE new[n - Len(e)]
  BY AddedIs
<1>2. /\ jobs' \in Seq(JobType) /\ Len(jobs') = Len(jobs) - 1
      /\ \A n \in 1 .. Len(jobs') : jobs'[n] = jobs[n + 1]
  BY HeadTailProperties DEF Shaped
<1>3. /\ Len(e) \in Nat /\ Len(new) \in Nat /\ Len(jobs) \in Nat \ {0}
      /\ Len(list') \in Nat /\ Len(jobs') \in Nat /\ Len(list) \in Nat
      /\ DOMAIN e = 1 .. Len(e) /\ DOMAIN new = 1 .. Len(new)
      /\ DOMAIN jobs = 1 .. Len(jobs) /\ DOMAIN list' = 1 .. Len(list')
      /\ DOMAIN jobs' = 1 .. Len(jobs') /\ DOMAIN list = 1 .. Len(list)
  BY <1>1, <1>2, LenProperties, EmptySeq DEF Shaped
<1>4. Shaped'
  <2>1. /\ fresh \in Nat \ {0} /\ DOMAIN memory \subseteq 1 .. fresh - 1
    BY DEF Shaped
  <2>2. fresh' \in Nat \ {0} /\ DOMAIN memory' \subseteq 1 .. fresh' - 1
    BY <2>1 DEF Allocated
  <2> QED  BY <1>1, <1>2, <2>2 DEF Shaped
<1>5. /\ fresh \notin DOMAIN memory
      /\ Ids(list) \subseteq DOMAIN memory /\ Ids(jobs) \subseteq DOMAIN memory
      /\ Ids(list) \intersect Ids(jobs) = {}
  BY DEF Shaped, DataAreThere
<1>6. jobs[1].data \in Ids(jobs)
  <2>1. 1 \in DOMAIN jobs
    BY <1>3
  <2> QED  BY <2>1, IdsHas
<1>7. Ids(e) \intersect Ids(new) = {}
  BY <1>5, <1>6 DEF Allocated
<1>8. Ids(list') \subseteq Ids(e) \union Ids(new)
  <2> SUFFICES ASSUME NEW n \in 1 .. Len(list')
               PROVE  list'[n].data \in Ids(e) \union Ids(new)
    BY <1>3 DEF Ids
  <2>1. CASE n <= Len(e)
    <3>1. n \in DOMAIN e /\ list'[n] = e[n]
      BY <1>1, <1>3, <2>1
    <3> QED  BY <3>1, IdsHas
  <2>2. CASE n > Len(e)
    <3>1. n - Len(e) \in DOMAIN new /\ list'[n] = new[n - Len(e)]
      BY <1>1, <1>3, <2>2
    <3> QED  BY <3>1, IdsHas
  <2> QED  BY <1>3, <2>1, <2>2
<1>9. Distinct(list')
  <2> SUFFICES ASSUME NEW n \in 1 .. Len(list'), NEW m \in 1 .. Len(list'),
                      list'[n].data = list'[m].data
               PROVE  n = m
    BY <1>3 DEF Distinct
  <2>1. CASE n <= Len(e) /\ m <= Len(e)
    <3>1. n \in DOMAIN e /\ m \in DOMAIN e
      BY <1>3, <2>1
    <3>2. list'[n] = e[n] /\ list'[m] = e[m]
      BY <1>1, <2>1
    <3> QED  BY <3>1, <3>2 DEF Distinct
  <2>2. CASE n > Len(e) /\ m > Len(e)
    <3>1. n - Len(e) \in 1 .. Len(new) /\ m - Len(e) \in 1 .. Len(new)
      BY <1>1, <1>3, <2>2
    <3>2. list'[n] = new[n - Len(e)] /\ list'[m] = new[m - Len(e)]
      BY <1>1, <1>3, <2>2
    <3>3. n - Len(e) = m - Len(e)
      BY <1>3, <3>1, <3>2 DEF Distinct
    <3> QED  BY <1>3, <3>3
  <2>3. ASSUME NEW k \in 1 .. Len(list'), NEW l \in 1 .. Len(list'),
               k <= Len(e), l > Len(e)
        PROVE  list'[k].data # list'[l].data
    <3>1. k \in 1 .. Len(e) /\ l - Len(e) \in 1 .. Len(new)
      BY <1>1, <1>3, <2>3
    <3>2. list'[k] = e[k] /\ list'[l] = new[l - Len(e)]
      BY <1>1, <1>3, <2>3
    <3>3. e[k].data \in Ids(e) /\ new[l - Len(e)].data \in Ids(new)
      BY <1>3, <3>1 DEF Ids
    <3> QED  BY <1>7, <3>2, <3>3
  <2> QED  BY <1>3, <2>1, <2>2, <2>3
<1>10. Distinct(jobs')
  <2> SUFFICES ASSUME NEW n \in 1 .. Len(jobs'), NEW m \in 1 .. Len(jobs'),
                      jobs'[n].data = jobs'[m].data
               PROVE  n = m
    BY <1>3 DEF Distinct
  <2>1. n + 1 \in DOMAIN jobs /\ m + 1 \in DOMAIN jobs
    BY <1>2, <1>3
  <2>2. jobs[n + 1].data = jobs[m + 1].data
    BY <1>2
  <2>3. n + 1 = m + 1
    BY <2>1, <2>2 DEF DataAreThere, Distinct
  <2> QED  BY <1>3, <2>3
<1>11. Ids(jobs') \subseteq Ids(jobs) \ {jobs[1].data}
  <2> SUFFICES ASSUME NEW n \in 1 .. Len(jobs')
               PROVE  jobs'[n].data \in Ids(jobs) \ {jobs[1].data}
    BY <1>3 DEF Ids
  <2>1. n + 1 \in 1 .. Len(jobs) /\ 1 \in 1 .. Len(jobs) /\ n + 1 # 1
    BY <1>2, <1>3
  <2>2. jobs[n + 1].data # jobs[1].data
    BY <1>3, <2>1 DEF DataAreThere, Distinct
  <2>3. jobs[n + 1].data \in Ids(jobs)
    BY <1>3, <2>1, IdsHas
  <2> QED  BY <1>2, <2>2, <2>3
<1>12. Ids(list') \intersect Ids(jobs') = {}
  BY <1>5, <1>6, <1>8, <1>11 DEF Allocated
<1>13. Ids(list') \union Ids(jobs') \subseteq DOMAIN memory'
  BY <1>5, <1>6, <1>8, <1>11 DEF Allocated
<1>14. DataAreThere'
  BY <1>9, <1>10, <1>12, <1>13 DEF DataAreThere, Ids, Distinct
<1> QED  BY <1>4, <1>14

LEMMA OneToThree ==
  ASSUME NEW a \in Nat, NEW b \in Nat \ {0}, NEW c \in Nat, c <= 3,
         a + b <= 3 => c = a + b, a + b > 3 => c = 3
  PROVE  c \in 1 .. 3
OBVIOUS

LEMMA OneOrTwo == \A c \in 1 .. 3 : c # 3 => c <= 2
OBVIOUS

LEMMA AppendPlaces ==
  ASSUME Shaped, Places, Shaped', pc = "append",
         NEW e \in Seq(JobType), NEW new \in Seq(JobType), new # << >>,
         Append1(Added(e, new))
  PROVE  Places'
<1>1. /\ list' = Added(e, new) /\ jobs' = Tail(jobs)
      /\ pc' = IF Len(jobs) > 1 THEN "append"
               ELSE IF CanWait(list') THEN "read" ELSE "print"
      /\ UNCHANGED <<entry, copy, status>>
  BY DEF Append1
<1>2. jobs # << >> /\ entry = 1 /\ copy = 0 /\ status = "running"
  BY DEF Places, AtAppend
<1>3. Len(jobs) \in Nat \ {0} /\ Len(jobs') = Len(jobs) - 1
      /\ jobs' \in Seq(JobType)
  BY <1>1, <1>2, HeadTailProperties, LenProperties, EmptySeq DEF Shaped
<1>4. Len(list') \in 1 .. 3 /\ list' \in Seq(JobType)
  <2>1. Len(e) \in Nat /\ Len(new) \in Nat \ {0}
    BY LenProperties, EmptySeq
  <2>2. /\ list' \in Seq(JobType) /\ Len(list') <= 3
        /\ Len(e) + Len(new) <= 3 => Len(list') = Len(e) + Len(new)
        /\ Len(e) + Len(new) > 3 => Len(list') = 3
    BY <1>1, AddedIs
  <2>3. Len(list') \in Nat
    BY <2>2, LenProperties
  <2>4. Len(list') \in 1 .. 3
    BY <2>1, <2>2, <2>3, OneToThree
  <2> QED  BY <2>2, <2>4
<1>5. list'[1].copies \in Nat \ {0}
  <2>1. list'[1] \in JobType
    BY <1>4, ElementOfSeq
  <2> QED  BY <2>1 DEF JobType
<1>6. CASE Len(jobs) > 1
  <2>1. jobs' # << >>
    BY <1>3, <1>6, EmptySeq
  <2> QED  BY <1>1, <1>2, <1>6, <2>1 DEF Places, AtAppend
<1>7. CASE ~(Len(jobs) > 1)
  <2>1. jobs' = << >>
    BY <1>3, <1>7, EmptySeq
  <2>2. CASE CanWait(list')
    <3>1. pc' = "read"
      BY <1>1, <1>7, <2>2
    <3>2. Len(list') # 3
      BY <2>2 DEF CanWait, MaxJobEntries
    <3>3. Len(list') <= 2
      BY <1>4, <3>2, OneOrTwo
    <3>4. entry' = 1 /\ copy' = 0 /\ status' = "running"
      BY <1>1, <1>2
    <3> QED  BY <2>1, <3>1, <3>3, <3>4 DEF Places, AtRead
  <2>3. CASE ~CanWait(list')
    <3>1. pc' = "print"
      BY <1>1, <1>7, <2>3
    <3> QED  BY <1>1, <1>2, <1>4, <1>5, <2>1, <3>1 DEF Places, AtPrint
  <2> QED  BY <2>2, <2>3
<1> QED  BY <1>6, <1>7

(* The first of the jobs to be added, and the one that waits.              *)
LEMMA TheJobs ==
  ASSUME Shaped, DataAreThere, jobs # << >>
  PROVE  /\ Head(jobs) = jobs[1] /\ jobs[1] \in JobType
         /\ jobs[1].data \in Ids(jobs)
         /\ list # << >> =>
              /\ Last(list) \in JobType /\ Last(list).data \in Ids(list)
              /\ Front(list) \in Seq(JobType)
              /\ Len(Front(list)) = Len(list) - 1
              /\ Distinct(Front(list))
              /\ Ids(Front(list)) = Ids(list) \ {Last(list).data}
<1>1. Len(jobs) \in Nat \ {0} /\ DOMAIN jobs = 1 .. Len(jobs)
  BY LenProperties, EmptySeq DEF Shaped
<1>2. Head(jobs) = jobs[1] /\ jobs[1] \in JobType
  BY <1>1, ElementOfSeq DEF Shaped
<1>3. jobs[1].data \in Ids(jobs)
  BY <1>1, IdsHas
<1>4. ASSUME list # << >>
      PROVE  /\ Last(list) \in JobType /\ Last(list).data \in Ids(list)
             /\ Front(list) \in Seq(JobType)
             /\ Len(Front(list)) = Len(list) - 1
             /\ Distinct(Front(list))
             /\ Ids(Front(list)) = Ids(list) \ {Last(list).data}
  <2> DEFINE l == Len(list)
             f == Front(list)
  <2>1. l \in Nat \ {0} /\ DOMAIN list = 1 .. l /\ list \in Seq(JobType)
    BY <1>4, LenProperties, EmptySeq DEF Shaped
  <2>2. Last(list) = list[l]
    BY DEF Last
  <2>3. l \in DOMAIN list /\ list[l] \in JobType
    BY <2>1, ElementOfSeq
  <2>4. list[l].data \in Ids(list)
    BY <2>3, IdsHas
  <2>5. /\ f \in Seq(JobType) /\ Len(f) = l - 1
        /\ \A n \in 1 .. l - 1 : f[n] = list[n]
    <3>1. \A n \in 1 .. l - 1 : list[n] \in JobType
      BY <2>1, ElementOfSeq
    <3>2. f = SubSeq(list, 1, l - 1) /\ l - 1 \in Int /\ 1 \in Int
      BY <2>1 DEF Front
    <3>3. /\ SubSeq(list, 1, l - 1) \in Seq(JobType)
          /\ Len(SubSeq(list, 1, l - 1)) =
               IF 1 <= l - 1 THEN (l - 1) - 1 + 1 ELSE 0
          /\ \A n \in 1 .. (l - 1) - 1 + 1 :
               SubSeq(list, 1, l - 1)[n] = list[1 + n - 1]
      BY <3>1, <3>2, SubSeqProperties
    <3> QED  BY <2>1, <3>2, <3>3
  <2>6. DOMAIN f = 1 .. l - 1
    BY <2>5, LenProperties
  <2> HIDE DEF l, f
  <2>7. \A n, m \in DOMAIN list : list[n].data = list[m].data => n = m
    BY DEF DataAreThere, Distinct
  <2>8. Distinct(f)
    <3> SUFFICES ASSUME NEW n \in DOMAIN f, NEW m \in DOMAIN f,
                        f[n].data = f[m].data
                 PROVE  n = m
      BY DEF Distinct
    <3> QED  BY <2>1, <2>5, <2>6, <2>7
  <2>9. Ids(f) = Ids(list) \ {list[l].data}
    <3>1. ASSUME NEW n \in DOMAIN f
          PROVE  f[n].data \in Ids(list) \ {list[l].data}
      <4>1. n \in DOMAIN list /\ f[n] = list[n] /\ n # l
        BY <2>1, <2>5, <2>6
      <4> QED  BY <2>3, <2>7, <4>1, IdsHas
    <3>2. ASSUME NEW n \in DOMAIN list, list[n].data # list[l].data
          PROVE  list[n].data \in Ids(f)
      <4>1. n \in DOMAIN f /\ f[n] = list[n]
        BY <2>1, <2>5, <2>6, <3>2
      <4> QED  BY <4>1, IdsHas
    <3> QED  BY <3>1, <3>2 DEF Ids
  <2> QED  BY <2>2, <2>3, <2>4, <2>5, <2>8, <2>9 DEF l, f
<1> QED  BY <1>2, <1>3, <1>4

(* Sequences of one and of two jobs.                                       *)
LEMMA OneJob ==
  ASSUME NEW a \in JobType
  PROVE  /\ <<a>> \in Seq(JobType) /\ <<a>> # << >> /\ Len(<<a>>) = 1
         /\ Distinct(<<a>>) /\ Ids(<<a>>) = {a.data}
BY DEF Distinct, Ids

LEMMA TwoJobs ==
  ASSUME NEW a \in JobType, NEW b \in JobType, a.data # b.data
  PROVE  /\ <<a, b>> \in Seq(JobType) /\ <<a, b>> # << >> /\ Len(<<a, b>>) = 2
         /\ Distinct(<<a, b>>) /\ Ids(<<a, b>>) = {a.data, b.data}
BY DEF Distinct, Ids

-----------------------------------------------------------------------------
LEMMA InitIsGood == Init => IInv
<1> SUFFICES ASSUME Init  PROVE  IInv
  OBVIOUS
<1>1. /\ document \in Seq(ReadType)
      /\ \A n \in DOMAIN document : Len(document[n]) \in 1 .. 3
  BY DocumentsAssumption DEF Init, ReadType, MaxJobsRead
<1>2. /\ << >> \in Seq(JobType) /\ Len(<< >>) = 0
      /\ Distinct(<< >>) /\ Ids(<< >>) = {}
  BY EmptySeq DEF Distinct, Ids
<1>3. jobs = << >> /\ list = << >> /\ memory = << >> /\ fresh = 1
      /\ DOMAIN memory = {} /\ read_page = FALSE
  BY DEF Init
<1>4. Shaped
  <2>1. jobs \in Seq(JobType) /\ list \in Seq(JobType) /\ Len(list) <= 3
    BY <1>2, <1>3
  <2>2. fresh \in Nat \ {0} /\ DOMAIN memory \subseteq 1 .. fresh - 1
    BY <1>3
  <2> QED  BY <1>1, <1>3, <2>1, <2>2 DEF Shaped
<1>5. DataAreThere
  BY <1>2, <1>3 DEF DataAreThere
<1>6. Places
  BY <1>2, <1>3 DEF Init, Places, AtRead
<1> QED  BY <1>4, <1>5, <1>6 DEF IInv

LEMMA ReadPageKeeps == IInv /\ ReadPage => IInv'
<1> SUFFICES ASSUME Shaped, Places, DataAreThere, ReadPage  PROVE  IInv'
  BY DEF IInv
<1> DEFINE read == Head(document)
           new  == [k \in DOMAIN read |->
                      [copies |-> read[k].copies, kind |-> read[k].kind,
                       can_combine |-> read[k].can_combine,
                       data |-> fresh + k - 1]]
<1>1. /\ pc = "read" /\ document # << >> /\ jobs' = new
      /\ DOMAIN memory' = DOMAIN memory \union fresh .. fresh + Len(read) - 1
      /\ fresh' = fresh + Len(read)
      /\ document' = Tail(document) /\ read_page' = TRUE /\ pc' = "append"
      /\ UNCHANGED <<list, entry, copy, status>>
  BY DEF ReadPage
<1>2. AtRead
  BY <1>1 DEF Places
<1>3. /\ read \in ReadType /\ Len(read) \in 1 .. 3
      /\ document' \in Seq(ReadType)
      /\ \A n \in DOMAIN document' : Len(document'[n]) \in 1 .. 3
  <2>1. /\ document \in Seq(ReadType)
        /\ \A n \in DOMAIN document : Len(document[n]) \in 1 .. 3
    BY DEF Shaped
  <2>2. Len(document) \in Nat \ {0} /\ DOMAIN document = 1 .. Len(document)
    BY <1>1, <2>1, LenProperties, EmptySeq
  <2>3. read = document[1] /\ 1 \in DOMAIN document /\ read \in ReadType
    BY <2>1, <2>2, ElementOfSeq
  <2>4. /\ document' \in Seq(ReadType) /\ Len(document') = Len(document) - 1
        /\ \A n \in 1 .. Len(document') : document'[n] = document[n + 1]
    BY <1>1, <2>1, HeadTailProperties
  <2>5. DOMAIN document' = 1 .. Len(document')
    BY <2>4, LenProperties
  <2> QED  BY <2>1, <2>2, <2>3, <2>4, <2>5
<1>4. /\ DOMAIN read = 1 .. Len(read)
      /\ \A k \in 1 .. Len(read) :
           /\ read[k].copies \in Nat \ {0} /\ read[k].kind \in STRING
           /\ read[k].can_combine \in BOOLEAN
  <2>1. \A k \in 1 .. Len(read) :
          read[k] \in [page : Nat, copies : Nat \ {0}, kind : STRING,
                       can_combine : BOOLEAN]
    BY <1>3, ElementOfSeq DEF ReadType
  <2>2. DOMAIN read = 1 .. Len(read)
    BY <1>3, LenProperties DEF ReadType
  <2> QED  BY <2>1, <2>2
<1>5. fresh \in Nat \ {0} /\ DOMAIN memory \subseteq 1 .. fresh - 1
  BY DEF Shaped
<1> HIDE DEF read
<1>6. /\ DOMAIN new = 1 .. Len(read)
      /\ \A k \in 1 .. Len(read) :
           new[k] \in JobType /\ new[k].data = fresh + k - 1
  BY <1>3, <1>4, <1>5 DEF JobType
<1> HIDE DEF new
<1>7. new \in Seq(JobType) /\ Len(new) = Len(read)
  <2>1. new \in [1 .. Len(read) -> JobType]
    BY <1>6 DEF new
  <2> QED  BY <1>3, <2>1, SeqDef, LenProperties
<1>9. Ids(new) \subseteq fresh .. fresh + Len(read) - 1
  BY <1>3, <1>5, <1>6 DEF Ids
<1>10. Shaped'
  <2>1. fresh' \in Nat \ {0} /\ DOMAIN memory' \subseteq 1 .. fresh' - 1
    BY <1>1, <1>3, <1>5
  <2> QED  BY <1>1, <1>3, <1>7, <2>1 DEF Shaped
<1>11. DataAreThere'
  <2>1. Distinct(new)
    BY <1>3, <1>5, <1>6 DEF Distinct
  <2>2. Ids(list) \subseteq DOMAIN memory /\ Distinct(list)
    BY DEF DataAreThere
  <2>3. Ids(list) \intersect Ids(new) = {}
    BY <1>5, <1>9, <2>2
  <2>4. Ids(list) \union Ids(new) \subseteq DOMAIN memory'
    BY <1>1, <1>9, <2>2
  <2>5. /\ Distinct(list') /\ Distinct(jobs')
        /\ Ids(list') \intersect Ids(jobs') = {}
        /\ Ids(list') \union Ids(jobs') \subseteq DOMAIN memory'
    BY <1>1, <2>1, <2>2, <2>3, <2>4
  <2> QED  BY <2>5 DEF DataAreThere, Ids, Distinct
<1>12. Places'
  <2>1. jobs' # << >>
    BY <1>1, <1>3, <1>7, EmptySeq
  <2> QED  BY <1>1, <1>2, <2>1 DEF Places, AtRead, AtAppend
<1> QED  BY <1>10, <1>11, <1>12 DEF IInv

LEMMA TailOfDocument ==
  ASSUME Shaped, document # << >>
  PROVE  /\ Tail(document) \in Seq(ReadType)
         /\ Len(document) \in Nat \ {0} /\ DOMAIN document = 1 .. Len(document)
         /\ Len(Tail(document)) = Len(document) - 1
         /\ DOMAIN Tail(document) = 1 .. Len(document) - 1
         /\ \A n \in 1 .. Len(document) - 1 :
              /\ Tail(document)[n] = document[n + 1]
              /\ Len(Tail(document)[n]) \in 1 .. 3
<1>1. /\ document \in Seq(ReadType)
      /\ \A n \in DOMAIN document : Len(document[n]) \in 1 .. 3
  BY DEF Shaped
<1>2. Len(document) \in Nat \ {0} /\ DOMAIN document = 1 .. Len(document)
  BY <1>1, LenProperties, EmptySeq
<1>3. /\ Tail(document) \in Seq(ReadType)
      /\ Len(Tail(document)) = Len(document) - 1
      /\ \A n \in 1 .. Len(Tail(document)) : Tail(document)[n] = document[n + 1]
  BY <1>1, HeadTailProperties
<1>4. DOMAIN Tail(document) = 1 .. Len(document) - 1
  BY <1>3, LenProperties
<1> QED  BY <1>1, <1>2, <1>3, <1>4

LEMMA ReadFailsKeeps == IInv /\ ReadFails => IInv'
<1> SUFFICES ASSUME Shaped, Places, DataAreThere, ReadFails  PROVE  IInv'
  BY DEF IInv
<1>1. /\ pc = "read"
      /\ document' = IF document = << >> THEN << >> ELSE Tail(document)
      /\ UNCHANGED <<read_page, jobs, list, memory, fresh, entry, copy>>
  BY DEF ReadFails, heap
<1>2. AtRead
  BY <1>1 DEF Places
<1>3. /\ document' \in Seq(ReadType)
      /\ \A n \in DOMAIN document' : Len(document'[n]) \in 1 .. 3
  <2>1. CASE document = << >>
    BY <1>1, <2>1 DEF Shaped
  <2>2. CASE document # << >>
    BY <1>1, <2>2, TailOfDocument
  <2> QED  BY <2>1, <2>2
<1>4. Shaped'
  BY <1>1, <1>3 DEF Shaped
<1>5. DataAreThere'
  BY <1>1 DEF DataAreThere, Ids, Distinct
<1>6. Places'
  <2>1. CASE list # << >>
    <3>1. pc' = "print" /\ status' = status
      BY <2>1 DEF ReadFails
    <3>2. Len(list) \in Nat \ {0} /\ list[1].copies \in Nat \ {0}
      <4>1. list \in Seq(JobType)
        BY DEF Shaped
      <4>2. Len(list) \in Nat \ {0}
        BY <2>1, <4>1, LenProperties, EmptySeq
      <4>3. list[1] \in JobType
        BY <4>1, <4>2, ElementOfSeq
      <4> QED  BY <4>2, <4>3 DEF JobType
    <3> QED  BY <1>1, <1>2, <3>1, <3>2 DEF Places, AtRead, AtPrint
  <2>2. CASE list = << >>
    <3>1. pc' = "done" /\ status' \in {"ok", "failed"}
      BY <2>2 DEF ReadFails
    <3> QED  BY <1>1, <1>2, <2>2, <3>1 DEF Places, AtRead, AtEnd
  <2> QED  BY <2>1, <2>2
<1> QED  BY <1>4, <1>5, <1>6 DEF IInv

(* What an append leaves alone, and what a new sheet changes.              *)
LEMMA SheetAllocates ==
  ASSUME Shaped, NEW old, NEW job, NEW freed, NewSheet(old, job, freed)
  PROVE  /\ fresh' \in {fresh, fresh + 1} /\ Allocated = {fresh}
         /\ DOMAIN memory' = (DOMAIN memory \ freed) \union Allocated
         /\ fresh \notin DOMAIN memory
<1>1. fresh \in Nat \ {0} /\ DOMAIN memory \subseteq 1 .. fresh - 1
  BY DEF Shaped
<1>2. /\ fresh' = fresh + 1
      /\ DOMAIN memory' = (DOMAIN memory \ freed) \union {fresh}
  BY DEF NewSheet
<1>3. Allocated = {fresh}
  BY <1>1, <1>2 DEF Allocated
<1> QED  BY <1>1, <1>2, <1>3

(* The job that comes for two that share a sheet, and what is left over.   *)
LEMMA OneAndOne ==
  ASSUME NEW a \in JobType, NEW b \in JobType
  PROVE  <<a>> \o <<b>> = <<a, b>> /\ <<a>> \o << >> = <<a>>
<1>1. <<a>> \in Seq(JobType) /\ <<b>> \in Seq(JobType)
  OBVIOUS
<1>2. <<a>> \o << >> = <<a>>
  BY <1>1, ConcatEmptySeq
<1>3. <<a>> \o <<b>> = <<a, b>>
  <2>1. /\ <<a>> \o <<b>> \in Seq(JobType) /\ Len(<<a>> \o <<b>>) = 2
        /\ (<<a>> \o <<b>>)[1] = a /\ (<<a>> \o <<b>>)[2] = b
    BY <1>1, ConcatProperties
  <2>2. /\ <<a, b>> \in Seq(JobType) /\ Len(<<a, b>>) = 2
        /\ <<a, b>>[1] = a /\ <<a, b>>[2] = b
    OBVIOUS
  <2> DEFINE s == <<a>> \o <<b>>
             t == <<a, b>>
  <2>3. /\ s \in Seq(JobType) /\ t \in Seq(JobType)
        /\ Len(s) = Len(t) /\ \A i \in 1 .. Len(s) : s[i] = t[i]
    <3>1. \A i \in 1 .. 2 : i = 1 \/ i = 2
      OBVIOUS
    <3> HIDE DEF s, t
    <3>2. /\ Len(s) = 2 /\ s[1] = a /\ s[2] = b
          /\ Len(t) = 2 /\ t[1] = a /\ t[2] = b
      BY <2>1, <2>2 DEF s, t
    <3>3. \A i \in 1 .. 2 : s[i] = t[i]
      BY <3>1, <3>2
    <3> QED  BY <2>1, <2>2, <3>2, <3>3 DEF s, t
  <2> HIDE DEF s, t
  <2>4. s = t
    BY <2>3, SeqEqual
  <2> QED  BY <2>4 DEF s, t
<1> QED  BY <1>2, <1>3

LEMMA OneCopy ==
  ASSUME NEW job \in JobType
  PROVE  /\ [job EXCEPT !.copies = 1] \in JobType
         /\ [job EXCEPT !.copies = 1].data = job.data
         /\ job.copies \in Nat \ {0}
BY DEF JobType

LEMMA NewJobs ==
  ASSUME Shaped, NEW old \in JobType, NEW job \in JobType, job.data # fresh,
         NEW new, new = <<Combined(old, job)>> \o LeftOver(job)
  PROVE  /\ new \in Seq(JobType) /\ new # << >> /\ Len(new) \in 1 .. 2
         /\ Distinct(new)
         /\ Ids(new) = IF job.copies = 2 THEN {fresh, job.data} ELSE {fresh}
<1> DEFINE a == Combined(old, job)
           b == [job EXCEPT !.copies = 1]
<1>1. a \in JobType /\ a.data = fresh
  BY DEF Combined, JobType, Shaped
<1>2. b \in JobType /\ b.data = job.data /\ job.copies \in Nat \ {0}
  BY OneCopy
<1>3. LeftOver(job) = IF job.copies = 2 THEN <<b>> ELSE << >>
  BY <1>2 DEF LeftOver
<1>4. new = <<a>> \o LeftOver(job)
  OBVIOUS
<1> HIDE DEF a, b
<1>5. CASE job.copies = 2
  <2>1. new = <<a, b>>
    BY <1>1, <1>2, <1>3, <1>4, <1>5, OneAndOne
  <2>2. a.data # b.data
    BY <1>1, <1>2
  <2>3. /\ <<a, b>> \in Seq(JobType) /\ <<a, b>> # << >> /\ Len(<<a, b>>) = 2
        /\ Distinct(<<a, b>>) /\ Ids(<<a, b>>) = {a.data, b.data}
    BY <1>1, <1>2, <2>2, TwoJobs
  <2>4. /\ new \in Seq(JobType) /\ new # << >> /\ Distinct(new)
        /\ Len(new) = 2 /\ Ids(new) = {fresh, job.data}
    BY <1>1, <1>2, <2>1, <2>3, Zenon
  <2> QED  BY <1>5, <2>4
<1>6. CASE job.copies # 2
  <2>1. new = <<a>>
    BY <1>1, <1>2, <1>3, <1>4, <1>6, OneAndOne
  <2>2. /\ <<a>> \in Seq(JobType) /\ <<a>> # << >> /\ Len(<<a>>) = 1
        /\ Distinct(<<a>>) /\ Ids(<<a>>) = {a.data}
    BY <1>1, OneJob
  <2>3. /\ new \in Seq(JobType) /\ new # << >> /\ Distinct(new)
        /\ Len(new) = 1 /\ Ids(new) = {fresh}
    BY <1>1, <2>1, <2>2, Zenon
  <2> QED  BY <1>6, <2>3
<1> QED  BY <1>5, <1>6

(* An append: e is what stays of the list, new comes for the first of the  *)
(* jobs, freed is freed.  With at most two copies of it, nothing is left   *)
(* over: what was there stays, is new, or is freed, and one entry is added *)
(* at most.                                                                *)
Appends(e, new, freed) ==
  /\ e \in Seq(JobType) /\ new \in Seq(JobType) /\ new # << >>
  /\ Distinct(e) /\ Ids(e) \subseteq Ids(list)
  /\ Distinct(new) /\ Ids(new) \subseteq {jobs[1].data} \union Allocated
  /\ Ids(e) \intersect freed = {} /\ Ids(new) \intersect freed = {}
  /\ freed \subseteq Ids(list) \union {jobs[1].data}
  /\ Ids(jobs) \intersect freed \subseteq {jobs[1].data}
  /\ fresh' \in {fresh, fresh + 1}
  /\ DOMAIN memory' = (DOMAIN memory \ freed) \union Allocated
  /\ Append1(Added(e, new))

AllStays(e, new, freed) ==
  /\ Ids(list) \subseteq Ids(e) \union freed
  /\ {jobs[1].data} \union Allocated \subseteq Ids(new) \union freed
  /\ Len(e) + Len(new) <= Len(list) + 1
  /\ jobs[1].can_combine \/ (e = list /\ new = <<jobs[1]>>)

AppendIs ==
  \E e, new, freed :
    /\ Appends(e, new, freed)
    /\ jobs[1].copies <= 2 => AllStays(e, new, freed)

LEMMA OneMore ==
  ASSUME NEW l \in Nat, NEW m, m = l - 1, NEW k \in 1 .. 2
  PROVE  m + k <= l + 1
OBVIOUS

LEMMA PairWithWaitingIs ==
  ASSUME Shaped, DataAreThere, PairWithWaiting
  PROVE  AppendIs
<1> DEFINE job   == Head(jobs)
           old   == Last(list)
           e     == Front(list)
           new   == <<Combined(old, job)>> \o LeftOver(job)
           freed == {old.data} \union IF job.copies = 1 THEN {job.data} ELSE {}
<1>1. /\ jobs # << >> /\ list # << >> /\ job.can_combine
      /\ NewSheet(old, job, freed) /\ Append1(Added(e, new))
  BY DEF PairWithWaiting, WithWaiting, Pairable
<1>2. /\ job = jobs[1] /\ job \in JobType /\ job.data \in Ids(jobs)
      /\ old \in JobType /\ old.data \in Ids(list)
      /\ e \in Seq(JobType) /\ Len(e) = Len(list) - 1
      /\ Distinct(e) /\ Ids(e) = Ids(list) \ {old.data}
  BY <1>1, TheJobs
<1>3. /\ Ids(list) \intersect Ids(jobs) = {}
      /\ Ids(list) \union Ids(jobs) \subseteq DOMAIN memory
  BY DEF DataAreThere
<1>4. /\ fresh' \in {fresh, fresh + 1} /\ Allocated = {fresh}
      /\ DOMAIN memory' = (DOMAIN memory \ freed) \union Allocated
      /\ fresh \notin DOMAIN memory
  BY <1>1, SheetAllocates
<1>5. job.data # fresh
  BY <1>2, <1>3, <1>4
<1> HIDE DEF job, old, e
<1>6. /\ new \in Seq(JobType) /\ new # << >> /\ Len(new) \in 1 .. 2
      /\ Distinct(new)
      /\ Ids(new) = IF job.copies = 2 THEN {fresh, job.data} ELSE {fresh}
  BY <1>2, <1>5, NewJobs
<1> HIDE DEF new
<1>7. job.copies \in Nat \ {0}
  BY <1>2 DEF JobType
<1>8. freed \subseteq Ids(list) \union {job.data} /\ old.data \in freed
      /\ (job.data \in freed <=> job.copies = 1)
  BY <1>2, <1>3
<1> HIDE DEF freed
<1>9. /\ Ids(e) \intersect freed = {} /\ Ids(new) \intersect freed = {}
      /\ Ids(jobs) \intersect freed \subseteq {job.data}
  <2>1. freed \subseteq {old.data, job.data}
    BY DEF freed
  <2> QED  BY <1>2, <1>3, <1>4, <1>6, <1>7, <1>8, <2>1
<1>10. /\ Ids(e) \subseteq Ids(list)
       /\ Ids(new) \subseteq {job.data} \union Allocated
  BY <1>2, <1>4, <1>6
<1>11. Appends(e, new, freed)
  BY <1>1, <1>2, <1>4, <1>6, <1>8, <1>9, <1>10 DEF Appends
<1>12. Len(list) \in Nat
  BY LenProperties DEF Shaped
<1>13. ASSUME job.copies <= 2  PROVE  AllStays(e, new, freed)
  <2>1. Len(e) + Len(new) <= Len(list) + 1
    BY <1>2, <1>6, <1>12, OneMore
  <2>2. Ids(list) \subseteq Ids(e) \union freed
    BY <1>2, <1>8
  <2>3. {job.data} \union Allocated \subseteq Ids(new) \union freed
    <3>1. job.copies = 1 \/ job.copies = 2
      BY <1>7, <1>13
    <3> QED  BY <1>4, <1>6, <1>8, <3>1
  <2> QED  BY <1>1, <1>2, <2>1, <2>2, <2>3 DEF AllStays
<1> QED  BY <1>2, <1>11, <1>13 DEF AppendIs

LEMMA PairedIs ==
  ASSUME Shaped, NEW job \in JobType, job.copies > 1
  PROVE  PairedCopies(job) \in JobType /\ PairedCopies(job).data = fresh
<1>1. job.copies \in Nat \ {0} /\ job.copies \div 2 \in Nat \ {0}
  BY DEF JobType
<1>2. Combined(job, job) \in JobType /\ Combined(job, job).data = fresh
  BY DEF Combined, JobType, Shaped
<1>3. PairedCopies(job) =
        [Combined(job, job) EXCEPT !.copies = job.copies \div 2]
  BY DEF PairedCopies
<1> DEFINE c == Combined(job, job)
           n == job.copies \div 2
<1> HIDE DEF c, n
<1>4. /\ [c EXCEPT !.copies = n] \in JobType
      /\ [c EXCEPT !.copies = n].data = c.data
  BY <1>1, <1>2 DEF JobType, c, n
<1> QED  BY <1>2, <1>3, <1>4 DEF c, n

LEMMA OddCopies == \A n \in Nat : n > 1 /\ n % 2 # 0 => ~(n <= 2)
OBVIOUS

LEMMA PairCopiesIs ==
  ASSUME Shaped, DataAreThere, NEW polarity \in BOOLEAN, PairCopies(polarity)
  PROVE  AppendIs
<1> DEFINE job   == Head(jobs)
           one   == [job EXCEPT !.copies = 1]
           rest  == IF job.copies % 2 = 0 THEN << >> ELSE <<one>>
           pair  == <<PairedCopies(job)>>
           new   == IF polarity THEN rest \o pair ELSE pair \o rest
           freed == IF rest = << >> THEN {job.data} ELSE {}
<1>1. /\ jobs # << >> /\ job.can_combine /\ job.copies > 1
      /\ NewSheet(job, job, freed) /\ Append1(Added(list, new))
  BY DEF PairCopies
<1>2. job = jobs[1] /\ job \in JobType /\ job.data \in Ids(jobs)
  BY <1>1, TheJobs
<1>3. /\ Ids(list) \intersect Ids(jobs) = {} /\ Distinct(list)
      /\ Ids(list) \union Ids(jobs) \subseteq DOMAIN memory
  BY DEF DataAreThere
<1>4. /\ fresh' \in {fresh, fresh + 1} /\ Allocated = {fresh}
      /\ DOMAIN memory' = (DOMAIN memory \ freed) \union Allocated
      /\ fresh \notin DOMAIN memory
  BY <1>1, SheetAllocates
<1>5. job.data # fresh
  BY <1>2, <1>3, <1>4
<1> HIDE DEF job
<1>6. one \in JobType /\ one.data = job.data /\ job.copies \in Nat \ {0}
  BY <1>2, OneCopy
<1>7. PairedCopies(job) \in JobType /\ PairedCopies(job).data = fresh
  BY <1>1, <1>2, PairedIs
<1>8. CASE job.copies % 2 = 0
  <2>1. rest = << >> /\ freed = {job.data}
    BY <1>8
  <2>2. new = pair
    BY <1>7, <2>1, OneAndOne, ConcatEmptySeq, OneJob
  <2>3. /\ new \in Seq(JobType) /\ new # << >> /\ Len(new) = 1
        /\ Distinct(new) /\ Ids(new) = {fresh}
    BY <1>7, <2>2, OneJob
  <2> HIDE DEF new, freed
  <2>4. Appends(list, new, freed)
    <3>1. list \in Seq(JobType)
      BY DEF Shaped
    <3> QED  BY <1>1, <1>2, <1>3, <1>4, <1>5, <2>1, <2>3, <3>1 DEF Appends
  <2>5. AllStays(list, new, freed)
    BY <1>1, <1>2, <1>4, <2>1, <2>3 DEF AllStays
  <2> QED  BY <2>4, <2>5 DEF AppendIs
<1>9. CASE job.copies % 2 # 0
  <2>1. rest = <<one>> /\ <<one>> # << >>
    BY <1>9
  <2>2. freed = {}
    BY <2>1
  <2>3. new = IF polarity THEN <<one, PairedCopies(job)>>
              ELSE <<PairedCopies(job), one>>
    BY <1>6, <1>7, <2>1, OneAndOne
  <2>4. /\ new \in Seq(JobType) /\ new # << >>
        /\ Distinct(new) /\ Ids(new) = {fresh, job.data}
    <3>1. CASE polarity
      <4>1. new = <<one, PairedCopies(job)>>
        BY <2>3, <3>1
      <4>2. one.data # PairedCopies(job).data
        BY <1>5, <1>6, <1>7
      <4> HIDE DEF new, one
      <4>3. /\ new \in Seq(JobType) /\ new # << >> /\ Distinct(new)
            /\ Ids(new) = {one.data, PairedCopies(job).data}
        BY <1>6, <1>7, <4>1, <4>2, TwoJobs
      <4> QED  BY <1>6, <1>7, <4>3
    <3>2. CASE ~polarity
      BY <1>5, <1>6, <1>7, <2>3, <3>2, TwoJobs
    <3> QED  BY <3>1, <3>2
  <2> HIDE DEF new, freed
  <2>5. Appends(list, new, freed)
    <3>1. list \in Seq(JobType)
      BY DEF Shaped
    <3> QED  BY <1>1, <1>2, <1>3, <1>4, <2>2, <2>4, <3>1 DEF Appends
  <2>6. ~(job.copies <= 2)
    BY <1>1, <1>6, <1>9, OddCopies
  <2> QED  BY <1>2, <2>5, <2>6 DEF AppendIs
<1> QED  BY <1>8, <1>9

LEMMA AppendAsIsIs ==
  ASSUME Shaped, DataAreThere, AppendAsIs
  PROVE  AppendIs
<1>1. /\ jobs # << >> /\ Append1(Added(list, <<Head(jobs)>>))
      /\ memory' = memory /\ fresh' = fresh
  BY DEF AppendAsIs, heap
<1>2. Head(jobs) = jobs[1] /\ jobs[1] \in JobType
  BY <1>1, TheJobs
<1> DEFINE new == <<jobs[1]>>
<1>3. /\ new \in Seq(JobType) /\ new # << >> /\ Len(new) = 1
      /\ Distinct(new) /\ Ids(new) = {jobs[1].data}
  BY <1>2, OneJob
<1>4. Allocated = {} /\ list \in Seq(JobType) /\ Distinct(list)
  BY <1>1 DEF Allocated, Shaped, DataAreThere
<1>5. Append1(Added(list, new))
  BY <1>1, <1>2
<1>6. AllStays(list, new, {})
  BY <1>3, <1>4 DEF AllStays
<1> HIDE DEF new
<1>7. Appends(list, new, {})
  BY <1>1, <1>3, <1>4, <1>5 DEF Appends
<1> QED  BY <1>6, <1>7 DEF AppendIs

LEMMA AppendIsGood ==
  ASSUME IInv, AppendIs, pc = "append"
  PROVE  IInv'
<1>1. Shaped /\ Places /\ DataAreThere
  BY DEF IInv
<1>2. PICK e, new, freed : Appends(e, new, freed)
  BY DEF AppendIs
<1>3. /\ e \in Seq(JobType) /\ new \in Seq(JobType) /\ new # << >>
      /\ Append1(Added(e, new))
  BY <1>2 DEF Appends
<1>4. /\ jobs # << >> /\ list' = Added(e, new) /\ jobs' = Tail(jobs)
      /\ UNCHANGED <<document, read_page>>
  BY <1>1, <1>3 DEF Append1, Places, AtAppend
<1>5. Shaped' /\ DataAreThere'
  BY <1>1, <1>2, <1>3, <1>4, AppendKeeps DEF Appends
<1>6. Places'
  BY <1>1, <1>3, <1>5, AppendPlaces
<1> QED  BY <1>5, <1>6 DEF IInv

-----------------------------------------------------------------------------
(* After the last entry the list is cleaned up.                            *)
LEMMA ListFreed ==
  ASSUME Shaped, DataAreThere, jobs = << >>, list' = << >>,
         memory' = Free({list[n].data : n \in DOMAIN list}),
         UNCHANGED <<document, read_page, jobs, fresh>>
  PROVE  Shaped' /\ DataAreThere' /\ DOMAIN memory' = DOMAIN memory \ Ids(list)
<1>1. DOMAIN memory' = DOMAIN memory \ Ids(list)
  BY DEF Free, Ids
<1>2. /\ << >> \in Seq(JobType) /\ Len(<< >>) = 0
      /\ Distinct(<< >>) /\ Ids(<< >>) = {}
  BY EmptySeq DEF Distinct, Ids
<1>3. Shaped'
  <2>1. list' \in Seq(JobType) /\ Len(list') <= 3
    BY <1>2
  <2>2. DOMAIN memory' \subseteq 1 .. fresh - 1
    BY <1>1 DEF Shaped
  <2> QED  BY <2>1, <2>2 DEF Shaped
<1>4. DataAreThere'
  <2>1. /\ Distinct(list') /\ Distinct(jobs')
        /\ Ids(list') \intersect Ids(jobs') = {}
        /\ Ids(list') \union Ids(jobs') \subseteq DOMAIN memory'
    BY <1>2
  <2> QED  BY <2>1 DEF DataAreThere, Ids, Distinct
<1> QED  BY <1>1, <1>3, <1>4

LEMMA PrintSheetKeeps == IInv /\ PrintSheet => IInv'
<1> SUFFICES ASSUME Shaped, Places, DataAreThere, PrintSheet  PROVE  IInv'
  BY DEF IInv
<1> DEFINE last == copy + 1 = list[entry].copies
           end  == last /\ entry = Len(list)
<1>1. /\ pc = "print"
      /\ copy'  = IF last THEN 0 ELSE copy + 1
      /\ entry' = IF end THEN 1 ELSE IF last THEN entry + 1 ELSE entry
      /\ UNCHANGED <<document, read_page, jobs, fresh, status>>
  BY DEF PrintSheet
<1>2. AtPrint
  BY <1>1 DEF Places
<1>3. CASE end
  <2>1. memory' = Free({list[n].data : n \in DOMAIN list}) /\ list' = << >>
        /\ pc' = "read"
    BY <1>3 DEF PrintSheet
  <2>2. jobs = << >> /\ status = "running"
    BY <1>2 DEF AtPrint
  <2>3. Shaped' /\ DataAreThere'
    BY <1>1, <2>1, <2>2, ListFreed
  <2>4. Len(list') = 0
    BY <2>1, EmptySeq
  <2>5. Places'
    BY <1>1, <1>3, <2>1, <2>2, <2>4 DEF Places, AtRead
  <2> QED  BY <2>3, <2>5 DEF IInv
<1>4. CASE ~end
  <2>1. UNCHANGED <<memory, list, pc>>
    BY <1>4 DEF PrintSheet
  <2>2. Shaped' /\ DataAreThere'
    <3>1. Shaped'
      BY <1>1, <2>1 DEF Shaped
    <3>2. DataAreThere'
      <4>1. list' = list /\ jobs' = jobs /\ memory' = memory
        BY <1>1, <2>1
      <4> QED  BY <4>1 DEF DataAreThere, Ids, Distinct
    <3> QED  BY <3>1, <3>2
  <2>3. AtPrint'
    <3>1. list \in Seq(JobType) /\ Len(list) \in Nat
      BY LenProperties DEF Shaped
    <3>2. entry \in 1 .. Len(list) /\ copy \in 0 .. list[entry].copies - 1
      BY <1>2 DEF AtPrint
    <3>3. \A n \in 1 .. Len(list) : list[n].copies \in Nat \ {0}
      <4>1. \A n \in 1 .. Len(list) : list[n] \in JobType
        BY <3>1, ElementOfSeq
      <4> QED  BY <4>1 DEF JobType
    <3>4. CASE last
      <4>1. entry # Len(list) /\ copy' = 0 /\ entry' = entry + 1
        BY <1>1, <1>4, <3>4
      <4>2. entry + 1 \in 1 .. Len(list)
        BY <3>1, <3>2, <4>1
      <4>3. 0 \in 0 .. list[entry + 1].copies - 1
        BY <3>3, <4>2
      <4> QED  BY <1>1, <1>2, <2>1, <4>1, <4>2, <4>3 DEF AtPrint
    <3>5. CASE ~last
      <4>1. copy' = copy + 1 /\ entry' = entry
        BY <1>1, <1>4, <3>5
      <4>2. copy + 1 \in 0 .. list[entry].copies - 1
        BY <3>2, <3>3, <3>5
      <4> QED  BY <1>1, <1>2, <2>1, <3>2, <4>1, <4>2 DEF AtPrint
    <3> QED  BY <3>4, <3>5
  <2>4. Places'
    BY <1>1, <2>1, <2>3 DEF Places
  <2> QED  BY <2>2, <2>4 DEF IInv
<1> QED  BY <1>3, <1>4

LEMMA PrintFailsKeeps == IInv /\ PrintFails => IInv'
<1> SUFFICES ASSUME Shaped, Places, DataAreThere, PrintFails  PROVE  IInv'
  BY DEF IInv
<1>1. /\ pc = "print" /\ pc' = "done" /\ status' = "failed"
      /\ memory' = Free({list[n].data : n \in DOMAIN list}) /\ list' = << >>
      /\ UNCHANGED <<document, read_page, jobs, fresh>>
  BY DEF PrintFails
<1>2. jobs = << >>
  BY <1>1 DEF Places, AtPrint
<1>3. Shaped' /\ DataAreThere'
  BY <1>1, <1>2, ListFreed
<1>4. Places'
  BY <1>1, <1>2 DEF Places, AtEnd
<1> QED  BY <1>3, <1>4 DEF IInv

LEMMA NextKeeps == IInv /\ [Next]_vars => IInv'
<1> SUFFICES ASSUME IInv, [Next]_vars  PROVE  IInv'
  OBVIOUS
<1>1. CASE ReadPage
  BY <1>1, ReadPageKeeps
<1>2. CASE ReadFails
  BY <1>2, ReadFailsKeeps
<1>3. CASE PairWithWaiting
  <2>1. pc = "append"
    BY <1>3 DEF PairWithWaiting
  <2> QED  BY <1>3, <2>1, PairWithWaitingIs, AppendIsGood DEF IInv
<1>4. ASSUME NEW polarity \in BOOLEAN, PairCopies(polarity)
      PROVE  IInv'
  <2>1. pc = "append"
    BY <1>4 DEF PairCopies
  <2> QED  BY <1>4, <2>1, PairCopiesIs, AppendIsGood DEF IInv
<1>5. CASE AppendAsIs
  <2>1. pc = "append"
    BY <1>5 DEF AppendAsIs
  <2> QED  BY <1>5, <2>1, AppendAsIsIs, AppendIsGood DEF IInv
<1>6. CASE PrintSheet
  BY <1>6, PrintSheetKeeps
<1>7. CASE PrintFails
  BY <1>7, PrintFailsKeeps
<1>8. CASE UNCHANGED vars
  <2>1. UNCHANGED <<document, read_page, jobs, list, memory, fresh, entry, copy,
                    pc, status>>
    BY <1>8 DEF vars, heap
  <2>2. Shaped'
    BY <2>1 DEF IInv, Shaped
  <2>3. Places'
    BY <2>1 DEF IInv, Places, AtRead, AtAppend, AtPrint, AtEnd
  <2>4. DataAreThere'
    BY <2>1 DEF IInv, DataAreThere, Ids, Distinct
  <2> QED  BY <2>2, <2>3, <2>4 DEF IInv
<1>9. CASE Done
  BY <1>8, <1>9 DEF Done
<1> QED  BY <1>1, <1>2, <1>3, <1>4, <1>5, <1>6, <1>7, <1>8, <1>9 DEF Next

THEOREM Invariant == Spec => []IInv
<1>1. Init => IInv
  BY InitIsGood
<1>2. IInv /\ [Next]_vars => IInv'
  BY NextKeeps
<1> QED  BY <1>1, <1>2, PTL DEF Spec

(* For all documents: the list never holds more than three jobs, main_loop *)
(* is handed a job of the list with a copy left to print, and the backend  *)
(* has a status when, and only when, it has ended.                         *)
THEOREM ListTypes == Spec => []TypeOK
<1>1. IInv => TypeOK
  <2> SUFFICES ASSUME Shaped, Places  PROVE  TypeOK
    BY DEF IInv
  <2>1. DOMAIN list = 1 .. Len(list)
    BY LenProperties DEF Shaped
  <2>2. /\ pc = "append" => jobs # << >>
        /\ pc = "print" =>
             /\ entry \in DOMAIN list
             /\ copy \in 0 .. list[entry].copies - 1
    BY <2>1 DEF Places, AtAppend, AtPrint
  <2>3. /\ pc \in {"read", "append", "print", "done"}
        /\ status \in {"running", "ok", "failed"}
        /\ pc = "done" <=> status # "running"
    BY DEF Places, AtRead, AtAppend, AtPrint, AtEnd
  <2> QED  BY <2>2, <2>3 DEF TypeOK, Shaped, MaxJobEntries
<1> QED  BY <1>1, Invariant, PTL

(* For all documents, however many copies and whatever shares a sheet: the *)
(* print data of every job in the list and of every job to be added are    *)
(* allocated, and no two jobs have the same, so that nothing is printed or *)
(* combined after it was freed, and nothing is freed twice.                *)
THEOREM NothingFreedIsUsed == Spec => []DataAreThere
<1>1. IInv => DataAreThere
  BY DEF IInv
<1> QED  BY <1>1, Invariant, PTL

-----------------------------------------------------------------------------
(* That no data are forgotten either needs documents with at most two      *)
(* copies of a page, and with panoramas only where no page can wait.       *)
NoneForgotten == DOMAIN memory \subseteq Ids(list) \union Ids(jobs)

(* There is room in the list for what has been read and may be read.       *)
Room ==
  /\ Modest(document)
  /\ \A n \in DOMAIN jobs : jobs[n].copies <= 2
  /\ pc = "append" => Len(list) + Len(jobs) <= 3
  /\ pc = "append" /\ document # << >> /\ Len(document[1]) > 1 =>
       ~jobs[Len(jobs)].can_combine
  /\ pc = "read" /\ list # << >> /\ document # << >> => Len(document[1]) = 1

MInv == IInv /\ NoneForgotten /\ Room

LEMMA ModestTail ==
  ASSUME Shaped, document # << >>, Modest(document)
  PROVE  Modest(Tail(document))
<1> DEFINE t == Tail(document)
<1>1. /\ Len(document) \in Nat \ {0} /\ DOMAIN document = 1 .. Len(document)
      /\ DOMAIN t = 1 .. Len(document) - 1
      /\ \A n \in 1 .. Len(document) - 1 : t[n] = document[n + 1]
  BY TailOfDocument
<1>2. /\ \A n \in DOMAIN document : \A k \in DOMAIN document[n] :
           document[n][k].copies <= 2
      /\ \A n \in DOMAIN document : n > 1 /\ Len(document[n]) > 1 =>
           ~document[n - 1][Len(document[n - 1])].can_combine
  BY DEF Modest
<1> HIDE DEF t
<1>3. ASSUME NEW n \in DOMAIN t, NEW k \in DOMAIN t[n]
      PROVE  t[n][k].copies <= 2
  <2>1. n + 1 \in DOMAIN document /\ t[n] = document[n + 1]
    BY <1>1
  <2> QED  BY <1>2, <1>3, <2>1
<1>4. ASSUME NEW n \in DOMAIN t, n > 1, Len(t[n]) > 1
      PROVE  ~t[n - 1][Len(t[n - 1])].can_combine
  <2>1. /\ n + 1 \in DOMAIN document /\ n + 1 > 1 /\ (n + 1) - 1 = n
        /\ t[n] = document[n + 1] /\ t[n - 1] = document[n]
    BY <1>1, <1>4
  <2> QED  BY <1>2, <1>4, <2>1
<1>5. Modest(t)
  BY <1>3, <1>4 DEF Modest
<1> QED  BY <1>5 DEF t

LEMMA InitIsModest ==
  ASSUME \A d \in Documents : Modest(d), Init
  PROVE  MInv
<1>1. document \in Documents /\ jobs = << >> /\ list = << >> /\ memory = << >>
      /\ pc = "read"
  BY DEF Init
<1>2. Room
  BY <1>1 DEF Room
<1>3. NoneForgotten
  BY <1>1 DEF NoneForgotten
<1> QED  BY <1>2, <1>3, InitIsGood DEF MInv

LEMMA InSpan ==
  ASSUME NEW f \in Nat, NEW l \in 1 .. 3, NEW d \in f .. f + l - 1
  PROVE  d - f + 1 \in 1 .. l /\ f + (d - f + 1) - 1 = d
OBVIOUS

LEMMA ReadPageModest ==
  ASSUME MInv, ReadPage, IInv'
  PROVE  MInv'
<1>1. Shaped /\ Places /\ DataAreThere /\ NoneForgotten /\ Room /\ Shaped'
  BY DEF MInv, IInv
<1> DEFINE read == Head(document)
<1>2. /\ pc = "read" /\ document # << >> /\ pc' = "append" /\ list' = list
      /\ DOMAIN memory' = DOMAIN memory \union fresh .. fresh + Len(read) - 1
      /\ DOMAIN jobs' = DOMAIN read
      /\ \A k \in DOMAIN read :
           /\ jobs'[k].copies = read[k].copies
           /\ jobs'[k].can_combine = read[k].can_combine
           /\ jobs'[k].data = fresh + k - 1
      /\ document' = Tail(document)
  BY DEF ReadPage
<1>3. jobs = << >> /\ Len(list) <= 2 /\ Len(list) \in Nat
  BY <1>1, <1>2, LenProperties DEF Places, AtRead, Shaped
<1>4. /\ document \in Seq(ReadType) /\ Len(document) \in Nat \ {0}
      /\ DOMAIN document = 1 .. Len(document)
      /\ Len(document[1]) \in 1 .. 3
  BY <1>1, <1>2, TailOfDocument DEF Shaped
<1>5. /\ read = document[1] /\ read \in ReadType
      /\ DOMAIN read = 1 .. Len(read) /\ Len(read) \in 1 .. 3
  <2>1. read = document[1] /\ read \in ReadType
    BY <1>4, ElementOfSeq
  <2> QED  BY <1>4, <2>1, LenProperties DEF ReadType
<1>6. Len(jobs') = Len(read) /\ jobs' # << >>
  <2>1. jobs' \in Seq(JobType)
    BY <1>1 DEF Shaped
  <2>2. DOMAIN jobs' = 1 .. Len(jobs') /\ Len(jobs') \in Nat
    BY <2>1, LenProperties
  <2>3. DOMAIN jobs' = 1 .. Len(read)
    BY <1>2, <1>5
  <2>4. Len(jobs') = Len(read)
    BY <1>5, <2>2, <2>3
  <2>5. Len(jobs') # 0
    BY <1>5, <2>4
  <2> QED  BY <2>4, <2>5, EmptySeq
<1> HIDE DEF read
<1>7. fresh \in Nat
  BY <1>1 DEF Shaped
<1>8. NoneForgotten'
  <2>1. ASSUME NEW d \in DOMAIN memory'
        PROVE  d \in Ids(list') \union Ids(jobs')
    <3>1. CASE d \in DOMAIN memory
      <4>1. d \in Ids(list)
        BY <1>1, <1>3, <3>1 DEF NoneForgotten, Ids
      <4> QED  BY <1>2, <4>1
    <3>2. CASE d \in fresh .. fresh + Len(read) - 1
      <4>1. /\ d - fresh + 1 \in DOMAIN read
            /\ fresh + (d - fresh + 1) - 1 = d
        BY <1>5, <1>7, <3>2, InSpan
      <4>2. jobs'[d - fresh + 1].data = d
        BY <1>2, <4>1
      <4>3. d - fresh + 1 \in DOMAIN jobs'
        BY <1>2, <4>1
      <4> QED  BY <4>2, <4>3, IdsHas
    <3> QED  BY <1>2, <2>1, <3>1, <3>2
  <2> QED  BY <2>1 DEF NoneForgotten, Ids
<1>9. Room'
  <2>1. Modest(document')
    BY <1>1, <1>2, ModestTail DEF Room
  <2>2. \A n \in DOMAIN jobs' : jobs'[n].copies <= 2
    <3>1. 1 \in DOMAIN document
      BY <1>4
    <3>2. \A k \in DOMAIN document[1] : document[1][k].copies <= 2
      BY <1>1, <3>1 DEF Room, Modest
    <3> QED  BY <1>2, <1>5, <3>2
  <2>3. Len(list') + Len(jobs') <= 3
    <3>1. CASE list = << >>
      <4>1. Len(list') = 0
        BY <1>2, <3>1, EmptySeq
      <4>2. \A n \in 1 .. 3 : 0 + n <= 3
        OBVIOUS
      <4> QED  BY <1>5, <1>6, <4>1, <4>2, Zenon
    <3>2. CASE list # << >>
      <4>1. Len(read) = 1
        BY <1>1, <1>2, <1>5, <3>2 DEF Room
      <4> QED  BY <1>2, <1>3, <1>6, <4>1
    <3> QED  BY <3>1, <3>2
  <2>4. document' # << >> /\ Len(document'[1]) > 1 =>
          ~jobs'[Len(jobs')].can_combine
    <3> SUFFICES ASSUME document' # << >>, Len(document'[1]) > 1
                 PROVE  ~jobs'[Len(jobs')].can_combine
      OBVIOUS
    <3>1. /\ document' \in Seq(ReadType) /\ Len(document') = Len(document) - 1
          /\ \A n \in 1 .. Len(document) - 1 : document'[n] = document[n + 1]
      BY <1>1, <1>2, TailOfDocument
    <3>2. Len(document') \in Nat \ {0}
      BY <3>1, LenProperties, EmptySeq
    <3>3. 2 \in DOMAIN document /\ document'[1] = document[2]
      BY <1>4, <3>1, <3>2
    <3>4. ~document[2 - 1][Len(document[2 - 1])].can_combine
      BY <1>1, <3>3 DEF Room, Modest
    <3>5. ~read[Len(read)].can_combine
      BY <1>5, <3>4
    <3>6. Len(read) \in DOMAIN read
      <4>1. \A n \in 1 .. 3 : n \in 1 .. n
        OBVIOUS
      <4> QED  BY <1>5, <4>1, Zenon
    <3> QED  BY <1>2, <1>6, <3>5, <3>6
  <2> QED  BY <1>2, <2>1, <2>2, <2>3, <2>4 DEF Room, Modest
<1> QED  BY <1>8, <1>9 DEF MInv

LEMMA RoomLeft ==
  ASSUME NEW l \in Nat, NEW j \in Nat \ {0}, l + j <= 3,
         NEW a \in Nat, NEW b \in Nat, a + b <= l + 1
  PROVE  a + b <= 3 /\ (a + b) + (j - 1) <= 3
OBVIOUS

LEMMA OneOfThree == \A n \in 1 .. 3 : ~(n > 1) => n = 1
OBVIOUS

LEMMA AppendIsModest ==
  ASSUME MInv, AppendIs, pc = "append", IInv'
  PROVE  MInv'
<1>1. Shaped /\ Places /\ DataAreThere /\ NoneForgotten /\ Room /\ Shaped'
  BY DEF MInv, IInv
<1>2. jobs # << >> /\ jobs \in Seq(JobType) /\ list \in Seq(JobType)
  BY <1>1 DEF Places, AtAppend, Shaped
<1>3. /\ Len(jobs) \in Nat \ {0} /\ DOMAIN jobs = 1 .. Len(jobs)
      /\ Len(list) \in Nat /\ Len(list) + Len(jobs) <= 3
  BY <1>1, <1>2, LenProperties, EmptySeq DEF Room
<1>4. jobs[1].copies <= 2
  <2>1. 1 \in DOMAIN jobs
    BY <1>3
  <2> QED  BY <1>1, <2>1 DEF Room
<1>5. PICK e, new, freed : Appends(e, new, freed) /\ AllStays(e, new, freed)
  BY <1>4 DEF AppendIs
<1>6. /\ e \in Seq(JobType) /\ new \in Seq(JobType)
      /\ list' = Added(e, new) /\ jobs' = Tail(jobs)
      /\ pc' = IF Len(jobs) > 1 THEN "append"
               ELSE IF CanWait(list') THEN "read" ELSE "print"
      /\ document' = document
      /\ DOMAIN memory' = (DOMAIN memory \ freed) \union Allocated
  BY <1>5 DEF Appends, Append1
<1>7. /\ Len(e) \in Nat /\ Len(new) \in Nat
      /\ DOMAIN e = 1 .. Len(e) /\ DOMAIN new = 1 .. Len(new)
  BY <1>6, LenProperties
<1>8. /\ Len(e) + Len(new) <= 3
      /\ (Len(e) + Len(new)) + (Len(jobs) - 1) <= 3
  <2>1. Len(e) + Len(new) <= Len(list) + 1
    BY <1>5 DEF AllStays
  <2> QED  BY <1>3, <1>7, <2>1, RoomLeft
<1>9. /\ Len(list') = Len(e) + Len(new)
      /\ \A n \in 1 .. Len(list') :
           list'[n] = IF n <= Len(e) THEN e[n] ELSE new[n - Len(e)]
      /\ DOMAIN list' = 1 .. Len(list')
  BY <1>6, <1>8, AddedIs, LenProperties
<1>10. /\ jobs' \in Seq(JobType) /\ Len(jobs') = Len(jobs) - 1
       /\ \A n \in 1 .. Len(jobs') : jobs'[n] = jobs[n + 1]
       /\ DOMAIN jobs' = 1 .. Len(jobs')
  <2>1. /\ jobs' \in Seq(JobType) /\ Len(jobs') = Len(jobs) - 1
        /\ \A n \in 1 .. Len(jobs') : jobs'[n] = jobs[n + 1]
    BY <1>2, <1>6, HeadTailProperties
  <2> QED  BY <2>1, LenProperties
<1>11. Ids(e) \union Ids(new) \subseteq Ids(list')
  <2>1. ASSUME NEW n \in 1 .. Len(e)
        PROVE  e[n].data \in Ids(list')
    <3>1. n \in DOMAIN list' /\ list'[n] = e[n]
      BY <1>7, <1>9
    <3> QED  BY <3>1, IdsHas
  <2>2. ASSUME NEW n \in 1 .. Len(new)
        PROVE  new[n].data \in Ids(list')
    <3>1. /\ n + Len(e) \in DOMAIN list' /\ (n + Len(e)) - Len(e) = n
          /\ ~(n + Len(e) <= Len(e))
      BY <1>7, <1>9
    <3>2. list'[n + Len(e)] = new[n]
      BY <1>9, <3>1
    <3> QED  BY <3>1, <3>2, IdsHas
  <2>3. Ids(e) \subseteq Ids(list')
    BY <1>7, <2>1 DEF Ids
  <2>4. Ids(new) \subseteq Ids(list')
    BY <1>7, <2>2 DEF Ids
  <2> QED  BY <2>3, <2>4
<1>12. Ids(jobs) \subseteq {jobs[1].data} \union Ids(jobs')
  <2>1. ASSUME NEW n \in 1 .. Len(jobs), n # 1
        PROVE  jobs[n].data \in Ids(jobs')
    <3>1. n - 1 \in 1 .. Len(jobs') /\ (n - 1) + 1 = n
      BY <1>3, <1>10, <2>1
    <3>2. n - 1 \in DOMAIN jobs' /\ jobs'[n - 1] = jobs[n]
      BY <1>10, <3>1
    <3> QED  BY <3>2, IdsHas
  <2> QED  BY <1>3, <2>1 DEF Ids
<1>13. NoneForgotten'
  <2>1. DOMAIN memory \subseteq Ids(list) \union Ids(jobs)
    BY <1>1 DEF NoneForgotten
  <2>2. /\ Ids(list) \subseteq Ids(e) \union freed
        /\ {jobs[1].data} \union Allocated \subseteq Ids(new) \union freed
        /\ Ids(new) \intersect freed = {} /\ Ids(e) \intersect freed = {}
    BY <1>5 DEF AllStays, Appends
  <2>3. Allocated \intersect freed = {}
    <3>1. freed \subseteq DOMAIN memory
      <4>1. freed \subseteq Ids(list) \union {jobs[1].data}
        BY <1>5 DEF Appends
      <4>2. jobs[1].data \in Ids(jobs)
        BY <1>1, <1>2, TheJobs
      <4> QED  BY <1>1, <4>1, <4>2 DEF DataAreThere
    <3>2. fresh \notin DOMAIN memory
      BY <1>1 DEF Shaped
    <3> QED  BY <3>1, <3>2 DEF Allocated
  <2>4. DOMAIN memory' \subseteq Ids(list') \union Ids(jobs')
    BY <1>6, <1>11, <1>12, <2>1, <2>2, <2>3
  <2> QED  BY <2>4 DEF NoneForgotten, Ids
<1>14. Modest(document') /\ \A n \in DOMAIN jobs' : jobs'[n].copies <= 2
  <2>1. \A n \in DOMAIN jobs : jobs[n].copies <= 2
    BY <1>1 DEF Room
  <2>2. \A n \in 1 .. Len(jobs') : n + 1 \in DOMAIN jobs
    BY <1>3, <1>10
  <2> QED  BY <1>1, <1>6, <1>10, <2>1, <2>2 DEF Room
<1>15. CASE Len(jobs) > 1
  <2>1. pc' = "append"
    BY <1>6, <1>15
  <2>2. Len(list') + Len(jobs') <= 3
    BY <1>8, <1>9, <1>10
  <2>3. jobs'[Len(jobs')] = jobs[Len(jobs)]
    <3>1. Len(jobs') \in 1 .. Len(jobs') /\ Len(jobs') + 1 = Len(jobs)
      BY <1>3, <1>10, <1>15
    <3> QED  BY <1>10, <3>1
  <2>4. document' # << >> /\ Len(document'[1]) > 1 =>
          ~jobs'[Len(jobs')].can_combine
    BY <1>1, <1>6, <2>3 DEF Room
  <2>5. Room'
    BY <1>14, <2>1, <2>2, <2>4 DEF Room, Modest
  <2> QED  BY <1>13, <2>5 DEF MInv
<1>16. CASE ~(Len(jobs) > 1)
  <2>1. Len(jobs) = 1
    BY <1>3, <1>16
  <2>2. pc' # "append"
    BY <1>6, <1>16
  <2>3. pc' = "read" /\ document' # << >> => Len(document'[1]) = 1
    <3> SUFFICES ASSUME pc' = "read", document # << >>
                 PROVE  Len(document[1]) = 1
      BY <1>6
    <3>1. CanWait(list')
      BY <1>6, <1>16
    <3>2. jobs[1].can_combine
      <4>1. CASE e = list /\ new = <<jobs[1]>>
        <5>1. Len(new) = 1 /\ new[1] = jobs[1]
          BY <4>1
        <5>2. /\ Len(list') \in 1 .. Len(list') /\ ~(Len(list') <= Len(e))
              /\ Len(list') - Len(e) = 1
          BY <1>7, <1>9, <5>1
        <5>3. Last(list') = jobs[1]
          BY <1>9, <5>1, <5>2 DEF Last
        <5> QED  BY <3>1, <5>3 DEF CanWait
      <4> QED  BY <1>5, <4>1 DEF AllStays
    <3>3. ~(Len(document[1]) > 1)
      BY <1>1, <2>1, <3>2 DEF Room
    <3>4. Len(document[1]) \in 1 .. 3
      <4>1. 1 \in DOMAIN document
        BY <1>1, TailOfDocument
      <4> QED  BY <1>1, <4>1 DEF Shaped
    <3> QED  BY <3>3, <3>4, OneOfThree
  <2>4. Room'
    BY <1>14, <2>2, <2>3 DEF Room, Modest
  <2> QED  BY <1>13, <2>4 DEF MInv
<1> QED  BY <1>15, <1>16

LEMMA ReadFailsModest ==
  ASSUME MInv, ReadFails
  PROVE  NoneForgotten' /\ Room'
<1>1. Shaped /\ Places /\ NoneForgotten /\ Room
  BY DEF MInv, IInv
<1>2. /\ pc = "read"
      /\ document' = IF document = << >> THEN << >> ELSE Tail(document)
      /\ list' = list /\ jobs' = jobs /\ memory' = memory
      /\ pc' \in {"print", "done"}
  BY DEF ReadFails, heap
<1>3. Modest(document')
  <2>1. CASE document = << >>
    BY <1>2, <2>1 DEF Modest
  <2>2. CASE document # << >>
    BY <1>1, <1>2, <2>2, ModestTail DEF Room
  <2> QED  BY <2>1, <2>2
<1>4. NoneForgotten'
  BY <1>1, <1>2 DEF NoneForgotten, Ids
<1>5. Room'
  BY <1>1, <1>2, <1>3 DEF Room, Modest
<1> QED  BY <1>4, <1>5

(* The list is cleaned up, and all print data with it.                     *)
LEMMA CleanUpModest ==
  ASSUME MInv, jobs = << >>, list' = << >>, pc' \in {"read", "done"},
         memory' = Free({list[n].data : n \in DOMAIN list}),
         UNCHANGED <<document, read_page, jobs, fresh>>
  PROVE  NoneForgotten' /\ Room'
<1>1. Shaped /\ DataAreThere /\ NoneForgotten /\ Room
  BY DEF MInv, IInv
<1>2. DOMAIN memory' = DOMAIN memory \ Ids(list)
  BY <1>1, ListFreed
<1>3. Ids(jobs) = {}
  BY DEF Ids
<1>4. NoneForgotten'
  BY <1>1, <1>2, <1>3 DEF NoneForgotten
<1>5. Room'
  BY <1>1 DEF Room, Modest
<1> QED  BY <1>4, <1>5

LEMMA PrintModest ==
  ASSUME MInv, PrintSheet \/ PrintFails
  PROVE  NoneForgotten' /\ Room'
<1>1. Places /\ NoneForgotten /\ Room
  BY DEF MInv, IInv
<1>2. pc = "print" /\ UNCHANGED <<document, read_page, jobs, fresh>>
  BY DEF PrintSheet, PrintFails
<1>3. jobs = << >>
  BY <1>1, <1>2 DEF Places, AtPrint
<1>4. CASE UNCHANGED <<memory, list, pc>>
  <2>1. document' = document /\ jobs' = jobs /\ list' = list
        /\ memory' = memory /\ pc' = "print"
    BY <1>2, <1>4
  <2>2. NoneForgotten'
    BY <1>1, <2>1 DEF NoneForgotten, Ids
  <2>3. Room'
    BY <1>1, <2>1 DEF Room, Modest
  <2> QED  BY <2>2, <2>3
<1>5. CASE ~UNCHANGED <<memory, list, pc>>
  <2>1. /\ memory' = Free({list[n].data : n \in DOMAIN list}) /\ list' = << >>
        /\ pc' \in {"read", "done"}
    BY <1>5 DEF PrintSheet, PrintFails
  <2> QED  BY <1>2, <1>3, <2>1, CleanUpModest
<1> QED  BY <1>4, <1>5

LEMMA NextIsModest == MInv /\ [Next]_vars => MInv'
<1> SUFFICES ASSUME MInv, [Next]_vars  PROVE  MInv'
  OBVIOUS
<1>1. IInv /\ IInv'
  BY NextKeeps DEF MInv
<1>2. CASE ReadPage
  BY <1>1, <1>2, ReadPageModest
<1>3. CASE ReadFails
  BY <1>1, <1>3, ReadFailsModest DEF MInv
<1>4. CASE PairWithWaiting
  <2>1. pc = "append"
    BY <1>4 DEF PairWithWaiting
  <2> QED  BY <1>1, <1>4, <2>1, PairWithWaitingIs, AppendIsModest DEF IInv
<1>5. ASSUME NEW polarity \in BOOLEAN, PairCopies(polarity)
      PROVE  MInv'
  <2>1. pc = "append"
    BY <1>5 DEF PairCopies
  <2> QED  BY <1>1, <1>5, <2>1, PairCopiesIs, AppendIsModest DEF IInv
<1>6. CASE AppendAsIs
  <2>1. pc = "append"
    BY <1>6 DEF AppendAsIs
  <2> QED  BY <1>1, <1>6, <2>1, AppendAsIsIs, AppendIsModest DEF IInv
<1>7. CASE PrintSheet \/ PrintFails
  BY <1>1, <1>7, PrintModest DEF MInv
<1>8. CASE UNCHANGED vars
  <2>1. document' = document /\ jobs' = jobs /\ list' = list
        /\ memory' = memory /\ pc' = pc
    BY <1>8 DEF vars, heap
  <2>2. NoneForgotten'
    BY <2>1 DEF MInv, NoneForgotten, Ids
  <2>3. Room'
    BY <2>1 DEF MInv, Room, Modest
  <2> QED  BY <1>1, <2>2, <2>3 DEF MInv
<1>9. CASE Done
  BY <1>8, <1>9 DEF Done
<1> QED  BY <1>2, <1>3, <1>4, <1>5, <1>6, <1>7, <1>8, <1>9 DEF Next

LEMMA OwnedOnce ==
  ASSUME MInv
  PROVE  DataOwnedOnce
<1> DEFINE all == list \o jobs
<1>1. Shaped /\ Places /\ DataAreThere /\ NoneForgotten
  BY DEF MInv, IInv
<1>2. /\ list \in Seq(JobType) /\ jobs \in Seq(JobType)
      /\ Len(list) \in Nat /\ Len(jobs) \in Nat
      /\ DOMAIN list = 1 .. Len(list) /\ DOMAIN jobs = 1 .. Len(jobs)
  BY <1>1, LenProperties DEF Shaped
<1>3. /\ all \in Seq(JobType) /\ Len(all) = Len(list) + Len(jobs)
      /\ \A n \in 1 .. Len(all) :
           all[n] = IF n <= Len(list) THEN list[n] ELSE jobs[n - Len(list)]
  BY <1>2, ConcatProperties
<1> HIDE DEF all
<1>4. DOMAIN all = 1 .. Len(list) + Len(jobs)
  BY <1>3, LenProperties
<1>5. ASSUME NEW n \in DOMAIN all
      PROVE  \/ n \in DOMAIN list /\ all[n] = list[n]
             \/ /\ n - Len(list) \in DOMAIN jobs /\ ~(n \in DOMAIN list)
                /\ all[n] = jobs[n - Len(list)]
  BY <1>2, <1>3, <1>4
<1>6. /\ \A n \in DOMAIN list : n \in DOMAIN all /\ all[n] = list[n]
      /\ \A n \in DOMAIN jobs :
           n + Len(list) \in DOMAIN all /\ all[n + Len(list)] = jobs[n]
  BY <1>2, <1>3, <1>4
<1>7. {all[n].data : n \in DOMAIN all} = Ids(list) \union Ids(jobs)
  BY <1>5, <1>6 DEF Ids
<1>8. DOMAIN memory = {all[n].data : n \in DOMAIN all}
  BY <1>1, <1>7 DEF DataAreThere, NoneForgotten
<1>9. ASSUME NEW n \in DOMAIN all, NEW m \in DOMAIN all,
             all[n].data = all[m].data
      PROVE  n = m
  <2>1. CASE n \in DOMAIN list /\ m \in DOMAIN list
    BY <1>1, <1>6, <1>9, <2>1 DEF DataAreThere, Distinct
  <2>2. CASE n \notin DOMAIN list /\ m \notin DOMAIN list
    <3>1. /\ n - Len(list) \in DOMAIN jobs /\ all[n] = jobs[n - Len(list)]
          /\ m - Len(list) \in DOMAIN jobs /\ all[m] = jobs[m - Len(list)]
      BY <1>5, <2>2
    <3>2. n - Len(list) = m - Len(list)
      BY <1>1, <1>9, <3>1 DEF DataAreThere, Distinct
    <3>3. n \in Int /\ m \in Int
      BY <1>2, <1>4
    <3> QED  BY <1>2, <3>2, <3>3
  <2>3. ASSUME NEW k \in DOMAIN all, NEW l \in DOMAIN all,
               k \in DOMAIN list, l \notin DOMAIN list
        PROVE  all[k].data # all[l].data
    <3>1. all[k].data \in Ids(list) /\ all[l].data \in Ids(jobs)
      BY <1>5, <2>3, IdsHas
    <3> QED  BY <1>1, <3>1 DEF DataAreThere
  <2> QED  BY <1>9, <2>1, <2>2, <2>3
<1>10. pc = "done" => all = << >>
  BY <1>1, <1>2, ConcatEmptySeq DEF Places, AtEnd, all
<1> QED  BY <1>8, <1>9, <1>10 DEF DataOwnedOnce, all

(* Of modest documents no print data are forgotten either: those allocated *)
(* are at all times those of the jobs in the list and to be added, each of *)
(* them owned once, and none is left when the backend ends.                *)
THEOREM ModestOwnedOnce ==
  ASSUME \A d \in Documents : Modest(d)
  PROVE  Spec => []DataOwnedOnce
<1>1. Init => MInv
  BY InitIsModest
<1>2. MInv /\ [Next]_vars => MInv'
  BY NextIsModest
<1>3. MInv => DataOwnedOnce
  BY OwnedOnce
<1> QED  BY <1>1, <1>2, <1>3, PTL DEF Spec

-----------------------------------------------------------------------------
(* That copies come out in the order in which they were read.  Pages one   *)
(* behind the other: a name of its own lets the provers see no more of it  *)
(* than these facts.                                                       *)
Pages     == Seq(Nat)
Cat(s, t) == s \o t

LEMMA CatFacts ==
  /\ << >> \in Pages
  /\ \A s, t \in Pages : Cat(s, t) \in Pages
  /\ \A s, t, u \in Pages : Cat(Cat(s, t), u) = Cat(s, Cat(t, u))
  /\ \A s \in Pages : Cat(<< >>, s) = s /\ Cat(s, << >>) = s
<1>1. << >> \in Pages
  BY EmptySeq DEF Pages
<1>2. \A s, t \in Pages : Cat(s, t) \in Pages
  BY ConcatProperties DEF Pages, Cat
<1>3. \A s, t, u \in Pages : Cat(Cat(s, t), u) = Cat(s, Cat(t, u))
  BY ConcatAssociative DEF Pages, Cat
<1>4. \A s \in Pages : Cat(<< >>, s) = s /\ Cat(s, << >>) = s
  BY ConcatEmptySeq DEF Pages, Cat
<1> QED  BY <1>1, <1>2, <1>3, <1>4

LEMMA CatNotEmpty ==
  ASSUME NEW s \in Pages, NEW t \in Pages, t # << >>
  PROVE  Cat(s, t) # << >> /\ Cat(s, t) # s
<1>1. (s \o t = << >> <=> s = << >> /\ t = << >>) /\ (s \o t = s <=> t = << >>)
  BY ConcatEqualIffEmpty DEF Pages
<1> QED  BY <1>1 DEF Cat

(* What was put behind leaves what was there in front.                     *)
LEMMA PrefixOfCat ==
  ASSUME NEW s \in Pages, NEW t \in Pages
  PROVE  /\ IsPrefix(s, Cat(s, t))
         /\ t # << >> => IsStrictPrefix(s, Cat(s, t))
<1> DEFINE c == s \o t
<1>1. /\ c \in Seq(Nat) /\ Len(c) = Len(s) + Len(t)
      /\ \A i \in 1 .. Len(s) + Len(t) :
           c[i] = IF i <= Len(s) THEN s[i] ELSE t[i - Len(s)]
      /\ Len(s) \in Nat /\ Len(t) \in Nat
  BY ConcatProperties, LenProperties DEF Pages
<1>2. /\ \A i \in 1 .. Len(s) : s[i] \in Nat
      /\ \A i \in 1 .. Len(s) : c[i] = s[i]
  BY <1>1, ElementOfSeq DEF Pages
<1> HIDE DEF c
<1>3. SubSeq(s, 1, Len(s)) = s
  BY SubSeqFull DEF Pages
<1>4. /\ SubSeq(c, 1, Len(s)) \in Seq(Nat)
      /\ Len(SubSeq(c, 1, Len(s))) = Len(s)
      /\ \A i \in 1 .. Len(s) : SubSeq(c, 1, Len(s))[i] = c[i]
  <2>1. \A i \in 1 .. Len(s) : c[i] \in Nat
    BY <1>2
  <2>2. /\ SubSeq(c, 1, Len(s)) \in Seq(Nat)
        /\ Len(SubSeq(c, 1, Len(s))) = IF 1 <= Len(s) THEN Len(s) - 1 + 1 ELSE 0
        /\ \A i \in 1 .. Len(s) - 1 + 1 : SubSeq(c, 1, Len(s))[i] = c[1 + i - 1]
    BY <1>1, <2>1, SubSeqProperties
  <2> QED  BY <1>1, <2>2
<1>5. SubSeq(c, 1, Len(s)) = s
  BY <1>2, <1>4, SeqEqual DEF Pages
<1>6. IsPrefix(s, c)
  BY <1>1, <1>3, <1>5 DEF IsPrefix
<1>7. t # << >> => c # s
  BY CatNotEmpty DEF Cat, c
<1> QED  BY <1>6, <1>7 DEF IsStrictPrefix, Cat, c

(* FlattenSeq is recursive; of three sequences at most it can be unfolded. *)
LEMMA FlattenIs ==
  ASSUME NEW s, Len(s) \in 1 .. 3
  PROVE  FlattenSeq(s) = IF Len(s) = 1 THEN s[1]
                         ELSE IF Len(s) = 2 THEN Cat(s[1], s[2])
                         ELSE Cat(Cat(s[1], s[2]), s[3])
<1> DEFINE n == Len(s)
           f == CHOOSE g : g = [i \in 1 .. Len(s) |->
                                  IF i = 1 THEN s[i] ELSE g[i - 1] \o s[i]]
           two == Cat(s[1], s[2])
           three == Cat(two, s[3])
           h == [i \in 1 .. n |-> IF i = 1 THEN s[1] ELSE IF i = 2 THEN two
                                  ELSE three]
<1>1. FlattenSeq(s) = f[n]
  <2>1. ~(Len(s) = 0)
    OBVIOUS
  <2> QED  BY <2>1, Zenon DEF FlattenSeq
<1>2. n \in 1 .. 3 /\ \A i \in 1 .. n : i = 1 \/ i = 2 \/ i = 3
  <2>1. \A m \in 1 .. 3 : \A i \in 1 .. m : i = 1 \/ i = 2 \/ i = 3
    OBVIOUS
  <2> QED  BY <2>1, Zenon
<1>3. \A i \in 1 .. n :
        h[i] = IF i = 1 THEN s[i] ELSE h[i - 1] \o s[i]
  <2>1. \A i, j \in 1 .. n : i # 1 /\ j = i - 1 =>
          h[i] = Cat(h[j], s[i])
    <3> SUFFICES ASSUME NEW i \in 1 .. n, NEW j \in 1 .. n, i # 1, j = i - 1
                 PROVE  h[i] = Cat(h[j], s[i])
      OBVIOUS
    <3> HIDE DEF two, three, n
    <3>1. CASE i = 2
      <4>1. h[i] = two /\ h[j] = s[1]
        BY <3>1
      <4> QED  BY <3>1, <4>1 DEF two
    <3>2. CASE i = 3
      <4>1. h[i] = three /\ h[j] = two
        BY <3>2
      <4> QED  BY <3>2, <4>1 DEF three
    <3> QED  BY <1>2, <3>1, <3>2
  <2>2. \A i \in 1 .. n : i # 1 => i - 1 \in 1 .. n
    BY <1>2
  <2>3. \A i \in 1 .. n : i = 1 => h[i] = s[i]
    OBVIOUS
  <2> HIDE DEF h, n
  <2> QED  BY <2>1, <2>2, <2>3 DEF Cat
<1>4. f = [i \in 1 .. n |-> IF i = 1 THEN s[i] ELSE f[i - 1] \o s[i]]
  <2>1. h = [i \in 1 .. n |-> IF i = 1 THEN s[i] ELSE h[i - 1] \o s[i]]
    BY <1>3, Zenon
  <2> QED  BY <2>1, Zenon
<1> HIDE DEF f, n
<1>5. \A i \in 1 .. n : f[i] = IF i = 1 THEN s[i] ELSE f[i - 1] \o s[i]
  BY <1>4
<1>6. \A i, j \in 1 .. n : i # 1 /\ j = i - 1 => f[i] = Cat(f[j], s[i])
  BY <1>5 DEF Cat
<1>7. f[1] = s[1]
  BY <1>2, <1>5
<1>8. n \in 2 .. 3 => f[2] = Cat(s[1], s[2])
  <2> SUFFICES ASSUME n \in 2 .. 3 PROVE f[2] = Cat(s[1], s[2])
    OBVIOUS
  <2>1. 1 \in 1 .. n /\ 2 \in 1 .. n /\ 1 = 2 - 1 /\ 2 # 1
    OBVIOUS
  <2>2. f[2] = Cat(f[1], s[2])
    BY <1>6, <2>1
  <2> QED  BY <1>7, <2>2
<1>9. n = 3 => f[3] = Cat(Cat(s[1], s[2]), s[3])
  <2> SUFFICES ASSUME n = 3 PROVE f[3] = Cat(Cat(s[1], s[2]), s[3])
    OBVIOUS
  <2>1. 2 \in 1 .. n /\ 3 \in 1 .. n /\ 2 = 3 - 1 /\ 3 # 1 /\ n \in 2 .. 3
    OBVIOUS
  <2>2. f[3] = Cat(f[2], s[3])
    BY <1>6, <2>1
  <2> QED  BY <1>8, <2>1, <2>2
<1>10. f[n] = IF n = 1 THEN s[1] ELSE IF n = 2 THEN Cat(s[1], s[2])
              ELSE Cat(Cat(s[1], s[2]), s[3])
  <2>1. CASE n = 1
    BY <2>1, <1>7
  <2>2. CASE n = 2
    BY <2>2, <1>8
  <2>3. CASE n = 3
    BY <2>3, <1>9
  <2> QED  BY <1>2, <2>1, <2>2, <2>3
<1> QED  BY <1>1, <1>10 DEF n

(* So many copies of a sheet, two at most.                                 *)
Sheets(n, s) == IF n = 1 THEN s ELSE IF n = 2 THEN Cat(s, s) ELSE << >>

LEMMA RepeatIs ==
  ASSUME NEW n \in 1 .. 2, NEW s
  PROVE  Repeat(n, s) = Sheets(n, s)
<1> DEFINE r == [k \in 1 .. n |-> s]
<1>1. Len(r) = n /\ r[1] = s /\ (n = 2 => r[2] = s)
  OBVIOUS
<1> HIDE DEF r
<1>2. FlattenSeq(r) = IF n = 1 THEN s ELSE Cat(s, s)
  <2>1. Len(r) \in 1 .. 3
    BY <1>1
  <2>2. FlattenSeq(r) = IF Len(r) = 1 THEN r[1]
                        ELSE IF Len(r) = 2 THEN Cat(r[1], r[2])
                        ELSE Cat(Cat(r[1], r[2]), r[3])
    BY <2>1, FlattenIs
  <2> QED  BY <1>1, <2>2
<1> QED  BY <1>2 DEF Repeat, Sheets, r

LEMMA SheetsType ==
  ASSUME NEW n, NEW s \in Pages
  PROVE  /\ Sheets(n, s) \in Pages
         /\ n \in 1 .. 2 /\ s # << >> => Sheets(n, s) # << >>
         /\ n \in 1 .. 2 => Sheets(n, s) = Cat(s, Sheets(n - 1, s))
<1>1. Sheets(n, s) \in Pages
  BY CatFacts DEF Sheets
<1>2. n \in 1 .. 2 /\ s # << >> => Sheets(n, s) # << >>
  BY CatNotEmpty DEF Sheets
<1>3. n \in 1 .. 2 => Sheets(n, s) = Cat(s, Sheets(n - 1, s))
  <2>1. CASE n = 1
    BY <2>1, CatFacts DEF Sheets
  <2>2. CASE n = 2
    BY <2>2 DEF Sheets
  <2> QED  BY <2>1, <2>2
<1> QED  BY <1>1, <1>2, <1>3

(* What is printed of the nth of some jobs, whose data are m, and of all;  *)
(* there are never more than three.                                        *)
Part(s, n, m) ==
  IF n \in DOMAIN s THEN Sheets(s[n].copies, m[s[n].data]) ELSE << >>

Shown(s, m) == Cat(Part(s, 1, m), Cat(Part(s, 2, m), Part(s, 3, m)))

Shows(m) == \A d \in DOMAIN m : m[d] \in Pages /\ m[d] # << >>

LEMMA ShownType ==
  ASSUME NEW s, NEW m, Shows(m), Ids(s) \subseteq DOMAIN m
  PROVE  (\A n : Part(s, n, m) \in Pages) /\ Shown(s, m) \in Pages
<1>1. ASSUME NEW n PROVE Part(s, n, m) \in Pages
  <2>1. CASE n \in DOMAIN s
    <3>1. m[s[n].data] \in Pages
      BY <2>1, IdsHas DEF Shows
    <3> QED  BY <2>1, <3>1, SheetsType DEF Part
  <2>2. CASE n \notin DOMAIN s
    BY <2>2, CatFacts DEF Part
  <2> QED  BY <2>1, <2>2
<1> QED  BY <1>1, CatFacts DEF Shown

LEMMA ShownSame ==
  ASSUME NEW s, NEW m, NEW o, \A d \in Ids(s) : o[d] = m[d]
  PROVE  Shown(s, o) = Shown(s, m)
<1>1. ASSUME NEW n PROVE Part(s, n, o) = Part(s, n, m)
  BY IdsHas DEF Part
<1> QED  BY <1>1 DEF Shown

LEMMA ShownNone == ASSUME NEW m PROVE Shown(<< >>, m) = << >>
<1>1. \A n : Part(<< >>, n, m) = << >>
  BY DEF Part
<1>2. Cat(<< >>, Cat(<< >>, << >>)) = << >>
  BY CatFacts
<1> QED  BY <1>1, <1>2 DEF Shown

LEMMA ShownOne ==
  ASSUME NEW a, NEW m, m[a.data] \in Pages
  PROVE  Shown(<<a>>, m) = Sheets(a.copies, m[a.data])
<1> DEFINE x == Sheets(a.copies, m[a.data])
<1>1. /\ Part(<<a>>, 1, m) = x
      /\ Part(<<a>>, 2, m) = << >> /\ Part(<<a>>, 3, m) = << >>
  BY DEF Part
<1>2. x \in Pages
  BY SheetsType
<1> HIDE DEF x
<1>3. Cat(x, Cat(<< >>, << >>)) = x
  BY <1>2, CatFacts
<1> QED  BY <1>1, <1>3 DEF Shown, x

(* Jobs behind others.                                                     *)
LEMMA ShownConcat ==
  ASSUME NEW e \in Seq(JobType), NEW new \in Seq(JobType),
         Len(e) + Len(new) <= 3, NEW m, Shows(m),
         Ids(e) \subseteq DOMAIN m, Ids(new) \subseteq DOMAIN m
  PROVE  Shown(e \o new, m) = Cat(Shown(e, m), Shown(new, m))
<1> DEFINE s == e \o new
           l == Len(e)
           k == Len(new)
<1>1. /\ l \in Nat /\ k \in Nat /\ DOMAIN e = 1 .. l /\ DOMAIN new = 1 .. k
  BY LenProperties
<1>2. /\ s \in Seq(JobType) /\ Len(s) = l + k
      /\ \A n \in 1 .. l + k : s[n] = IF n <= l THEN e[n] ELSE new[n - l]
  BY ConcatProperties
<1>3. DOMAIN s = 1 .. l + k
  BY <1>2, LenProperties
<1> HIDE DEF s
<1>4. l + k <= 3
  OBVIOUS
<1> HIDE DEF l, k
<1> DEFINE E(n) == Part(e, n, m)
           N(n) == Part(new, n, m)
           S(n) == Part(s, n, m)
<1>5. \A n \in 1 .. l : S(n) = E(n)
  BY <1>1, <1>2, <1>3 DEF Part
<1>6. \A n, j \in 1 .. 3 : n = l + j => S(n) = N(j)
  <2> SUFFICES ASSUME NEW n \in 1 .. 3, NEW j \in 1 .. 3, n = l + j
               PROVE  S(n) = N(j)
    OBVIOUS
  <2>1. /\ n - l = j /\ ~(n <= l)
        /\ (n \in DOMAIN s <=> j \in DOMAIN new)
    BY <1>1, <1>3
  <2>2. n \in DOMAIN s => s[n] = new[j]
    BY <1>2, <1>3, <2>1
  <2> QED  BY <2>1, <2>2 DEF Part
<1>7. /\ \A n \in 1 .. 3 : n > l => E(n) = << >>
      /\ \A n \in 1 .. 3 : n > k => N(n) = << >>
  BY <1>1 DEF Part
<1>8. (\A n : E(n) \in Pages) /\ (\A n : N(n) \in Pages)
  BY ShownType
<1> HIDE DEF E, N, S
<1>9. l \in 0 .. 3 /\ k \in 0 .. 3
  BY <1>1, <1>4
<1> DEFINE Goal == Cat(S(1), Cat(S(2), S(3))) =
                     Cat(Cat(E(1), Cat(E(2), E(3))), Cat(N(1), Cat(N(2), N(3))))
<1>10. ASSUME l = 0 PROVE Goal
  <2>1. S(1) = N(1) /\ S(2) = N(2) /\ S(3) = N(3)
    BY <1>6, <1>10
  <2>2. E(1) = << >> /\ E(2) = << >> /\ E(3) = << >>
    BY <1>7, <1>10
  <2>3. Cat(<< >>, Cat(<< >>, << >>)) = << >>
    BY CatFacts
  <2>4. Cat(N(1), Cat(N(2), N(3))) \in Pages
    BY <1>8, CatFacts
  <2> QED  BY <2>1, <2>2, <2>3, <2>4, CatFacts
<1>11. ASSUME l = 1 PROVE Goal
  <2>1. S(1) = E(1) /\ S(2) = N(1) /\ S(3) = N(2)
    BY <1>5, <1>6, <1>11
  <2>2. E(2) = << >> /\ E(3) = << >> /\ N(3) = << >>
    BY <1>4, <1>7, <1>9, <1>11
  <2>3. Cat(E(1), Cat(<< >>, << >>)) = E(1)
    BY <1>8, CatFacts
  <2>4. Cat(N(2), << >>) = N(2)
    BY <1>8, CatFacts
  <2> QED  BY <2>1, <2>2, <2>3, <2>4
<1>12. ASSUME l = 2 PROVE Goal
  <2>1. S(1) = E(1) /\ S(2) = E(2) /\ S(3) = N(1)
    BY <1>5, <1>6, <1>12
  <2>2. E(3) = << >> /\ N(2) = << >> /\ N(3) = << >>
    BY <1>4, <1>7, <1>9, <1>12
  <2>3. Cat(E(2), << >>) = E(2) /\ Cat(N(1), Cat(<< >>, << >>)) = N(1)
    BY <1>8, CatFacts
  <2>4. Cat(Cat(E(1), E(2)), N(1)) = Cat(E(1), Cat(E(2), N(1)))
    BY <1>8, CatFacts
  <2> QED  BY <2>1, <2>2, <2>3, <2>4
<1>13. ASSUME l = 3 PROVE Goal
  <2>1. S(1) = E(1) /\ S(2) = E(2) /\ S(3) = E(3)
    BY <1>5, <1>13
  <2>2. N(1) = << >> /\ N(2) = << >> /\ N(3) = << >>
    BY <1>4, <1>7, <1>9, <1>13
  <2>3. Cat(<< >>, Cat(<< >>, << >>)) = << >>
    BY CatFacts
  <2>4. Cat(E(1), Cat(E(2), E(3))) \in Pages
    BY <1>8, CatFacts
  <2> QED  BY <2>1, <2>2, <2>3, <2>4, CatFacts
<1>14. Goal
  <2>1. l = 0 \/ l = 1 \/ l = 2 \/ l = 3
    BY <1>9
  <2> QED  BY <2>1, <1>10, <1>11, <1>12, <1>13
<1> QED  BY <1>14 DEF Shown, E, N, S, s

LEMMA ShownFirst ==
  ASSUME NEW s \in Seq(JobType), s # << >>, Len(s) <= 3,
         NEW m, Shows(m), Ids(s) \subseteq DOMAIN m
  PROVE  Shown(s, m) = Cat(Sheets(s[1].copies, m[s[1].data]), Shown(Tail(s), m))
<1> DEFINE t == Tail(s)
<1>1. /\ Len(s) \in 1 .. 3 /\ DOMAIN s = 1 .. Len(s)
      /\ t \in Seq(JobType) /\ Len(t) = Len(s) - 1
      /\ \A i \in 1 .. Len(t) : t[i] = s[i + 1]
  <2>1. Len(s) \in Nat \ {0}
    BY EmptySeq
  <2>2. \A n \in Nat \ {0} : n <= 3 => n \in 1 .. 3
    OBVIOUS
  <2> QED  BY <2>1, <2>2, LenProperties, HeadTailProperties
<1>2. DOMAIN t = 1 .. Len(s) - 1
  BY <1>1, LenProperties
<1> HIDE DEF t
<1>3. Part(t, 1, m) = Part(s, 2, m) /\ Part(t, 2, m) = Part(s, 3, m)
  <2>1. ASSUME NEW n \in 1 .. 2 PROVE Part(t, n, m) = Part(s, n + 1, m)
    <3>1. n \in DOMAIN t <=> n + 1 \in DOMAIN s
      BY <1>1, <1>2
    <3>2. n \in DOMAIN t => t[n] = s[n + 1]
      BY <1>1, <1>2
    <3> QED  BY <3>1, <3>2 DEF Part
  <2>2. 1 + 1 = 2 /\ 2 + 1 = 3 /\ 1 \in 1 .. 2 /\ 2 \in 1 .. 2
    OBVIOUS
  <2> QED  BY <2>1, <2>2
<1>4. Part(t, 3, m) = << >>
  <2>1. 3 \notin DOMAIN t
    BY <1>1, <1>2
  <2> QED  BY <2>1 DEF Part
<1>5. Part(s, 1, m) = Sheets(s[1].copies, m[s[1].data])
  <2>1. 1 \in DOMAIN s
    BY <1>1
  <2> QED  BY <2>1 DEF Part
<1>6. Part(s, 3, m) \in Pages
  BY ShownType
<1>7. Cat(Part(s, 3, m), << >>) = Part(s, 3, m)
  BY <1>6, CatFacts
<1> QED  BY <1>3, <1>4, <1>5, <1>7 DEF Shown, t

LEMMA FrontAndLast ==
  ASSUME NEW s \in Seq(JobType), s # << >>
  PROVE  s = Front(s) \o <<Last(s)>>
<1> DEFINE l == Len(s)
           f == Front(s)
<1>1. l \in Nat \ {0}
  BY EmptySeq
<1>2. l \in 1 .. l /\ 1 \in 1 .. l
  BY <1>1
<1>3. SubSeq(s, 1, l) = SubSeq(s, 1, l - 1) \o <<s[l]>>
  BY <1>2, SubSeqRecursiveSecond
<1>4. SubSeq(s, 1, l) = s
  BY SubSeqFull
<1>5. SubSeq(s, 1, l - 1) = Front(s) /\ s[l] = Last(s)
  BY DEF Front, Last
<1> QED  BY <1>3, <1>4, <1>5

-----------------------------------------------------------------------------
(* What is left to be printed of the nth of some jobs, and of all, where   *)
(* c copies of the eth have been printed; and the invariant: what was      *)
(* printed, that, and the jobs to be added are all that was taken in.      *)
Left(s, m, e, c, n) ==
  IF n \in DOMAIN s /\ n >= e
  THEN Sheets(s[n].copies - (IF n = e THEN c ELSE 0), m[s[n].data])
  ELSE << >>

Rest(s, m, e, c) ==
  Cat(Left(s, m, e, c, 1), Cat(Left(s, m, e, c, 2), Left(s, m, e, c, 3)))

Waiting == Rest(list, memory, entry, copy)

Few == \A n \in DOMAIN list : list[n].copies <= 2

InOrder ==
  /\ taken \in Pages /\ printed \in Pages
  /\ status # "failed" =>
       taken = Cat(printed, Cat(Waiting, Shown(jobs, memory)))

QInv == MInv /\ Shows(memory) /\ Few /\ InOrder

LEMMA QueueFacts ==
  ASSUME QInv
  PROVE  /\ Shaped /\ Places /\ DataAreThere /\ Room
         /\ list \in Seq(JobType) /\ jobs \in Seq(JobType)
         /\ Ids(list) \subseteq DOMAIN memory /\ Ids(jobs) \subseteq DOMAIN memory
         /\ Ids(list) \intersect Ids(jobs) = {}
         /\ taken \in Pages /\ printed \in Pages
BY DEF QInv, MInv, IInv, Shaped, DataAreThere, InOrder

LEMMA RestIs ==
  ASSUME NEW s \in Seq(JobType), NEW m
  PROVE  Rest(s, m, 1, 0) = Shown(s, m)
<1>1. ASSUME NEW n \in 1 .. 3
      PROVE  Left(s, m, 1, 0, n) = Part(s, n, m)
  <2>1. CASE n \in DOMAIN s
    <3>1. s[n] \in JobType
      BY <2>1, LenProperties, ElementOfSeq
    <3>2. s[n].copies \in Nat
      BY <3>1 DEF JobType
    <3>3. s[n].copies - (IF n = 1 THEN 0 ELSE 0) = s[n].copies
      BY <3>2
    <3>4. n >= 1
      OBVIOUS
    <3> QED  BY <2>1, <3>3, <3>4 DEF Left, Part
  <2>2. CASE n \notin DOMAIN s
    BY <2>2 DEF Left, Part
  <2> QED  BY <2>1, <2>2
<1>2. 1 \in 1 .. 3 /\ 2 \in 1 .. 3 /\ 3 \in 1 .. 3
  OBVIOUS
<1> QED  BY <1>1, <1>2 DEF Rest, Shown

LEMMA NothingRests ==
  ASSUME NEW m, NEW e, NEW c
  PROVE  Rest(<< >>, m, e, c) = << >>
<1>1. \A n : Left(<< >>, m, e, c, n) = << >>
  BY DEF Left
<1>2. Cat(<< >>, Cat(<< >>, << >>)) = << >>
  BY CatFacts
<1> QED  BY <1>1, <1>2 DEF Rest

LEMMA WaitingType ==
  ASSUME QInv
  PROVE  /\ Waiting \in Pages
         /\ \A n : Left(list, memory, entry, copy, n) \in Pages
<1>1. ASSUME NEW n PROVE Left(list, memory, entry, copy, n) \in Pages
  <2>1. CASE n \in DOMAIN list
    <3>1. memory[list[n].data] \in Pages
      BY <2>1, IdsHas, QueueFacts DEF QInv, Shows
    <3> QED  BY <3>1, SheetsType, CatFacts DEF Left
  <2>2. CASE n \notin DOMAIN list
    BY <2>2, CatFacts DEF Left
  <2> QED  BY <2>1, <2>2
<1> QED  BY <1>1, CatFacts DEF Waiting, Rest

-----------------------------------------------------------------------------
LEMMA SamePrefix ==
  ASSUME NEW s, NEW t
  PROVE  /\ Queue!IsPrefix(s, t) <=> IsPrefix(s, t)
         /\ Queue!IsStrictPrefix(s, t) <=> IsStrictPrefix(s, t)
BY DEF IsPrefix, IsStrictPrefix, Queue!IsPrefix, Queue!IsStrictPrefix

LEMMA InitInOrder ==
  ASSUME \A d \in Documents : Modest(d), Init
  PROVE  QInv /\ Queue!Init
<1>1. /\ jobs = << >> /\ list = << >> /\ memory = << >> /\ taken = << >>
      /\ printed = << >> /\ status = "running" /\ entry = 1 /\ copy = 0
  BY DEF Init
<1>2. Shows(memory) /\ Few
  BY <1>1 DEF Shows, Few
<1>3. InOrder
  <2>1. Waiting = << >>
    BY <1>1, NothingRests DEF Waiting
  <2>2. Shown(jobs, memory) = << >>
    BY <1>1, ShownNone
  <2>3. << >> \in Pages /\ Cat(<< >>, Cat(<< >>, << >>)) = << >>
    BY CatFacts
  <2> QED  BY <1>1, <2>1, <2>2, <2>3 DEF InOrder
<1> QED  BY <1>1, <1>2, <1>3, InitIsModest DEF QInv, Queue!Init

(* What read_parse returns is what the new jobs show.                      *)
LEMMA ReadPageInOrder ==
  ASSUME QInv, MInv', ReadPage
  PROVE  QInv' /\ Queue!TakeIn
<1> DEFINE read == Head(document)
           reps == [k \in DOMAIN read |-> Repeat(read[k].copies, <<read[k].page>>)]
           F    == FlattenSeq(reps)
<1>1. /\ pc = "read" /\ document # << >> /\ list' = list
      /\ DOMAIN jobs' = DOMAIN read
      /\ \A k \in DOMAIN read : /\ jobs'[k].copies = read[k].copies
                                /\ jobs'[k].data = fresh + k - 1
      /\ memory' = [d \in DOMAIN memory \union fresh .. fresh + Len(read) - 1 |->
                      IF d < fresh THEN memory[d]
                      ELSE <<read[d - fresh + 1].page>>]
      /\ UNCHANGED <<entry, copy, printed, status>>
  BY DEF ReadPage
<1>2. taken' = Cat(taken, F)
  BY DEF ReadPage, Cat
<1>3. /\ jobs = << >> /\ entry = 1 /\ copy = 0 /\ status = "running"
      /\ list \in Seq(JobType) /\ Ids(list) \subseteq DOMAIN memory
      /\ DOMAIN memory \subseteq 1 .. fresh - 1 /\ fresh \in Nat \ {0}
  BY <1>1, QueueFacts DEF Places, AtRead, Shaped
<1>4. /\ document \in Seq(ReadType) /\ 1 \in DOMAIN document
      /\ DOMAIN document = 1 .. Len(document)
      /\ Len(document[1]) \in 1 .. 3
  BY <1>1, QueueFacts, TailOfDocument DEF Shaped
<1>5. /\ read = document[1] /\ read \in ReadType
      /\ DOMAIN read = 1 .. Len(read) /\ Len(read) \in 1 .. 3
  <2>1. read = document[1] /\ read \in ReadType
    BY <1>4, ElementOfSeq
  <2> QED  BY <1>4, <2>1, LenProperties DEF ReadType
<1>6. \A k \in DOMAIN read : read[k].page \in Nat /\ read[k].copies \in 1 .. 2
  <2> SUFFICES ASSUME NEW k \in DOMAIN read
               PROVE  read[k].page \in Nat /\ read[k].copies \in 1 .. 2
    OBVIOUS
  <2>1. read[k] \in [page : Nat, copies : Nat \ {0}, kind : STRING,
                     can_combine : BOOLEAN]
    BY <1>5, ElementOfSeq DEF ReadType
  <2>2. read[k].page \in Nat /\ read[k].copies \in Nat \ {0}
    BY <2>1
  <2>3. read[k].copies <= 2
    BY <1>4, <1>5, QueueFacts DEF Room, Modest
  <2> QED  BY <2>2, <2>3
<1> HIDE DEF read
<1>7. Shows(memory')
  <2> SUFFICES ASSUME NEW d \in DOMAIN memory'
               PROVE  memory'[d] \in Pages /\ memory'[d] # << >>
    BY DEF Shows
  <2>1. CASE d < fresh
    <3>1. d \in DOMAIN memory /\ memory'[d] = memory[d]
      BY <1>1, <1>3, <2>1
    <3> QED  BY <3>1 DEF QInv, Shows
  <2>2. CASE ~(d < fresh)
    <3>1. d \in fresh .. fresh + Len(read) - 1
      BY <1>1, <1>3, <2>2
    <3>2. d - fresh + 1 \in DOMAIN read
      BY <1>3, <1>5, <3>1, InSpan
    <3>3. read[d - fresh + 1].page \in Nat
      BY <1>6, <3>2
    <3>4. memory'[d] = <<read[d - fresh + 1].page>>
      BY <1>1, <2>2
    <3> QED  BY <3>3, <3>4 DEF Pages
  <2> QED  BY <2>1, <2>2
<1>8. Shown(list, memory') = Shown(list, memory)
  <2>1. \A d \in Ids(list) : memory'[d] = memory[d]
    <3> SUFFICES ASSUME NEW d \in Ids(list) PROVE memory'[d] = memory[d]
      OBVIOUS
    <3>1. d \in DOMAIN memory /\ d < fresh
      BY <1>3
    <3> QED  BY <1>1, <3>1
  <2> QED  BY <2>1, ShownSame
<1>9. ASSUME NEW k \in DOMAIN read
      PROVE  /\ Part(jobs', k, memory') = reps[k] /\ reps[k] \in Pages
             /\ reps[k] # << >>
  <2> DEFINE d == fresh + k - 1
             page == <<read[k].page>>
  <2>1. /\ d \in fresh .. fresh + Len(read) - 1 /\ ~(d < fresh)
        /\ d - fresh + 1 = k
    BY <1>3, <1>5
  <2>2. memory'[d] = page
    BY <1>1, <2>1
  <2>3. page \in Pages /\ page # << >> /\ read[k].copies \in 1 .. 2
    BY <1>6 DEF Pages
  <2>4. Part(jobs', k, memory') = Sheets(read[k].copies, page)
    BY <1>1, <2>2 DEF Part
  <2> HIDE DEF page
  <2>5. Repeat(read[k].copies, page) = Sheets(read[k].copies, page)
    BY <2>3, RepeatIs
  <2>6. reps[k] = Repeat(read[k].copies, page)
    BY DEF page
  <2> QED  BY <2>3, <2>4, <2>5, <2>6, SheetsType
<1>10. \A k \in 1 .. 3 : k \notin DOMAIN read => Part(jobs', k, memory') = << >>
  BY <1>1 DEF Part
<1>11. Len(reps) = Len(read)
  BY <1>5
<1> HIDE DEF reps
<1>12. F = IF Len(read) = 1 THEN reps[1]
           ELSE IF Len(read) = 2 THEN Cat(reps[1], reps[2])
           ELSE Cat(Cat(reps[1], reps[2]), reps[3])
  <2>1. Len(reps) \in 1 .. 3
    BY <1>5, <1>11
  <2> QED  BY <1>11, <2>1, FlattenIs
<1> HIDE DEF F
<1>13. Shown(jobs', memory') = F /\ F \in Pages /\ F # << >>
  <2> DEFINE P(k) == Part(jobs', k, memory')
  <2>1. ASSUME NEW k \in 1 .. Len(read)
        PROVE  P(k) = reps[k] /\ reps[k] \in Pages /\ reps[k] # << >>
    BY <1>5, <1>9
  <2>2. \A k \in 1 .. 3 : k > Len(read) => P(k) = << >>
    BY <1>5, <1>10
  <2>3. Shown(jobs', memory') = Cat(P(1), Cat(P(2), P(3)))
    BY DEF Shown
  <2> HIDE DEF P
  <2>4. CASE Len(read) = 1
    <3>1. P(1) = reps[1] /\ P(2) = << >> /\ P(3) = << >> /\ F = reps[1]
          /\ reps[1] \in Pages /\ reps[1] # << >>
      BY <1>12, <2>1, <2>2, <2>4
    <3> QED  BY <2>3, <3>1, CatFacts
  <2>5. CASE Len(read) = 2
    <3>1. /\ P(1) = reps[1] /\ P(2) = reps[2] /\ P(3) = << >>
          /\ F = Cat(reps[1], reps[2])
          /\ reps[1] \in Pages /\ reps[2] \in Pages /\ reps[2] # << >>
      BY <1>12, <2>1, <2>2, <2>5
    <3>2. Cat(reps[2], << >>) = reps[2] /\ F \in Pages
      BY <3>1, CatFacts
    <3>3. F # << >>
      BY <3>1, CatNotEmpty
    <3> QED  BY <2>3, <3>1, <3>2, <3>3
  <2>6. CASE Len(read) = 3
    <3>1. /\ P(1) = reps[1] /\ P(2) = reps[2] /\ P(3) = reps[3]
          /\ F = Cat(Cat(reps[1], reps[2]), reps[3])
          /\ reps[1] \in Pages /\ reps[2] \in Pages /\ reps[3] \in Pages
          /\ reps[3] # << >>
      BY <1>12, <2>1, <2>2, <2>6
    <3>2. Cat(reps[1], reps[2]) \in Pages /\ F \in Pages
          /\ F = Cat(reps[1], Cat(reps[2], reps[3]))
      BY <3>1, CatFacts
    <3>3. F # << >>
      BY <3>1, <3>2, CatNotEmpty
    <3> QED  BY <2>3, <3>1, <3>2, <3>3
  <2>7. \A n \in 1 .. 3 : n = 1 \/ n = 2 \/ n = 3
    OBVIOUS
  <2> QED  BY <1>5, <2>4, <2>5, <2>6, <2>7
<1>14. Waiting' = Waiting /\ Waiting \in Pages
  <2>1. Waiting = Shown(list, memory)
    BY <1>3, RestIs DEF Waiting
  <2>2. Waiting' = Rest(list, memory', 1, 0)
    BY <1>1, <1>3 DEF Waiting
  <2>3. Rest(list, memory', 1, 0) = Shown(list, memory')
    BY <1>3, RestIs
  <2> QED  BY <1>8, <2>1, <2>2, <2>3, WaitingType
<1>15. taken = Cat(printed, Waiting) /\ taken \in Pages /\ printed \in Pages
  <2>1. taken = Cat(printed, Cat(Waiting, << >>))
    BY <1>3, ShownNone DEF QInv, InOrder
  <2> QED  BY <1>14, <2>1, CatFacts, QueueFacts
<1>16. taken' = Cat(printed, Cat(Waiting, F)) /\ taken' \in Pages
  BY <1>2, <1>13, <1>14, <1>15, CatFacts
<1>17. InOrder'
  BY <1>1, <1>13, <1>14, <1>15, <1>16 DEF InOrder
<1>18. Few'
  BY <1>1 DEF QInv, Few
<1>19. IsStrictPrefix(taken, taken')
  BY <1>2, <1>13, <1>15, PrefixOfCat
<1>20. Shows(memory)'
  BY <1>7 DEF Shows
<1>21. Queue!TakeIn
  BY <1>1, <1>3, <1>19, SamePrefix DEF Queue!TakeIn
<1> QED  BY <1>17, <1>18, <1>20, <1>21 DEF QInv

-----------------------------------------------------------------------------
LEMMA TailIds ==
  ASSUME Shaped, DataAreThere, jobs # << >>
  PROVE  Ids(Tail(jobs)) \subseteq Ids(jobs) \ {jobs[1].data}
<1> DEFINE t == Tail(jobs)
<1>1. /\ t \in Seq(JobType) /\ Len(t) = Len(jobs) - 1
      /\ \A n \in 1 .. Len(t) : t[n] = jobs[n + 1]
  BY HeadTailProperties DEF Shaped
<1>2. /\ Len(jobs) \in Nat \ {0} /\ DOMAIN jobs = 1 .. Len(jobs)
  BY LenProperties, EmptySeq DEF Shaped
<1>3. DOMAIN t = 1 .. Len(t)
  BY <1>1, LenProperties
<1> HIDE DEF t
<1> SUFFICES ASSUME NEW n \in 1 .. Len(t)
             PROVE  t[n].data \in Ids(jobs) \ {jobs[1].data}
  BY <1>3 DEF Ids, t
<1>4. n + 1 \in 1 .. Len(jobs) /\ 1 \in 1 .. Len(jobs) /\ n + 1 # 1
  BY <1>1, <1>2
<1>5. jobs[n + 1].data # jobs[1].data
  BY <1>2, <1>4 DEF DataAreThere, Distinct
<1>6. jobs[n + 1].data \in Ids(jobs)
  BY <1>2, <1>4, IdsHas
<1> QED  BY <1>1, <1>5, <1>6

(* Where there is room, all the new jobs get into the list.                *)
LEMMA AllAdded ==
  ASSUME NEW e \in Seq(JobType), NEW new \in Seq(JobType),
         Len(e) + Len(new) <= 3
  PROVE  Added(e, new) = e \o new
<1> DEFINE a == Added(e, new)
           b == e \o new
<1>1. /\ a \in Seq(JobType) /\ Len(a) = Len(e) + Len(new)
      /\ \A n \in 1 .. Len(a) : a[n] = IF n <= Len(e) THEN e[n] ELSE new[n - Len(e)]
  BY AddedIs
<1>2. /\ b \in Seq(JobType) /\ Len(b) = Len(e) + Len(new)
      /\ \A n \in 1 .. Len(e) + Len(new) :
           b[n] = IF n <= Len(e) THEN e[n] ELSE new[n - Len(e)]
  BY ConcatProperties
<1> HIDE DEF a, b
<1>3. a = b
  <2>1. Len(a) = Len(b) /\ \A n \in 1 .. Len(a) : a[n] = b[n]
    BY <1>1, <1>2
  <2> QED  BY <1>1, <1>2, <2>1, SeqEqual
<1> QED  BY <1>3 DEF a, b

(* An append in general: what e and the new jobs show is what the list and *)
(* the first of the jobs showed.                                           *)
LEMMA AppendInOrder ==
  ASSUME QInv, MInv', pc = "append",
         NEW e \in Seq(JobType), NEW new \in Seq(JobType),
         Append1(Added(e, new)), Len(e) + Len(new) <= 3, Shows(memory'),
         Ids(e) \subseteq DOMAIN memory', Ids(new) \subseteq DOMAIN memory',
         \A d \in Ids(e) : memory'[d] = memory[d],
         \A d \in Ids(Tail(jobs)) : memory'[d] = memory[d],
         \A n \in DOMAIN e : e[n].copies <= 2,
         \A n \in DOMAIN new : new[n].copies <= 2,
         Cat(Shown(list, memory), Sheets(jobs[1].copies, memory[jobs[1].data]))
           = Cat(Shown(e, memory), Shown(new, memory'))
  PROVE  QInv' /\ UNCHANGED <<taken, printed, status>>
<1> DEFINE t     == Tail(jobs)
           first == Sheets(jobs[1].copies, memory[jobs[1].data])
           was   == Shown(list, memory)
           more  == Shown(t, memory)
<1>1. /\ list' = e \o new /\ jobs' = t
      /\ UNCHANGED <<entry, copy, taken, printed, status>>
  BY AllAdded DEF Append1
<1>2. /\ jobs # << >> /\ entry = 1 /\ copy = 0 /\ status = "running"
      /\ list \in Seq(JobType) /\ jobs \in Seq(JobType)
      /\ Ids(list) \subseteq DOMAIN memory /\ Ids(jobs) \subseteq DOMAIN memory
      /\ taken \in Pages /\ printed \in Pages
  BY QueueFacts DEF Places, AtAppend
<1>3. Len(jobs) <= 3 /\ Shows(memory)
  <2>1. Len(list) + Len(jobs) <= 3
    BY QueueFacts DEF Room
  <2>2. Len(list) \in Nat /\ Len(jobs) \in Nat
    BY <1>2, LenProperties
  <2> QED  BY <2>1, <2>2 DEF QInv
<1>4. Shown(jobs, memory) = Cat(first, more)
  BY <1>2, <1>3, ShownFirst
<1>5. was \in Pages /\ first \in Pages /\ more \in Pages
  <2>1. was \in Pages
    BY <1>2, <1>3, ShownType
  <2>2. 1 \in DOMAIN jobs
    <3>1. Len(jobs) \in Nat \ {0} /\ DOMAIN jobs = 1 .. Len(jobs)
      BY <1>2, LenProperties, EmptySeq
    <3> QED  BY <3>1
  <2>3. memory[jobs[1].data] \in Pages
    BY <1>2, <1>3, <2>2, IdsHas DEF Shows
  <2>4. Ids(t) \subseteq DOMAIN memory
    BY <1>2, QueueFacts, TailIds
  <2>5. more \in Pages
    BY <1>3, <2>4, ShownType
  <2> QED  BY <2>1, <2>3, <2>5, SheetsType
<1>6. Shown(jobs', memory') = more
  BY <1>1, ShownSame
<1>7. Waiting' = Cat(was, first)
  <2>1. Waiting' = Rest(e \o new, memory', 1, 0)
    BY <1>1, <1>2 DEF Waiting
  <2>2. e \o new \in Seq(JobType)
    BY ConcatProperties
  <2>3. Rest(e \o new, memory', 1, 0) = Shown(e \o new, memory')
    BY <2>2, RestIs
  <2>4. Shown(e \o new, memory') = Cat(Shown(e, memory'), Shown(new, memory'))
    BY ShownConcat
  <2>5. Shown(e, memory') = Shown(e, memory)
    BY ShownSame
  <2> QED  BY <2>1, <2>3, <2>4, <2>5
<1>8. Waiting = was
  BY <1>2, RestIs DEF Waiting
<1> HIDE DEF was, first, more, t
<1>9. InOrder'
  <2>1. taken = Cat(printed, Cat(was, Cat(first, more)))
    BY <1>2, <1>4, <1>8 DEF QInv, InOrder
  <2>2. Cat(was, Cat(first, more)) = Cat(Cat(was, first), more)
    BY <1>5, CatFacts
  <2> QED  BY <1>1, <1>2, <1>6, <1>7, <2>1, <2>2 DEF InOrder
<1>10. Few'
  <2>1. /\ DOMAIN e = 1 .. Len(e) /\ DOMAIN new = 1 .. Len(new)
        /\ Len(e) \in Nat /\ Len(new) \in Nat
    BY LenProperties
  <2>2. /\ list' \in Seq(JobType) /\ Len(list') = Len(e) + Len(new)
        /\ \A n \in 1 .. Len(e) + Len(new) :
             list'[n] = IF n <= Len(e) THEN e[n] ELSE new[n - Len(e)]
    BY <1>1, ConcatProperties
  <2>3. DOMAIN list' = 1 .. Len(e) + Len(new)
    BY <2>2, LenProperties
  <2>4. ASSUME NEW n \in 1 .. Len(e) + Len(new)
        PROVE  list'[n].copies <= 2
    <3>1. CASE n <= Len(e)
      <4>1. n \in DOMAIN e /\ list'[n] = e[n]
        BY <2>1, <2>2, <3>1
      <4> QED  BY <4>1
    <3>2. CASE ~(n <= Len(e))
      <4>1. n - Len(e) \in DOMAIN new /\ list'[n] = new[n - Len(e)]
        BY <2>1, <2>2, <3>2
      <4> QED  BY <4>1
    <3> QED  BY <3>1, <3>2
  <2> QED  BY <2>3, <2>4 DEF Few
<1>11. Shows(memory)'
  BY DEF Shows
<1> QED  BY <1>1, <1>9, <1>10, <1>11 DEF QInv

LEMMA AppendAsIsInOrder ==
  ASSUME QInv, MInv', AppendAsIs
  PROVE  QInv' /\ UNCHANGED <<taken, printed, status>>
<1> DEFINE new == <<jobs[1]>>
<1>1. /\ pc = "append" /\ jobs # << >> /\ Append1(Added(list, <<Head(jobs)>>))
      /\ memory' = memory
  BY DEF AppendAsIs, heap
<1>2. /\ Shaped /\ DataAreThere /\ Room /\ Shows(memory) /\ Few
      /\ list \in Seq(JobType) /\ jobs \in Seq(JobType)
      /\ Ids(list) \subseteq DOMAIN memory /\ Ids(jobs) \subseteq DOMAIN memory
  BY QueueFacts DEF QInv
<1>3. Head(jobs) = jobs[1] /\ jobs[1] \in JobType /\ jobs[1].data \in Ids(jobs)
  BY <1>1, <1>2, TheJobs
<1>4. /\ new \in Seq(JobType) /\ Len(new) = 1 /\ Ids(new) = {jobs[1].data}
  BY <1>3, OneJob
<1>5. Append1(Added(list, new))
  BY <1>1, <1>3
<1>6. Len(jobs) \in Nat \ {0} /\ DOMAIN jobs = 1 .. Len(jobs) /\ Len(list) \in Nat
  BY <1>1, <1>2, LenProperties, EmptySeq
<1>7. Len(list) + Len(new) <= 3
  <2>1. Len(list) + Len(jobs) <= 3
    BY <1>1, <1>2 DEF Room
  <2> QED  BY <1>4, <1>6, <2>1
<1>8. jobs[1].copies <= 2
  BY <1>2, <1>6 DEF Room
<1>9. \A n \in DOMAIN new : new[n].copies <= 2
  BY <1>8
<1>10. Shown(new, memory') = Sheets(jobs[1].copies, memory[jobs[1].data])
  <2>1. memory'[jobs[1].data] \in Pages
    BY <1>1, <1>2, <1>3 DEF Shows
  <2> QED  BY <1>1, <2>1, ShownOne
<1> HIDE DEF new
<1>11. Shows(memory')
  BY <1>1, <1>2
<1>12. Ids(list) \subseteq DOMAIN memory' /\ Ids(new) \subseteq DOMAIN memory'
  BY <1>1, <1>2, <1>3, <1>4
<1>13. \A n \in DOMAIN list : list[n].copies <= 2
  BY <1>2 DEF Few
<1> QED  BY <1>1, <1>2, <1>4, <1>5, <1>7, <1>9, <1>10, <1>11, <1>12, <1>13, AppendInOrder

(* What a new sheet shows, and what the others go on showing.              *)
LEMMA SheetShows ==
  ASSUME Shaped, Shows(memory), NEW old, NEW job, NEW freed,
         NewSheet(old, job, freed),
         old.data \in DOMAIN memory, job.data \in DOMAIN memory
  PROVE  /\ Shows(memory') /\ fresh \in DOMAIN memory'
         /\ memory'[fresh] = Cat(memory[old.data], memory[job.data])
         /\ \A d \in DOMAIN memory \ freed :
              d \in DOMAIN memory' /\ memory'[d] = memory[d]
<1> DEFINE sheet == Cat(memory[old.data], memory[job.data])
<1>1. fresh \notin DOMAIN memory
  BY DEF Shaped
<1>2. memory' = [d \in (DOMAIN memory \ freed) \union {fresh} |->
                   IF d = fresh THEN sheet ELSE memory[d]]
  BY DEF NewSheet, Cat
<1>3. sheet \in Pages /\ sheet # << >>
  BY CatFacts, CatNotEmpty DEF Shows
<1> HIDE DEF sheet
<1>4. fresh \in DOMAIN memory' /\ memory'[fresh] = sheet
  BY <1>2
<1>5. \A d \in DOMAIN memory \ freed :
        d \in DOMAIN memory' /\ memory'[d] = memory[d]
  BY <1>1, <1>2
<1>6. Shows(memory')
  <2>1. \A d \in DOMAIN memory' : d = fresh \/ d \in DOMAIN memory \ freed
    BY <1>2
  <2> QED  BY <1>3, <1>4, <1>5, <2>1 DEF Shows
<1> QED  BY <1>4, <1>5, <1>6 DEF sheet

(* What there is to know of the list and of the first of the jobs.         *)
LEMMA AtAppendIs ==
  ASSUME QInv, pc = "append"
  PROVE  /\ jobs # << >> /\ Head(jobs) = jobs[1] /\ jobs[1] \in JobType
         /\ jobs[1].data \in Ids(jobs)
         /\ jobs[1].copies = 1 \/ jobs[1].copies = 2
         /\ Len(list) \in Nat /\ Len(list) <= 2
         /\ memory[jobs[1].data] \in Pages
         /\ jobs[1].data \in DOMAIN memory /\ jobs[1].data # fresh
         /\ jobs[1].data \notin Ids(list) /\ fresh \notin Ids(list)
         /\ Ids(Tail(jobs)) \subseteq DOMAIN memory \ {jobs[1].data}
         /\ Ids(Tail(jobs)) \intersect Ids(list) = {}
<1>1. /\ Shaped /\ DataAreThere /\ Room /\ Shows(memory)
      /\ list \in Seq(JobType) /\ jobs \in Seq(JobType) /\ jobs # << >>
      /\ Ids(list) \subseteq DOMAIN memory /\ Ids(jobs) \subseteq DOMAIN memory
      /\ Ids(list) \intersect Ids(jobs) = {}
  BY QueueFacts DEF QInv, Places, AtAppend
<1>2. Head(jobs) = jobs[1] /\ jobs[1] \in JobType /\ jobs[1].data \in Ids(jobs)
  BY <1>1, TheJobs
<1>3. Len(jobs) \in Nat \ {0} /\ DOMAIN jobs = 1 .. Len(jobs) /\ Len(list) \in Nat
  BY <1>1, LenProperties, EmptySeq
<1>4. Len(list) <= 2
  <2>1. Len(list) + Len(jobs) <= 3
    BY <1>1 DEF Room
  <2> QED  BY <1>3, <2>1
<1>5. jobs[1].copies = 1 \/ jobs[1].copies = 2
  <2>1. jobs[1].copies <= 2
    BY <1>1, <1>3 DEF Room
  <2>2. jobs[1].copies \in Nat \ {0}
    BY <1>2 DEF JobType
  <2> QED  BY <2>1, <2>2
<1>6. fresh \notin DOMAIN memory
  BY <1>1 DEF Shaped
<1>7. Ids(Tail(jobs)) \subseteq Ids(jobs) \ {jobs[1].data}
  BY <1>1, TailIds
<1>8. memory[jobs[1].data] \in Pages
  BY <1>1, <1>2 DEF Shows
<1> QED  BY <1>1, <1>2, <1>3, <1>4, <1>5, <1>6, <1>7, <1>8

LEMMA PairCopiesInOrder ==
  ASSUME QInv, MInv', NEW polarity \in BOOLEAN, PairCopies(polarity)
  PROVE  QInv' /\ UNCHANGED <<taken, printed, status>>
<1> DEFINE job == Head(jobs)
           p   == PairedCopies(job)
           new == <<p>>
<1>1. pc = "append" /\ job.copies > 1
  BY DEF PairCopies
<1>2. /\ Shaped /\ DataAreThere /\ Shows(memory) /\ Few
      /\ list \in Seq(JobType) /\ Ids(list) \subseteq DOMAIN memory
  BY QueueFacts DEF QInv
<1>3. /\ job = jobs[1] /\ job \in JobType /\ job.copies = 2
      /\ Len(list) \in Nat /\ Len(list) <= 2
      /\ memory[job.data] \in Pages /\ job.data \in DOMAIN memory
      /\ job.data \notin Ids(list)
      /\ Ids(Tail(jobs)) \subseteq DOMAIN memory \ {job.data}
  BY <1>1, AtAppendIs
<1>4. p \in JobType /\ p.data = fresh /\ p.copies = 1
  <2>1. p \in JobType /\ p.data = fresh
    BY <1>1, <1>2, <1>3, PairedIs
  <2>2. p = [Combined(job, job) EXCEPT !.copies = job.copies \div 2]
    BY DEF PairedCopies
  <2>3. p.copies = job.copies \div 2
    BY <2>2 DEF Combined
  <2> QED  BY <1>3, <2>1, <2>3
<1>5. /\ NewSheet(job, job, {job.data}) /\ Append1(Added(list, new))
  <2> DEFINE rest == IF job.copies % 2 = 0 THEN << >>
                     ELSE <<[job EXCEPT !.copies = 1]>>
             pair == <<PairedCopies(job)>>
  <2>1. /\ NewSheet(job, job, IF rest = << >> THEN {job.data} ELSE {})
        /\ Append1(Added(list, IF polarity THEN rest \o pair ELSE pair \o rest))
    BY DEF PairCopies
  <2>2. rest = << >>
    BY <1>3
  <2>3. new \in Seq(JobType)
    BY <1>4
  <2>4. << >> \o new = new /\ new \o << >> = new
    BY <2>3, ConcatEmptySeq
  <2> QED  BY <2>1, <2>2, <2>4
<1> HIDE DEF job, p
<1>6. new \in Seq(JobType) /\ Len(new) = 1 /\ Ids(new) = {fresh}
  BY <1>4, OneJob
<1>7. /\ Shows(memory') /\ fresh \in DOMAIN memory'
      /\ memory'[fresh] = Cat(memory[job.data], memory[job.data])
      /\ \A d \in DOMAIN memory \ {job.data} :
           d \in DOMAIN memory' /\ memory'[d] = memory[d]
  BY <1>2, <1>3, <1>5, SheetShows
<1>8. Shown(new, memory') = Sheets(job.copies, memory[job.data])
  <2>1. memory'[p.data] \in Pages
    BY <1>4, <1>7 DEF Shows
  <2>2. Shown(new, memory') = Sheets(p.copies, memory'[p.data])
    BY <2>1, ShownOne
  <2> QED  BY <1>3, <1>4, <1>7, <2>2 DEF Sheets
<1>9. \A n \in DOMAIN new : new[n].copies <= 2
  BY <1>4
<1> HIDE DEF new
<1>10. Len(list) + Len(new) <= 3
  BY <1>3, <1>6
<1>11. /\ Ids(list) \subseteq DOMAIN memory' /\ Ids(new) \subseteq DOMAIN memory'
       /\ \A d \in Ids(list) : memory'[d] = memory[d]
       /\ \A d \in Ids(Tail(jobs)) : memory'[d] = memory[d]
  BY <1>2, <1>3, <1>6, <1>7
<1>12. \A n \in DOMAIN list : list[n].copies <= 2
  BY <1>2 DEF Few
<1>13. Cat(Shown(list, memory), Sheets(jobs[1].copies, memory[jobs[1].data]))
         = Cat(Shown(list, memory), Shown(new, memory'))
  BY <1>3, <1>8
<1> QED  BY <1>1, <1>2, <1>5, <1>6, <1>7, <1>9, <1>10, <1>11, <1>12, <1>13,
            AppendInOrder

LEMMA PairWithWaitingInOrder ==
  ASSUME QInv, MInv', PairWithWaiting
  PROVE  QInv' /\ UNCHANGED <<taken, printed, status>>
<1> DEFINE job   == Head(jobs)
           old   == Last(list)
           e     == Front(list)
           c     == Combined(old, job)
           b     == [job EXCEPT !.copies = 1]
           new   == <<c>> \o LeftOver(job)
           freed == {old.data} \union IF job.copies = 1 THEN {job.data} ELSE {}
<1>1. /\ pc = "append" /\ list # << >> /\ old.copies <= 1
      /\ NewSheet(old, job, freed) /\ Append1(Added(e, new))
  BY DEF PairWithWaiting, WithWaiting, Pairable
<1>2. /\ Shaped /\ DataAreThere /\ Shows(memory) /\ Few
      /\ list \in Seq(JobType) /\ Ids(list) \subseteq DOMAIN memory
  BY QueueFacts DEF QInv
<1>3. /\ job = jobs[1] /\ job \in JobType /\ (job.copies = 1 \/ job.copies = 2)
      /\ jobs # << >> /\ Len(list) \in Nat /\ Len(list) <= 2
      /\ memory[job.data] \in Pages /\ job.data \in DOMAIN memory
      /\ job.data # fresh /\ job.data \notin Ids(list) /\ fresh \notin Ids(list)
      /\ Ids(Tail(jobs)) \subseteq DOMAIN memory \ {job.data}
      /\ Ids(Tail(jobs)) \intersect Ids(list) = {}
  BY <1>1, AtAppendIs
<1>4. /\ old \in JobType /\ old.data \in Ids(list)
      /\ e \in Seq(JobType) /\ Len(e) = Len(list) - 1
      /\ Ids(e) = Ids(list) \ {old.data}
  BY <1>1, <1>2, <1>3, TheJobs
<1>5. list = e \o <<old>>
  BY <1>1, <1>2, FrontAndLast
<1>6. old.copies = 1
  <2>1. old.copies \in Nat \ {0}
    BY <1>4 DEF JobType
  <2> QED  BY <1>1, <2>1
<1>7. c \in JobType /\ c.data = fresh /\ c.copies = 1
  BY <1>2, <1>3, <1>4, <1>6 DEF Combined, JobType, Shaped
<1>8. b \in JobType /\ b.data = job.data /\ b.copies = 1
  BY <1>3 DEF JobType
<1>9. LeftOver(job) = IF job.copies = 2 THEN <<b>> ELSE << >>
  <2>1. job.copies \in Nat
    BY <1>3
  <2> QED  BY <2>1 DEF LeftOver
<1>10. /\ new \in Seq(JobType) /\ Len(new) \in 1 .. 2
       /\ Ids(new) = IF job.copies = 2 THEN {fresh, job.data} ELSE {fresh}
  BY <1>2, <1>3, <1>4, NewJobs
<1>11. /\ new = IF job.copies = 2 THEN <<c>> \o <<b>> ELSE <<c>>
       /\ new = IF job.copies = 2 THEN <<c, b>> ELSE <<c>>
  BY <1>7, <1>8, <1>9, OneAndOne
<1>12. /\ Shows(memory') /\ fresh \in DOMAIN memory'
       /\ memory'[fresh] = Cat(memory[old.data], memory[job.data])
       /\ \A d \in DOMAIN memory \ freed :
            d \in DOMAIN memory' /\ memory'[d] = memory[d]
  BY <1>1, <1>2, <1>3, <1>4, SheetShows
<1>13. freed \subseteq {old.data, job.data} /\ (job.data \in freed => job.copies = 1)
  <2>1. job.data # old.data
    BY <1>3, <1>4
  <2> QED  BY <2>1
<1>14. \A n \in DOMAIN new : new[n].copies <= 2
  <2>1. c.copies <= 2 /\ b.copies <= 2
    BY <1>7, <1>8
  <2> HIDE DEF c, b, new
  <2>2. CASE job.copies = 2
    <3>1. new = <<c, b>>
      BY <1>11, <2>2
    <3> QED  BY <2>1, <3>1
  <2>3. CASE job.copies # 2
    <3>1. new = <<c>>
      BY <1>11, <2>3
    <3> QED  BY <2>1, <3>1
  <2> QED  BY <2>2, <2>3
<1> HIDE DEF job, old, e, c, b, new, freed
<1>15. Len(e) + Len(new) <= 3
  <2>1. Len(e) + Len(new) <= Len(list) + 1
    BY <1>3, <1>4, <1>10, OneMore
  <2>2. Len(e) \in Nat /\ Len(new) \in Nat
    BY <1>4, <1>10, LenProperties
  <2> QED  BY <1>3, <2>1, <2>2
<1>16. Ids(e) \subseteq DOMAIN memory \ freed
  BY <1>2, <1>3, <1>4, <1>13
<1>17. Ids(Tail(jobs)) \subseteq DOMAIN memory \ freed
  BY <1>3, <1>4, <1>13
<1>18. Ids(new) \subseteq DOMAIN memory'
  <2>1. job.copies = 2 => job.data \in DOMAIN memory \ freed
    BY <1>3, <1>13
  <2> QED  BY <1>3, <1>10, <1>12, <2>1
<1>19. \A n \in DOMAIN e : e[n].copies <= 2
  <2> SUFFICES ASSUME NEW n \in DOMAIN e  PROVE e[n].copies <= 2
    OBVIOUS
  <2>1. /\ <<old>> \in Seq(JobType) /\ Len(<<old>>) = 1
    BY <1>4, OneJob
  <2>2. n \in 1 .. Len(e) /\ Len(e) \in Nat
    BY <1>4, LenProperties
  <2>3. list[n] = e[n] /\ n \in 1 .. Len(list)
    BY <1>4, <1>5, <2>1, <2>2, ConcatProperties
  <2> QED  BY <1>2, <2>3, LenProperties DEF Few
<1> DEFINE mo == memory[old.data]
           mj == memory[job.data]
           se == Shown(e, memory)
<1>20. mo \in Pages /\ mj \in Pages /\ se \in Pages
  <2>1. mo \in Pages
    BY <1>2, <1>4 DEF Shows
  <2>2. se \in Pages
    BY <1>2, <1>16, ShownType
  <2> QED  BY <1>3, <2>1, <2>2
<1>21. Shown(list, memory) = Cat(se, mo)
  <2> DEFINE one  == <<old>>
             both == e \o one
  <2>1. one \in Seq(JobType) /\ Len(one) = 1 /\ Ids(one) = {old.data}
    BY <1>4, OneJob
  <2>2. Shown(one, memory) = mo
    BY <1>6, <1>20, ShownOne DEF Sheets
  <2>3. list = both
    BY <1>5
  <2> HIDE DEF one, mo
  <2>4. Len(e) + Len(one) <= 3
    BY <1>3, <1>4, <2>1
  <2>5. Ids(e) \subseteq DOMAIN memory /\ Ids(one) \subseteq DOMAIN memory
    BY <1>2, <1>4, <1>16, <2>1
  <2>6. Shown(both, memory) = Cat(se, Shown(one, memory))
    <3>1. Shows(memory) /\ e \in Seq(JobType) /\ one \in Seq(JobType)
      BY <1>2, <1>4, <2>1
    <3> HIDE DEF se
    <3>2. Shown(e \o one, memory) = Cat(Shown(e, memory), Shown(one, memory))
      BY ONLY <3>1, <2>4, <2>5, ShownConcat
    <3> QED  BY <3>2 DEF se
  <2> HIDE DEF both, se
  <2> QED  BY <2>2, <2>3, <2>6
<1>22. Shown(<<c>>, memory') = Cat(mo, mj)
  <2>1. Shown(<<c>>, memory') = Sheets(c.copies, memory'[c.data])
    BY <1>7, <1>12, ShownOne DEF Shows
  <2> QED  BY <1>7, <1>12, <2>1 DEF Sheets
<1>23. Shown(new, memory') = Cat(mo, Sheets(job.copies, mj))
  <2>1. CASE job.copies = 2
    <3>1. job.data \in DOMAIN memory' /\ memory'[job.data] = mj
      BY <1>3, <1>12, <1>13, <2>1
    <3>2. Shown(<<b>>, memory') = mj
      <4>1. memory'[b.data] \in Pages
        BY <1>8, <1>20, <3>1
      <4>2. Shown(<<b>>, memory') = Sheets(b.copies, memory'[b.data])
        BY <4>1, ShownOne
      <4> QED  BY <1>8, <3>1, <4>2 DEF Sheets
    <3>3. /\ <<c>> \in Seq(JobType) /\ Len(<<c>>) = 1 /\ Ids(<<c>>) = {c.data}
          /\ <<b>> \in Seq(JobType) /\ Len(<<b>>) = 1 /\ Ids(<<b>>) = {b.data}
      BY <1>7, <1>8, OneJob
    <3>4. /\ Ids(<<c>>) \subseteq DOMAIN memory'
          /\ Ids(<<b>>) \subseteq DOMAIN memory'
          /\ Len(<<c>>) + Len(<<b>>) <= 3
      BY <1>7, <1>8, <1>12, <3>1, <3>3
    <3>5. Shown(<<c>> \o <<b>>, memory') =
            Cat(Shown(<<c>>, memory'), Shown(<<b>>, memory'))
      BY <1>12, <3>3, <3>4, ShownConcat
    <3>6. new = <<c>> \o <<b>>
      BY <1>11, <2>1
    <3>7. Shown(new, memory') = Cat(Cat(mo, mj), mj)
      BY <1>22, <3>2, <3>5, <3>6
    <3> HIDE DEF mo, mj
    <3>8. Cat(Cat(mo, mj), mj) = Cat(mo, Cat(mj, mj))
      BY <1>20, CatFacts
    <3>9. Sheets(job.copies, mj) = Cat(mj, mj)
      BY <2>1 DEF Sheets
    <3> QED  BY <3>7, <3>8, <3>9
  <2>2. CASE job.copies = 1
    <3>1. new = <<c>>
      BY <1>11, <2>2
    <3> QED  BY <1>22, <2>2, <3>1 DEF Sheets
  <2> QED  BY <1>3, <2>1, <2>2
<1>24. Cat(Shown(list, memory), Sheets(jobs[1].copies, memory[jobs[1].data]))
         = Cat(se, Shown(new, memory'))
  <2>1. Sheets(job.copies, mj) \in Pages
    BY <1>20, SheetsType
  <2> HIDE DEF mo, mj, se
  <2>2. Cat(Cat(se, mo), Sheets(job.copies, mj)) =
          Cat(se, Cat(mo, Sheets(job.copies, mj)))
    BY <1>20, <2>1, CatFacts
  <2> QED  BY <1>3, <1>21, <1>23, <2>2 DEF mj
<1>25. /\ Ids(e) \subseteq DOMAIN memory'
       /\ \A d \in Ids(e) : memory'[d] = memory[d]
       /\ \A d \in Ids(Tail(jobs)) : memory'[d] = memory[d]
  BY <1>12, <1>16, <1>17
<1> QED  BY <1>1, <1>4, <1>10, <1>12, <1>14, <1>15, <1>18, <1>19, <1>24,
            <1>25, AppendInOrder

(* Printing a copy takes a sheet off the front of what is left.            *)
LEMMA RestStep ==
  ASSUME NEW s \in Seq(JobType), Len(s) <= 3, NEW m, Shows(m),
         Ids(s) \subseteq DOMAIN m,
         NEW e \in 1 .. Len(s), NEW c \in 0 .. s[e].copies - 1,
         s[e].copies <= 2
  PROVE  /\ m[s[e].data] \in Pages /\ m[s[e].data] # << >>
         /\ c + 1 # s[e].copies =>
              Rest(s, m, e, c) = Cat(m[s[e].data], Rest(s, m, e, c + 1))
         /\ c + 1 = s[e].copies /\ e # Len(s) =>
              Rest(s, m, e, c) = Cat(m[s[e].data], Rest(s, m, e + 1, 0))
         /\ c + 1 = s[e].copies /\ e = Len(s) =>
              Rest(s, m, e, c) = m[s[e].data]
<1> DEFINE sheet == m[s[e].data]
           k     == s[e].copies
           L(n)  == Left(s, m, e, c, n)
           M(n)  == IF n = e THEN Sheets(k - (c + 1), sheet) ELSE L(n)
           after == Cat(M(1), Cat(M(2), M(3)))
<1>1. Len(s) \in 1 .. 3 /\ DOMAIN s = 1 .. Len(s) /\ e \in DOMAIN s /\ e \in 1 .. 3
  <2>1. Len(s) \in Nat /\ DOMAIN s = 1 .. Len(s)
    BY LenProperties
  <2> QED  BY <2>1
<1>2. \A n \in DOMAIN s : s[n].copies \in Nat
  <2>1. \A n \in DOMAIN s : s[n] \in JobType
    BY <1>1, ElementOfSeq
  <2> QED  BY <2>1 DEF JobType
<1>3. sheet \in Pages /\ sheet # << >>
  BY <1>1, IdsHas DEF Shows
<1>4. k \in 1 .. 2 /\ c \in 0 .. k - 1 /\ k - c \in 1 .. 2
      /\ (k - c) - 1 = k - (c + 1)
  <2>1. k \in Nat /\ k <= 2
    BY <1>1, <1>2
  <2> HIDE DEF k
  <2>2. c \in 0 .. k - 1
    BY DEF k
  <2> QED  BY <2>1, <2>2
<1>5. L(e) = Cat(sheet, M(e))
  <2>1. L(e) = Sheets(k - c, sheet)
    BY <1>1 DEF Left
  <2> HIDE DEF sheet, k
  <2>2. Sheets(k - c, sheet) = Cat(sheet, Sheets((k - c) - 1, sheet))
    BY <1>3, <1>4, SheetsType
  <2> QED  BY <1>4, <2>1, <2>2
<1>6. \A n : n # e => L(n) = M(n)
  OBVIOUS
<1>7. \A n \in 1 .. 3 : n < e => L(n) = << >>
  BY DEF Left
<1>8. \A n \in 1 .. 3 : n > e => L(n) = Part(s, n, m)
  <2> SUFFICES ASSUME NEW n \in 1 .. 3, n > e  PROVE L(n) = Part(s, n, m)
    OBVIOUS
  <2>1. n # e /\ n >= e
    OBVIOUS
  <2>2. CASE n \in DOMAIN s
    <3>1. s[n].copies - 0 = s[n].copies
      BY <1>2, <2>2
    <3> QED  BY <2>1, <2>2, <3>1 DEF Left, Part
  <2>3. CASE n \notin DOMAIN s
    BY <2>3 DEF Left, Part
  <2> QED  BY <2>2, <2>3
<1>9. \A n \in 1 .. 3 : L(n) \in Pages /\ M(n) \in Pages
  <2> SUFFICES ASSUME NEW n \in 1 .. 3  PROVE L(n) \in Pages /\ M(n) \in Pages
    OBVIOUS
  <2>1. L(n) \in Pages
    <3>1. CASE n \in DOMAIN s
      <4>1. m[s[n].data] \in Pages
        BY <3>1, IdsHas DEF Shows
      <4> QED  BY <4>1, SheetsType, CatFacts DEF Left
    <3>2. CASE n \notin DOMAIN s
      BY <3>2, CatFacts DEF Left
    <3> QED  BY <3>1, <3>2
  <2>2. Sheets(k - (c + 1), sheet) \in Pages
    BY <1>3, SheetsType
  <2> QED  BY <2>1, <2>2
<1>10. Rest(s, m, e, c) = Cat(L(1), Cat(L(2), L(3)))
  BY DEF Rest
<1>11. /\ 1 \in 1 .. 3 /\ 2 \in 1 .. 3 /\ 3 \in 1 .. 3
       /\ e = 1 \/ e = 2 \/ e = 3
  BY <1>1
<1>12. Rest(s, m, e, c) = Cat(sheet, after) /\ after \in Pages
  <2> HIDE DEF L, M, sheet
  <2>1. after \in Pages
    BY <1>9, <1>11, CatFacts
  <2>2. CASE e = 1
    <3>1. L(1) = Cat(sheet, M(1)) /\ L(2) = M(2) /\ L(3) = M(3)
      BY <1>5, <1>6, <2>2
    <3>2. Cat(M(2), M(3)) \in Pages /\ M(1) \in Pages
      BY <1>9, <1>11, CatFacts
    <3>3. Cat(Cat(sheet, M(1)), Cat(M(2), M(3))) = Cat(sheet, after)
      BY <1>3, <3>2, CatFacts
    <3> QED  BY <1>10, <2>1, <3>1, <3>3
  <2>3. CASE e = 2
    <3>1. /\ L(1) = << >> /\ L(2) = Cat(sheet, M(2)) /\ L(3) = M(3)
          /\ M(1) = << >> /\ M(2) \in Pages /\ M(3) \in Pages
      BY <1>5, <1>6, <1>7, <1>9, <1>11, <2>3
    <3>2. Cat(Cat(sheet, M(2)), M(3)) = Cat(sheet, Cat(M(2), M(3)))
      BY <1>3, <3>1, CatFacts
    <3>3. Cat(M(2), M(3)) \in Pages
      BY <3>1, CatFacts
    <3>4. Cat(sheet, Cat(M(2), M(3))) \in Pages
      BY <1>3, <3>3, CatFacts
    <3>5. /\ Cat(<< >>, Cat(M(2), M(3))) = Cat(M(2), M(3))
          /\ Cat(<< >>, Cat(sheet, Cat(M(2), M(3)))) =
               Cat(sheet, Cat(M(2), M(3)))
      BY <3>3, <3>4, CatFacts
    <3> QED  BY <1>10, <2>1, <3>1, <3>2, <3>5
  <2>4. CASE e = 3
    <3>1. /\ L(1) = << >> /\ L(2) = << >> /\ L(3) = Cat(sheet, M(3))
          /\ M(1) = << >> /\ M(2) = << >> /\ M(3) \in Pages
      BY <1>5, <1>6, <1>7, <1>9, <1>11, <2>4
    <3>2. Cat(sheet, M(3)) \in Pages
      BY <1>3, <3>1, CatFacts
    <3>3. /\ Cat(<< >>, Cat(<< >>, M(3))) = M(3)
          /\ Cat(<< >>, Cat(<< >>, Cat(sheet, M(3)))) = Cat(sheet, M(3))
      BY <3>1, <3>2, CatFacts
    <3> QED  BY <1>10, <2>1, <3>1, <3>3
  <2> QED  BY <1>11, <2>2, <2>3, <2>4
<1>13. ASSUME c + 1 # k  PROVE after = Rest(s, m, e, c + 1)
  <2>1. \A n \in 1 .. 3 : M(n) = Left(s, m, e, c + 1, n)
    <3> SUFFICES ASSUME NEW n \in 1 .. 3 PROVE M(n) = Left(s, m, e, c + 1, n)
      OBVIOUS
    <3>1. CASE n = e
      BY <1>1, <3>1 DEF Left
    <3>2. CASE n # e
      BY <3>2 DEF Left
    <3> QED  BY <3>1, <3>2
  <2> HIDE DEF M
  <2> QED  BY <1>11, <2>1 DEF Rest
<1>14. ASSUME c + 1 = k  PROVE M(e) = << >>
  <2>1. k - (c + 1) = 0
    BY <1>4, <1>14
  <2> QED  BY <2>1 DEF Sheets
<1>15. ASSUME c + 1 = k, e # Len(s)  PROVE after = Rest(s, m, e + 1, 0)
  <2>1. \A n \in 1 .. 3 : M(n) = Left(s, m, e + 1, 0, n)
    <3> SUFFICES ASSUME NEW n \in 1 .. 3 PROVE M(n) = Left(s, m, e + 1, 0, n)
      OBVIOUS
    <3>1. CASE n <= e
      <4>1. ~(n >= e + 1)
        BY <1>1, <3>1
      <4>2. Left(s, m, e + 1, 0, n) = << >>
        BY <4>1 DEF Left
      <4>3. n = e \/ n < e
        BY <1>1, <3>1
      <4> HIDE DEF L
      <4>4. CASE n = e
        BY <1>14, <1>15, <4>2, <4>4
      <4>5. CASE n < e
        <5>1. n # e
          BY <1>1, <4>5
        <5> QED  BY <1>6, <1>7, <4>2, <4>5, <5>1
      <4> QED  BY <4>3, <4>4, <4>5
    <3>2. CASE n > e
      <4>1. n >= e + 1 /\ n # e
        BY <1>1, <3>2
      <4>2. M(n) = Part(s, n, m)
        <5> HIDE DEF L
        <5> QED  BY <1>8, <3>2, <4>1
      <4>3. n \in DOMAIN s => s[n].copies - (IF n = e + 1 THEN 0 ELSE 0) = s[n].copies
        BY <1>2
      <4> HIDE DEF M
      <4> QED  BY <4>1, <4>2, <4>3 DEF Left, Part
    <3>3. n <= e \/ n > e
      BY <1>1
    <3> QED  BY <3>1, <3>2, <3>3
  <2> HIDE DEF M
  <2> QED  BY <1>11, <2>1 DEF Rest
<1>16. ASSUME c + 1 = k, e = Len(s)  PROVE after = << >>
  <2>1. \A n \in 1 .. 3 : M(n) = << >>
    <3> SUFFICES ASSUME NEW n \in 1 .. 3 PROVE M(n) = << >>
      OBVIOUS
    <3>1. CASE n = e
      BY <1>14, <1>16, <3>1
    <3>2. CASE n < e
      <4>1. n # e
        BY <1>1, <3>2
      <4> HIDE DEF L
      <4> QED  BY <1>7, <3>2, <4>1
    <3>3. CASE n > e
      <4>1. n \notin DOMAIN s /\ n # e
        <5>1. n # e
          BY <1>1, <3>3
        <5>2. n > Len(s)
          BY <1>16, <3>3
        <5>3. n \notin 1 .. Len(s)
          BY <1>1, <5>2
        <5> QED  BY <1>1, <5>1, <5>3
      <4>2. Part(s, n, m) = << >>
        BY <4>1 DEF Part
      <4> HIDE DEF L
      <4> QED  BY <1>8, <3>3, <4>1, <4>2
    <3> QED  BY <1>1, <3>1, <3>2, <3>3
  <2>2. Cat(<< >>, Cat(<< >>, << >>)) = << >>
    BY CatFacts
  <2> HIDE DEF M
  <2> QED  BY <1>11, <2>1, <2>2
<1> HIDE DEF after, M, L
<1>17. Cat(sheet, << >>) = sheet
  BY <1>3, CatFacts
<1> QED  BY <1>3, <1>12, <1>13, <1>15, <1>16, <1>17

-----------------------------------------------------------------------------
(* With no jobs to be added, what was taken in is what was printed and what*)
(* is left of the list.                                                    *)
LEMMA AllIsWaiting ==
  ASSUME QInv, jobs = << >>, status # "failed"
  PROVE  taken = Cat(printed, Waiting)
<1>1. taken = Cat(printed, Cat(Waiting, << >>))
  BY ShownNone DEF QInv, InOrder
<1> QED  BY <1>1, WaitingType, CatFacts

LEMMA PrintSheetInOrder ==
  ASSUME QInv, MInv', PrintSheet
  PROVE  QInv' /\ Queue!PutOut
<1> DEFINE sheet == memory[list[entry].data]
           last  == copy + 1 = list[entry].copies
           end   == last /\ entry = Len(list)
<1>1. /\ pc = "print" /\ jobs' = jobs
      /\ copy'  = IF last THEN 0 ELSE copy + 1
      /\ entry' = IF end THEN 1 ELSE IF last THEN entry + 1 ELSE entry
      /\ UNCHANGED <<taken, status>>
  BY DEF PrintSheet
<1>2. printed' = Cat(printed, sheet)
  BY DEF PrintSheet, Cat
<1>3. /\ jobs = << >> /\ status = "running" /\ Len(list) <= 3
      /\ entry \in 1 .. Len(list) /\ copy \in 0 .. list[entry].copies - 1
      /\ list \in Seq(JobType) /\ Ids(list) \subseteq DOMAIN memory
      /\ Shows(memory) /\ Few /\ taken \in Pages /\ printed \in Pages
  BY <1>1, QueueFacts DEF QInv, Places, AtPrint, Shaped
<1>4. taken = Cat(printed, Waiting)
  BY <1>3, AllIsWaiting
<1>5. list[entry].copies <= 2
  BY <1>3, LenProperties DEF Few
<1>6. /\ sheet \in Pages /\ sheet # << >>
      /\ ~last => Waiting = Cat(sheet, Rest(list, memory, entry, copy + 1))
      /\ last /\ entry # Len(list) =>
           Waiting = Cat(sheet, Rest(list, memory, entry + 1, 0))
      /\ end => Waiting = sheet
  BY <1>3, <1>5, RestStep DEF Waiting
<1>7. printed' \in Pages /\ IsStrictPrefix(printed, printed')
  BY <1>2, <1>3, <1>6, CatFacts, PrefixOfCat
<1> DEFINE Out == /\ QInv' /\ taken = Cat(printed', Waiting') /\ Waiting' \in Pages
<1>8. ASSUME end  PROVE Out
  <2>1. memory' = Free({list[n].data : n \in DOMAIN list}) /\ list' = << >>
    BY <1>8 DEF PrintSheet
  <2>2. Shows(memory)' /\ Few'
    <3>1. \A d \in DOMAIN memory' : d \in DOMAIN memory /\ memory'[d] = memory[d]
      BY <2>1 DEF Free
    <3> QED  BY <1>3, <2>1, <3>1 DEF Shows, Few
  <2>3. Waiting' = << >>
    BY <2>1, NothingRests DEF Waiting
  <2>4. taken = printed'
    BY <1>2, <1>4, <1>6, <1>8
  <2>5. /\ << >> \in Pages /\ Cat(<< >>, << >>) = << >>
        /\ Cat(printed', << >>) = printed'
    BY <1>7, CatFacts
  <2>6. Shown(jobs', memory') = << >>
    BY <1>1, <1>3, ShownNone
  <2>7. InOrder'
    BY <1>1, <1>3, <1>7, <2>3, <2>4, <2>5, <2>6 DEF InOrder
  <2> QED  BY <2>2, <2>3, <2>4, <2>5, <2>7 DEF QInv
<1>9. ASSUME ~end  PROVE Out
  <2>1. memory' = memory /\ list' = list
    BY <1>9 DEF PrintSheet
  <2>2. Shows(memory)' /\ Few'
    BY <1>3, <2>1 DEF Shows, Few
  <2>3. Waiting = Cat(sheet, Waiting')
    <3>1. Waiting' = Rest(list, memory, entry', copy')
      BY <2>1 DEF Waiting
    <3>2. CASE last
      BY <1>1, <1>6, <1>9, <3>1, <3>2
    <3>3. CASE ~last
      BY <1>1, <1>6, <3>1, <3>3
    <3> QED  BY <3>2, <3>3
  <2>4. Waiting' \in Pages
    <3>1. Waiting' = Rest(list, memory, entry', copy')
      BY <2>1 DEF Waiting
    <3>2. \A n : Left(list, memory, entry', copy', n) \in Pages
      <4> SUFFICES ASSUME NEW n
                   PROVE  Left(list, memory, entry', copy', n) \in Pages
        OBVIOUS
      <4>1. n \in DOMAIN list => memory[list[n].data] \in Pages
        BY <1>3, IdsHas DEF Shows
      <4> QED  BY <4>1, SheetsType, CatFacts DEF Left
    <3> QED  BY <3>1, <3>2, CatFacts DEF Rest
  <2> HIDE DEF sheet
  <2>5. taken = Cat(printed', Waiting')
    BY <1>2, <1>3, <1>4, <1>6, <2>3, <2>4, CatFacts
  <2>6. Shown(jobs', memory') = << >>
    BY <1>1, <1>3, ShownNone
  <2>7. Cat(Waiting', << >>) = Waiting'
    BY <2>4, CatFacts
  <2>8. InOrder'
    BY <1>1, <1>3, <1>7, <2>5, <2>6, <2>7 DEF InOrder
  <2> QED  BY <2>2, <2>4, <2>5, <2>8 DEF QInv
<1>10. Out
  BY <1>8, <1>9
<1>11. IsPrefix(printed', taken)
  BY <1>7, <1>10, PrefixOfCat
<1>12. Queue!PutOut
  BY <1>1, <1>3, <1>7, <1>11, SamePrefix DEF Queue!PutOut
<1> QED  BY <1>10, <1>12

LEMMA PrintFailsInOrder ==
  ASSUME QInv, MInv', PrintFails
  PROVE  QInv' /\ Queue!End
<1>1. /\ pc = "print" /\ status' = "failed"
      /\ memory' = Free({list[n].data : n \in DOMAIN list}) /\ list' = << >>
      /\ UNCHANGED <<taken, printed>>
  BY DEF PrintFails
<1>2. status = "running" /\ taken \in Pages /\ printed \in Pages
  BY <1>1, QueueFacts DEF Places, AtPrint
<1>3. Shows(memory)' /\ Few'
  <2>1. \A d \in DOMAIN memory' : d \in DOMAIN memory /\ memory'[d] = memory[d]
    BY <1>1 DEF Free
  <2> QED  BY <1>1, <2>1 DEF QInv, Shows, Few
<1>4. InOrder'
  BY <1>1, <1>2 DEF InOrder
<1>5. Queue!End
  BY <1>1, <1>2 DEF Queue!End
<1> QED  BY <1>3, <1>4, <1>5 DEF QInv

LEMMA ReadFailsInOrder ==
  ASSUME QInv, MInv', ReadFails
  PROVE  QInv' /\ (Queue!End \/ UNCHANGED <<taken, printed, status>>)
<1>1. /\ pc = "read" /\ jobs' = jobs /\ list' = list /\ memory' = memory
      /\ UNCHANGED <<entry, copy, taken, printed>>
      /\ status' = status \/ (list = << >> /\ status' \in {"ok", "failed"})
  BY DEF ReadFails, heap
<1>2. jobs = << >> /\ status = "running" /\ taken \in Pages /\ printed \in Pages
  BY <1>1, QueueFacts DEF Places, AtRead
<1>3. Waiting' = Waiting /\ Shows(memory)' /\ Few'
  BY <1>1 DEF QInv, Waiting, Shows, Few
<1>4. taken = Cat(printed, Cat(Waiting, Shown(jobs, memory)))
  BY <1>2 DEF QInv, InOrder
<1>5. InOrder'
  BY <1>1, <1>2, <1>3, <1>4 DEF InOrder
<1>6. ASSUME list = << >>  PROVE taken = printed
  <2>1. Waiting = << >>
    BY <1>6, NothingRests DEF Waiting
  <2>2. taken = Cat(printed, Waiting)
    BY <1>2, AllIsWaiting
  <2> QED  BY <1>2, <2>1, <2>2, CatFacts
<1>7. Queue!End \/ UNCHANGED <<taken, printed, status>>
  BY <1>1, <1>2, <1>6 DEF Queue!End
<1> QED  BY <1>3, <1>5, <1>7 DEF QInv

LEMMA NextInOrder ==
  ASSUME QInv, [Next]_vars
  PROVE  QInv' /\ [Queue!Next]_(Queue!vars)
<1>1. MInv'
  BY NextIsModest DEF QInv
<1>2. CASE ReadPage
  BY <1>1, <1>2, ReadPageInOrder DEF Queue!Next
<1>3. CASE ReadFails
  BY <1>1, <1>3, ReadFailsInOrder DEF Queue!Next, Queue!vars
<1>4. CASE PairWithWaiting
  BY <1>1, <1>4, PairWithWaitingInOrder DEF Queue!vars
<1>5. ASSUME NEW polarity \in BOOLEAN, PairCopies(polarity)
      PROVE  QInv' /\ UNCHANGED Queue!vars
  BY <1>1, <1>5, PairCopiesInOrder DEF Queue!vars
<1>6. CASE AppendAsIs
  BY <1>1, <1>6, AppendAsIsInOrder DEF Queue!vars
<1>7. CASE PrintSheet
  BY <1>1, <1>7, PrintSheetInOrder DEF Queue!Next
<1>8. CASE PrintFails
  BY <1>1, <1>8, PrintFailsInOrder DEF Queue!Next
<1>9. CASE UNCHANGED vars
  <2>1. /\ jobs' = jobs /\ list' = list /\ memory' = memory
        /\ UNCHANGED <<entry, copy, taken, printed, status>>
    BY <1>9 DEF vars, heap
  <2>2. Waiting' = Waiting /\ Shows(memory)' /\ Few'
    BY <2>1 DEF QInv, Waiting, Shows, Few
  <2>3. InOrder'
    BY <2>1, <2>2 DEF QInv, InOrder
  <2> QED  BY <1>1, <2>1, <2>2, <2>3 DEF QInv, Queue!vars
<1>10. CASE Done
  BY <1>9, <1>10 DEF Done
<1> QED  BY <1>2, <1>3, <1>4, <1>5, <1>6, <1>7, <1>8, <1>9, <1>10 DEF Next

(* Of modest documents, however they come, whatever waits and whatever     *)
(* shares a sheet, the job list keeps the promise of PrintQueue: what has  *)
(* been printed is at all times the front of what was read, each copy once *)
(* and in its order, and success is reported only when all was printed.    *)
THEOREM ModestInOrder ==
  ASSUME \A d \in Documents : Modest(d)
  PROVE  Spec => InOrderAll
<1>1. Init => QInv /\ Queue!Init
  BY InitInOrder
<1>2. QInv /\ [Next]_vars => QInv' /\ [Queue!Next]_(Queue!vars)
  BY NextInOrder
<1> QED  BY <1>1, <1>2, PTL DEF Spec, InOrderAll, Queue!Spec
=============================================================================
