-------------------------- MODULE PrintPipeProofs --------------------------
(***************************************************************************)
(* What TLAPS proves of the print pipeline, for jobs of any length and     *)
(* whatever descriptors the dialog has open: no part of a job is printed   *)
(* as a whole one, unless the shell runs the command as its child; the     *)
(* numbers that the processes use stand for what they were opened for,     *)
(* although the error pipe takes numbers that were closed before and are   *)
(* closed again later; and the user has seen all errors when stpui_print   *)
(* returns.                                                                *)
(***************************************************************************)
EXTENDS PrintPipe, FiniteSetTheorems, WellFoundedInduction, TLAPS

(* A set of naturals that is not empty has a least element: the initial    *)
(* segments that end in its elements have a minimal one.                   *)
LEMMA Least ==
  ASSUME NEW S \in SUBSET Nat, S # {}
  PROVE  Min(S) \in S /\ \A y \in S : Min(S) <= y
<1> DEFINE R == StrictSubsetOrdering(Nat)
           T == {0 .. x : x \in S}
<1>1. IsWellFoundedOn(R, FiniteSubsetsOf(Nat))
  BY FS_StrictSubsetOrderingWellFounded
<1>2. T \subseteq FiniteSubsetsOf(Nat)
  <2>1. \A x \in S : 0 .. x \subseteq Nat /\ IsFiniteSet(0 .. x)
    BY FS_Interval
  <2> QED  BY <2>1 DEF FiniteSubsetsOf
<1>3. T # {}
  OBVIOUS
<1> HIDE DEF R
<1>4. PICK t \in T : \A u \in T : <<u, t>> \notin R
  BY <1>1, <1>2, <1>3, WFMin
<1>5. PICK x \in S : t = 0 .. x
  BY <1>4
<1>6. ASSUME NEW y \in S, y < x PROVE FALSE
  <2>1. 0 .. y \subseteq 0 .. x /\ 0 .. y # 0 .. x
    <3>1. x \in 0 .. x /\ x \notin 0 .. y
      BY <1>6
    <3> QED  BY <3>1, <1>6
  <2>2. <<0 .. y, 0 .. x>> \in R
    BY <2>1 DEF R, StrictSubsetOrdering
  <2> QED  BY <2>2, <1>4, <1>5
<1>7. \A y \in S : x <= y
  BY <1>6
<1> QED  BY <1>7 DEF Min

(* There is always a free number, and pipe takes two.                      *)
LEMMA LowestFree ==
  ASSUME NEW used \in SUBSET Nat, IsFiniteSet(used)
  PROVE  Min(0 .. Cardinality(used) \ used) \in Nat \ used
<1> DEFINE n == Cardinality(used)
<1>1. n \in Nat
  BY FS_CardinalityType
<1>2. IsFiniteSet(0 .. n) /\ Cardinality(0 .. n) = n + 1
  BY <1>1, FS_Interval
<1>3. 0 .. n \ used # {}
  <2>1. CASE 0 .. n \subseteq used
    <3>1. Cardinality(0 .. n) <= n
      BY <2>1, FS_Subset
    <3> QED  BY <3>1, <1>1, <1>2
  <2> QED  BY <2>1
<1>4. Min(0 .. n \ used) \in 0 .. n \ used
  BY <1>1, <1>3, Least
<1> QED  BY <1>1, <1>4

LEMMA TwoFreeNumbers ==
  ASSUME NEW table, DOMAIN table \subseteq Nat, IsFiniteSet(DOMAIN table)
  PROVE  /\ PipeNumbers(table)[1] \in Nat \ DOMAIN table
         /\ PipeNumbers(table)[2] \in Nat \ DOMAIN table
         /\ PipeNumbers(table)[1] # PipeNumbers(table)[2]
<1> DEFINE r == Min(0 .. Cardinality(DOMAIN table) \ DOMAIN table)
           s == DOMAIN table \union {r}
<1>1. r \in Nat \ DOMAIN table
  BY LowestFree
<1>2. s \subseteq Nat /\ IsFiniteSet(s)
  BY <1>1, FS_AddElement
<1>3. Min(0 .. Cardinality(s) \ s) \in Nat \ s
  BY <1>2, LowestFree
<1>4. PipeNumbers(table) = <<r, Min(0 .. Cardinality(s) \ s)>>
  BY DEF PipeNumbers
<1> QED  BY <1>1, <1>3, <1>4

-----------------------------------------------------------------------------
(* The inductive invariant.  Until the parent forks nothing has happened   *)
(* and it has its three standard descriptors.                              *)
Places == {"none", "start", "close", "print", "signal", "wait", "sync",
           "returned", "watch", "redirect", "shell", "run", "read", "exited"}
Table(t) == DOMAIN t \subseteq Nat /\ IsFiniteSet(DOMAIN t)

Shaped ==
  /\ DOMAIN fd = Processes
  /\ pc \in [Processes -> Places]
  /\ written \in Nat /\ got \in Nat /\ data \in {0, 1} /\ printed \in Int

NothingYet ==
  pc["parent"] = "start" =>
    /\ Table(fd["parent"]) /\ {0, 1, 2} \subseteq DOMAIN fd["parent"]
    /\ \A p \in Processes \ {"parent"} : pc[p] = "none"
    /\ written = 0 /\ got = 0 /\ data = 0 /\ ~usr1

(* The pipes of the parent have numbers of their own.                      *)
OwnNumbers ==
  pc["parent"] # "start" =>
    /\ pipefd[1] # pipefd[2]
    /\ {pipefd[1], pipefd[2], syncfd[1], syncfd[2]} \intersect {0, 1, 2} = {}
    /\ {pipefd[1], pipefd[2]} \intersect {syncfd[1], syncfd[2]} = {}

(* The monitor can write the job as long as it watches the parent.         *)
MonitorHolds ==
  /\ pc["monitor"] = "start" => /\ Table(fd["monitor"])
                                /\ Is("monitor", pipefd[1], "data in")
  /\ pc["monitor"] \in {"start", "close", "watch"} =>
       Is("monitor", pipefd[2], "data out")

(* The command has the job as its input.                                   *)
Prints == pc["command"] \in {"start", "redirect", "run"}
CommandHolds ==
  /\ pc["command"] = "start" => /\ Table(fd["command"])
                                /\ Is("command", pipefd[1], "data in")
  /\ pc["command"] = "redirect" => errfd[2] # 0
  /\ pc["command"] \in {"redirect", "run"} => Is("command", 0, "data in")

(* Nothing of the job is lost on its way.                                  *)
Arrives == (pc["monitor"] = "start" \/ Prints) => written = got + data

(* The signal comes behind the whole job, and until it comes the monitor   *)
(* watches a command that may print.                                       *)
SignalLast ==
  /\ pc["parent"] \in {"signal", "wait", "sync"} => written = JobLength
  /\ usr1 => /\ written = JobLength
             /\ pc["parent"] \notin {"start", "close", "print"}
Watched == Prints => pc["monitor"] \in {"close", "watch"} \/ usr1

IInv ==
  /\ Shaped /\ NothingYet /\ OwnNumbers /\ MonitorHolds /\ CommandHolds
  /\ Arrives /\ SignalLast /\ Watched /\ NoPartialJobUnlessShell

-----------------------------------------------------------------------------
(* What close and dup2 leave alone; tables of descriptors stay tables.     *)
LEMMA ClosedKeeps ==
  ASSUME NEW t, NEW numbers, NEW n \in DOMAIN t, n \notin numbers
  PROVE  n \in DOMAIN Closed(t, numbers) /\ Closed(t, numbers)[n] = t[n]
BY DEF Closed

LEMMA Dup2Keeps ==
  ASSUME NEW t, NEW from, NEW to, NEW n \in DOMAIN t, n # to
  PROVE  n \in DOMAIN Dup2(t, from, to) /\ Dup2(t, from, to)[n] = t[n]
BY DEF Dup2

LEMMA RedirectedKeeps ==
  ASSUME NEW t, NEW n \in DOMAIN t,
         n \notin {1, 2, errfd[2], pipefd[1], pipefd[2], syncfd[2]}
  PROVE  n \in DOMAIN Redirected(t) /\ Redirected(t)[n] = t[n]
<1> DEFINE closed == Closed(t, {1, 2})
           second == Dup2(closed, errfd[2], 2)
           first  == Dup2(second, errfd[2], 1)
<1>1. n \in DOMAIN closed /\ closed[n] = t[n]
  BY ClosedKeeps
<1> HIDE DEF closed
<1>2. n \in DOMAIN second /\ second[n] = t[n]
  BY <1>1, Dup2Keeps
<1> HIDE DEF second
<1>3. n \in DOMAIN first /\ first[n] = t[n]
  BY <1>2, Dup2Keeps
<1> HIDE DEF first
<1>4. Redirected(t) =
        Closed(first, {errfd[2], pipefd[1], pipefd[2], syncfd[2]})
  BY DEF Redirected, closed, second, first
<1> QED  BY <1>3, <1>4, ClosedKeeps

LEMMA ClosedTable ==
  ASSUME NEW t, NEW numbers, Table(t)
  PROVE  Table(Closed(t, numbers))
BY FS_Subset, DOMAIN Closed(t, numbers) \subseteq DOMAIN t DEF Table, Closed

LEMMA RewiredTable ==
  ASSUME NEW t, Table(t)
  PROVE  Table(Rewired(t))
<1>1. DOMAIN Dup2(t, pipefd[1], 0) = DOMAIN t \union {0}
  BY DEF Dup2
<1>2. Table(Dup2(t, pipefd[1], 0))
  BY <1>1, FS_AddElement DEF Table
<1> QED  BY <1>2, ClosedTable DEF Rewired

LEMMA PipedTable ==
  ASSUME NEW t, NEW ends, Table(t)
  PROVE  Table(Piped(t, ends))
<1> DEFINE a == PipeNumbers(t)[1]
           b == PipeNumbers(t)[2]
<1>1. a \in Nat /\ b \in Nat
  BY TwoFreeNumbers DEF Table
<1>2. DOMAIN Piped(t, ends) = (DOMAIN t \union {a}) \union {b}
  BY DEF Piped
<1>3. IsFiniteSet((DOMAIN t \union {a}) \union {b})
  BY FS_AddElement DEF Table
<1> QED  BY <1>1, <1>2, <1>3 DEF Table

(* The initial states.                                                     *)
LEMMA InitHolds == Init => IInv
<1> SUFFICES ASSUME Init PROVE IInv
  OBVIOUS
<1>1. PICK open \in OpenBefore :
        fd = [p \in Processes |->
               IF p = "parent" THEN [n \in 0 .. 2 \union open |-> "other"]
               ELSE << >>]
  BY DEF Init
<1>2. DOMAIN fd["parent"] = 0 .. 2 \union open
  BY <1>1 DEF Processes
<1>3. Table(fd["parent"]) /\ {0, 1, 2} \subseteq DOMAIN fd["parent"]
  <2>1. IsFiniteSet(0 .. 2)
    BY FS_Interval, 0 \in Int, 2 \in Int
  <2>2. IsFiniteSet(0 .. 2 \union open)
    BY <2>1, FS_Union, PipeAssumption
  <2> QED  BY <1>2, <2>2, PipeAssumption DEF Table
<1>4. Shaped
  BY <1>1 DEF Init, Shaped, Processes, Places
<1>5. NothingYet
  BY <1>3 DEF Init, NothingYet
<1> QED
  BY <1>4, <1>5
  DEF Init, IInv, OwnNumbers, MonitorHolds, CommandHolds, Arrives,
      SignalLast, Watched, Prints, Processes, NoPartialJobUnlessShell,
      NoPartialJob

(* The parent.                                                             *)
LEMMA ParentForksKeeps ==
  ASSUME IInv, NEW ok \in BOOLEAN, ParentForks(ok)
  PROVE  IInv'
<1> DEFINE mine == fd["parent"]
           t == Piped(mine, Sync)
           u == Piped(t, Data)
<1>1. /\ pc["parent"] = "start" /\ Shaped /\ NothingYet
      /\ NoPartialJobUnlessShell
  BY DEF ParentForks, IInv
<1>2. Table(mine) /\ {0, 1, 2} \subseteq DOMAIN mine
  BY <1>1 DEF NothingYet
<1>3. /\ syncfd' = PipeNumbers(mine)
      /\ pipefd' = PipeNumbers(t)
      /\ fd' = [fd EXCEPT !["parent"] = u, !["monitor"] = IF ok THEN u ELSE @]
      /\ pc' = [pc EXCEPT !["parent"] = IF ok THEN "close" ELSE "returned",
                          !["monitor"] = IF ok THEN "start" ELSE @]
      /\ UNCHANGED <<shell, errfd, written, data, got, printed, usr1>>
  BY DEF ParentForks, job
<1>4. /\ syncfd'[1] \in Nat \ DOMAIN mine /\ syncfd'[2] \in Nat \ DOMAIN mine
  BY <1>2, <1>3, TwoFreeNumbers DEF Table
<1>5. Table(t)
  BY <1>2, PipedTable
<1>6. /\ pipefd'[1] \in Nat \ DOMAIN t /\ pipefd'[2] \in Nat \ DOMAIN t
      /\ pipefd'[1] # pipefd'[2]
  BY <1>3, <1>5, TwoFreeNumbers DEF Table
<1>7. DOMAIN t = DOMAIN mine \union {syncfd'[1], syncfd'[2]}
  BY <1>3 DEF Piped
<1>8. Table(u)
  BY <1>5, PipedTable
<1>9. /\ DOMAIN u = DOMAIN t \union {pipefd'[1], pipefd'[2]}
      /\ u[pipefd'[1]] = "data in" /\ u[pipefd'[2]] = "data out"
  BY <1>3, <1>6 DEF Piped, Data
<1> HIDE DEF t, u, mine
<1>10. Shaped'
  BY <1>1, <1>3 DEF Shaped, Processes, Places
<1>11. pc'["parent"] # "start"
  BY <1>1, <1>3 DEF Shaped, Processes
<1>12. OwnNumbers'
  BY <1>2, <1>4, <1>6, <1>7 DEF OwnNumbers
<1>13. /\ pc["monitor"] = "none" /\ pc["command"] = "none"
       /\ written = 0 /\ got = 0 /\ data = 0 /\ ~usr1
  BY <1>1 DEF NothingYet, Processes
<1>14. MonitorHolds'
  <2>1. CASE ok
    <3>1. fd'["monitor"] = u
      BY <1>1, <1>3, <2>1 DEF Shaped, Processes
    <3> QED  BY <3>1, <1>8, <1>9 DEF MonitorHolds, Is
  <2>2. CASE ~ok
    BY <1>1, <1>3, <1>13, <2>2 DEF Shaped, Processes, MonitorHolds
  <2> QED  BY <2>1, <2>2
<1>15. pc'["command"] = "none" /\ pc'["parent"] \in {"close", "returned"}
  BY <1>1, <1>3, <1>13 DEF Shaped, Processes
<1>16. NothingYet' /\ CommandHolds' /\ Watched'
  BY <1>11, <1>15 DEF NothingYet, CommandHolds, Watched, Prints
<1>17. Arrives' /\ SignalLast'
  BY <1>3, <1>13, <1>15 DEF Arrives, SignalLast
<1>18. NoPartialJobUnlessShell'
  BY <1>1, <1>3 DEF NoPartialJobUnlessShell, NoPartialJob
<1> QED
  BY <1>10, <1>12, <1>14, <1>16, <1>17, <1>18 DEF IInv

(* The steps of one process p behind the fork, if they are neither the     *)
(* monitor's nor the command's and take no number from another's table.    *)
LEMMA ApartKeeps ==
  ASSUME IInv, pc["parent"] # "start", pc'["parent"] # "start",
         Shaped', UNCHANGED <<shell, pipefd, syncfd, errfd, printed>>,
         \A p \in {"monitor", "command"} :
           pc'[p] = pc[p] /\ fd'[p] = fd[p],
         Arrives', SignalLast', Watched'
  PROVE  IInv'
BY DEF IInv, NothingYet, OwnNumbers, MonitorHolds, CommandHolds, Is, Prints,
       NoPartialJobUnlessShell, NoPartialJob

LEMMA ParentKeeps ==
  ASSUME IInv, Parent \/ ParentKilled
  PROVE  IInv'
<1>1. CASE \E ok \in BOOLEAN : ParentForks(ok)
  BY <1>1, ParentForksKeeps
<1>2. CASE ParentCloses
  BY <1>2, ApartKeeps
  DEF ParentCloses, IInv, Shaped, Processes, Places, Goes, job, errors,
      Arrives, SignalLast, Watched, Prints
<1>3. CASE ParentWrites
  <2>1. /\ pc["parent"] = "print" /\ Shaped /\ Arrives /\ Watched
        /\ MonitorHolds /\ CommandHolds /\ ~usr1
        /\ UNCHANGED <<shell, pipefd, syncfd, errfd, got, printed, usr1>>
    BY <1>3 DEF ParentWrites, IInv, SignalLast, errors
  <2>2. \/ pc' = pc /\ fd' = fd
        \/ Exits("parent")
    BY <1>3 DEF ParentWrites
  <2>3. /\ pc'["parent"] \in {"print", "exited"}
        /\ pc' \in [Processes -> Places] /\ DOMAIN fd' = Processes
        /\ \A p \in {"monitor", "command"} :
             pc'[p] = pc[p] /\ fd'[p] = fd[p]
    BY <2>1, <2>2 DEF Shaped, Processes, Places, Exits, Goes
  <2>4. /\ written' \in Nat /\ data' \in {0, 1}
        /\ \/ written' = written /\ data' = data
           \/ written' = written + 1 /\ data = 0 /\ data' = 1
           \/ ~Held("data in")
    <3>1. written \in Nat /\ written + 1 \in Nat /\ data \in {0, 1}
      BY <2>1 DEF Shaped
    <3>2. \/ written' = written /\ data' = data
          \/ written' = written + 1 /\ data = 0 /\ data' = 1
          \/ written' = written + 1 /\ data' = data /\ ~Held("data in")
      BY <1>3 DEF ParentWrites
    <3> QED  BY <3>1, <3>2
  <2>5. pc["monitor"] = "start" \/ Prints => Held("data in")
    <3>1. \A p \in {"monitor", "command"} : \A n :
            Is(p, n, "data in") => Held("data in")
      BY DEF Is, Held, Processes
    <3> QED  BY <2>1, <3>1 DEF MonitorHolds, CommandHolds, Prints
  <2>6. Shaped'
    BY <2>1, <2>3, <2>4 DEF Shaped
  <2>7. Arrives'
    <3>1. SUFFICES ASSUME (pc["monitor"] = "start" \/ Prints)'
                   PROVE  written' = got' + data'
      BY DEF Arrives
    <3>2. Held("data in") /\ written = got + data /\ got' = got
      BY <2>1, <2>3, <2>5, <3>1 DEF Arrives, Prints
    <3>3. written \in Nat /\ got \in Nat /\ data \in {0, 1}
      BY <2>1 DEF Shaped
    <3>4. CASE written' = written /\ data' = data
      BY <3>2, <3>4
    <3>5. CASE written' = written + 1 /\ data = 0 /\ data' = 1
      <4>1. got' + data' = got + 1
        BY <3>2, <3>5
      <4>2. written' = (got + 0) + 1
        BY <3>2, <3>5
      <4> QED  BY <3>3, <4>1, <4>2
    <3> QED  BY <2>4, <3>2, <3>4, <3>5
  <2>8. SignalLast' /\ Watched'
    BY <2>1, <2>3 DEF SignalLast, Watched, Prints
  <2> QED  BY <2>1, <2>3, <2>6, <2>7, <2>8, ApartKeeps
<1>4. CASE ParentEndsJob
  BY <1>4, ApartKeeps
  DEF ParentEndsJob, IInv, Shaped, Processes, Places, Goes, job, errors,
      Arrives, SignalLast, Watched, Prints
<1>5. CASE ParentSignals
  BY <1>5, ApartKeeps
  DEF ParentSignals, IInv, Shaped, Processes, Places, Goes, job, errors, fds,
      Arrives, SignalLast, Watched, Prints
<1>6. CASE ParentWaits
  BY <1>6, ApartKeeps
  DEF ParentWaits, IInv, Shaped, Processes, Places, Goes, job, errors, fds,
      Arrives, SignalLast, Watched, Prints
<1>7. CASE ParentReturns
  BY <1>7, ApartKeeps
  DEF ParentReturns, IInv, Shaped, Processes, Places, Goes, job, errors,
      Arrives, SignalLast, Watched, Prints
<1>8. CASE ParentKilled
  BY <1>8, ApartKeeps
  DEF ParentKilled, IInv, Shaped, Processes, Places, Exits, Goes, job, errors,
      Arrives, SignalLast, Watched, Prints
<1> QED  BY <1>1, <1>2, <1>3, <1>4, <1>5, <1>6, <1>7, <1>8 DEF Parent

(* The monitor.                                                            *)
LEMMA MonitorForksKeeps ==
  ASSUME IInv, NEW ok \in BOOLEAN, MonitorForks(ok)
  PROVE  IInv'
<1> DEFINE mine == Closed(fd["monitor"], {syncfd[1]})
<1>1. /\ pc["monitor"] = "start" /\ pc["parent"] # "start"
      /\ UNCHANGED <<shell, pipefd, syncfd, errfd, written, data, got,
                     printed, usr1>>
  BY DEF MonitorForks, IInv, NothingYet, Processes, job
<1>2. Shaped /\ Arrives /\ SignalLast
  BY DEF IInv
<1>3. /\ Table(mine)
      /\ pipefd[1] \in DOMAIN mine /\ mine[pipefd[1]] = "data in"
      /\ pipefd[2] \in DOMAIN mine /\ mine[pipefd[2]] = "data out"
  <2>1. pipefd[1] # syncfd[1] /\ pipefd[2] # syncfd[1]
    BY <1>1 DEF IInv, OwnNumbers
  <2>2. Table(fd["monitor"])
    BY <1>1 DEF IInv, MonitorHolds
  <2> QED  BY <1>1, <2>1, <2>2, ClosedTable DEF IInv, MonitorHolds, Is, Closed
<1>4. CASE ok
  <2>1. /\ pc' = [pc EXCEPT !["monitor"] = "close", !["command"] = "start"]
        /\ fd' = [fd EXCEPT !["monitor"] = mine, !["command"] = mine]
    BY <1>4 DEF MonitorForks
  <2> HIDE DEF mine
  <2>2. /\ pc'["monitor"] = "close" /\ pc'["command"] = "start"
        /\ pc'["parent"] = pc["parent"]
        /\ fd'["monitor"] = mine /\ fd'["command"] = mine
    BY <1>2, <2>1 DEF Shaped, Processes
  <2>3. Shaped'
    BY <1>1, <1>2, <2>1 DEF Shaped, Processes, Places
  <2> QED
    BY <1>1, <1>2, <1>3, <2>2, <2>3
    DEF IInv, NothingYet, OwnNumbers, MonitorHolds, CommandHolds, Is,
        Arrives, SignalLast, Watched, Prints, NoPartialJobUnlessShell,
        NoPartialJob
<1>5. CASE ~ok
  <2>1. Exits("monitor")
    BY <1>5 DEF MonitorForks
  <2> HIDE DEF mine
  <2>2. /\ pc'["monitor"] = "exited" /\ pc'["command"] = pc["command"]
        /\ fd'["command"] = fd["command"] /\ pc'["parent"] = pc["parent"]
        /\ Shaped'
    BY <1>1, <1>2, <2>1 DEF Shaped, Processes, Places, Exits, Goes
  <2> QED
    BY <1>1, <1>2, <2>2
    DEF IInv, NothingYet, OwnNumbers, MonitorHolds, CommandHolds, Is,
        Arrives, SignalLast, Watched, Prints, NoPartialJobUnlessShell,
        NoPartialJob
<1> QED  BY <1>4, <1>5

LEMMA MonitorKeeps ==
  ASSUME IInv, Monitor
  PROVE  IInv'
<1>1. CASE \E ok \in BOOLEAN : MonitorForks(ok)
  BY <1>1, MonitorForksKeeps
<1>2. CASE MonitorCloses
  <2>1. /\ pc["monitor"] = "close" /\ pc["parent"] # "start" /\ Shaped
        /\ Is("monitor", pipefd[2], "data out")
        /\ pipefd[2] \notin 0 .. 2 \union {syncfd[2], pipefd[1]}
    <3>1. /\ pc["monitor"] = "close" /\ pc["parent"] # "start"
      BY <1>2 DEF MonitorCloses, IInv, NothingYet, Processes
    <3>2. 0 .. 2 = {0, 1, 2}
      OBVIOUS
    <3> QED  BY <3>1, <3>2 DEF IInv, MonitorHolds, OwnNumbers
  <2>2. /\ pc' = [pc EXCEPT !["monitor"] = "watch"]
        /\ fd' = [fd EXCEPT !["monitor"] =
                    Closed(@, 0 .. 2 \union {syncfd[2], pipefd[1]})]
        /\ UNCHANGED <<shell, pipefd, syncfd, errfd, written, data, got,
                       printed, usr1>>
    BY <1>2 DEF MonitorCloses, Goes, job
  <2>3. /\ pc'["monitor"] = "watch" /\ pc'["parent"] = pc["parent"]
        /\ pc'["command"] = pc["command"] /\ fd'["command"] = fd["command"]
        /\ Shaped'
    BY <2>1, <2>2 DEF Shaped, Processes, Places
  <2>4. Is("monitor", pipefd[2], "data out")'
    BY <2>1, <2>2 DEF Is, Closed, Shaped, Processes
  <2> QED
    BY <2>1, <2>2, <2>3, <2>4
    DEF IInv, NothingYet, OwnNumbers, MonitorHolds, CommandHolds, Is,
        Arrives, SignalLast, Watched, Prints, NoPartialJobUnlessShell,
        NoPartialJob
<1>3. CASE MonitorSignalled \/ MonitorReaps
  <2>1. /\ pc["parent"] # "start" /\ Shaped /\ (Prints => usr1)
        /\ Exits("monitor") /\ pc["monitor"] # "start"
        /\ UNCHANGED <<shell, pipefd, syncfd, errfd, written, data, got,
                       printed, usr1>>
    BY <1>3 DEF MonitorSignalled, MonitorReaps, IInv, NothingYet, Processes,
                Prints, job
  <2>2. /\ pc'["monitor"] = "exited" /\ pc'["parent"] = pc["parent"]
        /\ pc'["command"] = pc["command"] /\ fd'["command"] = fd["command"]
        /\ Shaped'
    BY <2>1 DEF Shaped, Processes, Places, Exits, Goes
  <2> QED
    BY <2>1, <2>2
    DEF IInv, NothingYet, OwnNumbers, MonitorHolds, CommandHolds, Is,
        Arrives, SignalLast, Watched, Prints, NoPartialJobUnlessShell,
        NoPartialJob
<1>4. CASE MonitorKills
  <2>1. /\ pc["monitor"] = "watch" /\ pc["parent"] = "exited" /\ Shaped
        /\ pc' = [pc EXCEPT !["monitor"] = "wait", !["command"] = "exited"]
        /\ fd' = [fd EXCEPT !["command"] = << >>]
        /\ UNCHANGED <<shell, pipefd, syncfd, errfd, written, data, got,
                       printed, usr1>>
    BY <1>4 DEF MonitorKills, IInv, job
  <2>2. /\ pc'["monitor"] = "wait" /\ pc'["parent"] = "exited"
        /\ pc'["command"] = "exited" /\ Shaped'
    BY <2>1 DEF Shaped, Processes, Places
  <2> QED
    BY <2>1, <2>2
    DEF IInv, NothingYet, OwnNumbers, MonitorHolds, CommandHolds, Is,
        Arrives, SignalLast, Watched, Prints, NoPartialJobUnlessShell,
        NoPartialJob
<1> QED  BY <1>1, <1>2, <1>3, <1>4 DEF Monitor

(* The print command.                                                      *)
LEMMA CommandForksKeeps ==
  ASSUME IInv, NEW ok \in BOOLEAN, CommandForks(ok)
  PROVE  IInv'
<1> DEFINE before == Rewired(fd["command"])
           table  == Piped(before, Err)
<1>1. /\ pc["command"] = "start" /\ pc["parent"] # "start" /\ Shaped
      /\ UNCHANGED <<shell, pipefd, syncfd, written, data, got, printed, usr1>>
  BY DEF CommandForks, IInv, NothingYet, Processes, job
<1>2. Table(before)
  BY <1>1, RewiredTable DEF IInv, CommandHolds
<1>3. 0 \in DOMAIN before /\ before[0] = "data in"
  <2>1. pipefd[1] # 0 /\ pipefd[2] # 0 /\ Is("command", pipefd[1], "data in")
    BY <1>1 DEF IInv, OwnNumbers, CommandHolds
  <2> QED  BY <2>1 DEF Rewired, Closed, Dup2, Is
<1>4. /\ PipeNumbers(before)[1] # 0 /\ PipeNumbers(before)[2] # 0
  BY <1>2, <1>3, TwoFreeNumbers DEF Table
<1>5. 0 \in DOMAIN table /\ table[0] = "data in"
  BY <1>3, <1>4 DEF Piped
<1>6. CASE ok
  <2>1. /\ errfd' = PipeNumbers(before)
        /\ pc' = [pc EXCEPT !["command"] = "redirect", !["errors"] = "start"]
        /\ fd' = [fd EXCEPT !["command"] = table, !["errors"] = table]
    BY <1>6 DEF CommandForks
  <2> HIDE DEF before, table
  <2>2. /\ pc'["command"] = "redirect" /\ pc'["parent"] = pc["parent"]
        /\ pc'["monitor"] = pc["monitor"] /\ fd'["monitor"] = fd["monitor"]
        /\ fd'["command"] = table /\ Shaped'
    BY <1>1, <2>1 DEF Shaped, Processes, Places
  <2>3. CommandHolds'
    BY <1>4, <1>5, <2>1, <2>2 DEF CommandHolds, Is
  <2> QED
    BY <1>1, <2>2, <2>3
    DEF IInv, NothingYet, OwnNumbers, MonitorHolds, Is, Arrives, SignalLast,
        Watched, Prints, NoPartialJobUnlessShell, NoPartialJob
<1>7. CASE ~ok
  <2>1. Exits("command")
    BY <1>7 DEF CommandForks
  <2> HIDE DEF before, table
  <2>2. /\ pc'["command"] = "exited" /\ pc'["parent"] = pc["parent"]
        /\ pc'["monitor"] = pc["monitor"] /\ fd'["monitor"] = fd["monitor"]
        /\ Shaped'
    BY <1>1, <2>1 DEF Shaped, Processes, Places, Exits, Goes
  <2> QED
    BY <1>1, <2>2
    DEF IInv, NothingYet, OwnNumbers, MonitorHolds, CommandHolds, Is,
        Arrives, SignalLast, Watched, Prints, NoPartialJobUnlessShell,
        NoPartialJob
<1> QED  BY <1>6, <1>7

LEMMA CommandExecsKeeps ==
  ASSUME IInv, CommandExecs
  PROVE  IInv'
<1> DEFINE table == Redirected(fd["command"])
<1>1. /\ pc["command"] = "redirect" /\ pc["parent"] # "start" /\ Shaped
      /\ UNCHANGED <<shell, pipefd, syncfd, errfd, written, data, got, printed,
                     usr1>>
  BY DEF CommandExecs, IInv, NothingYet, Processes, job
<1>2. 0 \in DOMAIN table /\ table[0] = "data in"
  <2>1. /\ pipefd[1] # 0 /\ pipefd[2] # 0 /\ syncfd[2] # 0 /\ errfd[2] # 0
        /\ Is("command", 0, "data in")
    BY <1>1 DEF IInv, OwnNumbers, CommandHolds
  <2>2. 0 \notin {1, 2, errfd[2], pipefd[1], pipefd[2], syncfd[2]}
    <3>1. 0 # 1 /\ 0 # 2
      OBVIOUS
    <3> QED  BY <2>1, <3>1, Zenon
  <2> QED  BY <2>1, <2>2, RedirectedKeeps DEF Is
<1>3. \/ /\ pc' = [pc EXCEPT !["command"] = "shell", !["lpr"] = "run"]
         /\ fd' = [fd EXCEPT !["command"] = table, !["lpr"] = table]
      \/ /\ pc' = [pc EXCEPT !["command"] = "run"]
         /\ fd' = [fd EXCEPT !["command"] = table]
  BY DEF CommandExecs, Goes
<1> HIDE DEF table
<1>4. /\ pc'["command"] \in {"shell", "run"} /\ pc'["parent"] = pc["parent"]
      /\ pc'["monitor"] = pc["monitor"] /\ fd'["monitor"] = fd["monitor"]
      /\ fd'["command"] = table /\ Shaped'
  BY <1>1, <1>3 DEF Shaped, Processes, Places
<1> QED
  BY <1>1, <1>2, <1>4
  DEF IInv, NothingYet, OwnNumbers, MonitorHolds, CommandHolds, Is,
      Arrives, SignalLast, Watched, Prints, NoPartialJobUnlessShell,
      NoPartialJob

(* A command that ends.                                                    *)
LEMMA CommandEndsKeeps ==
  ASSUME IInv, pc["parent"] # "start", NEW p \in {"command", "lpr"}, Exits(p),
         UNCHANGED <<shell, pipefd, syncfd, errfd, written, data, got, usr1>>,
         printed' \in Int, NoPartialJobUnlessShell'
  PROVE  IInv'
<1>1. Shaped
  BY DEF IInv
<1>2. /\ pc'["command"] \in {pc["command"], "exited"}
      /\ pc'["command"] # "exited" => fd'["command"] = fd["command"]
      /\ pc'["parent"] = pc["parent"]
      /\ pc'["monitor"] = pc["monitor"] /\ fd'["monitor"] = fd["monitor"]
      /\ Shaped'
  <2>1. CASE p = "command"
    BY <1>1, <2>1 DEF Shaped, Processes, Places, Exits, Goes
  <2>2. CASE p = "lpr"
    BY <1>1, <2>2 DEF Shaped, Processes, Places, Exits, Goes
  <2> QED  BY <2>1, <2>2
<1> QED
  BY <1>1, <1>2
  DEF IInv, NothingYet, OwnNumbers, MonitorHolds, CommandHolds, Is,
      Arrives, SignalLast, Watched, Prints

LEMMA CommandKeeps ==
  ASSUME IInv, Command
  PROVE  IInv'
<1>1. CASE \E ok \in BOOLEAN : CommandForks(ok)
  BY <1>1, CommandForksKeeps
<1>2. CASE CommandExecs
  BY <1>2, CommandExecsKeeps
<1>3. CASE ShellWaits
  <2>1. /\ pc["parent"] # "start" /\ Exits("command")
        /\ UNCHANGED <<shell, pipefd, syncfd, errfd, written, data, got,
                       printed, usr1>>
    BY <1>3 DEF ShellWaits, IInv, NothingYet, Processes, job
  <2>2. printed' \in Int /\ NoPartialJobUnlessShell'
    BY <2>1 DEF IInv, Shaped, NoPartialJobUnlessShell, NoPartialJob
  <2> QED  BY <2>1, <2>2, CommandEndsKeeps
<1> QED  BY <1>1, <1>2, <1>3 DEF Command

(* What reads the job.                                                     *)
LEMMA TheLprKeeps ==
  ASSUME IInv, TheLpr
  PROVE  IInv'
<1>1. pc[Lpr] = "run" /\ Shaped
  BY DEF TheLpr, LprReads, LprSays, LprPrints, LprFails, IInv
<1>2. pc["parent"] # "start" /\ Lpr \in {"command", "lpr"}
  BY <1>1 DEF Lpr, IInv, NothingYet, Processes
<1>3. CASE LprReads \/ LprSays
  <2>1. UNCHANGED <<shell, fd, pipefd, syncfd, errfd, pc, written, printed,
                    usr1>>
    BY <1>3 DEF LprReads, LprSays, fds, job, errors
  <2>2. /\ got' \in Nat /\ data' \in {0, 1} /\ got' + data' = got + data
    <3>1. CASE LprReads
      BY <1>1, <3>1 DEF LprReads, Shaped
    <3>2. CASE LprSays
      BY <1>1, <3>2 DEF LprSays, Shaped, job
    <3> QED  BY <1>3, <3>1, <3>2
  <2>3. Shaped'
    BY <1>1, <2>1, <2>2 DEF Shaped
  <2> QED
    BY <1>1, <1>2, <2>1, <2>2, <2>3
    DEF IInv, NothingYet, OwnNumbers, MonitorHolds, CommandHolds, Is,
        Arrives, SignalLast, Watched, Prints, NoPartialJobUnlessShell,
        NoPartialJob
<1>4. CASE LprPrints
  <2>1. /\ data = 0 /\ ~Held("data out") /\ printed' = got /\ Exits(Lpr)
        /\ UNCHANGED <<shell, pipefd, syncfd, errfd, written, data, got, usr1>>
    BY <1>4 DEF LprPrints, errors
  <2>2. ~shell => got = JobLength
    <3>1. SUFFICES ASSUME ~shell PROVE got = JobLength
      OBVIOUS
    <3>2. Prints
      BY <1>1, <3>1 DEF Lpr, Prints
    <3>3. ~Is("monitor", pipefd[2], "data out")
      BY <2>1 DEF Held, Is, Processes
    <3>4. usr1
      BY <3>2, <3>3 DEF IInv, Watched, MonitorHolds
    <3>5. written = JobLength /\ written = got + data
      BY <3>2, <3>4 DEF IInv, SignalLast, Arrives
    <3>6. data = 0 /\ got \in Nat
      BY <1>1, <2>1 DEF Shaped
    <3> QED  BY <3>5, <3>6
  <2>3. NoPartialJobUnlessShell'
    BY <2>1, <2>2 DEF NoPartialJobUnlessShell, NoPartialJob
  <2>4. printed' \in Int
    <3>1. got \in Nat
      BY <1>1 DEF Shaped
    <3>2. printed' = got
      BY <2>1
    <3> QED  BY <3>1, <3>2
  <2> QED  BY <1>2, <2>1, <2>3, <2>4, CommandEndsKeeps
<1>5. CASE LprFails
  <2>1. /\ Exits(Lpr)
        /\ UNCHANGED <<shell, pipefd, syncfd, errfd, written, data, got,
                       printed, usr1>>
    BY <1>5 DEF LprFails, job
  <2>2. printed' \in Int /\ NoPartialJobUnlessShell'
    BY <2>1 DEF IInv, Shaped, NoPartialJobUnlessShell, NoPartialJob
  <2> QED  BY <1>2, <2>1, <2>2, CommandEndsKeeps
<1> QED  BY <1>3, <1>4, <1>5 DEF TheLpr

(* The error monitor keeps to itself.                                      *)
LEMMA ErrorsKeeps ==
  ASSUME IInv, Errors
  PROVE  IInv'
<1>1. pc["parent"] # "start" /\ Shaped
  BY DEF Errors, ErrorsClose, ErrorsRead, ErrorsEnd, IInv, NothingYet,
         Processes
<1>2. UNCHANGED <<shell, pipefd, syncfd, errfd, written, data, got, printed,
                  usr1>>
  BY DEF Errors, ErrorsClose, ErrorsRead, ErrorsEnd, fds, job
<1>3. /\ \A p \in {"parent", "monitor", "command"} :
           pc'[p] = pc[p] /\ fd'[p] = fd[p]
      /\ Shaped'
  <2>1. CASE ErrorsClose
    BY <1>1, <1>2, <2>1 DEF ErrorsClose, Goes, Shaped, Processes, Places
  <2>2. CASE ErrorsRead
    BY <1>1, <1>2, <2>2 DEF ErrorsRead, fds, Shaped
  <2>3. CASE ErrorsEnd
    BY <1>1, <1>2, <2>3 DEF ErrorsEnd, Exits, Goes, Shaped, Processes, Places
  <2> QED  BY <2>1, <2>2, <2>3 DEF Errors
<1>4. Arrives' /\ SignalLast' /\ Watched'
  BY <1>2, <1>3 DEF IInv, Arrives, SignalLast, Watched, Prints
<1> QED  BY <1>1, <1>2, <1>3, <1>4, ApartKeeps

LEMMA NextKeeps ==
  ASSUME IInv, [Next]_vars
  PROVE  IInv'
<1>1. CASE Next
  <2>1. CASE Done
    BY <2>1
    DEF Done, vars, fds, job, errors, IInv, Shaped, NothingYet, OwnNumbers,
        MonitorHolds, CommandHolds, Is, Arrives, SignalLast, Watched, Prints,
        NoPartialJobUnlessShell, NoPartialJob
  <2> QED
    BY <1>1, <2>1, ParentKeeps, MonitorKeeps, CommandKeeps, TheLprKeeps,
       ErrorsKeeps
    DEF Next
<1>2. CASE UNCHANGED vars
  BY <1>2
  DEF vars, fds, job, errors, IInv, Shaped, NothingYet, OwnNumbers,
      MonitorHolds, CommandHolds, Is, Arrives, SignalLast, Watched, Prints,
      NoPartialJobUnlessShell, NoPartialJob
<1> QED  BY <1>1, <1>2

(* The monitor does its work: of a job of any length, however the parent   *)
(* dies, a command that gets the signal itself prints all or nothing.      *)
THEOREM JobsAreWhole == Spec => []NoPartialJobUnlessShell
<1>1. Init => IInv
  BY InitHolds
<1>2. IInv /\ [Next]_vars => IInv'
  BY NextKeeps
<1>3. IInv => NoPartialJobUnlessShell
  BY DEF IInv
<1> QED  BY <1>1, <1>2, <1>3, PTL DEF Spec

-----------------------------------------------------------------------------
(* The descriptors and the errors.                                         *)

(* The numbers of the pipes, once the parent has made them.                *)
Apart ==
  pc["parent"] # "start" =>
    /\ {syncfd[1], syncfd[2], pipefd[1], pipefd[2]} \subseteq Nat \ {0, 1, 2}
    /\ syncfd[1] # syncfd[2]
    /\ syncfd[1] < pipefd[1] /\ syncfd[1] < pipefd[2]

ParentTable ==
  /\ pc["parent"] \in {"close", "print"} =>
       Is("parent", pipefd[2], "data out")
  /\ pc["parent"] \in {"close", "print", "signal", "wait", "sync"} =>
       Is("parent", syncfd[1], "sync in")

(* The monitor passes on the descriptor for "Done"; it has closed the one  *)
(* that reads it, whose number is therefore free in the command.           *)
MonitorTable ==
  pc["monitor"] = "start" =>
    /\ {0, 1, 2} \subseteq DOMAIN fd["monitor"]
    /\ Is("monitor", syncfd[2], "sync out")

(* The number from which the error monitor reads is at most that one, and  *)
(* so none of those that are closed once more later.                       *)
CommandTable ==
  /\ pc["command"] = "start" =>
       /\ {0, 1, 2} \subseteq DOMAIN fd["command"]
       /\ syncfd[1] \notin DOMAIN fd["command"]
       /\ Is("command", syncfd[2], "sync out")
  /\ pc["command"] = "redirect" =>
       /\ errfd[2] \notin {0, 1, 2}
       /\ Is("command", errfd[2], "err out")
LprTable ==
  pc[Lpr] = "run" => /\ Is(Lpr, 0, "data in")
                     /\ Is(Lpr, 1, "err out") /\ Is(Lpr, 2, "err out")

ErrorsTable ==
  /\ pc["errors"] = "start" =>
       errfd[1] \notin {0, 1, 2, pipefd[1], pipefd[2], errfd[2]}
  /\ pc["errors"] = "start" => errfd[2] # syncfd[2]
  /\ pc["errors"] \in {"start", "read"} =>
       /\ Is("errors", errfd[1], "err in")
       /\ Is("errors", syncfd[2], "sync out")

(* Who is there already, and who is gone.                                  *)
Descent ==
  /\ pc["errors"] \in {"none", "start", "read", "exited"}
  /\ pc["parent"] = "start" => pc["monitor"] = "none"
  /\ pc["parent"] = "sync" => pc["monitor"] = "exited"
  /\ pc["monitor"] \in {"none", "start"} => pc["command"] = "none"
  /\ pc["command"] \in {"none", "start"} => pc["errors"] = "none"
  /\ pc["errors"] = "none" =>
       /\ pc["command"] \in {"none", "start", "exited"} 
       /\ pc["lpr"] = "none"
       /\ said = 0

(* The error monitor goes when all has been said.                          *)
Quiet ==
  pc["errors"] = "exited" =>
    err = 0 /\ pc["command"] # "redirect" /\ pc[Lpr] # "run"
Told == sync => pc["errors"] = "exited"
Counted == 
  /\ said \in Nat /\ err \in {0, 1} /\ reported \in Nat
  /\ said = reported + err

Settled ==
  pc["parent"] = "returned" =>
    \/ pc["errors"] = "exited"
    \/ /\ pc["errors"] = "none"
       /\ pc["monitor"] \in {"none", "exited"}
       /\ pc["command"] \in {"none", "exited"}

Tables == /\ Apart /\ ParentTable /\ MonitorTable /\ CommandTable
          /\ LprTable /\ ErrorsTable
Talk == Descent /\ Quiet /\ Told /\ Counted /\ Settled

JInv == IInv /\ Tables /\ Talk

-----------------------------------------------------------------------------
(* The first number that pipe takes is the lowest that is free.            *)
LEMMA FirstIsLowest ==
  ASSUME NEW table, Table(table), NEW n \in Nat \ DOMAIN table
  PROVE  PipeNumbers(table)[1] <= n
<1> DEFINE used == DOMAIN table
           m    == Cardinality(used)
           free == 0 .. m \ used
<1>1. m \in Nat /\ used \in SUBSET Nat /\ IsFiniteSet(used)
  BY FS_CardinalityType DEF Table
<1>2. Min(free) \in Nat \ used
  BY <1>1, LowestFree
<1>3. free # {} /\ free \in SUBSET Nat
  <2>1. IsFiniteSet(0 .. m) /\ Cardinality(0 .. m) = m + 1
    BY <1>1, FS_Interval
  <2>2. CASE 0 .. m \subseteq used
    <3>1. Cardinality(0 .. m) <= m
      BY <1>1, <2>2, FS_Subset
    <3> QED  BY <1>1, <2>1, <3>1
  <2> QED  BY <2>2
<1>4. Min(free) \in free /\ \A y \in free : Min(free) <= y
  BY <1>3, Least
<1>5. PipeNumbers(table)[1] = Min(free)
  BY DEF PipeNumbers
<1> QED  BY <1>1, <1>4, <1>5

(* What a table of the pipe's has at its two numbers, and elsewhere.       *)
LEMMA PipedHas ==
  ASSUME NEW t, NEW ends, Table(t), NEW ns, ns = PipeNumbers(t)
  PROVE  /\ ns[1] \in Nat \ DOMAIN t /\ ns[2] \in Nat \ DOMAIN t
         /\ ns[1] # ns[2]
         /\ DOMAIN Piped(t, ends) = DOMAIN t \union {ns[1], ns[2]}
         /\ Piped(t, ends)[ns[1]] = ends[1]
         /\ Piped(t, ends)[ns[2]] = ends[2]
         /\ \A n \in DOMAIN t : Piped(t, ends)[n] = t[n]
<1>1. /\ PipeNumbers(t)[1] \in Nat \ DOMAIN t
      /\ PipeNumbers(t)[2] \in Nat \ DOMAIN t
      /\ PipeNumbers(t)[1] # PipeNumbers(t)[2]
  BY TwoFreeNumbers DEF Table
<1> QED  BY <1>1 DEF Piped

(* What a descriptor stands for, and what leaves it so.                    *)
Has(t, n, what) == n \in DOMAIN t /\ t[n] = what

LEMMA ClosedHas ==
  ASSUME NEW t, NEW numbers, NEW n, NEW what, Has(t, n, what), n \notin numbers
  PROVE  Has(Closed(t, numbers), n, what)
BY DEF Closed, Has

LEMMA Dup2Has ==
  ASSUME NEW t, NEW from, NEW to, NEW n, NEW what,
         Has(t, IF n = to THEN from ELSE n, what)
  PROVE  Has(Dup2(t, from, to), n, what)
BY DEF Dup2, Has

(* The initial states.                                                     *)
LEMMA InitTalks == Init => JInv
<1> SUFFICES ASSUME Init PROVE JInv
  OBVIOUS
<1>1. IInv
  BY InitHolds
<1>2. /\ pc["parent"] = "start" /\ pc["monitor"] = "none"
      /\ pc["command"] = "none" /\ pc["lpr"] = "none"
      /\ pc["errors"] = "none"
      /\ said = 0 /\ err = 0 /\ reported = 0 /\ sync = FALSE
  BY DEF Init, Processes
<1>3. pc[Lpr] = "none"
  BY <1>2 DEF Lpr
<1>4. Tables
  BY <1>2, <1>3
  DEF Tables, Apart, ParentTable, MonitorTable, CommandTable, LprTable,
      ErrorsTable
<1>5. Talk
  BY <1>2, <1>3 DEF Talk, Descent, Quiet, Told, Counted, Settled
<1> QED  BY <1>1, <1>4, <1>5 DEF JInv

-----------------------------------------------------------------------------
(* Processes that are left alone, and such that use no descriptor more.    *)
Stays(p) == pc'[p] = pc[p] /\ fd'[p] = fd[p]
Rests(p) ==
  \/ pc'[p] \in {"exited", "returned"}
  \/ p = "monitor" /\ pc'[p] = "wait"

LEMMA TablesKept ==
  ASSUME Tables, pc["parent"] # "start",
         UNCHANGED <<shell, pipefd, syncfd, errfd>>,
         \A p \in Processes : Stays(p) \/ Rests(p)
  PROVE  Tables'
<1>1. Lpr' = Lpr /\ Lpr \in Processes
  BY DEF Lpr, Processes
<1>2. Apart'
  BY DEF Tables, Apart
<1>3. ParentTable' /\ MonitorTable' /\ CommandTable' /\ ErrorsTable'
  BY DEF Tables, ParentTable, MonitorTable, CommandTable, ErrorsTable, Is,
         Stays, Rests, Processes
<1>4. LprTable'
  BY <1>1 DEF Tables, LprTable, Is, Stays, Rests
<1> QED  BY <1>2, <1>3, <1>4 DEF Tables

(* The parent forks, or returns at once.                                   *)
LEMMA ForksTables ==
  ASSUME JInv, NEW ok \in BOOLEAN, ParentForks(ok)
  PROVE  Tables' /\ Talk'
<1> DEFINE mine == fd["parent"]
           t == Piped(mine, Sync)
           u == Piped(t, Data)
<1>1. /\ pc["parent"] = "start" /\ Shaped
      /\ Table(mine) /\ {0, 1, 2} \subseteq DOMAIN mine
      /\ \A p \in Processes \ {"parent"} : pc[p] = "none"
  BY DEF ParentForks, JInv, IInv, NothingYet
<1>2. /\ syncfd' = PipeNumbers(mine)
      /\ pipefd' = PipeNumbers(t)
      /\ fd' = [fd EXCEPT !["parent"] = u, !["monitor"] = IF ok THEN u ELSE @]
      /\ pc' = [pc EXCEPT !["parent"] = IF ok THEN "close" ELSE "returned",
                          !["monitor"] = IF ok THEN "start" ELSE @]
      /\ UNCHANGED <<shell, errfd, said, err, reported, sync>>
  BY DEF ParentForks, errors
<1>3. /\ syncfd'[1] \in Nat \ DOMAIN mine /\ syncfd'[2] \in Nat \ DOMAIN mine
      /\ syncfd'[1] # syncfd'[2]
      /\ DOMAIN t = DOMAIN mine \union {syncfd'[1], syncfd'[2]}
      /\ t[syncfd'[1]] = "sync in" /\ t[syncfd'[2]] = "sync out"
  <2>1. /\ syncfd'[1] \in Nat \ DOMAIN mine /\ syncfd'[2] \in Nat \ DOMAIN mine
        /\ syncfd'[1] # syncfd'[2]
        /\ DOMAIN t = DOMAIN mine \union {syncfd'[1], syncfd'[2]}
        /\ t[syncfd'[1]] = Sync[1] /\ t[syncfd'[2]] = Sync[2]
    BY <1>1, <1>2, PipedHas
  <2>2. Sync[1] = "sync in" /\ Sync[2] = "sync out"
    BY DEF Sync
  <2> QED  BY <2>1, <2>2
<1>4. Table(t)
  BY <1>1, PipedTable
<1> HIDE DEF mine, t
<1>5. /\ pipefd'[1] \in Nat \ DOMAIN t /\ pipefd'[2] \in Nat \ DOMAIN t
      /\ DOMAIN u = DOMAIN t \union {pipefd'[1], pipefd'[2]}
      /\ u[pipefd'[2]] = "data out"
      /\ u[syncfd'[1]] = "sync in" /\ u[syncfd'[2]] = "sync out"
  <2>1. /\ pipefd'[1] \in Nat \ DOMAIN t /\ pipefd'[2] \in Nat \ DOMAIN t
        /\ DOMAIN u = DOMAIN t \union {pipefd'[1], pipefd'[2]}
        /\ u[pipefd'[2]] = Data[2]
        /\ \A n \in DOMAIN t : u[n] = t[n]
    <3>1. pipefd' = PipeNumbers(t)
      BY <1>2
    <3> QED  BY <1>4, <3>1, PipedHas
  <2>2. Data[2] = "data out"
    BY DEF Data
  <2> QED  BY <1>3, <2>1, <2>2
<1> HIDE DEF u
<1>6. syncfd'[1] < pipefd'[1] /\ syncfd'[1] < pipefd'[2]
  <2> DEFINE a == syncfd'[1]
             b == pipefd'[1]
             c == pipefd'[2]
  <2>1. /\ a \in Nat /\ b \in Nat \ DOMAIN mine /\ c \in Nat \ DOMAIN mine
        /\ a # b /\ a # c
    BY <1>3, <1>5
  <2>2. a = PipeNumbers(mine)[1]
    BY <1>2
  <2> HIDE DEF a, b, c
  <2>3. a <= b /\ a <= c
    BY <1>1, <2>1, <2>2, FirstIsLowest
  <2>4. a < b /\ a < c
    BY <2>1, <2>3
  <2> QED  BY <2>4 DEF a, b, c
<1>7. Apart'
  BY <1>1, <1>3, <1>5, <1>6 DEF Apart
<1>8. /\ fd'["parent"] = u
      /\ pc'["parent"] = IF ok THEN "close" ELSE "returned"
      /\ IF ok THEN fd'["monitor"] = u /\ pc'["monitor"] = "start"
               ELSE pc'["monitor"] = "none"
      /\ pc'["command"] = "none" /\ pc'["lpr"] = "none"
      /\ pc'["errors"] = "none"
  BY <1>1, <1>2 DEF Shaped, Processes
<1>9. ParentTable'
  BY <1>3, <1>5, <1>8 DEF ParentTable, Is
<1>10. MonitorTable'
  <2>1. {0, 1, 2} \subseteq DOMAIN u
    BY <1>1, <1>3, <1>5
  <2> QED  BY <1>3, <1>5, <1>8, <2>1 DEF MonitorTable, Is
<1>11. CommandTable' /\ LprTable' /\ ErrorsTable'
  BY <1>8 DEF CommandTable, LprTable, ErrorsTable, Lpr
<1>12. Talk'
  <2>1. said = 0 /\ Counted /\ Told
    BY <1>1 DEF JInv, Talk, Descent, Processes
  <2>2. pc["errors"] = "none"
    BY <1>1 DEF Processes
  <2>3. Told' /\ Counted'
    BY <1>2, <1>8, <2>1, <2>2 DEF Told, Counted
  <2>4. Descent'
    BY <1>2, <1>8, <2>1 DEF Descent
  <2>5. Quiet' /\ Settled'
    BY <1>8 DEF Quiet, Settled
  <2> QED  BY <2>3, <2>4, <2>5 DEF Talk
<1> QED  BY <1>7, <1>9, <1>10, <1>11, <1>12 DEF Tables

(* The other steps of the parent.  It may have made errors settled when it *)
(* returns: the error monitor has said "Done", or nobody can write it.     *)
LEMMA ParentTables ==
  ASSUME JInv, Parent \/ ParentKilled, ~(\E ok \in BOOLEAN : ParentForks(ok))
  PROVE  Tables'
<1>1. Shaped /\ Tables
  BY DEF JInv, IInv
<1>2. pc["parent"] # "start" /\ UNCHANGED <<shell, pipefd, syncfd, errfd>>
  BY DEF Parent, ParentCloses, ParentWrites, ParentEndsJob, ParentSignals,
         ParentWaits, ParentReturns, ParentKilled, fds
<1>3. \A p \in Processes \ {"parent"} : Stays(p)
  <2>1. CASE ParentCloses \/ ParentEndsJob
    BY <1>1, <2>1
    DEF ParentCloses, ParentEndsJob, Goes, Shaped, Stays, Processes
  <2>2. CASE ParentWrites \/ ParentKilled \/ ParentReturns
    BY <1>1, <2>2
    DEF ParentWrites, ParentKilled, ParentReturns, Exits, Goes, Shaped, Stays,
        Processes
  <2>3. CASE ParentSignals \/ ParentWaits
    BY <1>1, <2>3
    DEF ParentSignals, ParentWaits, Goes, fds, Shaped, Stays, Processes
  <2> QED  BY <2>1, <2>2, <2>3 DEF Parent
<1>4. Lpr' = Lpr /\ Lpr \in Processes \ {"parent"}
  BY <1>2 DEF Lpr, Processes
<1>5. Apart'
  BY <1>1, <1>2 DEF Tables, Apart
<1>6. MonitorTable' /\ CommandTable' /\ ErrorsTable'
  BY <1>1, <1>2, <1>3
  DEF Tables, MonitorTable, CommandTable, ErrorsTable, Is, Stays, Processes
<1>7. LprTable'
  BY <1>1, <1>3, <1>4 DEF Tables, LprTable, Is, Stays
<1>8. ParentTable'
  <2>1. Apart /\ ParentTable
    BY <1>1 DEF Tables
  <2>2. CASE ParentCloses
    <3>1. /\ pc["parent"] = "close"
          /\ fd'["parent"] = Closed(fd["parent"], {syncfd[2], pipefd[1]})
      BY <1>1, <2>2 DEF ParentCloses, Shaped, Processes
    <3>2. /\ syncfd[1] \notin {syncfd[2], pipefd[1]}
          /\ pipefd[2] \notin {syncfd[2], pipefd[1]}
      BY <1>2, <2>1 DEF Apart, JInv, IInv, OwnNumbers
    <3>3. /\ Has(fd["parent"], syncfd[1], "sync in")
          /\ Has(fd["parent"], pipefd[2], "data out")
      BY <2>1, <3>1 DEF ParentTable, Is, Has
    <3>4. /\ Has(fd'["parent"], syncfd[1], "sync in")
          /\ Has(fd'["parent"], pipefd[2], "data out")
      BY <3>1, <3>2, <3>3, ClosedHas
    <3> QED  BY <1>2, <3>4 DEF ParentTable, Is, Has
  <2>3. CASE ParentEndsJob
    <3>1. /\ pc["parent"] = "print" /\ pc'["parent"] = "signal"
          /\ fd'["parent"] = Closed(fd["parent"], {pipefd[2]})
      BY <1>1, <2>3 DEF ParentEndsJob, Goes, Shaped, Processes
    <3>2. syncfd[1] \notin {pipefd[2]}
      BY <1>2, <2>1 DEF Apart
    <3>3. Has(fd["parent"], syncfd[1], "sync in")
      BY <2>1, <3>1 DEF ParentTable, Is, Has
    <3>4. Has(fd'["parent"], syncfd[1], "sync in")
      BY <3>1, <3>2, <3>3, ClosedHas
    <3> QED  BY <1>2, <3>1, <3>4 DEF ParentTable, Is, Has
  <2>4. CASE ParentWrites \/ ParentKilled \/ ParentReturns
    <3>1. Stays("parent") \/ Rests("parent")
      BY <1>1, <2>4
      DEF ParentWrites, ParentKilled, ParentReturns, Exits, Goes, Stays,
          Rests, Shaped, Processes
    <3> QED  BY <1>1, <1>2, <1>3, <3>1, TablesKept DEF Tables
  <2>5. CASE ParentSignals \/ ParentWaits
    <3>1. /\ fd' = fd /\ pc["parent"] \in {"signal", "wait"}
          /\ pc'["parent"] \in {"wait", "sync"}
      BY <1>1, <2>5 DEF ParentSignals, ParentWaits, Goes, fds, Shaped, Processes
    <3> QED  BY <1>2, <2>1, <3>1 DEF ParentTable, Is
  <2> QED  BY <2>2, <2>3, <2>4, <2>5 DEF Parent
<1> QED  BY <1>5, <1>6, <1>7, <1>8 DEF Tables

LEMMA ParentTalks ==
  ASSUME JInv, Parent \/ ParentKilled, ~(\E ok \in BOOLEAN : ParentForks(ok))
  PROVE  Talk'
<1>1. Shaped /\ Tables /\ Talk
  BY DEF JInv, IInv
<1>2. \A p \in Processes \ {"parent"} : pc'[p] = pc[p]
  BY <1>1
  DEF Parent, ParentCloses, ParentWrites, ParentEndsJob, ParentSignals,
      ParentWaits, ParentReturns, ParentKilled, Goes, Exits, Shaped, Processes
<1>3. UNCHANGED <<shell, said, err, reported>> /\ (sync' => sync)
  <2>1. CASE ParentReturns
    <3>1. UNCHANGED <<shell, said, err, reported>> /\ sync' = FALSE
      BY <2>1 DEF ParentReturns
    <3> QED  BY <3>1
  <2>2. CASE ~ParentReturns
    <3>1. UNCHANGED <<shell, said, err, reported, sync>>
      BY <2>2
      DEF Parent, ParentCloses, ParentWrites, ParentEndsJob, ParentSignals,
          ParentWaits, ParentKilled, errors
    <3> QED  BY <3>1
  <2> QED  BY <2>1, <2>2
<1>4. Lpr' = Lpr /\ Lpr \in Processes \ {"parent"}
  BY <1>3 DEF Lpr, Processes
<1>5. Quiet' /\ Told' /\ Counted'
  <2>1. /\ pc'["errors"] = pc["errors"] /\ pc'["command"] = pc["command"]
        /\ pc'[Lpr'] = pc[Lpr]
    BY <1>2, <1>4 DEF Processes
  <2>2. Quiet' /\ Counted'
    BY <1>1, <1>3, <2>1 DEF Talk, Quiet, Counted
  <2>3. Told'
    BY <1>1, <1>3, <2>1 DEF Talk, Told
  <2> QED  BY <2>2, <2>3
<1>6. CASE ParentReturns
  <2>1. /\ pc["parent"] = "sync" /\ pc'["parent"] = "returned"
        /\ sync \/ ~Held("sync out")
    BY <1>1, <1>6 DEF ParentReturns, Goes, Shaped, Processes
  <2>2. pc["monitor"] = "exited"
    BY <1>1, <2>1 DEF Talk, Descent
  <2>3. CASE sync
    BY <1>1, <1>2, <1>3, <1>5, <2>1, <2>3
    DEF Talk, Told, Settled, Descent, Processes
  <2>4. CASE ~Held("sync out")
    <3>1. /\ ~Is("errors", syncfd[2], "sync out")
          /\ ~Is("command", syncfd[2], "sync out")
      BY <2>4 DEF Held, Is, Processes
    <3>2. pc["errors"] \notin {"start", "read"} /\ pc["command"] # "start"
      BY <1>1, <3>1 DEF Tables, ErrorsTable, CommandTable
    <3> QED
      BY <1>1, <1>2, <1>3, <1>5, <2>1, <2>2, <3>2
      DEF Talk, Settled, Descent, Processes
  <2> QED  BY <2>1, <2>3, <2>4
<1>7. CASE ~ParentReturns
  <2>1. /\ pc'["parent"] \in {"close", "print", "signal", "wait", "sync",
                              "exited"} \union {pc["parent"]}
        /\ pc["parent"] \notin {"start", "returned"}
        /\ pc'["parent"] = "sync" => pc["monitor"] = "exited"
    <3>1. CASE ParentCloses \/ ParentEndsJob \/ ParentSignals \/ ParentWaits
      BY <1>1, <3>1
      DEF ParentCloses, ParentEndsJob, ParentSignals, ParentWaits, Goes,
          Shaped, Processes
    <3>2. CASE ParentWrites \/ ParentKilled
      BY <1>1, <3>2
      DEF ParentWrites, ParentKilled, Exits, Goes, Shaped, Processes, Talk,
          Descent
    <3> QED  BY <1>7, <3>1, <3>2 DEF Parent
  <2> QED
    BY <1>1, <1>2, <1>3, <1>5, <2>1 DEF Talk, Settled, Descent, Processes
<1> QED  BY <1>6, <1>7

-----------------------------------------------------------------------------
(* The lpr monitor.                                                        *)
LEMMA MonitorForksTables ==
  ASSUME JInv, NEW ok \in BOOLEAN, MonitorForks(ok)
  PROVE  Tables' /\ Talk'
<1> DEFINE mine == Closed(fd["monitor"], {syncfd[1]})
<1>1. /\ pc["monitor"] = "start" /\ pc["parent"] # "start"
      /\ pc["command"] = "none" /\ pc["errors"] = "none"
      /\ pc["lpr"] = "none" /\ Shaped
  BY DEF MonitorForks, JInv, IInv, Talk, Descent
<1>2. /\ UNCHANGED <<shell, pipefd, syncfd, errfd, said, err, reported, sync>>
      /\ Tables /\ Talk
  BY DEF MonitorForks, errors, JInv
<1>3. CASE ok
  <2>1. /\ pc' = [pc EXCEPT !["monitor"] = "close", !["command"] = "start"]
        /\ fd' = [fd EXCEPT !["monitor"] = mine, !["command"] = mine]
    BY <1>3 DEF MonitorForks
  <2>2. /\ {0, 1, 2} \subseteq DOMAIN mine /\ syncfd[1] \notin DOMAIN mine
        /\ Has(mine, syncfd[2], "sync out")
    <3>1. /\ {0, 1, 2} \subseteq DOMAIN fd["monitor"]
          /\ Has(fd["monitor"], syncfd[2], "sync out")
          /\ syncfd[1] \notin {0, 1, 2} /\ syncfd[2] \notin {syncfd[1]}
      BY <1>1, <1>2 DEF Tables, MonitorTable, Apart, Is, Has
    <3> QED  BY <3>1, ClosedHas DEF Closed
  <2> HIDE DEF mine
  <2>3. /\ pc'["monitor"] = "close" /\ pc'["command"] = "start"
        /\ fd'["command"] = mine
        /\ \A p \in {"parent", "lpr", "errors"} : Stays(p)
    BY <1>1, <2>1 DEF Shaped, Processes, Stays
  <2>4. CommandTable'
    BY <1>2, <2>2, <2>3 DEF CommandTable, Is, Has
  <2>5. Apart' /\ ParentTable' /\ MonitorTable' /\ ErrorsTable'
    BY <1>2, <2>3
    DEF Tables, Apart, ParentTable, MonitorTable, ErrorsTable, Is, Stays
  <2>6. LprTable' /\ Quiet'
    BY <1>1, <2>3 DEF LprTable, Lpr, Quiet, Stays
  <2>7. Descent' /\ Told' /\ Counted' /\ Settled'
    BY <1>1, <1>2, <2>3 DEF Talk, Descent, Told, Counted, Settled, Stays
  <2> QED  BY <2>4, <2>5, <2>6, <2>7 DEF Tables, Talk
<1>4. CASE ~ok
  <2>1. Exits("monitor")
    BY <1>4 DEF MonitorForks
  <2>2. /\ pc'["monitor"] = "exited"
        /\ \A p \in Processes \ {"monitor"} : Stays(p)
    BY <1>1, <2>1 DEF Exits, Goes, Shaped, Processes, Stays
  <2>3. Tables'
    BY <1>1, <1>2, <2>2, TablesKept DEF Rests
  <2>4. Talk'
    BY <1>1, <1>2, <2>2
    DEF Talk, Descent, Quiet, Told, Counted, Settled, Lpr, Stays, Processes
  <2> QED  BY <2>3, <2>4
<1> QED  BY <1>3, <1>4

LEMMA MonitorTalks ==
  ASSUME JInv, Monitor
  PROVE  Tables' /\ Talk'
<1>1. CASE \E ok \in BOOLEAN : MonitorForks(ok)
  BY <1>1, MonitorForksTables
<1>2. CASE ~(\E ok \in BOOLEAN : MonitorForks(ok))
  <2>1. /\ Shaped /\ Tables /\ Talk /\ pc["parent"] # "start"
        /\ pc["monitor"] \in {"close", "watch", "wait"}
    BY <1>2
    DEF Monitor, MonitorCloses, MonitorSignalled, MonitorKills, MonitorReaps,
        JInv, IInv, Talk, Descent
  <2>2. UNCHANGED <<shell, pipefd, syncfd, errfd, said, err, reported, sync>>
    BY <1>2
    DEF Monitor, MonitorCloses, MonitorSignalled, MonitorKills, MonitorReaps,
        errors
  <2>3. /\ \A p \in {"parent", "lpr", "errors"} : Stays(p)
        /\ Stays("command") \/ pc'["command"] = "exited"
        /\ pc'["monitor"] \in {"watch", "wait", "exited"}
        /\ pc'["monitor"] = "watch" => pc["monitor"] = "close"
        /\ pc'["command"] # pc["command"] => pc["parent"] = "exited"
    <3>1. CASE MonitorCloses
      BY <2>1, <3>1 DEF MonitorCloses, Goes, Shaped, Processes, Stays
    <3>2. CASE MonitorSignalled \/ MonitorReaps
      BY <2>1, <3>2
      DEF MonitorSignalled, MonitorReaps, Exits, Goes, Shaped, Processes, Stays
    <3>3. CASE MonitorKills
      BY <2>1, <3>3 DEF MonitorKills, Shaped, Processes, Stays
    <3> QED  BY <1>2, <3>1, <3>2, <3>3 DEF Monitor
  <2>4. Tables'
    <3>1. Lpr' = Lpr /\ Lpr \in {"command", "lpr"}
      BY <2>2 DEF Lpr
    <3>2. Apart' /\ ParentTable' /\ MonitorTable' /\ ErrorsTable'
      BY <2>1, <2>2, <2>3
      DEF Tables, Apart, ParentTable, MonitorTable, ErrorsTable, Is, Stays
    <3>3. CommandTable' /\ LprTable'
      BY <2>1, <2>2, <2>3, <3>1
      DEF Tables, CommandTable, LprTable, Is, Stays
    <3> QED  BY <3>2, <3>3 DEF Tables
  <2>5. Talk'
    BY <2>1, <2>2, <2>3
    DEF Talk, Descent, Quiet, Told, Counted, Settled, Lpr, Stays
  <2> QED  BY <2>4, <2>5
<1> QED  BY <1>1, <1>2

-----------------------------------------------------------------------------
(* The print command.  The error pipe takes the lowest free numbers, the   *)
(* first of which is at most that of the monitor's closed end of syncfd.   *)
LEMMA CommandForksTables ==
  ASSUME JInv, NEW ok \in BOOLEAN, CommandForks(ok)
  PROVE  Tables' /\ Talk'
<1> DEFINE mine   == fd["command"]
           before == Rewired(mine)
           table  == Piped(before, Err)
<1>1. /\ pc["command"] = "start" /\ pc["parent"] # "start"
      /\ pc["errors"] = "none" /\ pc["lpr"] = "none"
      /\ pc["monitor"] \notin {"none", "start"}
      /\ Shaped /\ Tables /\ Talk
  BY DEF CommandForks, JInv, IInv, Talk, Descent
<1>2. UNCHANGED <<shell, pipefd, syncfd, said, err, reported, sync>>
  BY DEF CommandForks, errors
<1>3. CASE ok
  <2>1. /\ errfd' = PipeNumbers(before)
        /\ pc' = [pc EXCEPT !["command"] = "redirect", !["errors"] = "start"]
        /\ fd' = [fd EXCEPT !["command"] = table, !["errors"] = table]
    BY <1>3 DEF CommandForks
  <2>2. /\ Table(mine) /\ {0, 1, 2} \subseteq DOMAIN mine
        /\ syncfd[1] \notin DOMAIN mine /\ Has(mine, syncfd[2], "sync out")
    BY <1>1 DEF JInv, IInv, CommandHolds, Tables, CommandTable, Is, Has
  <2>3. /\ syncfd[1] \in Nat /\ pipefd[1] \in Nat /\ pipefd[2] \in Nat
        /\ syncfd[1] < pipefd[1] /\ syncfd[1] < pipefd[2]
        /\ syncfd[1] # 0 /\ syncfd[2] # 0
        /\ {pipefd[1], pipefd[2]} \intersect {0, 1, 2} = {}
        /\ syncfd[2] \notin {pipefd[1], pipefd[2]}
    BY <1>1 DEF JInv, IInv, OwnNumbers, Tables, Apart
  <2>4. /\ Table(before) /\ {0, 1, 2} \subseteq DOMAIN before
        /\ syncfd[1] \notin DOMAIN before
        /\ Has(before, syncfd[2], "sync out")
    <3>1. Table(before)
      BY <2>2, RewiredTable
    <3>2. /\ {0, 1, 2} \subseteq DOMAIN before
          /\ syncfd[1] \notin DOMAIN before
      BY <2>2, <2>3 DEF Rewired, Closed, Dup2
    <3>3. Has(before, syncfd[2], "sync out")
      BY <2>2, <2>3, Dup2Has, ClosedHas DEF Rewired
    <3> QED  BY <3>1, <3>2, <3>3
  <2> HIDE DEF mine, before
  <2> DEFINE a == errfd'[1]
             b == errfd'[2]
  <2>5. /\ a \in Nat \ DOMAIN before /\ b \in Nat \ DOMAIN before /\ a # b
        /\ Has(table, a, Err[1]) /\ Has(table, b, Err[2])
        /\ \A n \in DOMAIN before : Has(table, n, before[n])
    <3>1. errfd' = PipeNumbers(before) /\ Table(before)
      BY <2>1, <2>4
    <3>2. /\ a \in Nat \ DOMAIN before /\ b \in Nat \ DOMAIN before /\ a # b
          /\ DOMAIN table = DOMAIN before \union {a, b}
          /\ table[a] = Err[1] /\ table[b] = Err[2]
          /\ \A n \in DOMAIN before : table[n] = before[n]
      BY <3>1, PipedHas
    <3> HIDE DEF table, a, b
    <3> QED  BY <3>2 DEF Has
  <2>6. a <= syncfd[1]
    <3>1. syncfd[1] \in Nat \ DOMAIN before
      BY <2>3, <2>4
    <3> QED  BY <2>1, <2>4, <3>1, FirstIsLowest
  <2> HIDE DEF table
  <2>7. Err[1] = "err in" /\ Err[2] = "err out"
    BY DEF Err
  <2>8. /\ a \notin {0, 1, 2, pipefd[1], pipefd[2], b} /\ b \notin {0, 1, 2}
        /\ b # syncfd[2]
        /\ Has(table, a, "err in") /\ Has(table, b, "err out")
        /\ Has(table, syncfd[2], "sync out")
    <3>1. a # pipefd[1] /\ a # pipefd[2]
      BY <2>3, <2>5, <2>6
    <3>2. a \notin {0, 1, 2} /\ b \notin {0, 1, 2} /\ b # syncfd[2]
      BY <2>4, <2>5 DEF Has
    <3>3. Has(table, syncfd[2], "sync out")
      BY <2>4, <2>5 DEF Has
    <3> QED  BY <2>5, <2>7, <3>1, <3>2, <3>3
  <2>9. /\ pc'["command"] = "redirect" /\ pc'["errors"] = "start"
        /\ fd'["command"] = table /\ fd'["errors"] = table
        /\ \A p \in {"parent", "monitor", "lpr"} : Stays(p)
    BY <1>1, <2>1 DEF Shaped, Processes, Stays
  <2>10. CommandTable' /\ ErrorsTable'
    BY <1>2, <2>8, <2>9 DEF CommandTable, ErrorsTable, Is, Has
  <2>11. Apart' /\ ParentTable' /\ MonitorTable'
    BY <1>1, <1>2, <2>9
    DEF Tables, Apart, ParentTable, MonitorTable, Is, Stays
  <2>12. LprTable' /\ Quiet'
    BY <1>1, <2>9 DEF LprTable, Lpr, Quiet, Stays
  <2>13. Descent' /\ Told' /\ Counted' /\ Settled'
    BY <1>1, <1>2, <2>9 DEF Talk, Descent, Told, Counted, Settled, Stays
  <2> QED  BY <2>10, <2>11, <2>12, <2>13 DEF Tables, Talk
<1>4. CASE ~ok
  <2>1. Exits("command") /\ UNCHANGED errfd
    BY <1>4 DEF CommandForks
  <2>2. /\ pc'["command"] = "exited"
        /\ \A p \in Processes \ {"command"} : Stays(p)
    BY <1>1, <2>1 DEF Exits, Goes, Shaped, Processes, Stays
  <2>3. Tables'
    BY <1>1, <1>2, <2>1, <2>2, TablesKept DEF Rests
  <2>4. Talk'
    BY <1>1, <1>2, <2>2
    DEF Talk, Descent, Quiet, Told, Counted, Settled, Lpr, Stays, Processes
  <2> QED  BY <2>3, <2>4
<1> QED  BY <1>3, <1>4

(* What the command execs has the job as its input and the error pipe as   *)
(* its output.                                                             *)
LEMMA RedirectedHas ==
  ASSUME NEW t, Has(t, errfd[2], "err out"),
         1 \notin {errfd[2], pipefd[1], pipefd[2], syncfd[2]},
         2 \notin {errfd[2], pipefd[1], pipefd[2], syncfd[2]}
  PROVE  /\ Has(Redirected(t), 1, "err out")
         /\ Has(Redirected(t), 2, "err out")
<1> DEFINE closed == Closed(t, {1, 2})
           second == Dup2(closed, errfd[2], 2)
           first  == Dup2(second, errfd[2], 1)
<1>1. Has(closed, errfd[2], "err out")
  BY ClosedHas
<1> HIDE DEF closed
<1>2. Has(second, 2, "err out") /\ Has(second, errfd[2], "err out")
  BY <1>1, Dup2Has
<1> HIDE DEF second
<1>3. Has(first, 1, "err out") /\ Has(first, 2, "err out")
  <2>1. Has(first, 1, "err out")
    BY <1>2, Dup2Has
  <2>2. Has(first, 2, "err out")
    <3>1. Has(second, IF 2 = 1 THEN errfd[2] ELSE 2, "err out")
      BY <1>2
    <3> QED  BY <3>1, Dup2Has
  <2> QED  BY <2>1, <2>2
<1> HIDE DEF first
<1>4. Redirected(t) =
        Closed(first, {errfd[2], pipefd[1], pipefd[2], syncfd[2]})
  BY DEF Redirected, closed, second, first
<1> QED  BY <1>3, <1>4, ClosedHas

LEMMA CommandExecsTables ==
  ASSUME JInv, CommandExecs
  PROVE  Tables' /\ Talk'
<1> DEFINE mine  == fd["command"]
           table == Redirected(mine)
<1>1. /\ pc["command"] = "redirect" /\ pc["parent"] # "start"
      /\ pc["errors"] \in {"start", "read"}
      /\ pc["monitor"] \notin {"none", "start"}
      /\ Shaped /\ Tables /\ Talk
  BY DEF CommandExecs, JInv, IInv, NothingYet, Talk, Descent, Quiet, Processes
<1>2. UNCHANGED <<shell, pipefd, syncfd, errfd, said, err, reported, sync>>
  BY DEF CommandExecs, errors
<1>3. /\ Has(mine, errfd[2], "err out") /\ Has(mine, 0, "data in")
      /\ \A n \in {0, 1, 2} :
           n \notin {errfd[2], pipefd[1], pipefd[2], syncfd[2]}
  BY <1>1
  DEF Tables, CommandTable, JInv, IInv, CommandHolds, OwnNumbers, Is, Has
<1>4. /\ Has(table, 0, "data in")
      /\ Has(table, 1, "err out") /\ Has(table, 2, "err out")
  <2>1. 0 \notin {1, 2, errfd[2], pipefd[1], pipefd[2], syncfd[2]}
    <3>1. 0 \notin {errfd[2], pipefd[1], pipefd[2], syncfd[2]}
      BY <1>3
    <3> QED  BY <3>1
  <2>2. Has(table, 0, "data in")
    BY <1>3, <2>1, RedirectedKeeps DEF Has
  <2> QED  BY <1>3, <2>2, RedirectedHas
<1>5. \/ /\ shell
         /\ pc' = [pc EXCEPT !["command"] = "shell", !["lpr"] = "run"]
         /\ fd' = [fd EXCEPT !["command"] = table, !["lpr"] = table]
      \/ /\ ~shell
         /\ pc' = [pc EXCEPT !["command"] = "run"]
         /\ fd' = [fd EXCEPT !["command"] = table]
  BY DEF CommandExecs, Goes
<1> HIDE DEF mine, table
<1>6. /\ \A p \in {"parent", "monitor", "errors"} : Stays(p)
      /\ pc'["command"] \in {"shell", "run"}
      /\ fd'[Lpr'] = table
  <2>1. CASE shell
    BY <1>1, <1>2, <1>5, <2>1 DEF Shaped, Processes, Stays, Lpr
  <2>2. CASE ~shell
    BY <1>1, <1>2, <1>5, <2>2 DEF Shaped, Processes, Stays, Lpr
  <2> QED  BY <2>1, <2>2
<1>7. LprTable'
  BY <1>4, <1>6 DEF LprTable, Is, Has
<1>8. Apart' /\ ParentTable' /\ MonitorTable' /\ CommandTable' /\ ErrorsTable'
  BY <1>1, <1>2, <1>6
  DEF Tables, Apart, ParentTable, MonitorTable, CommandTable, ErrorsTable, Is,
      Stays
<1>9. Talk'
  BY <1>1, <1>2, <1>6
  DEF Talk, Descent, Quiet, Told, Counted, Settled, Stays
<1> QED  BY <1>7, <1>8, <1>9 DEF Tables

(* The shell, and what reads the job, end.                                 *)
LEMMA CommandEndsTalks ==
  ASSUME JInv, NEW p \in {"command", "lpr"}, Exits(p),
         pc["command"] \in {"shell", "run"} \/ pc["lpr"] = "run",
         UNCHANGED <<shell, pipefd, syncfd, errfd, said, err, reported, sync>>
  PROVE  Tables' /\ Talk'
<1>1. Shaped /\ Tables /\ Talk /\ pc["parent"] # "start"
  BY DEF JInv, IInv, Talk, Descent
<1>2. pc["errors"] # "none" /\ pc["command"] \notin {"none", "start"}
  BY <1>1 DEF Talk, Descent
<1>3. pc'[p] = "exited" /\ \A q \in Processes \ {p} : Stays(q)
  BY <1>1 DEF Exits, Goes, Shaped, Processes, Stays
<1>4. Tables'
  BY <1>1, <1>3, TablesKept DEF Rests
<1>5. /\ pc'["command"] \in {pc["command"], "exited"}
      /\ pc'["lpr"] \in {pc["lpr"], "exited"}
      /\ \A q \in {"parent", "monitor", "errors"} : Stays(q)
  BY <1>3 DEF Stays, Processes
<1>6. Talk'
  BY <1>1, <1>2, <1>5
  DEF Talk, Descent, Quiet, Told, Counted, Settled, Lpr, Stays
<1> QED  BY <1>4, <1>6

(* What reads the job, and what it says.                                   *)
LEMMA TheLprTalks ==
  ASSUME JInv, TheLpr
  PROVE  Tables' /\ Talk'
<1>1. /\ pc[Lpr] = "run" /\ Lpr \in {"command", "lpr"}
      /\ Shaped /\ Tables /\ Talk
  BY DEF TheLpr, LprReads, LprSays, LprPrints, LprFails, Lpr, JInv, IInv
<1>2. pc["command"] \in {"shell", "run"} \/ pc["lpr"] = "run"
  BY <1>1
<1>3. /\ pc["parent"] # "start"
      /\ pc["errors"] \notin {"none", "exited"}
  BY <1>1, <1>2 DEF Talk, Descent, Quiet
<1>4. CASE LprReads \/ LprSays
  <2>1. /\ UNCHANGED <<shell, fd, pipefd, syncfd, errfd, pc, reported, sync>>
        /\ \/ UNCHANGED <<said, err>>
           \/ err = 0 /\ err' = 1 /\ said' = said + 1
    BY <1>4 DEF LprReads, LprSays, fds, errors
  <2>2. Tables'
    BY <1>1, <1>3, <2>1, TablesKept DEF Stays
  <2>3. Counted'
    BY <1>1, <2>1 DEF Talk, Counted
  <2>4. Descent' /\ Quiet' /\ Told' /\ Settled'
    BY <1>1, <1>3, <2>1 DEF Talk, Descent, Quiet, Told, Settled
  <2> QED  BY <2>2, <2>3, <2>4 DEF Talk
<1>5. CASE LprPrints \/ LprFails
  <2>1. /\ Exits(Lpr)
        /\ UNCHANGED <<shell, pipefd, syncfd, errfd, said, err, reported, sync>>
    BY <1>5 DEF LprPrints, LprFails, errors
  <2> QED  BY <1>1, <1>2, <2>1, CommandEndsTalks
<1> QED  BY <1>4, <1>5 DEF TheLpr

LEMMA CommandTalks ==
  ASSUME JInv, Command
  PROVE  Tables' /\ Talk'
<1>1. CASE \E ok \in BOOLEAN : CommandForks(ok)
  BY <1>1, CommandForksTables
<1>2. CASE CommandExecs
  BY <1>2, CommandExecsTables
<1>3. CASE ShellWaits
  <2>1. /\ pc["command"] = "shell" /\ Exits("command")
        /\ UNCHANGED <<shell, pipefd, syncfd, errfd, said, err, reported, sync>>
    BY <1>3 DEF ShellWaits, errors
  <2> QED  BY <2>1, CommandEndsTalks
<1> QED  BY <1>1, <1>2, <1>3 DEF Command

(* The error monitor.                                                      *)
LEMMA ErrorsTalks ==
  ASSUME JInv, Errors
  PROVE  Tables' /\ Talk'
<1>1. /\ pc["errors"] \in {"start", "read"} /\ pc["parent"] # "start"
      /\ Shaped /\ Tables /\ Talk
  BY DEF Errors, ErrorsClose, ErrorsRead, ErrorsEnd, JInv, IInv, NothingYet,
         Processes
<1>2. UNCHANGED <<shell, pipefd, syncfd, errfd>>
  BY DEF Errors, ErrorsClose, ErrorsRead, ErrorsEnd, fds
<1>3. CASE ErrorsClose
  <2> DEFINE numbers == 0 .. 2 \union {pipefd[1], pipefd[2], errfd[2]}
  <2>1. /\ pc["errors"] = "start"
        /\ pc' = [pc EXCEPT !["errors"] = "read"]
        /\ fd' = [fd EXCEPT !["errors"] = Closed(@, numbers)]
        /\ UNCHANGED <<said, err, reported, sync>>
    BY <1>3 DEF ErrorsClose, Goes, errors
  <2>2. /\ Has(fd["errors"], errfd[1], "err in")
        /\ Has(fd["errors"], syncfd[2], "sync out")
    BY <1>1, <2>1 DEF Tables, ErrorsTable, Is, Has
  <2>3. errfd[1] \notin numbers /\ syncfd[2] \notin numbers
    <3>1. 0 .. 2 = {0, 1, 2}
      OBVIOUS
    <3>2. errfd[1] \notin {0, 1, 2, pipefd[1], pipefd[2], errfd[2]}
      BY <1>1, <2>1 DEF Tables, ErrorsTable
    <3>3. syncfd[2] \notin {0, 1, 2, pipefd[1], pipefd[2], errfd[2]}
      BY <1>1, <2>1 DEF Tables, ErrorsTable, JInv, IInv, OwnNumbers
    <3> QED  BY <3>1, <3>2, <3>3
  <2> HIDE DEF numbers
  <2>4. /\ fd'["errors"] = Closed(fd["errors"], numbers)
        /\ pc'["errors"] = "read"
        /\ \A p \in {"parent", "monitor", "command", "lpr"} : Stays(p)
    BY <1>1, <2>1 DEF Shaped, Processes, Stays
  <2>5. /\ Has(fd'["errors"], errfd[1], "err in")
        /\ Has(fd'["errors"], syncfd[2], "sync out")
    BY <2>2, <2>3, <2>4, ClosedHas
  <2>6. ErrorsTable'
    BY <1>2, <2>4, <2>5 DEF ErrorsTable, Is, Has
  <2>7. Apart' /\ ParentTable' /\ MonitorTable' /\ CommandTable' /\ LprTable'
    BY <1>1, <1>2, <2>4
    DEF Tables, Apart, ParentTable, MonitorTable, CommandTable, LprTable, Lpr,
        Is, Stays
  <2>8. Talk'
    BY <1>1, <1>2, <2>1, <2>4
    DEF Talk, Descent, Quiet, Told, Counted, Settled, Lpr, Stays
  <2> QED  BY <2>6, <2>7, <2>8 DEF Tables
<1>4. CASE ErrorsRead
  <2>1. /\ UNCHANGED <<fd, pc, said, sync>>
        /\ err = 1 /\ err' = 0 /\ reported' = reported + 1
    BY <1>4 DEF ErrorsRead, fds
  <2>2. Tables'
    BY <1>1, <1>2, <2>1, TablesKept DEF Stays
  <2>3. Counted'
    BY <1>1, <2>1 DEF Talk, Counted
  <2>4. Descent' /\ Quiet' /\ Told' /\ Settled'
    BY <1>1, <1>2, <2>1 DEF Talk, Descent, Quiet, Told, Settled, Lpr
  <2> QED  BY <2>2, <2>3, <2>4 DEF Talk
<1>5. CASE ErrorsEnd
  <2>1. /\ err = 0 /\ ~Held("err out") /\ Exits("errors")
        /\ UNCHANGED <<said, err, reported>>
    BY <1>5 DEF ErrorsEnd
  <2>2. /\ pc'["errors"] = "exited"
        /\ \A p \in Processes \ {"errors"} : Stays(p)
    BY <1>1, <2>1 DEF Exits, Goes, Shaped, Processes, Stays
  <2>3. Tables'
    BY <1>1, <1>2, <2>2, TablesKept DEF Rests
  <2>4. pc["command"] # "redirect" /\ pc[Lpr] # "run"
    <3>1. /\ ~Is("command", errfd[2], "err out")
          /\ ~Is(Lpr, 1, "err out")
      BY <2>1 DEF Held, Is, Processes, Lpr
    <3> QED  BY <1>1, <3>1 DEF Tables, CommandTable, LprTable
  <2>5. Lpr' = Lpr /\ Lpr \in {"command", "lpr"}
    BY <1>2 DEF Lpr
  <2>6. Quiet'
    BY <2>1, <2>2, <2>4, <2>5 DEF Quiet, Stays, Processes
  <2>7. Told' /\ Counted'
    BY <1>1, <2>1, <2>2 DEF Talk, Told, Counted
  <2>8. Descent' /\ Settled'
    BY <1>1, <2>1, <2>2 DEF Talk, Descent, Settled, Stays, Processes
  <2> QED  BY <2>3, <2>6, <2>7, <2>8 DEF Talk
<1> QED  BY <1>3, <1>4, <1>5 DEF Errors

-----------------------------------------------------------------------------
LEMMA NextTalks ==
  ASSUME JInv, [Next]_vars
  PROVE  JInv'
<1>1. IInv'
  BY NextKeeps DEF JInv
<1>2. Tables' /\ Talk'
  <2>1. CASE Parent \/ ParentKilled
    <3>1. CASE \E ok \in BOOLEAN : ParentForks(ok)
      BY <3>1, ForksTables
    <3>2. CASE ~(\E ok \in BOOLEAN : ParentForks(ok))
      BY <2>1, <3>2, ParentTables, ParentTalks
    <3> QED  BY <3>1, <3>2
  <2>2. CASE Monitor
    BY <2>2, MonitorTalks
  <2>3. CASE Command
    BY <2>3, CommandTalks
  <2>4. CASE TheLpr
    BY <2>4, TheLprTalks
  <2>5. CASE Errors
    BY <2>5, ErrorsTalks
  <2>6. CASE Done \/ UNCHANGED vars
    <3>1. UNCHANGED <<shell, fd, pipefd, syncfd, errfd, pc, said, err, reported,
                      sync>>
      BY <2>6 DEF Done, vars, fds, errors
    <3>2. Tables'
      BY <3>1
      DEF JInv, Tables, Apart, ParentTable, MonitorTable, CommandTable,
          LprTable, ErrorsTable, Lpr, Is
    <3>3. Talk'
      BY <3>1
      DEF JInv, Talk, Descent, Quiet, Told, Counted, Settled, Lpr
    <3> QED  BY <3>2, <3>3
  <2> QED  BY <2>1, <2>2, <2>3, <2>4, <2>5, <2>6 DEF Next
<1> QED  BY <1>1, <1>2 DEF JInv

(* Whatever the dialog has open, every number that a process uses stands   *)
(* for what it was opened for, when it is used.                            *)
THEOREM DescriptorsAreRight == Spec => []RightDescriptors
<1>1. Init => JInv
  BY InitTalks
<1>2. JInv /\ [Next]_vars => JInv'
  BY NextTalks
<1>3. JInv => RightDescriptors
  <2> SUFFICES ASSUME JInv PROVE RightDescriptors
    OBVIOUS
  <2>1. pc["monitor"] = "watch" => Is("monitor", pipefd[2], "data out")
    BY DEF JInv, IInv, MonitorHolds
  <2> QED
    BY <2>1
    DEF JInv, Tables, ParentTable, LprTable, ErrorsTable, RightDescriptors
<1> QED  BY <1>1, <1>2, <1>3, PTL DEF Spec

(* When stpui_print returns, the user has seen all that the command said,  *)
(* and the command says no more.                                           *)
THEOREM ErrorsAreSeen == Spec => []ErrorsSeen
<1>1. Init => JInv
  BY InitTalks
<1>2. JInv /\ [Next]_vars => JInv'
  BY NextTalks
<1>3. JInv => ErrorsSeen
  BY DEF JInv, Talk, Descent, Quiet, Counted, Settled, ErrorsSeen
<1> QED  BY <1>1, <1>2, <1>3, PTL DEF Spec

-----------------------------------------------------------------------------
(* The types.  All that is in a table is something that pipe or the dialog *)
(* opened: dup2 is never given a number that is closed.                    *)
Kinds == {"other", "data in", "data out", "sync in", "sync out", "err in",
          "err out"}
Sorted(t) == \A n \in DOMAIN t : t[n] \in Kinds
AllSorted == \A p \in Processes : Sorted(fd[p])
Amounts ==
  /\ written \in 0 .. JobLength /\ data \in 0 .. 1
  /\ got \in Nat /\ got + data <= written /\ printed \in -1 .. got
  /\ said \in 0 .. MaxSaid
Opened == pc["command"] \in {"redirect", "shell", "run"} => errfd # Unset

LEMMA ClosedSorted ==
  ASSUME NEW t, NEW numbers, Sorted(t) PROVE Sorted(Closed(t, numbers))
BY DEF Sorted, Closed

LEMMA Dup2Sorted ==
  ASSUME NEW t, NEW from \in DOMAIN t, NEW to, Sorted(t)
  PROVE  Sorted(Dup2(t, from, to))
BY DEF Sorted, Dup2

LEMMA PipedSorted ==
  ASSUME NEW t, NEW ends, Sorted(t), ends[1] \in Kinds, ends[2] \in Kinds
  PROVE  Sorted(Piped(t, ends))
BY DEF Sorted, Piped

LEMMA EmptySorted == Sorted(<< >>)
BY DEF Sorted

LEMMA SortedKeeps ==
  ASSUME JInv, AllSorted, [Next]_vars
  PROVE  AllSorted'
<1>1. Shaped /\ \A p \in Processes : Sorted(fd[p])
  BY DEF JInv, IInv, AllSorted
<1> USE EmptySorted
<1>2. CASE fd' = fd
  BY <1>1, <1>2 DEF AllSorted, Sorted
<1>3. ASSUME NEW p \in Processes, NEW t, Sorted(t),
             fd' = [fd EXCEPT ![p] = t]
      PROVE  AllSorted'
  BY <1>1, <1>3 DEF AllSorted, Shaped
<1>4. ASSUME NEW p \in Processes, NEW q \in Processes, NEW t, NEW u,
             Sorted(t), Sorted(u), fd' = [fd EXCEPT ![p] = t, ![q] = u]
      PROVE  AllSorted'
  BY <1>1, <1>4 DEF AllSorted, Shaped
<1>5. ASSUME NEW p \in Processes, Exits(p) PROVE AllSorted'
  BY <1>3, <1>5 DEF Exits
<1>6. ASSUME NEW p \in Processes, NEW numbers,
             fd' = [fd EXCEPT ![p] = Closed(@, numbers)]
      PROVE  AllSorted'
  <2>1. Sorted(Closed(fd[p], numbers))
    BY <1>1, ClosedSorted
  <2> QED  BY <1>3, <1>6, <2>1
<1>7. ASSUME NEW ok \in BOOLEAN, ParentForks(ok) PROVE AllSorted'
  <2> DEFINE mine == fd["parent"]
             t == Piped(mine, Sync)
             u == Piped(t, Data)
  <2>1. Sorted(mine) /\ Sorted(fd["monitor"])
    BY <1>1 DEF Processes
  <2>2. Sorted(t)
    <3>1. Sync[1] \in Kinds /\ Sync[2] \in Kinds
      BY DEF Sync, Kinds
    <3> QED  BY <2>1, <3>1, PipedSorted
  <2> HIDE DEF mine, t
  <2>3. Sorted(u)
    <3>1. Data[1] \in Kinds /\ Data[2] \in Kinds
      BY DEF Data, Kinds
    <3> QED  BY <2>2, <3>1, PipedSorted
  <2> DEFINE w == IF ok THEN u ELSE fd["monitor"]
  <2>4. fd' = [fd EXCEPT !["parent"] = u, !["monitor"] = w]
    BY <1>7 DEF ParentForks, mine, t
  <2>5. Sorted(w)
    BY <2>1, <2>3
  <2> HIDE DEF u, w
  <2> QED  BY <1>4, <2>3, <2>4, <2>5 DEF Processes
<1>8. ASSUME NEW ok \in BOOLEAN, MonitorForks(ok) PROVE AllSorted'
  <2> DEFINE mine == Closed(fd["monitor"], {syncfd[1]})
  <2>1. Sorted(mine)
    BY <1>1, ClosedSorted DEF Processes
  <2>2. CASE ok
    <3>1. fd' = [fd EXCEPT !["monitor"] = mine, !["command"] = mine]
      BY <1>8, <2>2 DEF MonitorForks
    <3> HIDE DEF mine
    <3> QED  BY <1>4, <2>1, <3>1 DEF Processes
  <2>3. CASE ~ok
    BY <1>5, <1>8, <2>3 DEF MonitorForks, Processes
  <2> QED  BY <2>2, <2>3
<1>9. ASSUME NEW ok \in BOOLEAN, CommandForks(ok) PROVE AllSorted'
  <2> DEFINE mine   == fd["command"]
             before == Rewired(mine)
             table  == Piped(before, Err)
  <2>1. Sorted(mine) /\ pipefd[1] \in DOMAIN mine
    BY <1>1, <1>9
    DEF CommandForks, JInv, IInv, CommandHolds, Is, Processes
  <2>2. Sorted(before)
    BY <2>1, Dup2Sorted, ClosedSorted DEF Rewired
  <2> HIDE DEF mine, before
  <2>3. Sorted(table)
    <3>1. Err[1] \in Kinds /\ Err[2] \in Kinds
      BY DEF Err, Kinds
    <3> QED  BY <2>2, <3>1, PipedSorted
  <2>4. CASE ok
    <3>1. fd' = [fd EXCEPT !["command"] = table, !["errors"] = table]
      BY <1>9, <2>4 DEF CommandForks, mine, before
    <3> HIDE DEF table
    <3> QED  BY <1>4, <2>3, <3>1 DEF Processes
  <2>5. CASE ~ok
    BY <1>5, <1>9, <2>5 DEF CommandForks, Processes
  <2> QED  BY <2>4, <2>5
<1>10. ASSUME CommandExecs PROVE AllSorted'
  <2> DEFINE mine   == fd["command"]
             closed == Closed(mine, {1, 2})
             second == Dup2(closed, errfd[2], 2)
             first  == Dup2(second, errfd[2], 1)
  <2>1. /\ Sorted(mine) /\ errfd[2] \in DOMAIN mine
        /\ errfd[2] \notin {1, 2}
    BY <1>1, <1>10
    DEF CommandExecs, JInv, Tables, CommandTable, Is, Processes
  <2> HIDE DEF mine
  <2>2. Sorted(closed) /\ errfd[2] \in DOMAIN closed
    BY <2>1, ClosedSorted, ClosedKeeps
  <2> HIDE DEF closed
  <2>3. Sorted(second) /\ errfd[2] \in DOMAIN second
    BY <2>1, <2>2, Dup2Sorted, Dup2Keeps
  <2> HIDE DEF second
  <2>4. Sorted(first)
    BY <2>3, Dup2Sorted
  <2> HIDE DEF first
  <2>5. Redirected(mine) =
          Closed(first, {errfd[2], pipefd[1], pipefd[2], syncfd[2]})
    BY DEF Redirected, closed, second, first
  <2>6. Sorted(Redirected(mine))
    BY <2>4, <2>5, ClosedSorted
  <2>7. \/ fd' = [fd EXCEPT !["command"] = Redirected(mine),
                            !["lpr"] = Redirected(mine)]
        \/ fd' = [fd EXCEPT !["command"] = Redirected(mine)]
    BY <1>10 DEF CommandExecs, mine
  <2> QED  BY <1>3, <1>4, <2>6, <2>7 DEF Processes
<1>11. CASE Parent \/ ParentKilled
  <2>1. CASE ParentCloses \/ ParentEndsJob \/ ParentReturns
    BY <1>6, <2>1 DEF ParentCloses, ParentEndsJob, ParentReturns, Processes
  <2>2. CASE ParentWrites \/ ParentKilled
    BY <1>2, <1>5, <2>2 DEF ParentWrites, ParentKilled, Processes
  <2>3. CASE ParentSignals \/ ParentWaits
    BY <1>2, <2>3 DEF ParentSignals, ParentWaits, fds
  <2> QED  BY <1>7, <1>11, <2>1, <2>2, <2>3 DEF Parent
<1>12. CASE Monitor
  <2>1. CASE MonitorCloses
    BY <1>6, <2>1 DEF MonitorCloses, Processes
  <2>2. CASE MonitorSignalled \/ MonitorReaps
    BY <1>5, <2>2 DEF MonitorSignalled, MonitorReaps, Processes
  <2>3. CASE MonitorKills
    BY <1>3, <2>3 DEF MonitorKills, Processes
  <2> QED  BY <1>8, <1>12, <2>1, <2>2, <2>3 DEF Monitor
<1>13. CASE Command
  <2>1. CASE ShellWaits
    BY <1>5, <2>1 DEF ShellWaits, Processes
  <2> QED  BY <1>9, <1>10, <1>13, <2>1 DEF Command
<1>14. CASE TheLpr
  <2>1. Lpr \in Processes
    BY DEF Lpr, Processes
  <2>2. CASE LprReads \/ LprSays
    BY <1>2, <2>2 DEF LprReads, LprSays, fds
  <2>3. CASE LprPrints \/ LprFails
    BY <1>5, <2>1, <2>3 DEF LprPrints, LprFails
  <2> QED  BY <1>14, <2>2, <2>3 DEF TheLpr
<1>15. CASE Errors
  <2>1. CASE ErrorsClose
    BY <1>6, <2>1 DEF ErrorsClose, Processes
  <2>2. CASE ErrorsRead
    BY <1>2, <2>2 DEF ErrorsRead, fds
  <2>3. CASE ErrorsEnd
    BY <1>5, <2>3 DEF ErrorsEnd, Processes
  <2> QED  BY <1>15, <2>1, <2>2, <2>3 DEF Errors
<1>16. CASE Done \/ UNCHANGED vars
  BY <1>2, <1>16 DEF Done, vars, fds
<1> QED
  BY <1>11, <1>12, <1>13, <1>14, <1>15, <1>16 DEF Next

LEMMA AmountsKeep ==
  ASSUME JInv, Amounts, [Next]_vars
  PROVE  Amounts'
<1> USE PipeAssumption DEF Amounts
<1>1. CASE UNCHANGED <<written, data, got, printed, said>>
  BY <1>1
<1>2. CASE ParentWrites
  <2>1. UNCHANGED <<got, printed, said>> /\ written < JobLength
    BY <1>2 DEF ParentWrites, errors
  <2>2. \/ data = 0 /\ data' = 1 /\ written' = written + 1
        \/ data' = data /\ written' \in {written, written + 1}
    BY <1>2 DEF ParentWrites
  <2> QED  BY <2>1, <2>2
<1>3. CASE LprReads
  BY <1>3 DEF LprReads, errors
<1>4. CASE LprSays
  BY <1>4 DEF LprSays, job
<1>5. CASE LprPrints
  <2>1. UNCHANGED <<written, data, got, said>> /\ printed' = got
    BY <1>5 DEF LprPrints, errors
  <2> QED  BY <2>1
<1>6. CASE Parent \/ ParentKilled
  BY <1>1, <1>2, <1>6
  DEF Parent, ParentForks, ParentCloses, ParentEndsJob, ParentSignals,
      ParentWaits, ParentReturns, ParentKilled, job, errors
<1>7. CASE Monitor
  BY <1>1, <1>7
  DEF Monitor, MonitorForks, MonitorCloses, MonitorSignalled, MonitorKills,
      MonitorReaps, job, errors
<1>8. CASE Command
  BY <1>1, <1>8
  DEF Command, CommandForks, CommandExecs, ShellWaits, job, errors
<1>9. CASE TheLpr
  BY <1>1, <1>3, <1>4, <1>5, <1>9 DEF TheLpr, LprFails, job, errors
<1>10. CASE Errors
  BY <1>1, <1>10 DEF Errors, ErrorsClose, ErrorsRead, ErrorsEnd, job, errors
<1>11. CASE Done \/ UNCHANGED vars
  BY <1>1, <1>11 DEF Done, vars, job, errors
<1> QED
  BY <1>6, <1>7, <1>8, <1>9, <1>10, <1>11 DEF Next

LEMMA OpenedKeeps ==
  ASSUME JInv, JInv', Opened, [Next]_vars
  PROVE  Opened'
<1>1. Shaped
  BY DEF JInv, IInv
<1>2. ASSUME errfd' = errfd,
             \/ pc'["command"] \in {pc["command"], "start", "exited"}
             \/ pc["command"] = "redirect"
      PROVE  Opened'
  BY <1>2 DEF Opened
<1>3. ASSUME NEW ok \in BOOLEAN, CommandForks(ok) PROVE Opened'
  <2>1. CASE ok
    <3>1. Table(Rewired(fd["command"]))
      BY <1>3, RewiredTable DEF CommandForks, JInv, IInv, CommandHolds
    <3>2. errfd' = PipeNumbers(Rewired(fd["command"]))
      BY <1>3, <2>1 DEF CommandForks
    <3>3. errfd'[1] \in Nat
      BY <3>1, <3>2, PipedHas
    <3>4. Unset[1] = -1
      BY DEF Unset
    <3> QED  BY <3>3, <3>4 DEF Opened
  <2>2. CASE ~ok
    BY <1>1, <1>2, <1>3, <2>2
    DEF CommandForks, Exits, Goes, Shaped, Processes
  <2> QED  BY <2>1, <2>2
<1>4. ASSUME pc'["command"] = pc["command"], errfd' = errfd PROVE Opened'
  BY <1>2, <1>4
<1>5. CASE Parent \/ ParentKilled
  <2>1. ASSUME NEW ok \in BOOLEAN, ParentForks(ok) PROVE Opened'
    BY <1>1, <1>4, <2>1 DEF ParentForks, Shaped, Processes
  <2>2. CASE ParentCloses \/ ParentEndsJob \/ ParentSignals \/ ParentWaits
    BY <1>1, <1>4, <2>2
    DEF ParentCloses, ParentEndsJob, ParentSignals, ParentWaits, Goes, fds,
        Shaped, Processes
  <2>3. CASE ParentWrites \/ ParentReturns \/ ParentKilled
    BY <1>1, <1>4, <2>3
    DEF ParentWrites, ParentReturns, ParentKilled, Exits, Goes, Shaped,
        Processes
  <2> QED  BY <1>5, <2>1, <2>2, <2>3 DEF Parent
<1>6. CASE Monitor
  <2>1. ASSUME NEW ok \in BOOLEAN, MonitorForks(ok) PROVE Opened'
    BY <1>1, <1>2, <2>1 DEF MonitorForks, Exits, Goes, Shaped, Processes
  <2>2. CASE MonitorCloses \/ MonitorSignalled \/ MonitorReaps
    BY <1>1, <1>4, <2>2
    DEF MonitorCloses, MonitorSignalled, MonitorReaps, Exits, Goes, Shaped,
        Processes
  <2>3. CASE MonitorKills
    BY <1>1, <1>2, <2>3 DEF MonitorKills, Shaped, Processes
  <2> QED  BY <1>6, <2>1, <2>2, <2>3 DEF Monitor
<1>7. CASE Command
  <2>1. CASE CommandExecs
    BY <1>1, <1>2, <2>1 DEF CommandExecs
  <2>2. CASE ShellWaits
    BY <1>1, <1>2, <2>2 DEF ShellWaits, Exits, Goes, Shaped, Processes
  <2> QED  BY <1>3, <1>7, <2>1, <2>2 DEF Command
<1>8. CASE TheLpr
  <2>1. Lpr \in {"command", "lpr"}
    BY DEF Lpr
  <2>2. CASE LprReads \/ LprSays
    BY <1>4, <2>2 DEF LprReads, LprSays, fds
  <2>3. CASE LprPrints \/ LprFails
    <3>1. Exits(Lpr) /\ errfd' = errfd
      BY <2>3 DEF LprPrints, LprFails
    <3>2. pc'["command"] \in {pc["command"], "exited"}
      BY <1>1, <2>1, <3>1 DEF Exits, Goes, Shaped, Processes
    <3> QED  BY <1>2, <3>1, <3>2
  <2> QED  BY <1>8, <2>2, <2>3 DEF TheLpr
<1>9. CASE Errors
  BY <1>1, <1>4, <1>9
  DEF Errors, ErrorsClose, ErrorsRead, ErrorsEnd, Exits, Goes, fds, Shaped,
      Processes
<1>10. CASE Done \/ UNCHANGED vars
  BY <1>4, <1>10 DEF Done, vars, fds
<1> QED
  BY <1>5, <1>6, <1>7, <1>8, <1>9, <1>10 DEF Next

Flags == shell \in BOOLEAN /\ sync \in BOOLEAN /\ usr1 \in BOOLEAN

LEMMA FlagsKeep ==
  ASSUME Flags, [Next]_vars
  PROVE  Flags'
<1>1. Held("sync in") \in BOOLEAN
  BY DEF Held
<1>2. CASE Parent \/ ParentKilled
  BY <1>2
  DEF Flags, Parent, ParentForks, ParentCloses, ParentWrites, ParentEndsJob,
      ParentSignals, ParentWaits, ParentReturns, ParentKilled, errors
<1>3. CASE Monitor
  BY <1>3
  DEF Flags, Monitor, MonitorForks, MonitorCloses, MonitorSignalled,
      MonitorKills, MonitorReaps, errors
<1>4. CASE Command
  BY <1>4 DEF Flags, Command, CommandForks, CommandExecs, ShellWaits, errors
<1>5. CASE TheLpr
  BY <1>5
  DEF Flags, TheLpr, LprReads, LprSays, LprPrints, LprFails, errors
<1>6. CASE Errors
  <2>1. UNCHANGED <<shell, usr1>>
    BY <1>6 DEF Errors, ErrorsClose, ErrorsRead, ErrorsEnd
  <2>2. sync' = sync \/ sync' = Held("sync in")
    BY <1>6 DEF Errors, ErrorsClose, ErrorsRead, ErrorsEnd, errors
  <2>3. sync' \in BOOLEAN
    BY <1>1, <2>2, Zenon DEF Flags
  <2> QED  BY <2>1, <2>3 DEF Flags
<1>7. CASE Done \/ UNCHANGED vars
  BY <1>7 DEF Flags, Done, vars, errors
<1> QED  BY <1>2, <1>3, <1>4, <1>5, <1>6, <1>7 DEF Next

(* The variables stay within their types; in particular no more is read or *)
(* shown than was written or said.                                         *)
THEOREM PipeTypes == Spec => []TypeOK
<1> DEFINE Inv == JInv /\ AllSorted /\ Amounts /\ Opened /\ Flags
<1>1. Init => Inv
  <2> SUFFICES ASSUME Init PROVE Inv
    OBVIOUS
  <2>1. AllSorted
    <3>1. PICK open \in OpenBefore :
            fd = [p \in Processes |->
                   IF p = "parent" THEN [n \in 0 .. 2 \union open |-> "other"]
                   ELSE << >>]
      BY DEF Init
    <3>2. Sorted([n \in 0 .. 2 \union open |-> "other"])
      BY DEF Sorted, Kinds
    <3> QED  BY <3>1, <3>2, EmptySorted DEF AllSorted
  <2>2. Amounts
    BY PipeAssumption DEF Init, Amounts
  <2>3. Opened /\ Flags
    BY DEF Init, Opened, Flags, Processes
  <2> QED  BY <2>1, <2>2, <2>3, InitTalks
<1>2. Inv /\ [Next]_vars => Inv'
  BY NextTalks, SortedKeeps, AmountsKeep, OpenedKeeps, FlagsKeep
<1>3. Inv => TypeOK
  <2> SUFFICES ASSUME Inv PROVE TypeOK
    OBVIOUS
  <2>1. /\ DOMAIN fd = Processes
        /\ pc \in [Processes -> Places]
    BY DEF JInv, IInv, Shaped
  <2>2. \A p \in Processes : \A n \in DOMAIN fd[p] : fd[p][n] \in Kinds
    BY DEF AllSorted, Sorted
  <2>3. /\ written \in 0 .. JobLength /\ data \in 0 .. 1 /\ err \in 0 .. 1
        /\ got \in 0 .. written /\ printed \in -1 .. got
        /\ said \in 0 .. MaxSaid /\ reported \in 0 .. said
    BY PipeAssumption DEF Amounts, JInv, Talk, Counted
  <2> QED
    BY <2>1, <2>2, <2>3 DEF TypeOK, Places, Kinds, Opened, Flags
<1> HIDE DEF Inv
<1> QED  BY <1>1, <1>2, <1>3, PTL DEF Spec
=============================================================================
