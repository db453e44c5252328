----------------------------- MODULE PrintPipe -----------------------------
(***************************************************************************)
(* stpui_print of src/gutenprintui2/plist.c, when it prints to a command:  *)
(* the dialog (parent) writes the job into the pipe that is the input of   *)
(* the print command; the lpr monitor kills the command if the parent dies *)
(* ("The GIMP kills plugins with SIGKILL"); the error monitor reads what   *)
(* the command says on its output and tells the parent when it is over.    *)
(*                                                                         *)
(* Each process has a table of file descriptors, which fork copies; pipe   *)
(* takes the lowest free numbers, so numbers of closed descriptors are     *)
(* used again.                                                             *)
(***************************************************************************)
EXTENDS Integers, FiniteSets, FiniteSetsExt

CONSTANTS
  JobLength,   (* what the driver writes, in units of what a pipe holds    *)
  MaxSaid,     (* bound on what the command says                           *)
  OpenBefore   (* sets of descriptors that the parent may have open        *)

ASSUME PipeAssumption ==
  /\ JobLength \in Nat \ {0}
  /\ MaxSaid \in Nat
  /\ \A open \in OpenBefore : IsFiniteSet(open) /\ open \subseteq Nat \ 0 .. 2

Processes == {"parent", "monitor", "command", "lpr", "errors"}

VARIABLES
  shell,     (* does the shell run the command as a child of its own?      *)
  fd,        (* fd[p][n], what the n-th descriptor of process p is         *)
  pipefd, syncfd, errfd,  (* the two numbers of each pipe                  *)
  pc,
  written, data,          (* of the job: written so far, in the pipe       *)
  got, printed,           (* ... read by lpr, printed at the end of input  *)
  said, err, reported,    (* errors: said by lpr, in the pipe, shown       *)
  sync,      (* is "Done" in the pipe                                      *)
  usr1       (* usr1_interrupt of the monitor                              *)

job    == <<written, data, got, printed>>
errors == <<said, err, reported, sync>>
fds    == <<fd, pipefd, syncfd, errfd>>
vars   == <<shell, fds, pc, job, errors, usr1>>

Unset == <<-1, -1>>

(* Who reads the job: the shell of execl, which becomes the print command, *)
(* or a child that it forks for the command.                               *)
Lpr == IF shell THEN "lpr" ELSE "command"

-----------------------------------------------------------------------------
(* Tables of descriptors.                                                  *)
Closed(table, numbers)   == [n \in DOMAIN table \ numbers |-> table[n]]
Dup2(table, from, to)    ==
  [n \in DOMAIN table \union {to} |-> table[IF n = to THEN from ELSE n]]

(* The numbers that pipe would take, and the table with the pipe in it.    *)
PipeNumbers(table) ==
  LET lowest(used) == Min(0 .. Cardinality(used) \ used)
      r == lowest(DOMAIN table)
  IN  <<r, lowest(DOMAIN table \union {r})>>
Piped(table, ends) ==
  LET new == PipeNumbers(table)
  IN  [n \in DOMAIN table \union {new[1], new[2]} |->
        IF n = new[1] THEN ends[1]
        ELSE IF n = new[2] THEN ends[2] ELSE table[n]]

Held(what) == \E p \in Processes : \E n \in DOMAIN fd[p] : fd[p][n] = what

Data == <<"data in", "data out">>
Sync == <<"sync in", "sync out">>
Err  == <<"err in", "err out">>

Goes(p, where) == pc' = [pc EXCEPT ![p] = where]
Exits(p)       == Goes(p, "exited") /\ fd' = [fd EXCEPT ![p] = << >>]

Init ==
  /\ shell \in BOOLEAN
  /\ \E open \in OpenBefore :
       fd = [p \in Processes |->
              IF p = "parent" THEN [n \in 0 .. 2 \union open |-> "other"]
              ELSE << >>]
  /\ pipefd = Unset /\ syncfd = Unset /\ errfd = Unset
  /\ pc = [p \in Processes |-> IF p = "parent" THEN "start" ELSE "none"]
  /\ written = 0 /\ data = 0 /\ got = 0 /\ printed = -1
  /\ said = 0 /\ err = 0 /\ reported = 0 /\ sync = FALSE
  /\ usr1 = FALSE

-----------------------------------------------------------------------------
(* The parent.  If it cannot fork it returns at once.                      *)
ParentForks(ok) ==
  LET s == PipeNumbers(fd["parent"])
      t == Piped(fd["parent"], Sync)
      u == Piped(t, Data)
  IN  /\ pc["parent"] = "start"
      /\ syncfd' = s
      /\ pipefd' = PipeNumbers(t)
      /\ fd' = [fd EXCEPT !["parent"] = u, !["monitor"] = IF ok THEN u ELSE @]
      /\ pc' = [pc EXCEPT !["parent"] = IF ok THEN "close" ELSE "returned",
                          !["monitor"] = IF ok THEN "start" ELSE @]
      /\ UNCHANGED <<shell, errfd, job, errors, usr1>>

(* Mutant of ParentCloses: the end of syncfd that is written to stays open.*)
ParentKeepsSync ==
  /\ pc["parent"] = "close"
  /\ Goes("parent", "print")
  /\ fd' = [fd EXCEPT !["parent"] = Closed(@, {pipefd[1]})]
  /\ UNCHANGED <<shell, pipefd, syncfd, errfd, job, errors, usr1>>

(* The ends of the pipes that are the others'.                             *)
ParentCloses ==
  /\ pc["parent"] = "close"
  /\ Goes("parent", "print")
  /\ fd' = [fd EXCEPT !["parent"] = Closed(@, {syncfd[2], pipefd[1]})]
  /\ UNCHANGED <<shell, pipefd, syncfd, errfd, job, errors, usr1>>

(* A pipe holds one unit of the job.  Without a reader the parent dies of  *)
(* SIGPIPE or, if the program it is a part of ignores that, writes on.     *)
ParentWrites ==
  /\ pc["parent"] = "print"
  /\ written < JobLength
  /\ IF Held("data in")
     THEN /\ data = 0
          /\ written' = written + 1 /\ data' = 1
          /\ UNCHANGED <<pc, fd>>
     ELSE /\ \/ Exits("parent") /\ UNCHANGED written
             \/ written' = written + 1 /\ UNCHANGED <<pc, fd>>
          /\ UNCHANGED data
  /\ UNCHANGED <<shell, pipefd, syncfd, errfd, got, printed, errors, usr1>>

(* fclose(prn), then SIGUSR1 for the monitor.                              *)
ParentEndsJob ==
  /\ pc["parent"] = "print"
  /\ written = JobLength
  /\ Goes("parent", "signal")
  /\ fd' = [fd EXCEPT !["parent"] = Closed(@, {pipefd[2]})]
  /\ UNCHANGED <<shell, pipefd, syncfd, errfd, job, errors, usr1>>

ParentSignals ==
  /\ pc["parent"] = "signal"
  /\ Goes("parent", "wait")
  /\ usr1' = TRUE
  /\ UNCHANGED <<shell, fds, job, errors>>

ParentWaits ==
  /\ pc["parent"] = "wait"
  /\ pc["monitor"] = "exited"
  /\ Goes("parent", "sync")
  /\ UNCHANGED <<shell, fds, job, errors, usr1>>

(* read(syncfd[0]) gets "Done", or the end of input if no one can write it.*)
ParentReturns ==
  /\ pc["parent"] = "sync"
  /\ sync \/ ~Held("sync out")
  /\ sync' = FALSE
  /\ Goes("parent", "returned")
  /\ fd' = [fd EXCEPT !["parent"] = Closed(@, {syncfd[1]})]
  /\ UNCHANGED <<shell, pipefd, syncfd, errfd, job, said, err, reported, usr1>>

(* SIGKILL, whenever the user cancels.                                     *)
ParentKilled ==
  /\ pc["parent"] \notin {"start", "returned", "exited"}
  /\ Exits("parent")
  /\ UNCHANGED <<shell, pipefd, syncfd, errfd, job, errors, usr1>>

-----------------------------------------------------------------------------
(* The lpr monitor.                                                        *)
MonitorForks(ok) ==
  LET mine == Closed(fd["monitor"], {syncfd[1]})
  IN  /\ pc["monitor"] = "start"
      /\ IF ok
         THEN /\ pc' = [pc EXCEPT !["monitor"] = "close",
                                  !["command"] = "start"]
              /\ fd' = [fd EXCEPT !["monitor"] = mine, !["command"] = mine]
         ELSE Exits("monitor")
      /\ UNCHANGED <<shell, pipefd, syncfd, errfd, job, errors, usr1>>

(* Mutant of MonitorCloses: the pipe to the command as well.               *)
MonitorClosesPipe ==
  /\ pc["monitor"] = "close"
  /\ Goes("monitor", "watch")
  /\ fd' = [fd EXCEPT !["monitor"] =
             Closed(@, 0 .. 2 \union {syncfd[2], pipefd[1], pipefd[2]})]
  /\ UNCHANGED <<shell, pipefd, syncfd, errfd, job, errors, usr1>>

(* It keeps the pipe to the command open: "If we don't, and the parent     *)
(* gets killed, lpr will notice its stdin getting closed off and start     *)
(* printing."                                                              *)
MonitorCloses ==
  /\ pc["monitor"] = "close"
  /\ Goes("monitor", "watch")
  /\ fd' = [fd EXCEPT !["monitor"] =
             Closed(@, 0 .. 2 \union {syncfd[2], pipefd[1]})]
  /\ UNCHANGED <<shell, pipefd, syncfd, errfd, job, errors, usr1>>

MonitorSignalled ==
  /\ pc["monitor"] = "watch"
  /\ usr1
  /\ Exits("monitor")
  /\ UNCHANGED <<shell, pipefd, syncfd, errfd, job, errors, usr1>>

(* The parent is gone: SIGTERM for the command, then a wait for its end.   *)
MonitorKills ==
  /\ pc["monitor"] = "watch"
  /\ ~usr1
  /\ pc["parent"] = "exited"
  /\ pc' = [pc EXCEPT !["monitor"] = "wait", !["command"] = "exited"]
  /\ fd' = [fd EXCEPT !["command"] = << >>]
  /\ UNCHANGED <<shell, pipefd, syncfd, errfd, job, errors, usr1>>

MonitorReaps ==
  /\ pc["monitor"] = "wait"
  /\ pc["command"] = "exited"
  /\ Exits("monitor")
  /\ UNCHANGED <<shell, pipefd, syncfd, errfd, job, errors, usr1>>

-----------------------------------------------------------------------------
(* The print command, up to its exec: first the job becomes its input.     *)
Rewired(table) ==
  Closed(Dup2(table, pipefd[1], 0), {pipefd[1], pipefd[2]})

(* Mutant of CommandForks: a failure is not noticed.                       *)
CommandForksAnyway(ok) ==
  LET before == Rewired(fd["command"])
      table  == Piped(before, Err)
  IN  /\ pc["command"] = "start"
      /\ IF ok
         THEN /\ errfd' = PipeNumbers(before)
              /\ pc' = [pc EXCEPT !["command"] = "redirect",
                                  !["errors"] = "start"]
              /\ fd' = [fd EXCEPT !["command"] = table, !["errors"] = table]
         ELSE Goes("command", "redirect") /\ UNCHANGED <<fd, errfd>>
      /\ UNCHANGED <<shell, pipefd, syncfd, job, errors, usr1>>

(* pipe and fork; if either fails the command exits.                       *)
CommandForks(ok) ==
  LET before == Rewired(fd["command"])
      table  == Piped(before, Err)
  IN  /\ pc["command"] = "start"
      /\ IF ok
         THEN /\ errfd' = PipeNumbers(before)
              /\ pc' = [pc EXCEPT !["command"] = "redirect",
                                  !["errors"] = "start"]
              /\ fd' = [fd EXCEPT !["command"] = table, !["errors"] = table]
         ELSE Exits("command") /\ UNCHANGED errfd
      /\ UNCHANGED <<shell, pipefd, syncfd, job, errors, usr1>>

(* Mutant of Redirected: the order of the calls.                           *)
RedirectedLate(table) ==
  LET closed == Closed(table, {1, 2, pipefd[1], pipefd[2], syncfd[2]})
  IN  IF errfd[2] \in DOMAIN closed
      THEN Closed(Dup2(Dup2(closed, errfd[2], 2), errfd[2], 1), {errfd[2]})
      ELSE closed

(* The error pipe is the command's output.                                 *)
Redirected(table) ==
  Closed(Dup2(Dup2(Closed(table, {1, 2}), errfd[2], 2), errfd[2], 1),
         {errfd[2], pipefd[1], pipefd[2], syncfd[2]})

CommandExecs ==
  LET table == Redirected(fd["command"])
  IN  /\ pc["command"] = "redirect"
      /\ IF shell
         THEN /\ pc' = [pc EXCEPT !["command"] = "shell", !["lpr"] = "run"]
              /\ fd' = [fd EXCEPT !["command"] = table, !["lpr"] = table]
         ELSE /\ Goes("command", "run")
              /\ fd' = [fd EXCEPT !["command"] = table]
      /\ UNCHANGED <<shell, pipefd, syncfd, errfd, job, errors, usr1>>

ShellWaits ==
  /\ pc["command"] = "shell"
  /\ pc["lpr"] = "exited"
  /\ Exits("command")
  /\ UNCHANGED <<shell, pipefd, syncfd, errfd, job, errors, usr1>>

(* What runs then: it reads its input, may say something, prints what it   *)
(* has got when the input ends, or fails before.                           *)
LprReads ==
  /\ pc[Lpr] = "run"
  /\ data = 1
  /\ data' = 0 /\ got' = got + 1
  /\ UNCHANGED <<shell, fds, pc, written, printed, errors, usr1>>

LprSays ==
  /\ pc[Lpr] = "run"
  /\ said < MaxSaid
  /\ err = 0
  /\ said' = said + 1 /\ err' = 1
  /\ UNCHANGED <<shell, fds, pc, job, reported, sync, usr1>>

LprPrints ==
  /\ pc[Lpr] = "run"
  /\ data = 0 /\ ~Held("data out")
  /\ printed' = got
  /\ Exits(Lpr)
  /\ UNCHANGED <<shell, pipefd, syncfd, errfd, written, data, got, errors,
                 usr1>>

LprFails ==
  /\ pc[Lpr] = "run"
  /\ Exits(Lpr)
  /\ UNCHANGED <<shell, pipefd, syncfd, errfd, job, errors, usr1>>

-----------------------------------------------------------------------------
(* Mutant of ErrorsClose: all its pipes but the one it reads.              *)
ErrorsCloseSync ==
  /\ pc["errors"] = "start"
  /\ Goes("errors", "read")
  /\ fd' = [fd EXCEPT !["errors"] =
             Closed(@, 0 .. 2 \union
                       {pipefd[1], pipefd[2], errfd[2], syncfd[2]})]
  /\ UNCHANGED <<shell, pipefd, syncfd, errfd, job, errors, usr1>>

(* The error monitor.                                                      *)
ErrorsClose ==
  /\ pc["errors"] = "start"
  /\ Goes("errors", "read")
  /\ fd' = [fd EXCEPT !["errors"] =
             Closed(@, 0 .. 2 \union {pipefd[1], pipefd[2], errfd[2]})]
  /\ UNCHANGED <<shell, pipefd, syncfd, errfd, job, errors, usr1>>

ErrorsRead ==
  /\ pc["errors"] = "read"
  /\ err = 1
  /\ err' = 0 /\ reported' = reported + 1
  /\ UNCHANGED <<shell, fds, pc, job, said, sync, usr1>>

(* The end of what the command says.                                       *)
ErrorsEnd ==
  /\ pc["errors"] = "read"
  /\ err = 0 /\ ~Held("err out")
  /\ sync' = Held("sync in")
  /\ Exits("errors")
  /\ UNCHANGED <<shell, pipefd, syncfd, errfd, job, said, err, reported, usr1>>

-----------------------------------------------------------------------------
Over == \A p \in Processes : pc[p] \in {"none", "returned", "exited"}
Done == Over /\ UNCHANGED vars

Parent ==
  \/ (\E ok \in BOOLEAN : ParentForks(ok))
  \/ ParentCloses \/ ParentWrites \/ ParentEndsJob \/ ParentSignals
  \/ ParentWaits \/ ParentReturns
Monitor ==
  \/ (\E ok \in BOOLEAN : MonitorForks(ok))
  \/ MonitorCloses \/ MonitorSignalled \/ MonitorKills \/ MonitorReaps
Command ==
  \/ (\E ok \in BOOLEAN : CommandForks(ok))
  \/ CommandExecs \/ ShellWaits
TheLpr == LprReads \/ LprSays \/ LprPrints \/ LprFails
Errors == ErrorsClose \/ ErrorsRead \/ ErrorsEnd

Next == Parent \/ ParentKilled \/ Monitor \/ Command \/ TheLpr \/ Errors \/ Done

Spec == Init /\ [][Next]_vars

(* Each process runs on; whether the parent is killed is up to the user.   *)
FairSpec ==
  /\ Spec
  /\ WF_vars(Parent) /\ WF_vars(Monitor) /\ WF_vars(Command)
  /\ WF_vars(TheLpr) /\ WF_vars(Errors)
-----------------------------------------------------------------------------
(* Type correctness.                                                       *)
TypeOK ==
  /\ shell \in BOOLEAN
  /\ DOMAIN fd = Processes
  /\ \A p \in Processes : \A n \in DOMAIN fd[p] :
       fd[p][n] \in {"other", "data in", "data out", "sync in", "sync out",
                     "err in", "err out"}
  /\ pc \in [Processes ->
               {"none", "start", "close", "print", "signal", "wait", "sync",
                "returned", "watch", "redirect", "shell", "run", "read",
                "exited"}]
  /\ written \in 0 .. JobLength
  /\ data \in 0 .. 1 /\ err \in 0 .. 1
  /\ got \in 0 .. written /\ printed \in -1 .. got
  /\ said \in 0 .. MaxSaid /\ reported \in 0 .. said
  /\ sync \in BOOLEAN /\ usr1 \in BOOLEAN
  /\ pc["command"] \in {"redirect", "shell", "run"} => errfd # Unset

(* "lpr doesn't know that its parent has died inappropriately, and happily *)
(* proceeds to print the partial job": whoever dies and whenever, the print*)
(* command sees the end of its input only behind a whole job.              *)
NoPartialJob == printed # -1 => printed = JobLength

(* The same where the monitor's signal reaches the command itself.         *)
NoPartialJobUnlessShell == ~shell => NoPartialJob

(* "Make sure that any errors have been reported back to the user prior to *)
(* completion": when stpui_print returns, all that the command said has    *)
(* been shown.                                                             *)
ErrorsSeen == pc["parent"] = "returned" => reported = said

(* The numbers still stand for what they were opened for when they are     *)
(* used, although closed numbers are taken again by later pipes.           *)
Is(p, n, what) == n \in DOMAIN fd[p] /\ fd[p][n] = what
RightDescriptors ==
  /\ pc["parent"] = "print" => Is("parent", pipefd[2], "data out")
  /\ pc["parent"] = "sync" => Is("parent", syncfd[1], "sync in")
  /\ pc["monitor"] = "watch" => Is("monitor", pipefd[2], "data out")
  /\ pc[Lpr] = "run" => /\ Is(Lpr, 0, "data in")
                        /\ Is(Lpr, 1, "err out") /\ Is(Lpr, 2, "err out")
  /\ pc["errors"] = "read" => /\ Is("errors", errfd[1], "err in")
                              /\ Is("errors", syncfd[2], "sync out")

(* Nobody waits for ever: stpui_print returns unless it is killed, and no  *)
(* process is left behind.                                                 *)
AllEnd == <>Over
=============================================================================
