---------------------------- MODULE PrinterLink ----------------------------
(***************************************************************************)
(* What the main loops of the dye-sublimation backends share: main_loop    *)
(* asks the printer for its status, decides from the answer what to send,  *)
(* and starts over for the next copy, while the printer goes on working    *)
(* and a SIGTERM may come.  Between reading a status (sts # NotRead) and   *)
(* acting on it the printer moves on.                                      *)
(*                                                                         *)
(* A failing USB transfer ends the loop at any point (LinkFails).          *)
(***************************************************************************)
EXTENDS Integers, Sequences, FiniteSets

CONSTANTS
  Copies,    (* how many copies are asked for                              *)
  MaxTroubles, (* how often a printer fails, refuses or rests in a run     *)
  Hitches    (* pairs of a model and something its printer may do that not *)
             (* every printer does                                         *)

ASSUME CopiesAssumption == Copies \subseteq Nat \ {0}

ASSUME MaxTroublesAssumption == MaxTroubles \in Nat

VARIABLES
  job,       (* the printjob, the printer's model and how it behaves, and  *)
             (* the argument wait_for_return; never changes                *)
  copies,    (* copies still to be sent                                    *)
  state,     (* where main_loop is                                         *)
  sts,       (* the status read last and not yet acted on                  *)
  mem,       (* other locals of main_loop, and its fields of the context   *)
  terminate, (* SIGTERM has come                                           *)
  result,    (* "running", or how main_loop ended                          *)
  dev,       (* the printer                                                *)
  given,     (* copies the printer has been given completely               *)
  late       (* of these, the ones given after SIGTERM                     *)

vars == <<job, copies, state, sts, mem, terminate, result, dev, given, late>>

NotRead == [read |-> FALSE]

Running == result = "running"

Codes == {"ok", "failed", "stop", "hold", "cancel"}

Is(model) == job.model = model

May(what) == <<job.model, what>> \in Hitches

-----------------------------------------------------------------------------
(* Where main_loop goes from here; the rest of its state is as it was.     *)
Goto(s) == state' = s /\ sts' = NotRead /\ UNCHANGED <<copies, result>>

Return(code) ==
  /\ result' = code /\ sts' = NotRead
  /\ UNCHANGED <<copies, state>>

(* Mutant of NextCopy: the counter is tested before it is counted down.    *)
NextCopyLate(left, top) ==
  /\ copies' = left /\ sts' = NotRead
  /\ IF copies = 0 THEN result' = "ok" /\ UNCHANGED state
                   ELSE state' = top /\ UNCHANGED result

(* "if (terminate) copies = 1; if (copies && --copies) goto top".          *)
NextCopy(left, top) ==
  /\ copies' = left /\ sts' = NotRead
  /\ IF left = 0 THEN result' = "ok" /\ UNCHANGED state
                 ELSE state' = top /\ UNCHANGED result

(* Mutant of CopiesLeft: the signal is not looked at.                      *)
CopiesLeftUnseen == copies - 1

CopiesLeft == IF terminate THEN 0 ELSE copies - 1

(* The printer has all of n more copies.                                   *)
Give(n) ==
  /\ given' = given + n
  /\ late' = IF terminate THEN late + n ELSE late

GiveNone == UNCHANGED <<given, late>>

(* A status is read: the printer's own state is as it was, unless the      *)
(* reading is one that it only keeps for the next reader.                  *)
Read(status) ==
  /\ Running /\ sts = NotRead
  /\ sts' = status
  /\ UNCHANGED <<job, copies, state, mem, terminate, result, given, late>>

(* A step of the printer alone; what it does once main_loop has ended is   *)
(* of no interest here.                                                    *)
Printer(new) ==
  /\ Running
  /\ dev' = new
  /\ UNCHANGED <<job, copies, state, sts, mem, terminate, result, given, late>>

(* sigterm_handler.                                                        *)
SigTerm ==
  /\ Running /\ ~terminate
  /\ terminate' = TRUE
  /\ UNCHANGED <<job, copies, state, sts, mem, result, dev, given, late>>

(* send_data or read_data fails: "return CUPS_BACKEND_FAILED".  dnpds40     *)
(* takes a missing answer for a status like others while it waits.         *)
LinkFails ==
  /\ Running
  /\ ~(Is("dnpds40") /\ state = <<"wait">>)
  /\ Return("failed") /\ GiveNone
  /\ UNCHANGED <<job, mem, terminate, dev>>
=============================================================================
