--------------------------- MODULE PlanePrinters ---------------------------
(***************************************************************************)
(* Backends that hand the printer one colour plane after the other:        *)
(*   canonselphy  each plane when the printer asks for it                  *)
(*   kodak1400    each plane when the printer is idle again                *)
(*   hiti         each plane until the printer no longer wants it resent   *)
(* For the first two a state is the number of an item of the page and      *)
(* whether main_loop waits before sending it.                              *)
(***************************************************************************)
EXTENDS PrinterLink

PlaneJobs ==
  [model : {"canonselphy"}, copies : Copies, wait : {TRUE},
   batch : {1}, bw : BOOLEAN, cp900 : BOOLEAN, foot : BOOLEAN,
   media : {"fits", "wrong", "none"}]
  \union
  [model : {"kodak1400"}, copies : Copies, wait : {TRUE},
   batch : {1}, laminate : BOOLEAN]

Canon == Is("canonselphy")

(* What is sent for a page, in order; a monochrome page has one plane, and *)
(* no footer of the CP900.                                                 *)
Items ==
  IF Canon
  THEN IF job.bw THEN <<"init", "y", "end">>
       ELSE <<"init", "y", "m", "c">> \o
            (IF job.cp900 THEN <<"cp900", "end">> ELSE <<"end">>)
  ELSE <<"setup", "y", "m", "c">> \o
       (IF job.laminate THEN <<"laminate", "end">> ELSE <<"end">>)

Waits(k) == IF Canon THEN ~(job.cp900 /\ Items[k] = "end") \/ job.bw
                     ELSE k > 2

Before(k) == <<IF Waits(k) THEN "await" ELSE "send", k>>

(* The number of the last item the printer prints.                         *)
LastPlane == Len(Items) - (IF Canon /\ job.cp900 /\ ~job.bw THEN 2 ELSE 1)

PlaneInit ==
  /\ job \in PlaneJobs
  /\ state = IF Canon THEN <<"clear">> ELSE Before(1)
  /\ mem = <<>>
  /\ dev \in [at : {1} \union
                (IF Canon /\ ~job.foot /\ ~job.cp900 THEN {Len(Items)} ELSE {}),
              busy : {FALSE}, err : {FALSE}, stray : {FALSE}, printed : {0}]

(* The status of a page that is done is kept until it has been read.       *)
PlaneQuery ==
  /\ job.model \in {"canonselphy", "kodak1400"}
  /\ Read([err |-> dev.err, busy |-> dev.busy, at |-> dev.at])
  /\ dev' = IF Canon /\ ~dev.busy /\ dev.at = Len(Items) /\ ~job.foot
            THEN [dev EXCEPT !.at = 1] ELSE dev

Asked(k) == ~sts.busy /\ (Canon => sts.at = k)

SendItem(k) ==
  dev' = IF Items[k] = "end" /\ Canon /\ ~job.foot THEN dev
         ELSE [dev EXCEPT !.busy = Items[k] \notin {"setup", "cp900", "end"},
                          !.at = (k % Len(Items)) + 1,
                          !.stray = @ \/ dev.busy \/ (dev.at # k)]

PlaneSend ==
  LET k == state[2] IN
  /\ state[1] = "send"
  /\ SendItem(k)
  /\ IF Items[k] = "end"
     THEN NextCopy(CopiesLeft, Before(1)) /\ Give(1)
     ELSE Goto(Before(k + 1)) /\ GiveNone

PlaneAwait ==
  LET k == state[2] IN
  /\ state[1] = "await"
  /\ IF ~Asked(k) THEN Goto(state)
     ELSE IF k = 1 /\ job.media = "none" THEN Return("stop")
     ELSE IF k = 1 /\ job.media = "wrong" THEN Return("hold")
     ELSE Goto(<<"send", k>>)
  /\ GiveNone /\ UNCHANGED dev

PlaneAct ==
  /\ job.model \in {"canonselphy", "kodak1400"}
  /\ Running /\ sts # NotRead
  /\ UNCHANGED <<job, mem, terminate>>
  /\ IF state = <<"clear">> THEN Goto(Before(1)) /\ GiveNone /\ UNCHANGED dev
     ELSE IF sts.err THEN Return("stop") /\ GiveNone /\ UNCHANGED dev
     ELSE PlaneSend \/ PlaneAwait

PlaneWorks ==
  /\ job.model \in {"canonselphy", "kodak1400"}
  /\ dev.busy
  /\ Printer([dev EXCEPT !.busy = FALSE,
                !.printed = IF dev.at = LastPlane + 1 THEN @ + 1 ELSE @])

PlaneBreaks ==
  /\ job.model \in {"canonselphy", "kodak1400"}
  /\ ~dev.err /\ Printer([dev EXCEPT !.err = TRUE])

-----------------------------------------------------------------------------
(* hiti.  The printer makes the copies; terminate is not looked at.  Its   *)
(* queue holds the jobs it has not printed, another one's before ours.     *)
HitiPlanes == <<"y", "m", "c">>

HitiJobs == [model : {"hiti"}, copies : Copies, wait : BOOLEAN,
             batch : Copies]

HitiInit ==
  /\ job \in {j \in HitiJobs : j.batch = j.copies}
  /\ state = <<"idle">>
  /\ mem = <<>>
  /\ dev \in [next : {1}, resend : {FALSE}, resent : {0}, err : {FALSE},
              queue : {<< >>, <<"other">>}, abnormal : {FALSE},
              stray : {FALSE}, printed : {0}]

MaxResends == 1

HitiQuery ==
  /\ Is("hiti")
  /\ Read([err |-> dev.err, busy |-> dev.queue # << >>, resend |-> dev.resend,
           queue |-> dev.queue, abnormal |-> dev.abnormal])
  /\ UNCHANGED dev

(* A plane, of which the printer may want to have it again.                *)
SendPlane(n) ==
  \E again \in IF dev.resent < MaxResends THEN BOOLEAN ELSE {FALSE} :
    dev' = [dev EXCEPT
      !.next = IF again THEN n ELSE n + 1, !.resend = again,
      !.resent = IF again THEN @ + 1 ELSE @,
      !.stray = @ \/ dev.next # n]

HitiIdle ==
  /\ state = <<"idle">>
  /\ IF sts.err THEN Return("stop") /\ UNCHANGED dev
     ELSE IF sts.busy THEN Goto(state) /\ UNCHANGED dev
     ELSE Goto(<<"sent", 1>>) /\ SendPlane(1)
  /\ GiveNone

HitiSent ==
  /\ state[1] = "sent"
  /\ IF sts.err THEN Return("failed") /\ GiveNone /\ UNCHANGED dev
     ELSE IF sts.resend THEN Goto(state) /\ GiveNone /\ SendPlane(state[2])
     ELSE IF state[2] < Len(HitiPlanes)
     THEN Goto(<<"sent", state[2] + 1>>) /\ GiveNone /\ SendPlane(state[2] + 1)
     ELSE /\ Goto(<<"wait">>) /\ Give(job.copies)
          /\ dev' = [dev EXCEPT !.queue = Append(@, "ours"),
                                !.stray = @ \/ dev.next # 4]

HitiWait ==
  /\ state = <<"wait">>
  /\ IF sts.err THEN Return("failed")
     ELSE IF ~job.wait THEN Return("ok")
     ELSE Goto(<<"asked">>)
  /\ GiveNone /\ UNCHANGED dev

HitiAsked ==
  /\ state = <<"asked">>
  /\ IF sts.queue = << >> THEN Return("ok")
     ELSE IF sts.abnormal THEN Return("failed")
     ELSE Goto(<<"wait">>)
  /\ GiveNone /\ UNCHANGED dev

HitiAct ==
  /\ Is("hiti")
  /\ Running /\ sts # NotRead
  /\ UNCHANGED <<job, mem, terminate>>
  /\ HitiIdle \/ HitiSent \/ HitiWait \/ HitiAsked

HitiWorks ==
  /\ Is("hiti")
  /\ dev.queue # << >>
  /\ Printer([dev EXCEPT !.queue = Tail(@),
       !.printed = IF Head(dev.queue) = "ours" THEN @ + job.copies ELSE @])

HitiBreaks ==
  /\ Is("hiti")
  /\ \/ ~dev.err /\ Printer([dev EXCEPT !.err = TRUE])
     \/ dev.queue = <<"ours">> /\ ~dev.abnormal
        /\ Printer([dev EXCEPT !.abnormal = TRUE])
=============================================================================
