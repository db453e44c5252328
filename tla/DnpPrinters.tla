---------------------------- MODULE DnpPrinters ----------------------------
(***************************************************************************)
(* The backend dnpds40.  A page is sent when the printer has as many free  *)
(* buffers as it needs: both when the overcoat changes.  The printer makes *)
(* the copies, unless the cutter is set in a way that it would forget.  No *)
(* answer at all is a status like others, a "fault".                       *)
(***************************************************************************)
EXTENDS PrinterLink

Buffers == 2

(* part: "page", the layer "matte1" of a partial matte overcoat and the    *)
(* page "matte2" that it belongs to, or a panel of a panorama but for the  *)
(* last one, which is a "page" (pano # 0); but for pages of their own, the *)
(* copies asked for are one.  manual: the cutter code is 120; fits: there  *)
(* is paper for a panorama.                                                *)
DnpJobs ==
  {j \in [model : {"dnpds40"}, copies : Copies, wait : BOOLEAN,
          batch : Copies \union {1}, manual : BOOLEAN, rewind : BOOLEAN,
          matte : BOOLEAN, fits : BOOLEAN,
          part : {"page", "matte1", "matte2", "panel"}] :
     /\ j.batch = IF j.manual THEN 1 ELSE j.copies
     /\ j.part # "page" => j.copies = 1 /\ ~j.manual
     /\ j.rewind => j.part = "page"
     /\ ~j.fits => j.part \in {"page", "panel"}
     /\ j.rewind /\ j.manual /\ j.copies > 1 =>
          <<"dnpds40", "rewind copies">> \in Hitches}

(* mem: buf_needed, how often multicut was changed to rewind, started, the *)
(* status that ended the waiting, and of the context last_matte, pano and  *)
(* partialmatte.                                                           *)
DnpInit ==
  /\ job \in DnpJobs
  /\ state = <<"top">>
  /\ \E last_matte \in BOOLEAN, printing, bufs \in 0 .. 1,
        pano \in IF job.part = "panel" THEN 0 .. 2 ELSE {0, 2} :
       /\ pano # 0 => printing = 0 /\ job.part \in {"page", "panel"}
                      /\ job.copies = 1 /\ ~job.rewind
       /\ job.part = "matte2" => job.matte = last_matte
       /\ ~job.fits => job.part = "panel" \/ pano # 0
       /\ mem = [buf_needed |->
                   IF job.part = "matte1" THEN 2
                   ELSE IF job.part = "matte2" THEN 1
                   ELSE IF job.matte # last_matte THEN 2 ELSE 1 + bufs,
                 needed |-> 1 + bufs,
                 rewinds |-> 0, started |-> FALSE, status |-> "idle",
                 pano |-> pano, partial |-> job.part]
       /\ dev = [queue |-> [n \in 1 .. printing |-> "other"],
                 matte |-> last_matte, cool |-> FALSE, troubles |-> 0,
                 asleep |-> FALSE, err |-> "none", stray |-> FALSE,
                 printed |-> 0]

DnpQuery ==
  /\ Is("dnpds40")
  /\ \E err \in {dev.err, "fault"} :
       Read([err |-> err, cool |-> dev.cool, asleep |-> dev.asleep,
             pages |-> Len(dev.queue)])
  /\ UNCHANGED dev

Status ==
  IF sts.err # "none" THEN sts.err
  ELSE IF sts.cool THEN "cooling"
  ELSE IF sts.asleep THEN "standby"
  ELSE IF sts.pages > 0 THEN "printing" ELSE "idle"

Rewinding == [mem EXCEPT !.rewinds = IF job.rewind THEN @ + 1 ELSE @]

(* The page and its parameters: a printer without room for it, or one that *)
(* does not know the cutter code, has not been told what to do.            *)
SendSheet(m) ==
  LET pano == IF job.part = "panel" THEN m.pano + 1 ELSE 0 IN
  /\ mem' = [m EXCEPT !.pano = pano, !.started = FALSE,
               !.partial = IF @ = "matte2" THEN "page" ELSE @]
  /\ dev' = [dev EXCEPT
       !.queue = Append(@, "mine"), !.matte = job.matte, !.asleep = FALSE,
       !.stray = @ \/ (Len(dev.queue) >= Buffers)
                   \/ (job.matte # dev.matte /\ dev.queue # << >>)
                   \/ (m.rewinds > 1)]
  /\ Give(job.batch)
  /\ IF ~job.wait /\ ~job.manual THEN Goto(<<"done">>)
     ELSE Goto(IF pano = 0 /\ mem'.partial # "matte1"
               THEN <<"wait">> ELSE <<"done">>)

DnpStays(s) == Goto(s) /\ GiveNone /\ UNCHANGED dev

DnpFails(code) == Return(code) /\ GiveNone /\ UNCHANGED <<mem, dev>>

(* Enough buffers: the cutter code is changed if the printer can rewind,   *)
(* and the first panel of a panorama waits until the printer is ready.     *)
Proceed ==
  IF mem.pano # 0 /\ ~job.fits THEN DnpFails("cancel")
  ELSE IF job.part = "panel" /\ mem.pano = 0
  THEN DnpStays(<<"panorama">>) /\ mem' = Rewinding
  ELSE SendSheet(Rewinding)

DnpTop ==
  /\ state = <<"top">>
  /\ CASE Status = "fault" -> DnpFails("stop")
       [] Status = "data"  -> DnpFails("cancel")
       [] Status = "cooling" -> DnpStays(state) /\ UNCHANGED mem
       [] Status = "standby" -> Proceed
       [] OTHER -> DnpStays(<<"buffers">>) /\ UNCHANGED mem

(* Mutant of DnpBuffers: any free buffer will do.                          *)
DnpBuffersAny ==
  /\ state = <<"buffers">>
  /\ IF Buffers - sts.pages < 1
     THEN DnpStays(<<"top">>) /\ UNCHANGED mem
     ELSE Proceed

DnpBuffers ==
  /\ state = <<"buffers">>
  /\ IF Buffers - sts.pages < mem.buf_needed
     THEN DnpStays(<<"top">>) /\ UNCHANGED mem
     ELSE Proceed

DnpPanorama ==
  /\ state = <<"panorama">>
  /\ IF sts.pages > 0 THEN DnpStays(<<"top">>) /\ UNCHANGED mem
     ELSE SendSheet(mem)

(* The end of the print is not seen unless its beginning was; an error is  *)
(* left to the next job.                                                   *)
DnpWait ==
  LET ended == Status \in {"fault", "data"} \/ (Status = "idle" /\ mem.started)
  IN
  /\ state = <<"wait">>
  /\ mem' = [mem EXCEPT !.started = @ \/ Status # "idle",
                        !.status = IF ended THEN Status ELSE @]
  /\ DnpStays(IF ended THEN <<"done">> ELSE state)

DnpNext ==
  /\ state = <<"done">>
  /\ IF job.manual THEN NextCopy(CopiesLeft, <<"top">>) ELSE Return("ok")
  /\ mem' = [mem EXCEPT !.buf_needed = mem.needed]
  /\ GiveNone /\ UNCHANGED dev

DnpAct ==
  /\ Is("dnpds40")
  /\ Running
  /\ UNCHANGED <<job, terminate>>
  /\ \/ sts # NotRead /\ (DnpTop \/ DnpBuffers \/ DnpPanorama \/ DnpWait)
     \/ DnpNext

(* A page is printed: not before its host has seen the printer print,      *)
(* unless the printer is that quick.                                       *)
DnpWorks ==
  /\ Is("dnpds40")
  /\ \/ /\ dev.queue # << >> /\ dev.err = "none" /\ ~dev.cool
        /\ \/ state # <<"wait">> \/ mem.started \/ Len(dev.queue) > 1
           \/ May("print briefly")
        /\ Printer([dev EXCEPT !.queue = Tail(@),
             !.printed = IF Head(dev.queue) = "mine" THEN @ + job.batch ELSE @])
     \/ dev.cool /\ Printer([dev EXCEPT !.cool = FALSE])

DnpBreaks ==
  /\ Is("dnpds40")
  /\ dev.troubles < MaxTroubles
  /\ \/ /\ dev.err = "none"
        /\ \E e \in {"fault", "data"} :
             Printer([dev EXCEPT !.err = e, !.troubles = @ + 1])
     \/ ~dev.cool /\ Printer([dev EXCEPT !.cool = TRUE, !.troubles = @ + 1])
     \/ /\ dev.queue = << >> /\ ~dev.asleep
        /\ state # <<"wait">> \/ May("sleep at once")
        /\ Printer([dev EXCEPT !.asleep = TRUE, !.troubles = @ + 1])
=============================================================================
