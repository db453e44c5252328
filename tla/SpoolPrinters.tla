--------------------------- MODULE SpoolPrinters ---------------------------
(***************************************************************************)
(* Backends that wait until the printer is idle and send it a whole page:  *)
(* selphyneo, kodak8800, magicard, sonyupd, updneo, mitsup95d, mitsu9550,  *)
(* mitsud90.  kodak8800, mitsup95d and mitsu9550 leave the copies to the   *)
(* printer; magicard asks it nothing at all.  mitsup95d and mitsu9550 ask  *)
(* once more between the image and the end of the page.                    *)
(***************************************************************************)
EXTENDS PrinterLink

PrinterCopies == {"kodak8800", "mitsup95d", "mitsu9550"}

SpoolModels == PrinterCopies \union
  {"selphyneo", "magicard", "sonyupd", "updneo", "mitsud90"}

(* Does the page fit the printer: its size, its media or its memory?  A    *)
(* cp30d is served by mitsu9550 and a w5000 by mitsud90; the page may be a *)
(* panel of a panorama, or (w5000) a side of a sheet of two.  start: the   *)
(* job says itself that the printer is to begin; held: a first side is     *)
(* waiting for its second one.                                             *)
SpoolJobs ==
  {j \in [model : SpoolModels, copies : Copies, wait : BOOLEAN,
          batch : Copies \union {1}, fits : BOOLEAN,
          kind : {"plain", "cp30d", "w5000"}, start : BOOLEAN,
          page : {"alone", "panel", "side"}, held : BOOLEAN] :
     /\ j.batch = IF j.model \in PrinterCopies THEN j.copies ELSE 1
     /\ ~j.fits => j.model \in {"sonyupd", "mitsu9550", "mitsud90"}
     /\ j.wait => j.model # "magicard"
     /\ j.kind = "cp30d" => j.model = "mitsu9550"
     /\ j.kind = "w5000" => j.model = "mitsud90" /\ j.fits
     /\ j.page = "panel" => j.model = "mitsud90" /\ j.kind = "plain"
     /\ j.page = "side" \/ j.held => j.kind = "w5000"
     /\ ~j.start => j.model = "mitsud90"
     /\ j.held /\ j.page = "alone" /\ ~j.start /\ j.copies > 1 =>
          <<"mitsud90", "side left over">> \in Hitches}

(* A panorama and a sheet of two sides are made once, whatever was asked.  *)
Wanted == IF Is("mitsud90") /\ job.page # "alone" THEN 1 ELSE job.copies

(* The page that is sent is also printed: a page without a footer is not,  *)
(* and of a sheet with two sides the first waits for the second.           *)
Starts == job.start \/ (job.kind = "w5000" /\ job.held = (job.page = "side"))

(* The printer starts to print what it got after a while; it may rest, to  *)
(* cool down, before a page or within one.  mem says whether mitsu9550 has *)
(* gone through the planes of the job: ptr.                                *)
SpoolInit ==
  /\ job \in SpoolJobs
  /\ state = <<IF Is("selphyneo") THEN "clear" ELSE "idle">>
  /\ mem = [planes_sent |-> FALSE]
  /\ dev \in [phase : {"idle", "printing"}, mine : {FALSE}, loaded : {FALSE},
              rests : {FALSE}, troubles : {0}, full : BOOLEAN,
              err : {"none"}, stray : {FALSE}, printed : {0}]

SpoolQuery ==
  /\ job.model \in SpoolModels \ {"magicard"}
  /\ Read([phase |-> dev.phase, rests |-> dev.rests, full |-> dev.full,
           err |-> dev.err])
  /\ UNCHANGED dev

Ready == sts.phase = "idle" /\ ~sts.rests

ErrorCode ==
  IF Is("kodak8800") THEN "failed"
  ELSE IF Is("selphyneo") /\ sts.err = "ribbon" THEN "cancel" ELSE "stop"

(* selphyneo looks at errors only while the printer is not ready, and      *)
(* mitsu9550 starts over before it looks at any but the lack of media.     *)
ErrorSeen ==
  /\ sts.err # "none"
  /\ Is("selphyneo") => ~Ready
  /\ Is("mitsu9550") => Ready \/ sts.err = "ribbon"

Fails(code) == Return(code) /\ GiveNone /\ UNCHANGED <<dev, mem>>

Again(s) == Goto(s) /\ GiveNone /\ UNCHANGED <<dev, mem>>

-----------------------------------------------------------------------------
(* The whole page.                                                         *)
SendPage ==
  /\ dev' = [dev EXCEPT !.phase = IF Starts THEN "got" ELSE @,
               !.mine = Starts, !.loaded = ~Starts,
               !.stray = @ \/ (dev.phase # "idle" /\ ~Is("magicard"))]
  /\ Give(job.batch) /\ UNCHANGED mem

(* The image without the end of the page; headers start a page anew, and   *)
(* the planes are behind the pointer when mitsu9550 comes here again.      *)
SendImage ==
  /\ dev' = [dev EXCEPT !.loaded = ~mem.planes_sent,
               !.stray = @ \/ dev.phase # "idle"]
  /\ mem' = [planes_sent |-> Is("mitsu9550")]
  /\ Goto(<<"check">>) /\ GiveNone

Afterwards == IF Is("selphyneo") THEN <<"clear2">> ELSE <<"wait">>

SpoolIdle ==
  /\ state = <<"idle">> /\ ~Is("magicard")
  /\ IF Is("sonyupd") /\ ~job.fits THEN Fails("cancel")
     ELSE IF Is("mitsu9550") /\ ~job.fits /\ sts.err # "ribbon"
     THEN Fails("hold")
     ELSE IF ErrorSeen THEN Fails(ErrorCode)
     ELSE IF ~Ready THEN Again(state)
     ELSE IF Is("mitsud90") /\ ~job.fits THEN Fails("cancel")
     ELSE IF Is("mitsud90") /\ job.kind # "w5000" /\ sts.full THEN Again(state)
     ELSE IF job.model \in {"mitsup95d", "mitsu9550"} THEN SendImage
     ELSE /\ SendPage
          /\ IF Starts \/ job.kind # "w5000" THEN Goto(Afterwards)
                                            ELSE Return("ok")

(* Between the image and the end of the page.                              *)
SpoolCheck ==
  /\ state = <<"check">>
  /\ IF ErrorSeen THEN Fails(ErrorCode)
     ELSE IF ~Ready
     THEN IF Is("mitsup95d") THEN Fails("cancel") ELSE Again(<<"idle">>)
     ELSE /\ dev' = [dev EXCEPT !.phase = "got", !.mine = TRUE,
                       !.loaded = FALSE, !.stray = @ \/ ~dev.loaded]
          /\ Give(job.batch) /\ Goto(<<"wait">>) /\ UNCHANGED mem

(* Mutant of FastReturn: wait_for_return is not looked at.                 *)
FastReturnAlways == sts.phase = "printing"

(* "Fast return mode": each model has its own idea of when it may.         *)
FastReturn ==
  /\ ~job.wait
  /\ CASE Is("selphyneo") -> sts.phase = "printing" /\ copies <= 1
       [] Is("mitsud90")  -> copies <= 1
       [] job.model \in {"sonyupd", "mitsup95d"} -> sts.phase = "printing"
       [] Is("mitsu9550") -> sts.phase = "printing" \/ job.kind = "cp30d"
       [] OTHER -> TRUE

(* sonyupd does not look at terminate when it finds the printer idle.      *)
Left == IF Is("sonyupd") /\ sts.phase = "idle" THEN copies - 1 ELSE CopiesLeft

PageDone ==
  /\ IF job.model \in PrinterCopies THEN Return("ok")
     ELSE NextCopy(Left, <<"idle">>)
  /\ GiveNone /\ UNCHANGED <<dev, mem>>

(* An error that is looked at before the page can be done.                 *)
ErrorFirst ==
  CASE Is("selphyneo") -> sts.err # "none" /\ sts.phase # "idle"
    [] Is("mitsu9550") -> sts.err \in {"ribbon", "tray"}
    [] OTHER           -> sts.err # "none"

SpoolWait ==
  /\ state = <<"wait">>
  /\ IF ErrorFirst THEN Fails(ErrorCode)
     ELSE IF sts.phase = "idle" \/ FastReturn THEN PageDone
     ELSE IF sts.err # "none" THEN Fails(ErrorCode)
     ELSE Again(state)

(* A status that is only read to be rid of it.                             *)
SpoolClear ==
  \/ state = <<"clear">>  /\ Again(<<"idle">>)
  \/ state = <<"clear2">> /\ Again(<<"wait">>)

SpoolAct ==
  /\ job.model \in SpoolModels \ {"magicard"}
  /\ Running /\ sts # NotRead
  /\ UNCHANGED <<job, terminate>>
  /\ SpoolIdle \/ SpoolCheck \/ SpoolWait \/ SpoolClear

MagicardPage ==
  /\ Is("magicard")
  /\ Running
  /\ UNCHANGED <<job, terminate>>
  /\ SendPage
  /\ NextCopy(CopiesLeft, state)

-----------------------------------------------------------------------------
SpoolWorks ==
  /\ job.model \in SpoolModels
  /\ dev.err = "none"
  /\ \/ dev.phase = "got" /\ Printer([dev EXCEPT !.phase = "printing"])
     \/ /\ dev.phase = "printing"
        /\ Printer([dev EXCEPT !.phase = "idle", !.mine = FALSE,
             !.printed = IF dev.mine THEN @ + job.batch ELSE @])
     \/ dev.rests /\ Printer([dev EXCEPT !.rests = FALSE])
     \/ dev.full  /\ Printer([dev EXCEPT !.full = FALSE])

(* Somebody mends it: mitsu9550 waits for that, as long as it is printing. *)
SpoolMended ==
  /\ Is("mitsu9550") /\ dev.err \in {"fault", "tray"}
  /\ Printer([dev EXCEPT !.err = "none"])

SpoolBreaks ==
  /\ job.model \in SpoolModels
  /\ dev.troubles < MaxTroubles
  /\ \/ /\ dev.err = "none"
        /\ \E e \in {"fault", "ribbon", "tray"} :
             /\ e = "tray" => job.kind = "cp30d"
             /\ Printer([dev EXCEPT !.err = e, !.troubles = @ + 1])
     \/ /\ ~dev.rests /\ dev.phase = "idle"
        /\ \/ ~Is("mitsu9550") \/ May("rest within a page")
           \/ state = <<"idle">> /\ sts = NotRead
        /\ Printer([dev EXCEPT !.rests = TRUE, !.troubles = @ + 1])
=============================================================================
