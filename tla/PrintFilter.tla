---------------------------- MODULE PrintFilter ----------------------------
(***************************************************************************)
(* The CUPS raster filter with the driver it calls: the loop over the      *)
(* pages of a raster stream, Image_get_row, which reads the stream on      *)
(* behalf of the driver and in the order that the driver asks for rows,    *)
(* the drivers' loops over the lines of a page, and SIGTERM, which sets    *)
(* Image_status at any time.                                               *)
(*                                                                         *)
(* A row of the raster is known by the offset in its page at which it was  *)
(* read: a filter out of step with the stream prints other offsets.        *)
(***************************************************************************)
EXTENDS RasterPage, Sequences, FiniteSets

CONSTANTS
  Streams,   (* the raster streams, sequences of pages                     *)
  Drivers    (* the drivers, see Driver below                              *)

ASSUME StreamsAssumption ==
  \A s \in Streams :
    s \in Seq(Headers) /\ \A n \in DOMAIN s : Printable(s[n])

ASSUME DriversAssumption ==
  Drivers \subseteq
    [scales : BOOLEAN, stores : BOOLEAN, turns : BOOLEAN,
     ends : {"always", "if verified", "never"}, block : Nat \ {0},
     full : BOOLEAN]

VARIABLES
  job,       (* the driver, the stream, whether it is printed in duplex    *)
             (* with its back sides upside down, and the document that     *)
             (* must come of it; never changes                             *)
  pc,        (* where the filter is                                        *)
  page,      (* cups->page: pages done                                     *)
  cups,      (* the layout of the page whose header was read last          *)
  row,       (* cups->row: rows of the page's raster that were read        *)
  at,        (* the place in the page's data                               *)
  status,    (* Image_status: empty until SIGTERM, then the last page that *)
             (* had been begun                                             *)
  data,      (* the row in the driver's input buffer                       *)
  store,     (* the rows of a page that is read before it is printed       *)
  y,         (* lines of the page that were printed                        *)
  err,       (* errval, errline and errlast                                *)
  sent,      (* the pages the printer got: their numbers and lines         *)
  opened, closed (* whether it got the start and the end of a job          *)

reader == <<cups, row, at>>
loop   == <<data, store, y, err>>
brackets == <<opened, closed>>

vars == <<job, pc, page, reader, status, loop, sent, brackets>>

Blank == -1

NoPage == [rows |-> 0, stride |-> 0]

Begun == pc \in {"lines", "read", "planes", "purge"}

-----------------------------------------------------------------------------
(* What the drivers' loops have in common and where they differ: whether   *)
(* rows are repeated or left out to fit a height, whether the page is read *)
(* as a whole first, whether back sides are turned round by the driver,    *)
(* and what is sent for the end of a job.                                  *)

Driver(scales, stores, turns, ends) ==
  [scales |-> scales, stores |-> stores, turns |-> turns, ends |-> ends,
   block |-> 1, full |-> FALSE]

Epson     == Driver(TRUE, FALSE, TRUE, "if verified")
Canon     == Driver(TRUE, FALSE, TRUE, "always")
PCL       == Driver(TRUE, FALSE, FALSE, "never")
Lexmark   == Driver(TRUE, FALSE, FALSE, "never")
PS        == Driver(FALSE, FALSE, FALSE, "never")
Raw       == Driver(FALSE, FALSE, FALSE, "never")
Label     == Driver(FALSE, FALSE, FALSE, "never")

(* Dye-sublimation printers get whole pages, whole blocks or the picture.  *)
Dyesub(block, full) ==
  [Driver(TRUE, TRUE, TRUE, "always") EXCEPT !.block = block, !.full = full]

(* Odd pages, counted from zero, of a duplex job.                          *)
Turned == job.duplex /\ job.driver.turns /\ page % 2 = 1

-----------------------------------------------------------------------------
(* Image_get_row: reads rows up to the one asked for, keeping the last.    *)

Upcoming(r) == Least(r + 1, cups.rows)
Reads(r) == row < Upcoming(r)

(* How far a row takes the stream: what is left of a row is thrown away.   *)
Advance == cups.left + cups.taken +
  LET rest == cups.stride - cups.left - cups.taken
  IN IF rest > 0 THEN rest ELSE 0

Fetched(r) ==
  IF row >= cups.rows THEN Blank
  ELSE IF Reads(r)
       THEN at + (Upcoming(r) - 1 - row) * Advance + cups.left
       ELSE data

GetRow(r) ==
  /\ row' = Greatest(row, Upcoming(r))
  /\ at' = at + (row' - row) * Advance
  /\ data' = Fetched(r)

Aborted == status # <<>>

-----------------------------------------------------------------------------
(* The loop over the pages.                                                *)

(* The header of a page can only be read behind the data of the one        *)
(* before; pixels in its place are no header and end the loop.             *)
InStep == page > 0 => at = Size(cups)

ReadHeader ==
  /\ pc = "header" /\ InStep /\ page < Len(job.stream)
  /\ pc' = "print"
  /\ cups' = Layout(job.stream[page + 1])
  /\ row' = 0 /\ at' = 0
  (* stp_start_job, before the first page                                  *)
  /\ opened' = IF page > 0 THEN opened
               ELSE \/ job.driver.ends = "always"
                    \/ job.driver.ends = "if verified" /\ cups'.verifies
  /\ UNCHANGED <<job, page, status, loop, sent, closed>>

EndOfStream ==
  /\ pc = "header" /\ (page = Len(job.stream) \/ ~InStep)
  /\ pc' = IF page = 0 THEN "ended" ELSE "end"
  /\ UNCHANGED <<job, page, reader, status, loop, sent, brackets>>

StartPage == sent' = Append(sent, [number |-> page + 1, lines |-> <<>>])

(* stp_print up to the driver's loop.  A driver whose options fail to      *)
(* verify returns 0, and that ends the loop over the pages.                *)
BeginPrint ==
  /\ pc = "print"
  /\ IF cups.verifies
     THEN /\ pc' = IF job.driver.stores THEN "read" ELSE "lines"
          /\ IF job.driver.stores THEN UNCHANGED sent ELSE StartPage
          /\ data' = Blank
          /\ store' = <<>> /\ y' = 0
          /\ err' = [val |-> 0, line |-> 0, last |-> -1]
     ELSE pc' = "end" /\ UNCHANGED <<sent, loop>>
  /\ UNCHANGED <<job, page, reader, status, brackets>>

(* The driver is done with the page, or was aborted: it returns 1 or 2.    *)
Return == pc' = "purge"

(* Mutant of Purge: the rows that no driver asked for stay in the stream.  *)
PurgeNothing ==
  /\ pc = "purge" /\ pc' = "header"
  /\ page' = page + 1
  /\ UNCHANGED <<job, reader, status, loop, sent, brackets>>

(* purge_excess_data and the end of the loop's body.                       *)
Purge ==
  /\ pc = "purge" /\ pc' = "header"
  /\ page' = page + 1
  /\ row' = Greatest(row, cups.rows)
  /\ at' = at + (row' - row) * cups.stride
  /\ UNCHANGED <<job, cups, status, loop, sent, brackets>>

(* stp_end_job, with the settings of the last page.                        *)
EndJob ==
  /\ pc = "end" /\ pc' = "ended"
  /\ closed' = \/ job.driver.ends = "always"
               \/ job.driver.ends = "if verified" /\ cups.verifies
  /\ UNCHANGED <<job, page, reader, status, loop, sent, opened>>

-----------------------------------------------------------------------------
(* The loops over the lines of a page.                                     *)

LineCount == IF job.driver.scales THEN cups.lines ELSE cups.height

(* Mutant of NextError: carried over one line too late.                    *)
NextErrorLate ==
  LET val   == err.val + (cups.height % LineCount)
      carry == IF val > LineCount THEN 1 ELSE 0
  IN  [val  |-> val - carry * LineCount,
       line |-> err.line + (cups.height \div LineCount) + carry,
       last |-> err.line]

(* Bresenham's division of the rows over the lines.                        *)
NextError ==
  LET val   == err.val + (cups.height % LineCount)
      carry == IF val >= LineCount THEN 1 ELSE 0
  IN  [val  |-> val - carry * LineCount,
       line |-> err.line + (cups.height \div LineCount) + carry,
       last |-> err.line]

PrintLine(source) ==
  /\ sent' = [sent EXCEPT ![Len(sent)].lines = Append(@, source)]
  /\ y' = y + 1

(* A line that needs another row than the one before it.                   *)
NewRow ==
  /\ pc = "lines" /\ y < LineCount /\ err.line # err.last /\ ~Turned
  /\ GetRow(err.line)
  /\ IF Aborted THEN Return /\ UNCHANGED <<sent, y, err>>
     ELSE PrintLine(data') /\ err' = NextError /\ UNCHANGED pc
  /\ UNCHANGED <<job, page, cups, status, store, brackets>>

SameRow ==
  /\ pc = "lines" /\ y < LineCount /\ err.line = err.last
  /\ PrintLine(data) /\ err' = NextError
  /\ UNCHANGED <<job, pc, page, reader, status, data, store, brackets>>

(* A back side is read as a whole when its first row is asked for ...      *)
ReadBack ==
  /\ pc = "lines" /\ y < LineCount /\ Turned /\ store = <<>>
  /\ pc' = "read"
  /\ UNCHANGED <<job, page, reader, status, loop, sent, brackets>>

(* Mutant of Turn: rows come in the order of the picture.                  *)
TurnNot(rows, r) == rows[r + 1]

Turn(rows, r) == rows[Len(rows) - r]

(* ... and given from its end, whatever the signal.                        *)
BackRow ==
  /\ pc = "lines" /\ y < LineCount /\ err.line # err.last
  /\ Turned /\ store # <<>>
  /\ data' = Turn(store, err.line)
  /\ PrintLine(data') /\ err' = NextError
  /\ UNCHANGED <<job, pc, page, reader, status, store, brackets>>

EndOfLines ==
  /\ pc = "lines" /\ y = LineCount
  /\ Return
  /\ UNCHANGED <<job, page, reader, status, loop, sent, brackets>>

(* A page is read into memory.  dyesub_read_image frees what it has read   *)
(* through a pointer that is not set before it returns: it crashes, unless *)
(* it has not got a row.                                                   *)
ReadRow ==
  /\ pc = "read" /\ Len(store) < cups.height
  /\ GetRow(Len(store))
  /\ IF Aborted
     THEN /\ pc' = IF job.driver.stores /\ ~Turned /\ store # <<>>
                   THEN "crashed" ELSE "purge"
          /\ UNCHANGED store
     ELSE store' = Append(store, data') /\ UNCHANGED pc
  /\ UNCHANGED <<job, page, cups, status, y, err, sent, brackets>>

WholeRead ==
  /\ pc = "read" /\ Len(store) = cups.height
  /\ pc' = IF job.driver.stores THEN "planes" ELSE "lines"
  /\ IF job.driver.stores THEN StartPage ELSE UNCHANGED sent
  /\ UNCHANGED <<job, page, reader, status, loop, brackets>>

-----------------------------------------------------------------------------
(* The lines of a page in memory: dyesub_do_print.                         *)

Threshold == 6

Apart(a, b) == IF a > b THEN a - b ELSE b - a

(* A picture of about the right size is not scaled.                        *)
OutHeight(p) ==
  Least(IF Apart(p.lines, p.height) < Threshold THEN p.height
                                                  ELSE p.lines,
        p.printable)

OutTop(p) == Least(p.top, p.printable - OutHeight(p))

(* The first and the last line of the page that is sent.                   *)
FirstSent(p, driver) ==
  IF driver.full THEN 0 ELSE OutTop(p) - (OutTop(p) % driver.block)

LastSent(p, driver) ==
  IF driver.full THEN p.printable - 1
  ELSE LET bottom == OutTop(p) + OutHeight(p) - 1
       IN bottom + (driver.block - 1) - (bottom % driver.block)

(* The row of the picture for a line of the page: point interpolation.     *)
StoredLine(line) ==
  LET below == line - OutTop(cups) IN
  IF below < 0 \/ below >= OutHeight(cups) THEN Blank
  ELSE LET r == (below * cups.height) \div OutHeight(cups)
       IN IF Turned THEN Turn(store, r) ELSE store[r + 1]

Plane ==
  /\ pc = "planes" /\ FirstSent(cups, job.driver) + y <=
                        LastSent(cups, job.driver)
  /\ PrintLine(StoredLine(FirstSent(cups, job.driver) + y))
  /\ UNCHANGED <<job, pc, page, reader, status, data, store, err, brackets>>

EndOfPlanes ==
  /\ pc = "planes" /\ FirstSent(cups, job.driver) + y >
                        LastSent(cups, job.driver)
  /\ Return
  /\ UNCHANGED <<job, page, reader, status, loop, sent, brackets>>

-----------------------------------------------------------------------------
(* cancel_job: SIGTERM.                                                    *)
Cancel ==
  /\ pc \notin {"ended", "crashed"} /\ ~Aborted
  /\ status' = <<IF Begun THEN page + 1 ELSE page>>
  /\ UNCHANGED <<job, pc, page, reader, loop, sent, brackets>>

(* The document that is promised: what every page must show.               *)

(* The place in the stream where a row of the picture begins.              *)
Source(p, turned, r) ==
  (IF turned THEN p.height - 1 - r ELSE r) * p.stride + p.left

Spread(p, turned, lines) ==
  [k \in 1 .. lines |-> Source(p, turned, ((k - 1) * p.height) \div lines)]

(* The lines of the blocks that the picture touches.                       *)
Shown(p, driver) ==
  IF driver.full THEN 0 .. p.printable - 1
  ELSE {l \in 0 .. p.printable + driver.block :
          \E m \in OutTop(p) .. OutTop(p) + OutHeight(p) - 1 :
             m \div driver.block = l \div driver.block}

Placed(p, turned, driver) ==
  LET lines   == Shown(p, driver)
      first   == CHOOSE l \in lines : \A m \in lines : l <= m
      picture == Spread(p, turned, OutHeight(p))
  IN  [k \in 1 .. Cardinality(lines) |->
         LET below == first + k - 1 - OutTop(p)
         IN IF below \in 0 .. OutHeight(p) - 1 THEN picture[below + 1]
                                              ELSE Blank]

Shows(driver, p, turned) ==
  IF driver.stores THEN Placed(p, turned, driver)
  ELSE Spread(p, turned, IF driver.scales THEN p.lines ELSE p.height)

(* The pages that come before one that the driver does not accept.         *)
Accepted(stream) ==
  {n \in DOMAIN stream : \A m \in 1 .. n : stream[m].verifies}

Document(driver, stream, duplex) ==
  [n \in Accepted(stream) |->
     Shows(driver, Layout(stream[n]), duplex /\ driver.turns /\ n % 2 = 0)]

-----------------------------------------------------------------------------
Init ==
  /\ \E driver \in Drivers, stream \in Streams, duplex \in BOOLEAN :
        job = [driver |-> driver, stream |-> stream, duplex |-> duplex,
               document |-> Document(driver, stream, duplex)]
  /\ pc = "header" /\ page = 0
  /\ cups = NoPage /\ row = 0 /\ at = 0
  /\ status = <<>>
  /\ data = Blank /\ store = <<>> /\ y = 0
  /\ err = [val |-> 0, line |-> 0, last |-> -1]
  /\ sent = <<>>
  /\ opened = FALSE /\ closed = FALSE

Step ==
  \/ ReadHeader \/ EndOfStream \/ BeginPrint \/ Purge \/ EndJob
  \/ NewRow \/ SameRow \/ ReadBack \/ BackRow \/ EndOfLines
  \/ ReadRow \/ WholeRead \/ Plane \/ EndOfPlanes

Finished == pc \in {"ended", "crashed"} /\ UNCHANGED vars

Next == Step \/ Cancel \/ Finished

Spec == Init /\ [][Next]_vars

FairSpec == Spec /\ WF_vars(Step)

-----------------------------------------------------------------------------
(* Types: counters stay within the page and within the stream.             *)
TypeOK ==
  /\ pc \in {"header", "print", "lines", "read", "planes", "purge", "end",
             "ended", "crashed"}
  /\ page \in 0 .. Len(job.stream)
  /\ Begun =>
       /\ row \in 0 .. cups.rows /\ at \in 0 .. Size(cups)
       /\ data \in {Blank} \union 0 .. Size(cups) - 1
       /\ Len(store) <= cups.height
       /\ pc = "lines" =>
            /\ y \in 0 .. LineCount /\ err.val \in 0 .. LineCount - 1
            /\ err.line \in 0 .. cups.height
            /\ err.last \in -1 .. cups.height - 1
  /\ Len(sent) \in {page, page + 1} \/ Aborted
  /\ opened \in BOOLEAN /\ closed \in BOOLEAN

-----------------------------------------------------------------------------
Promise ==
  INSTANCE PrintedDocument WITH
    document  <- job.document,
    fragile   <- job.driver.stores,
    opens     <- \/ job.driver.ends = "always" /\ job.stream # <<>>
                 \/ job.driver.ends = "if verified" /\ 1 \in Accepted(job.stream),
    closes    <- /\ job.stream # <<>>
                 /\ \/ job.driver.ends = "always"
                    \/ /\ job.driver.ends = "if verified"
                       /\ Accepted(job.stream) = DOMAIN job.stream,
    cancelled <- status,
    result    <- IF pc \in {"ended", "crashed"} THEN pc ELSE "running"

(* The printer gets the document, page for page and line for line, however *)
(* rows are skipped, repeated, turned, cropped or left over in the stream; *)
(* a SIGTERM can only cut the page it hits and leave the rest blank, and   *)
(* the job is closed when all is sent.                                     *)
FilterPromise == Promise!Spec
=============================================================================
