# A TLA+ verification project for Gutenprint

Gutenprint turns images into the command streams of printers. This directory
holds TLA+ models of the parts of it that keep state over many steps, the TLC
runs that check them on small instances, and TLAPS proofs about the most
delicate of them: the weave and the softweave of the inkjet drivers, the job list and the printer
loops of the dye-sublimation backends, the processes of the print dialog, the
packets of IEEE 1284.4 and the raster filter.

All paths below are relative to the repository's root; `main/`, `cups/` and the
like stand for `src/main/`, `src/cups/`.

## The system

| Component | State it keeps | Operations | Hard behaviour |
|---|---|---|---|
| Weave (`main/print-weave.c`) | page maps; softweave: row, subpass, `vmod` banks of passes, line buffers, counts, the last pass sent | `stp_initialize_weave`, `stp_weave_parameters_by_row`, `stp_write_weave`, `stp_flush_all` | passes of different age share banks; colours lag behind each other; margins of the page; images that end early |
| ESC/P2 driver (`main/print-escp2.c`, `main/escp2-driver.c`) | page geometry, head position | `escp2_print_data`, `stpi_escp2_flush_pass` | the paper cannot move back |
| Linked list (`main/print-list.c`) | items with two links, length, an index cache, two name caches | create, destroy, set data, look-ups by index and name | caches that outlive what they point to |
| Dye-sublimation main loop (`cups/backend_common.c`) | the list of jobs that wait, print data owned by jobs | read a page, append, combine, print, clean up | a page waits for one to share its sheet; copies; a printer that fails; a list of three places |
| Dye-sublimation backends (`cups/backend_*.c`) | state of one printer model | `read_parse`, `main_loop`, `combine_jobs`, `query_*` | polling, retries, two decks |
| Raster filter (`cups/rastertogutenprint.c`) | the page, `Image_status` | page loop, `Image_get_row`, signal handler | SIGTERM between any two steps |
| Print pipeline (`gutenprintui2/plist.c`) | four processes, three pipes, a signal | `stpui_print` | the dialog may be killed; the order in which pipes are closed |
| `escputil`, 1284.4 (`escputil/d4lib.c`) | channels, credit | open, close, ask for credit, read, write | packets late or missing, retries |
| Parameters (`main/print-vars.c`, `curve.c`, `sequence.c`, `array.c`, `refcache.c`, `curve-cache.c`) | option sets, curves, caches | set, clear, copy, look up | cached forms of a curve; option activity on copying |
| Colour and dither (`main/color*.c`, `print-color.c`, `dither-*.c`) | tables, error rows | per-row conversion | numerical quality |
| Bit operations (`main/bit-ops.c`) | none | fold, split, pack | inverse of each other |
| Other drivers (`main/print-canon.c`, `print-pcl.c`, ...) | page geometry | initialise, rows, end | tables and command syntax |
| XML, papers, printers, modules | lists filled at start | look-ups | none beyond the list's |
| GTK dialog, GIMP plug-in, test patterns, PPD and command filters | widgets, text | callbacks, translation | the toolkit's |

How they interact: a filter or plug-in fills a set of variables, calls
`stp_print`, and the driver of the printer asks the image for row after row,
converts and dithers it, and hands the dots of each colour to `stp_write_weave`.
The softweave calls the driver back to compress a line, to fill it with phantom
lines and to send a pass. What a driver writes goes to a spooler, and for
dye-sublimation printers from there to a backend, which reads pages and talks to
the printer over USB. All of it is single-threaded; processes meet in pipes
(the raster filter and its backend, the print pipeline) and in signals.

What makes each right:

* **Weave.** Each line of the page is printed once, by a jet that lies on it,
  by passes that only move down; a buffer holds lines of one pass only; at the
  end of the page every dot is on the paper.
* **List.** Whatever is cached, a list answers as the sequence of its items.
* **Job list.** Copies come out in the order read, none lost, none twice, though
  some share sheets; print data are freed once; success means all was printed.
* **Pipeline.** The print command sees the end of its input only when the whole
  job was written, or it has been killed; the dialog always comes back.
* **1284.4.** No data without credit; a reply belongs to the request.
* **Printer loops.** A printer gets each copy once and completely, in the order of
  commands it can take; "printed" is reported only when it has all of them.
* **Filter.** Each line of each page comes from the right place in the stream,
  whatever rows a driver asks for; a SIGTERM cuts only the page it hits.

## Modules

| Module | What it is |
|---|---|
| `RawWeave` | the raw weave: which pass and jet print a row of an endless page, and where a pass starts, as two formulas written separately in the code |
| `PassMap` | how the passes at the margins are moved and staggered (`calculate_pass_map`, `make_passmap`, `invert_map`) |
| `Weave` | `stp_initialize_weave` and `stpi_calculate_row_parameters`: the parameters of each line, head offsets, number of banks |
| `WeaveRows` | these parameters asked for row by row; the properties `test/escp2-weavetest.c` looks for, and those the softweave needs |
| `WeaveRequests`, `MCWeaveRows` | the pages for TLC |
| `WeaveRowsProofs` | the theorems about the weave: raw weave, page maps, parameters of every line; the jobs a page makes |
| `WeaveJobs` | what the softweave keeps of a page, as a constant; what it expects of the weave (`WovenWell`, `PrintsWell`) |
| `Page` | abstract: what weaving promises, in terms of dot rows on paper only |
| `SoftWeave` | the softweave and the driver around it; implements `Page` |
| `MCSoftWeave` | the pages of `WeaveRequests` as constants of `SoftWeave` |
| `WovenProofs` | the theorems about the softweave: types, banks and passes; buffers and paper |
| `PrintQueue` | abstract: copies taken in and put out |
| `JobList` | `handle_input` and the job list; implements `PrintQueue` |
| `MCJobList` | documents for TLC |
| `JobListProofs` | the theorems about the job list |
| `ItemList` | abstract: a sequence of named items with look-ups |
| `List` | `print-list.c` with its links and caches; implements `ItemList` |
| `MCList` | bounds for TLC |
| `ListProofs` | the theorems about the list |
| `PrintPipe` | `stpui_print`: processes, descriptors, pipes, signals |
| `MCPrintPipe` | descriptors that are open before, for TLC |
| `PrintPipeProofs` | the theorems about the pipeline |
| `CopyService` | abstract: copies asked for and copies given |
| `PrinterLink` | what the printers' loops share: the last status, copies left, SIGTERM, a failing link, and the printer's side |
| `PlanePrinters` | loops of printers that are sent planes one by one: Canon Selphy, Kodak 1400, Hiti |
| `SpoolPrinters` | of printers that take a whole page when they are idle: Canon Selphy neo, Kodak 8800, Magicard, Sony UPD and UPD neo, Mitsubishi P95D, 9550 and D90 |
| `BankPrinters` | of printers that have banks with job numbers: Kodak 605 and 6800, Shinko 1245, 2145, 6145 and 6245 |
| `DeckPrinters`, `DnpPrinters` | of the Mitsubishi 70x, with one deck or two, and of the DNP printers |
| `Printers`, `MCPrinters` | all of them as one system; implements `CopyService` |
| `PrintersProofs` | the theorems about all of them |
| `D4Channel` | abstract: commands executed once and in order |
| `D4` | `d4lib.c`, its callers in `escputil.c`, and the printer; implements `D4Channel` |
| `D4Proofs` | the theorems about the session: types and answers; its commands |
| `PrintedDocument` | abstract: pages in order and whole, in one job |
| `RasterPage` | `initialize_page`: the layout of a page |
| `PrintFilter` | the raster filter and the drivers' loops; implements `PrintedDocument` |
| `MCPrintFilter` | streams and drivers for TLC |
| `FilterProofs` | the theorems about the filter |

### Weave

`RawWeave`, `PassMap` and `Weave` are operators over one record, the request
(jets, separation, oversampling, subpasses, margins, strategy, head offsets).
They follow the C functions one by one; C's truncating division and remainder
are `CDiv` and `CMod`. `WeaveTable` is what `weave_parameters_by_row` answers for
all lines. `WeaveRows` only walks through the rows, so that each state shows one
row against the whole page.

The numbers the operators give were also compared with a compilation of
`print-weave.c`: 9330 values of the raw weave and all parameters of 880 pages are
the same.

### Softweave

`SoftWeave` has one variable for each part of `stpi_softweave_t` that matters, and
`sheet` and `paper` for the paper under the head. `pc` says which C loop is
running, `i` and `j` its counters:

| `pc` | actions | code |
|---|---|---|
| `driver` | `WriteWeave`, `FlushAll` | `escp2_print_data`: the next row, the end of the image or its early end |
| `initialize` | `InitializeRow` | `initialize_row`, one colour of one subpass at a time |
| `add` | `AddToRow` | `stp_write_weave`'s loop over colours and horizontal passes |
| `finalize` | `FinalizeRow`, `EndRow` | `finalize_row`; the counters of the next row |
| `flush`, `flushall` | `FlushPass`, `EndFlush` | `stpi_flush_passes`, as called by `finalize_row` and by `stp_flush_all` |

A line is `<<row, subpass>>`; what `stp_write_weave` compresses and folds is left
out, as no property depends on the bits. A line without dots leaves
`lineactive` false as in the code, and a colour that is not active is not sent.
A phantom line, which the fill functions write for a jet without a row, is
`Phantom`. `FlushPass` puts a dot row `at = start + separation * jet` on the sheet
for each line in the buffers, where `start` is where the driver's paper feed ends
up: the start of the pass, or the current position if that is further down.

`Page` does not know rows of input, buffers or banks. Its only step adds a pass:
each new dot row lies where its line belongs, under a jet, was not printed
before, and belongs to a pass after all those before; the paper does not move
back. `PagePromise` states that `SoftWeave` implements it, with `sheet`, `paper` and
`job` as they are.

### Job list

`JobList` models `handle_input` from the first read to the end of the backend. A
document is the sequence of what `read_parse` returns, one job or the panels of a
panorama. `pc` is `read`, `append` (`dyesub_joblist_appendjob` for one job of the
last read), `print` (`dyesub_joblist_print`, one sheet at a time) or `done`.
`memory` maps print data to the pages they show, so that combining two jobs,
freeing data and printing data that were freed are visible. Nondeterministic,
because the printer decides: whether two jobs of a kind can be combined,
the polarity, whether a copy fails. `ReadFails` stands for the end of the data
and for data that cannot be used, which the code treats alike. The number of
copies of a whole list is 1 (`collate` is never set), and the option to return
before the printer is done is left out. `main_loop` is taken to return.

### List

`List` keeps nodes with `prev` and `next`, the ends, the length, the index cache and
one name cache (the long-name cache is the same code). Look-ups by index follow
each way of the code: the cached item and its neighbours, and walks from the
cache, from the start and from the end in both directions. `asked` and `answer`
record what the last look-up returned, and `ItemList` says what it must be: by name,
the first item that has it, as `print-list.c:365` and `:439` promise. The code does not
keep that promise where items share a name: it answers with the item of the name
cache, with the one behind it or with that of the index cache before it searches, and
so with whichever of them was looked up last. Whether callers ask for such names is the
constant `Ambiguous`; run and theorem suppose that they do not (most create an item only
when a look-up found none, as `print-vars.c:449` and `refcache.c:165` do), and with `Ambiguous =
TRUE` TLC finds `IsItemList` violated in a list of three items named a, b, a.

### Print pipeline

`PrintPipe` has the four processes that the comment above `stpui_print` draws, and a
fifth for a command that the shell runs as its child (`shell`). `fd[p]` is the table
of descriptors of process p; `fork` copies it, `pipe` takes the lowest free
numbers, `dup2` and `close` change it, so that a number closed too early, twice, or
used again by a later pipe shows. An action is what a process does between two
calls that others can notice: a fork, a group of closes, a read, a write, a signal,
a wait. `ParentKilled` is the SIGKILL the comment speaks of, at any time after the
first fork. `MonitorKills` happens some time after that (the monitor asks every five
seconds). A pipe holds one unit, of the job or of errors, so that writers do block.
The end of input is what the kernel makes of it: nothing in the pipe and no process
with its other end. Not modelled: another process that gets the dead parent's
number (the comment names this race), and a `pipe` call of the parent that fails,
after which the code closes descriptors it never set.

### Printers

Each of the nineteen backends has a `main_loop` that asks its printer for a status,
decides from the answer what to send, and starts over for the next copy. They are
modelled one by one in five modules, by the way their printers take pages. `state`
is the place in the loop, `sts` the status that was read and not yet acted on
(between the two the printer moves on, so that a stale status shows), `mem` the
other locals, `dev` the printer: what it has been given, what it prints, its
error. `given` counts copies that the printer has completely, `late` those given
after SIGTERM. Any transfer may fail (`LinkFails`), and the loop then ends.

What is taken of the printers, because only the code's use of them tells: a printer
with data is not idle; it is ready for the next command only when nothing of the
last is left to be sent; it works on when nobody asks; somebody mends a bank
printer's fault, and the fault of a Mitsubishi 9550 that is printing. A copy counts as
given when its data and what makes it print are sent, and no longer from the moment
the printer itself spoils it (`Spoils`: a deck fails with the copy in it).

*Refusals.* A bank printer may refuse a print command. Of the Kodak 605, the Shinko 2145,
6145 and 6245 that ends the loop, although each has a case that says it retries:
`sinfonia_docmd` (`backend_sinfonia.c:483`) returns a failure of its own for every result
but success, and the loop returns it before it looks at the reply. So the case, and
the way through it that would send the data after a refusal with status 0, are never
reached (`Printers_retry`). Only the Shinko 1245 has a command of its own and retries when it
is full; any other refusal fails.

*The end of a page.* The Shinko 2145 takes status FINISHED, of whatever page, and status
ERROR_PRINTER for the end when the field for errors says nothing (`ShinkoDone`). The Mitsubishi
9550 looks at the lack of media, and the CP30D at its tray, before it looks whether
the printer is idle (`ErrorFirst`). A `mitsud90` job may be for a W5000: of a sheet with two sides
the first is sent without START and not waited for, the second starts the sheet, a
side counts one copy whatever was asked for, and a page of its own closes a sheet
that was left open (`Wanted`, `Starts`); a W5000 is not asked whether the page fits its memory.
Panels of a panorama and pages without a footer are not started either. Panels of
panoramas and of partial matte layers are made once. Not modelled of the panoramas
is the numbering of their pages (`pano_page`).

What some printers may do and some loops do not deal with is called a hitch. The constant
`Hitches` has those that the printers do; run and theorems leave them out, and with each
alone TLC finds a property violated:

| Hitch | What the code does | Violated |
|---|---|---|
| `mitsu70x`, fail unwatched | with two decks a copy is left to print (`backend_mitsu70x.c:2203`); its deck fails, nobody looks, the copy is lost | `CopyPromise` |
| `mitsu70x`, fail when done | a deck's error is looked at before the end of its job (`:2132`, `:2167`): a copy that was printed just before is sent again | `CopyPromise`, `TypeOK` |
| `mitsud90`, side left over | a page in several copies is sent to a W5000 that holds a side: it closes that sheet, and its next copy is itself left without START (`backend_mitsud90.c:1557-1571`) | `CopyPromise`, `TypeOK` |
| `mitsu9550`, rest within a page | the loop starts over and sends the headers again with its pointer behind the data | `InTurn` |
| `dnpds40`, rewind copies | `backend_dnpds40.c:2998` adds to the cutter code again for each copy or wait | `InTurn` |
| `dnpds40`, print briefly | the print is done between two looks, and `:3190` waits without end | `LoopEnds` |
| `dnpds40`, sleep at once | so it does when the printer goes to sleep before it is seen idle | `LoopEnds` |
| `shinkos1245`, refuse briefly | the refusal is over before a status shows it; the unchanged state with an unchanged status is not acted on | `LoopEnds` |

`JobIdsApart` is not said of the Shinko 6145, which has no list of jobs to compare
with. `WaitedFor` is not said where the code knowingly goes: the Shinko 2145 on a finished
page or an error in the status; the side or panel that a `mitsud90` is not to print yet; the
DNP printers on an error, on no answer, and for parts of a sheet; of two decks it is
said of the last copy, and not after SIGTERM. The Sony UPD does not look at SIGTERM when
it finds the printer idle (`Heeds`).

Observed, not modelled: `backend_kodak8800.c:698` swaps the bytes of `copies` although
it is a number of this machine.

### IEEE 1284.4

`D4` has the session of `do_reset_ink_levels` and the like: `init_packet`, `OpenChannel`,
commands by `writeAndReadData`, `CloseChannel`, over a wire on which answers may be
late, missing, refused, wrong or errors, with a printer that may be unplugged. The
session's variables are the return address of each C function that can be
interrupted by a time-out, and the credit it believes to have; the printer's side is
what it executed, what it has said and what it still has to say. `InStep` and `OnCredit`
are said of printers that answer in time or never, since a late answer is taken for
the next (nothing in `readAnswer` could tell); `ExecutedOnce` and `SessionEnds` of all. A late answer
to an open, close, request or credit command that is taken for GetSocketID's has the
socket's number where that looks for it (`d4lib.c:923`).

Not modelled: partial writes (`SafeWrite`, `d4lib.c:283`, then sends the whole buffer
again), `Exit`, more than one service. Observed while modelling: `askForCredit`
returns 0 after eleven refusals, and the command is then written without credit (the
run has at most four troubles); the branch of `OpenChannel` for a printer short of
resources is never taken, since `sendReceiveCmd` returns 0 for it; after five
"already open" rounds `OpenChannel` reports success; after seven packets that do not
match, `writeAndReadData` returns the last as the answer.

### Raster filter and drivers

`PrintFilter` has the loop of `main`, `Image_get_row`, and the loop over lines that each
driver has; a page of the stream is a record of paper, raster and resolutions, and
`RasterPage` makes of it what `initialize_page` makes of a header. A row of the raster
is known by the offset at which it was read, so a filter out of step with the
stream shows. Drivers differ in a record: do they scale by Bresenham's division
(ESC/P2, Canon, PCL, Lexmark) or take row by row (PostScript, raw, labels), do they
turn back sides round (`buffer-image.c`), do they store the page first
(dye-sublimation, with block alignment or full height), and what do they send for the
end of a job. `Cancel` is the signal handler, possible between any two steps.
`PrintedDocument` computes each line of each page directly from the geometry.

What the model shows of a cancelled job is what the code does, which is less than it
seems to intend: a driver returns 2 when it is aborted (`printers.h:193`), so that
the branch of the page loop for an aborted page is not taken: the pages left are
still started, and come out blank. A dye-sublimation page that is aborted after its
first row crashes the filter (`dyesub_free_image` uses `pv->image_data` before it is
set). The ESC/P2 driver sends no end of job if the last page's options fail.

Abstracted: lengths are whole points; columns are only counted in bytes; a stream
ends between pages; colour planes of a page are alike. One-bit rasters that are
cropped round each of their pieces up to a byte and would run out of step; the
pages here have whole bytes to a pixel. Observed: `top_trim` is computed and never
used, so that with "Crop (preserve dimensions)" rows are not cut at the top as columns
are at the left; `buffered_image_conclude` looks for a null pointer behind the last row
in a buffer that has room for it only if the page has eight rows.

## Runs

| Run | Question | Bounds | States |
|---|---|---|---|
| `WeaveRows_pages` | are the weave parameters sound? | heads of 2 to 8 jets, separation 2 to 6, up to 4 passes over a row, 1 to 3 colours level or lagging, five strategies, images of one to three head heights, both kinds of margin; the Stylus Color 440's 21 jets | 9887 |
| `SoftWeave_pages` | does the softweave print the page? | the same without the tall heads; images complete or ended at any row; blank rows at the end; pages with data for one colour only | 48829 |
| `JobList_pages` | are documents printed in order and whole? | up to four pages of three kinds in one or two copies; panoramas of two and three panels | 31649 |
| `List_append` | does the list answer as a sequence? | three items of two names, or up to eight of one name or two; names that one item has are looked up | 2835 |
| `PrintPipe_print` | does no part of a job pass for a whole one, do all processes end? | a job of two units, two errors, three descriptors open before or not | 24632 |
| `Printers_pages` | does every printer get each copy, once and in turn? | all backends; one or two copies; job numbers just more than the banks; two troubles (faults, refusals, rests) in a run; no hitches | 1271037 |
| `D4_session` | do answers stay with their commands? | two commands, four troubles, printers late or punctual | 445893 |
| `Filter_pages` | does the document reach the printer? | rasters of two to eight rows at half to two and a half times their resolution, cropped, shrunk, expanded; streams of up to three pages; ten drivers; duplex or not; SIGTERM at any step | 35397 |
| `SoftWeave_short` | is an image of one or two rows printed? | 2 jets, rows far down the page | violation |
| `JobList_copies` | are three copies printed? | two pages in three copies | violation |
| `PrintPipe_shell` | the same where the shell forks | one error | violation |
| `Printers_retry` | is a print command that is refused for full buffers tried again? | Shinko 6145, one refusal | violation |

Why these bounds are enough: the page map of the weave has three parts, the
margins and the middle, and pages of three head heights show all of them next to
each other; heads with every relation of jets to separation are there (fewer,
equal, coprime, more). The softweave's banks are reused several times on each
page. Four pages are enough for a page that waits, one that pairs with it, one
that takes its place and one that cannot; `MAX_JOBS_FROM_READ_PARSE` and
`DYESUB_MAX_JOB_ENTRIES` have their true values. Eight items are the fewest for
which an index look-up walks from the cached item in both directions. Where more
than three items are in the list they share one name; the list of items in use is
`1..n`, which is a renaming as both create and destroy clear all caches.

Two copies show every transition between copies, two troubles a failure within the
recovery from another. Three pages of a stream show a page after a front and after a
back side; the pages' sizes make every remainder of rows to lines happen, and leave rows
and columns over. Four troubles in a session of two commands let each retry of
`d4lib.c` start within another.

`WeaveRows` stops at its last row, so its runs do not check deadlock; all the other
models have an explicit end.

### Properties

*WeaveRows*: `RowOnItsJet`, `PassAgrees`, `LinesApart`, `StartsForward`
(errors B to Q of the weave test), `BankFreeInTime` ("If pass x is not yet printed,
pass x+vmod cannot be started"), `RawHalvesAgree`.

*SoftWeave*: `LineInItsPass` (no line in another pass's buffer), `NoLateLine` (no
line for a pass that has gone), `RasterMatchesCount` (the count announced to the
printer is the number of lines sent), `BufferFits`, `SentInOrder`,
`EveryLinePrinted` (on an image that came in full), `PagePromise`, `PageEnds`.
`RasterMatchesCount` is said where no row is half received: with several vertical
subpasses, which only the Canon and Lexmark drivers use, an image that ends
inside a row leaves lines that were never counted.

*JobList*: `DataOwnedOnce`, `InOrderAll` (implements `PrintQueue`), `BackendEnds`.
*List*: `WellLinked`, `IsItemList` (implements `ItemList`).

*PrintPipe*: `NoPartialJobUnlessShell` (the command sees the end of its input only
behind a whole job), `ErrorsSeen` (all errors shown before `stpui_print` returns),
`RightDescriptors`, `AllEnd`.

*Printers*: `InTurn` (the printer gets nothing that its state does not allow, and each
page complete), `WaitedFor` (nobody returns success before the printer is done, where
it was asked to wait), `JobIdsApart` (a job number differs from those in the printer),
`CopyPromise` (implements `CopyService`), `LoopEnds`.
*D4*: `InStep` (an answer is taken for the command it answers), `OnCredit` (data go out
only on credit), `ExecutedOnce` (implements `D4Channel`), `SessionEnds`.
*PrintFilter*: `FilterPromise` (implements `PrintedDocument`, with its fairness: the
document is sent and the job closed).

### What the failing runs show

* `SoftWeave_short`: `stpi_flush_passes` stops at the first pass number without a
  line. On a strip lower than the distance between two jets, far from the top of
  the page, such a number exists; later passes are then never sent, not even by
  `stp_flush_all`. The weave test knows this error as R.
* `JobList_copies`: with three or more copies, and a page waiting, all copies but the
  first are dropped (`backend_common.c:1879` looks for exactly one).
* `Printers_retry`: the case of the Shinko 6145's loop for a full printer says "Printer Buffers
  full, retrying" (`backend_shinkos6145.c:1780`) and keeps the state; the refusal has by then
  ended the loop as a failure, in `sinfonia_docmd`.
* `PrintPipe_shell`: SIGTERM reaches the shell, not the command it runs; the command
  then prints the part it got.

TLC finds more cases, which have no run of their own: the hitches of the printers (above), the
list with `Ambiguous = TRUE` (above), and three others. With `Documents <-
PanoramaAfterPage` `JobList` violates `EveryCopyPrinted`: the list is full when the third
panel comes, and nobody looks at what `__dyesub_joblist_addjob` returns
(`backend_common.c:1826`). With the strategy `ascending3x`, which no driver offers, the
two switches over the strategies (`SubpassOffset`, `SubpassBlock`) are not the inverse of
each other on pass blocks of five or six rows, so `RawHalvesAgree` fails. With `InsertsBefore = TRUE` `List` violates
`WellLinked`: inserting before an item links it wrongly; no caller does so.

The passing runs leave these cases out: images of at least one head height,
one or two copies, panoramas only where no page can wait, appending only, and for
`NoPartialJobUnlessShell` commands that the shell turns into (the other properties of
`PrintPipe_print` are said of both kinds).

### Fairness

`FairSpec` is weak fairness of the whole next-state relation: driver and backend
are single threads that do not stop by themselves. `BackendEnds` rests on
`main_loop` returning, which some printers' loops do only if the printer answers.
In `PrintPipe` each process is weakly fair by itself, and nothing makes the user kill
the dialog. `AllEnd` takes the print command to end by itself once its input has.
In `Printers` the loop is weakly fair, and the printer is: it works, and faults that a
loop waits for (the Mitsubishi 9550's, those of printers with banks) are mended. In `D4` the session and the printer
are, the latter only as far as it speaks at all. In `PrintFilter` the filter is; nothing
makes the signal come.

## Proofs

`WovenProofs` proves `TypeCorrect`: `Spec => []TypeOK`, for all pages that
satisfy `JobsAssumption`, i.e. whose parameters are numbers of the right sign and
whose weave has parameters for every row asked for, with one end for each pass.
The inductive invariant (`Typed`) adds to `TypeOK` that the page is one of `Jobs`, and
`Control`, the bounds of the loop counters, without which a subpass could be
counted beyond the page's.

It proves further, for all pages that are `Woven` (`WovenWell`: pass numbers
have no gap, and each pass can be sent before the first line of the pass that
needs its bank), that `[]LineInItsPass`, `[]NoLateLine` and `SentInOrder` hold.
`WovenWell` is what the comments of `print-weave.c` say of the weave, so the
theorems say that the softweave's part of the bargain is kept, whatever weave is
put below it; that the weave keeps its own is `RequestsMakeGoodJobs`, below. The inductive invariant `IInv` has these parts:

1. `BanksHoldTheirPasses`: a taken bank holds a pass of its residue, not yet sent,
   for which a line has come;
2. `ReachedPassesWait`: the pass of every line dealt with is in its bank unless
   sent;
3. `SentPassesAreOver`: what was sent had its last row behind it;
4. `NoneHeldBack`: on a row on which `finalize_row` looked for passes, all that
   were over have been sent.

4 is the heart: it gives that a bank is free when the next pass needs it
(`BankIsFreeOrRight`), which with 2 gives `LineInItsPass`; 1 and 2 with the absence of
gaps give that the bank flushed next holds the next number
(`NextBankHasNextPass`), so `SentInOrder`; 3 gives `NoLateLine`. Each action of the
softweave has a lemma of its own.

It also proves the rest of what the softweave promises, for pages that are `Good`:
woven well, and such that `PrintsWell` holds of their weave (the place of a line is the
start of its pass plus the separation times its jet; the jet exists; passes start no
higher than those before; of two lines of a pass and colour, the jets between are
lines of that pass too, or above its first line). Its theorems are `BuffersFit`
(`[]BufferFits`), `CountsMatchRaster` (`[]RasterMatchesCount`), `EveryLineIsPrinted`
(`[]EveryLinePrinted`) and `WeaveImplementsPage` (`PagePromise`). The invariant `PInv`
adds to `IInv`:

1. `BuffersKept`, of each buffer of a pass under way: each line added is at the place of
   its jet, all else is phantoms (`Filled`); its length is what `linecount` says, and one
   more for a line that is added and not yet counted (`Tallied`); it is active if it
   has dots (`Dotted`). `add_to_row`, `initialize_row` and `finalize_row` run
   one after the other over the same lines, so the invariant has three sets of lines,
   `ReachedLines`, `AddedLines` and `CountedLines`, and each loop moves one line into
   the next of them;
2. `IdleBuffersEmpty`, `OnlyDataActive`, `StartsKept`: a bank out of use is empty and
   inactive, and one in use has the start of its pass;
3. `SheetIsSent`: the sheet has just the lines with dots of the passes that were sent, each
   once; `DoneSent`: at the end those are all passes;
4. `PaperAbove`: the head is not below the start of any pass still to come.

`WeaveRowsProofs` proves `RawWeaveAgrees`: `[]RawHalvesAgree` for heads of any size, any
separation and oversampling that `stp_initialize_weave` accepts (`RequestsAssumption`:
positive counts, and `first_line >= 0`, which is rule 2 in a comment of
`print-weave.c`), and any strategy but `ascending3x`, with which it is false. The run
looks at the rows of its pages; the theorem is about every row:

1. `PassExists`: from one band down, some pass of a band prints the row. The subblocks
   visited by one pass after the other are apart by `adv` rows modulo the separation, and
   the greatest common divisor of the two is the height of a pass block, a sum of
   multiples of both (`Bezout`, by the least positive one), so the passes come to each
   pass block;
2. `RawPassIs`: the search takes the latest such pass, and therefore the jet is less than
   a band away (`reach < BandRows`), i.e. one of the head: else the pass one band later
   would do too;
3. `OffsetOfBlock`: what `SubpassBlock` makes of an offset, `SubpassOffset` undoes,
   with each strategy; `HalvesAgree` puts the two formulas together by the quotient and
   remainder of pass and row, which are unique (`DivisionIs`).

On it rests the rest of `WeaveRowsProofs`, which is about the page maps: that passes at the
margins may be cut, sorted, spread, pulled back and renumbered and the weave is still one.
For all heads, margins, head offsets and strategies but `ascending3x` it proves

| Theorem | Property | for images |
|---|---|---|
| `LinesOnTheirJets` | `[]RowOnItsJet` | at least one head tall, that end on the page |
| `PassesAgree` | `[]PassAgrees` | at least one head tall |
| `LinesStayApart` | `[]LinesApart` | at least one head tall |
| `PassesStartForward` | `[]StartsForward` | one jet separation taller than the head |
| `BanksAreFree` | `[]BankFreeInTime` | at least two heads tall |
| `TallImagesWeave` | all five | at least four heads tall, that end on the page |

The first five also need `MapsApart`: that `calculate_pass_map` does not let the map of the
top run into that of the bottom, which a FIXME there (`print-weave.c:535`) leaves open.
`TallImagesWeave` needs no such thing: on four head heights they never meet (`TallApart`), so
the FIXME is about strips only. These hypotheses are not empty: all pages of
`WeaveRows_pages` that are two heads tall, and others, are `Regular`, which `MCWeaveRows` has
TLC evaluate (`PagesAreRegular`). Nor are they idle: TLC finds `BankFreeInTime` violated on
an image of one and a half heads (4 jets, separation 4, 24 rows), so that
something must be asked of the image's height (rule 4 of the file's comment,
`print-weave.c:961`, asks two heads of the page, which says nothing of the image on it).

The invariant, `TableOfPage`, only says that `row` is a row of the page and `table` its
`WeaveTable`; the work is in what that table is:

1. `RowIs`, `NextBand`, `SamePass`: a row's jet lies on it; a band further down the passes are
   the same; of the passes of a subpass only one has a jet on a row;
2. `ScansAre`: where the loops of `calculate_pass_map` stop. Their functions are defined by
   recursion without a bound; a pass that stops the loop exists, as the passes go down the
   page a band at a time, so the least one is the answer;
3. `SortIs`: what the stable sort returns has each entry once (places are got by counting those
   before) and in order. `MapIs`: `invert_map` is the inverse of this permutation, whatever
   was spread; `PassMapIs` puts the two maps together;
4. `TopPasses`, `BottomPasses`: where on the page each pass of a map is put, and its number. A pass
   that is pulled back stays near the edge of the page (`TopEdge`, `BottomEdge`), so that
   the jets it loses are outside of the image, and its number is not far from its
   place in the raw weave;
5. `PassFacts`, `PassNumbers`, `PassOrder`: of any two passes, from the maps or from the
   middle: apart in number, in order of start. Across a seam the passes that the spread ones
   displace have joined the map, which is why `calculate_pass_map` widens it;
6. `LineIs`, `LineOnJet`, `Repeats`, `BanksOf`: from passes to lines, and from lines to banks.
   A pass of the same bank is at least `vmod` passes later, and so many passes take the
   head two head heights and the colours' lag down the page.

The two halves meet in `RequestsMakeGoodJobs`: what `stp_initialize_weave` keeps of a request
(`JobOf`) satisfies all that `JobsAssumption` and `Good` ask of a page, so on such jobs the
theorems of `WovenProofs` hold without hypotheses. It is about images two head heights and
one separation tall, `Regular` and with `AllRows`: no pass is repeated, and the driver has data for
a colour that does not lag and for the one that lags most, by no more rows than the image
has. `TallRequestsMakeGoodJobs` says the same of images four head heights tall, `Regular` or
not. The steps:

1. `NumberBound`, `NumbersFill`: the numbers of the page's passes are apart and below the
   count of the passes, so they are all the numbers below it;
2. `HasLine`, `PageLine`, `Covered`: each pass of the page has a jet on a row of it, that line is
   its own, and a colour with data comes to that row; so the passes that have lines are those of
   the page (`FedPasses`), consecutive (`FedNumbers`);
3. `RoundBefore`, `PassEndIs`, `FedInTime`: of a pass that is given a bank for the second
   time or later, the raw pass one round of bands above is on the page too; it ends on a row of the
   image above all lines of the pass, and all passes that must have been sent by then
   come before it in the raw weave, so they have ended;
4. `LineTyped`, `JobWeaveFits`, `NoGap`, `JobPrintsWell`: the rest, from the theorems above.

`MCWeaveRows` has TLC evaluate that the hypotheses hold of its pages with lagging
colours (`PagesMakeGoodJobs`).

`PrintPipeProofs` proves `JobsAreWhole`: `[]NoPartialJobUnlessShell`, for jobs of any
length and any descriptors that the dialog has open (`PipeAssumption`). Its `IInv`
has, besides the property and the shapes of the variables:

1. `NothingYet`, `OwnNumbers`: until the first fork the parent has its standard
   descriptors; the numbers `pipe` gave are apart from each other and from those, so
   that no `close` hits the wrong one. They rest on `pipe` taking the lowest free
   number, hence the lemmas on least elements and finite tables;
2. `MonitorHolds`, `CommandHolds`: as long as the monitor watches it has the writing
   end of the job's pipe, and the command has the reading end as its input. That is
   what keeps the command from seeing an end when the parent is killed;
3. `Arrives`: what was written is what was read and what is in the pipe;
4. `SignalLast`, `Watched`: the parent's signal comes after the whole job, and before it
   the monitor watches each command that may print. So the last writing end goes
   when all was written, or after the command was killed.

It also proves the other invariants of the pipeline under the same assumption:
`DescriptorsAreRight` (`[]RightDescriptors`), `ErrorsAreSeen`
(`[]ErrorsSeen`) and `PipeTypes` (`[]TypeOK`). Its `JInv` adds to `IInv`:

1. `Tables`: what each process has under the numbers it will use. The crux is in
   `CommandTable`: the monitor has closed `syncfd[0]`, so that number is free when the
   command calls `pipe(errfd)`, and `errfd[0]`, the lowest free one, is at most that,
   below both numbers of `pipefd` (`FirstIsLowest`). Therefore the second
   `close(pipefd[..])` of the error monitor never hits the end it reads from, though it
   may hit `errfd[1]`, which it closes anyway;
2. `Talk`: who descends from whom, and `Quiet`: the error monitor goes only when nobody
   can speak any more. `Settled`: the parent returns only when it has gone, or when
   there is nobody left who could start it, as all of those hold `syncfd[1]`.

`FilterProofs` proves for all streams of `Printable` pages (`StreamsAssumption`: whole
bytes to a pixel, a raster as wide as the printable area, a picture that is not
empty) and all drivers (`DriversAssumption`): `FilterTypes` (`[]TypeOK`), `StaysInStep`
(the stream is at the end of a page whenever a header is read),
`RowsInTheirPlaces` (line y of a page printed row by row shows the row that
y * height / lines rounds down to) and `FilterKeepsPromise`, that the filter
implements `PrintedDocument` but for its fairness. Its `IInv`:

1. `ByRows`: the layout of the page fits its raster (`LayoutIsSound`, which is arithmetic
   over `RasterPage`), and the place in the stream is that of row `row`;
2. `Stored`: a page in memory has its rows in order;
3. `Divided`: Bresenham's remainder, `line * n + val = y * height`, and no row was read
   that is still to be asked for; without the second a row that the stream has passed
   could be asked for, which `Image_get_row` answers with its last one;
4. `Counted`: as long as nothing was cancelled, the printer has a page for each one done.

For `FilterKeepsPromise` the invariant `RInv` says beside it what was sent:

1. `Planned`: the pages done verify, and so does the one under way, so that it is the
   next page of the document. The accepted pages are those before the first refused
   one (`AcceptedFirst`, by a least element), so `stp_end_job` may go by the last page;
2. `Bracketed`: the start of the job was printed if the document has it, the end not yet;
3. `Papers`: the first y lines of the page under way are on the newest paper, and each
   page before it is whole, unless there was a signal;
4. `Signalled`: after a signal lines go on only on the page that it hit. A later page
   kept in memory ends when its first row cannot be got, and one printed row by row
   at its first line, which never repeats a row.

`ShownIsSent` and `PlacedLines` are about the blocks of `dyesub_print_plane`: first and last
line that are sent are the ends of the blocks the picture touches, and `PlanesOfPage`
that each line sent is the row it should be, or blank.

`PrintersProofs` proves for all nineteen loops, for any number of copies and of troubles and
all hitches but three (`CopiesPlain`: the two of the Mitsubishi 70x and the one of the
D90, with which TLC finds the copies wrong), also those that the run leaves out:
`PrintersTypeOK` (`[]TypeOK`), `PrintersJobIdsApart` (`[]JobIdsApart`) and
`LoopsKeepCopyPromise` (`CopyPromise`: the loops implement `CopyService`). The heart of its `CInv` is `CopiesAddUp`: the copies given are
those that no round is left for, and one more (or all, if the printer makes them) when
this round's page has been given; where that is depends on `state` only
(`PageGiven`), unless the deck it went to has lost it (`CopyLost`), and a copy given after
SIGTERM is of the last round. That main_loop will see a lost copy, and no other, is
`Waited`, a part of `DeckTurn`: while a copy is lost its deck shows an error or an abnormal
end, and a deck of two that shows an error while it is waited for has lost its copy. So
the two are one invariant, `CopiesInv`. Every step
of every loop is shown to be one of seven `Move`s (it goes on, gives up, gives the page,
ends the round, and so on; `PlaneMoves`, `SpoolMoves`, ... one lemma for each module);
what a `Move` does to the invariant and to `CopyService` is then proved once.

`PrintersInTurn` (`[]InTurn`) and `PrintersWaitedFor` (`[]WaitedFor`) say what each printer
is sent and when, for all hitches but five (`Unhandled`): those three, on whose counts the
proofs build, and the rewound copies of the DNP printers and the resting Mitsubishi 9550,
with either of which TLC finds `InTurn` violated. Their invariant `Turn` has a part for each kind of printer, and each part relates
three things that move apart from each other: where the loop is, what it read, and
what the printer has become since.

1. `PlaneTurn`: the printer is at the item the loop is at, or still works on the one
   before, and then the loop waits for it (`Waits`); a status that is not busy is
   not out of date. `HitiTurn` has besides the plane that is to be sent again.
2. `SpoolTurn`: what was given is printed but for the page the printer works on, and an
   idle status means an idle printer.
3. `BankTurn`: a bank that was seen empty is empty (`BanksSeen`); what is left in a bank
   of ours and what is printed make up the copies (`OwnBanks`), and the number of the
   job is in no other bank (`NumberFree`). The latter is `FreeNumber`: of five numbers in
   a row one is not in the four banks, by counting, and `MaxJobId > 4` keeps the five apart.
4. `DeckTurn`: a deck that was seen empty is empty; while the memory is waited for, no
   deck prints any copy but the one before; and `Waited`, above.
5. `DnpTurn`: the printer never holds more pages than were read; both buffers are waited
   for when the overcoat changes; what is printed and what is held (`Held`) is what was
   given.

`D4Proofs` proves for any number of commands and of troubles `SessionTypes` (`[]TypeOK`)
and `AnswersInStep` (`[]InStep`). Its `DInv` is `Shape` and `Tidy`:

1. `Shape`: what packets there may be, which command each place waits for (`Waits`), and
   `Rounds`: each round of `askForCredit`'s outer loop costs a retry, so that rounds and
   retries left are nine at most, and the last round begins with none left;
2. `Tidy`, of a printer that answers in time or never: while a command is waited for, it
   or its answer is on the wires and nothing else (`Asking`); while data are, what comes
   is the answer, perhaps behind another packet, or one error, and `_readData` has tries
   enough for it (`Reading`); elsewhere the wires are empty (`Still`), and the printer has
   nothing to say that credit could set free (`Mute`), unless the channel is being closed.

`Mute` is the crux: the credit for an answer is given before the command is sent, and if
something were left to be said then, it would come in front of the answer to the credit
command, as a comment in `writeAndReadData` says.

The rest of `D4Proofs` proves for any number of commands what holds up to a number of
troubles, and for which number:

- `CommandsExecutedOnce` (`ExecutedOnce`): the session implements `D4Channel`, with a
  punctual printer whatever troubles there are, and with any printer up to five. Its
  `OInv` adds to `DInv` `Once`: a command is on its way, once, and not executed
  (`Waiting`), or executed and its answer is with the printer or on the wire, once
  (`Served`); and `Budget`: each packet on the wires that is not the one waited for
  was a trouble, so that five do not make `writeAndReadData` run out of tries and take
  a packet of the wrong kind. TLC finds none with six either, but does with seven;
- `CommandsOnCredit` (`OnCredit`): a punctual printer gets a command only on an open
  channel and for credit that it gave, up to ten troubles. Its `Plan` keeps the books
  of `askForCredit`: retries left and troubles together (`Spent`) never fall below a
  number that depends on the place, on whether the channel is open under the number
  the session has for it (`Good`), and on what has become of the command on its way;
  a round that ends without credit was a trouble's doing, also where the channel is
  renewed (`Renews`) or found open and closed again up to five times (`Opens`).
  Eleven troubles are too many: TLC finds the command sent without credit.

`JobListProofs` proves for all documents, of any length and with any copies, and with
`combine_jobs` refusing whatever it likes: `ListTypes` (`[]TypeOK`) and
`NothingFreedIsUsed` (`[]DataAreThere`): the print data of every job in the list and of
every job to be added are allocated and are no other job's, so nothing is printed or
combined after it was freed. For `Modest` documents, those without the cases of the two
violations (at most two copies of a page, panoramas only where no page can wait),
`ModestOwnedOnce` adds that none are forgotten: `[]DataOwnedOnce`. The three appends
are shown to be instances of one, `Appends`: what stays of the list, what comes for the
first job, what is freed. The invariant of the first two theorems is `Shaped` (types,
at most three entries), `Places` (what there is at each place of the loop) and
`DataAreThere`; the last one adds `NoneForgotten` and `Room`: when jobs are to be added
the list has room for all of them, which is where a document must be modest.

`ModestInOrder` is the refinement: of modest documents the job list implements `PrintQueue`
(`InOrderAll`), so that what was printed is at all times the front of what was read, each
copy once and in its order. Its `QInv` adds to those `InOrder`: what was taken in is what
was printed, what the list still shows (`Rest`, from the copy and the entry being printed
on) and what the jobs to be added show (`Shown`), one behind the other. Sharing a sheet
moves pages between the last two parts and leaves the whole as it is; `AppendInOrder`
says so of all three appends at once, and `RestStep` that a printed sheet comes off the
front. A list of three is short enough to unfold `FlattenSeq` (`FlattenIs`), so no
induction is needed.

`MCJobList` has TLC evaluate `Modest` on the documents of the passing run.

`ListProofs` proves for lists of any length, into which nothing is inserted before an item
(`~InsertsBefore`, as with all callers; else `WellLinked` fails), `ListTypeOK`
(`[]TypeOK`), `ListWellLinked` (`[]WellLinked`) and, if no name is looked up that several
items have (`~Ambiguous`; else it fails), `ListIsItemList` (`IsItemList`).
Its `IInv`:

1. `Linked`, of the sequence `Order`: its items are those allocated, each once, and `start`,
   `end`, `next` and `prev` lead from each to its neighbours;
2. `IndexCached`: an item in the index cache is the one at the index cached with it. A
   look-up that fails may leave an index without an item there, but only -1, 0 or the
   length, and from none of these does the code begin a walk at the cached item;
3. `Typed`: the name cache and the answer are of items allocated. Of the name cache no more
   is needed, as the code compares the name again before it answers from it.

The walks and `Order` are recursive functions, and induction over them is out of the
prover's reach. Instead a function is written down without recursion (where the walk is
after k steps), it is shown to satisfy the recursive equation, and `SameFunction` says that
no other does: two solutions would differ in a least place (`LeastMember`). `WalkEnds` is
what follows of a walk by index, `SearchFinds` of the search by name, `FoundAt` of all the
cases of a look-up by index. What an operation makes of the sequence is said by
`CreateAppends`, `DestroyTakesOut`, `SetDataRenames`, `ByIndexRight` and `ByNameRight`.

TLC checked each part as an invariant of its run before it was proved.

`MCSoftWeave` has TLC evaluate `PagesAreWovenWell` and `PagesPrintWell`, the hypotheses of
the theorems, on all pages of the run `SoftWeave_pages`; the assumptions on the constants of the other models
(`JobsAssumption`, `StreamsAssumption`, `PipeAssumption` and so on) are evaluated by
the runs that extend them.

Only model-checked: the fairness in `FilterPromise`; the five properties of `WeaveRows`
and that a page's job is `WovenWell` and `PrintsWell`, on images lower than their theorems
say.
Liveness (`PageEnds`, `BackendEnds`, `AllEnd`, `LoopEnds`, `SessionEnds`) is beyond the
prover.

## Not modelled, and why

Bits of a line (compression, folding): pure data. Phantom lines at the bottom of
a pass: the driver fills by count. Colours without data on heads with offsets: the
drivers hand over all colours then, as flushing would stall. USB, CUPS and GTK:
libraries.

Most of the code are tables and the syntax of commands, and no model stands for
them: the media, ink and mode tables of `print-canon.c` and `canon-*.h`,
`print-dyesub.c`, `print-pcl.c`, the XML files; what each driver writes before and
after a page. A wrong entry is wrong in any model made from it. So the models map
only a few per cent of all lines, though most of the code that keeps state over
many steps is among them.

Curves, sequences and dithering (`curve.c`, `sequence.c`, `dither-*.c`) are numerical:
their results are floating-point numbers and images, and whether they are right is a
matter of quality or of rounding, about which TLA+ has nothing to say. Parameters
(`print-vars.c`) are lists of named values with setters of one line each; what is
hard about them, the list with its caches, is `List`. The bit operations
(`bit-ops.c`) are pure functions of the bytes of one line. The dialogs and the GIMP plug-in run
callbacks of a toolkit one at a time, and keep what their widgets show.

## Plan

Done: weave and softweave, the job list, the list, the print pipeline, the loops of all
dye-sublimation backends, IEEE 1284.4, the raster filter and the loops of the drivers,
each with theorems.

Left, in the order of what they would add:

1. Copying and activity of parameters in `print-vars.c`, the cached forms of a curve.
2. A raster of one bit, whose pieces are rounded up to bytes each.
