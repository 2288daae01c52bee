# Verification of the nbbq data-acquisition driver

`nbbqdrv` is a Linux character device that reads a physics experiment out of
VME modules.  A trigger sets a busy latch (the *veto*) and makes digitizers
convert an event; a digitizer interrupts; the handler reads all modules into
one half of a double buffer and takes the veto off; when a half is full it is
handed to the acquisition client, which polls and reads it, and the handler
goes on in the other half.  The client stops the run with an ioctl.

This directory holds TLA+ models of the driver, TLC runs on small instances and
TLAPS proofs for all values of the constants.  Line numbers below are those of
the repository.

## Inventory

| component | files | state | operations |
|---|---|---|---|
| driver core | `nbbqdrv.c` | `startflag`, `stopflag`, `chkblk`, `chkbuff`, `drn` | interrupt handler, open, release, read, poll, ioctl STOP / EI, module load |
| block builder | `bbrl.c` | `data`, `dn`, `mp`, `eventid`, `eventhmp`, `segmentsize`, `eventsize`, `mpflag` | `init_mem`, `chmem`, `init_/end_` of block, event, segment; `dmasegdata` |
| user routines | `evt.c`, `startup.c`, `stop.c`, `clear.c`, `sca.c` | none of their own | one event; start and stop of the modules; end of the veto; scaler block |
| MADC32 | `madc32.c` | registers; one event | start/stop, `fifo_reset`, `readout_reset`, `segdata` |
| CAEN V1190 / V7XX / V560 | `babirldrvcaen.c` | registers; a queue of events | `v1X90_segdata`, `v7XX_segdata`, scaler reads |
| V1190 scripts | `init/*.sh` | the module's set-up | set-up through the micro register, soft clear |
| LUPO | `lupo.c` | busy latch, pulses | `lupo_pout` |
| other block formats | `bbdaq.c`, `iwadaq.c` | as `bbrl.c`, no events | blocks, segments, CAMAC readers; not selected by `bbmodules.h` |
| CCNET | `mkccnetsegment.c`, `ccnetevt.c` | command and segment lists | generate, execute, interpret |
| DMA | `univdma.c`, `univfunc.c` | DMA handle, mapped pages | map, read |
| V785/775/792/767, SIS3300, RPV130 | `v*.c`, `sis3300.c`, `rpv130.c` | registers | readers |

Interaction.  The handler and the client's system calls share all the flags of
the driver core, `dn`, `mpflag`, the bridge's interrupt mask and the busy latch;
there is no lock.  The only protection is the interrupt mask: the handler masks
while it works, and keeps the mask and the veto while both halves are full.
The handler calls `evt`, `end_block`, `sca`, `clear`; open calls `startup`; STOP
calls `end_block`, `sca`, `stop`; read calls `clear`.  The client is the
`nbbqcom` program, which is not in the repository: it is taken to read only
after a poll that reported data, which is what poll is for, and to be the only
one, except in `Lifecycle`.  The readers of modules that `evt` does not call in
this build, the other two block formats and CCNET are alternatives the sources
hold for other experiments; they share `data`, `mp` and the size counters with
`bbrl.c`, so whoever includes them relies on the same rules.  The set-up scripts
run by hand while the device is closed.

What is hard here: `chkbuff` is updated by both sides with loads and stores; a
read enables the interrupt before it has counted the half it freed; what
unmasks a full buffer is a *read*, so a block that poll does not report stops
the run for good; STOP must close a half-filled block that the handler may be
about to close itself; the interrupt line is requested as shared; the modules
that keep events over a STOP are not the ones `startup` resets; a DMA that was
given up goes on by itself; CCNET's list is compiled in one place, executed in a
second and taken apart in a third; a controller that is not ready loses what is
written to it.  `PROJECT.json`
lists these hazards at their lines with the properties that cover them.

What makes each component correct:

* driver core: no finished block is overwritten before it is read, halves are
  read in the order they are filled, every finished block is reported and read,
  a veto always has someone who will end it, STOP's answer is right and STOP is
  final;
* block builder: no event is lost, repeated or moved between blocks; words fit
  the half; a block can be read back;
* user routines and modules: the parts recorded as one event belong to one
  trigger, and what a run leaves in the modules does not reach the next;
* readers: one event from its header to its end, the buffer left at the border of
  two events, the right samples of the ring, and sizes that count what was stored;
* block formats: the sizes lead from segment to segment and to the end;
* CCNET: the words direct reads would have left, and an intact structure even
  when replies are missing;
* scripts: a module whose script ran to its end has its settings, and the V1190
  of an opened device is behind its script.

## Modules

| module | models | uses |
|---|---|---|
| `BlockChannel` | abstract promise: events cut into blocks, at most two waiting, first in first out | |
| `Nbbqdrv` | handler, client calls, block builder, busy latch (DBUFF, VMEINT) | instance of `BlockChannel` as `Channel` |
| `NbbqdrvUP` | the assumptions under which the design holds, and the inductive invariant `IInv` | extends `Nbbqdrv` |
| `Nbbqdrv_proofs`, `NbbqdrvUP_proofs` | theorems and proofs | extend these two |
| `Channel_proofs` | the driver implements `BlockChannel` | extends `NbbqdrvUP_proofs` |
| `BlockFormat` | the words of a block: sizes written back, END words, scaler words, the two halves in memory | |
| `BlockFormat_proofs` | its theorems | extends `BlockFormat` |
| `Readout` | one trigger, three digitizers, over runs: `startup`, `evt`, `stop` | |
| `V1190Setup` | a set-up script and the micro controller of its module, write by write | |
| `Crate` | `Readout` with a script followed word by word beside it | extends `Readout`, instance of `V1190Setup` |
| `Crate_proofs` | its theorems, those of `Readout` and `V1190Setup` included | extends `Crate` |
| `Lifecycle` | `Nbbqdrv` with a second client | extends `Nbbqdrv` |
| `OutputBuffer` | a digitizer's queue of events, word by word (external) | |
| `WordReaders` | 13 readers that fetch an event with `vread32` | extends `OutputBuffer` |
| `WordReaders_proofs` | its theorems | extends `WordReaders` |
| `DmaReaders` | the readers that use the bridge's DMA, with timeouts | extends `OutputBuffer` |
| `MemoryReaders` | SIS3300's ring, MADC32's windows, the page arithmetic of `mmp` | |
| `Readers` | one of the three at a time | extends `WordReaders`, instances of the others |
| `Readers_proofs` | theorems about `DmaReaders` and `MemoryReaders` | extends `Readers`, `WordReaders_proofs` |
| `CamacBlocks` | the formats of `bbrl.c`, `bbdaq.c`, `iwadaq.c` and every reader of a segment | |
| `Ccnet` | `mkccnetsegment`'s lists, executed and interpreted, beside direct reads | |
| `Camac` | a build with a bridge or one with CCNET | instances of the two above |
| `Camac_proofs` | its theorems | extends `Camac` |
| `MC...` | the constants of the TLC runs | |

### Nbbqdrv

Actions beginning with `H` are the handler, with `U` the client's calls;
`Trigger` is the electronics.  The program counters `pcH` and `pcU` say where
each is.  A call is split between two accesses that the other side can tell
apart, and the compound assignments `chkbuff++` and `chkbuff--` into their load
(`regH`, `regU`) and store, which is how they are compiled.

| code | actions |
|---|---|
| handler, `startflag` test (451-466) | `HRefuse` |
| `init_block`, `chkblk = 1` (486-489) | `HBegin` |
| not our interrupt (556-562) | `HNotOurs` |
| mask (490-503), `evt()` | `HMask`, `HEvt` |
| block goes on (538-555) | `HGoOn` |
| block ends: `end_block`, `sca`, `chkbuff++`, `chmem`, unmask (505-538) | `HEndBlock`, `HPublish`, `HChmem`, `HUnmask` |
| open and `startup` (255-294) | `UOpen`, `UStart`, `UModules`, `UGo`, `UEnable` |
| poll (431-438) | `UPoll`, `UPollLook`; the kernel's loop: `UWake`, `UTimeout` |
| read (313-349) | `URead`, `UCopied`, `ULoad`, `UFull`, `UClear`, `UReload`, `UStore` |
| STOP (352-402) | `UStop`, `UFlags`, `UEndBlock`, `UPublish`, `UStopModules` |
| release (296-311) | `URelease`, `UClosed` |

Data is abstracted to what the properties tell apart: an event is its number
and its size in words, a half is the sequence of the events written to it and
an `End` mark.  `mp` counts words, because `MAXBUFF` is compared with it at two
places with different operators (`evt.c:35`, `nbbqdrv.c:505`).  `fifo` and `win`
are history variables: the finished blocks not yet read, as they were when they
were finished, and the words recorded since a read loaded `chkbuff`.

`HEvt` is one step: with the interrupt masked nothing of the client can tell
its parts apart on one processor; on two (`smp`) the properties that could are
not claimed.  Events are taken to fit the half (`MAXBUFF < BLKSIZE/2` and no
event longer than what is left); what that takes is the subject of `BlockFormat`.

`WindowWords` makes a timing assumption explicit: how many words of events may
be recorded while a read is between its test of `chkbuff` and the store of
`chkbuff--` (a few instructions and two register writes).  With 0 nothing is
recorded there; with one event the lost update below appears; with less than a
block, still no data is damaged.

### BlockFormat

One action per function of `bbrl.c` (`InitBlock`, `InitEvent`, `InitSegment`,
`EndSegment`, `EndEvent`, `EndBlock`, `Chmem`), in the order `evt` and the
handler call them; `Reader` is a whole `madc32_segdata` or `v1X90_segdata`, of
which only the number of words matters here; `Sca` is the jump of `mp` to the
scaler words.  `databuff` is one array, as in the code, so that a store past one
half is seen in the other; a store past the array is dropped.  `events` is a
history variable, what the block should hold, and `Parsed` (with `Segments`) is
a reader that knows nothing but the size words.  The client is taken to read in
time; that it does not get overtaken is what `Nbbqdrv` is about.

### Readout

`Trigger`, `ConvertMadc`, `ConvertTdc` are the electronics; `Open` ... `Pulse`
follow `startup`, `Interrupt` ... `Veto` follow `evt`, `LeaveRunning`,
`LeaveMasked`, `Read` are the ways the veto of a full block ends, `Stop`,
`StopModules`, `Release` end a run, `RunScript` is `init_v1190.sh`.  The
driver's buffers are reduced to whether both halves are full, left open by the
model (`\E full`).  `Next` is `RunScript` or one of the other actions (`Drive`).

Triggers come whenever the veto is down, before, during and after a run, and the
modules finish their conversions in any order.  Two things then put a run out of
step which nothing in the code prevents.  `startup` opens the veto before it has
started the MADC32 (`startup.c:17`) and once more at its end (101): a trigger in
between, or one between the script and the open, leaves an event in the V1190 that
no MADC32 keeps.  And the interrupt tells of the first MADC32 alone: `evt` may read
another module while it converts.  The history variable `disturbed` is set when one
of the two happens, and back to 0 by the script.  `Aligned` and `NoMultiEvent` speak
of the runs that are not disturbed; so they also say that script and `startup`
together put right whatever an earlier run, disturbed or stopped at any moment, has
left behind.

### V1190Setup and Crate

`Writes` is the sequence of words a script writes to the micro register, an
opcode or an operand each; `line` is the next of them.  `ChkReady`, `ChkBusy`,
`ChkTimeout` are `chk_status`; `ChkBlind` is a status read that fails, which the
shell test takes for ready: from then on the settings are in doubt and not
followed.  `WriteMicro` is a write.  The controller (`micro`, `want`) is
external: it is busy after each word until `MicroReady`, loses words meanwhile,
and takes the word after an opcode with operand for the operand, whatever it is.
Words differ in what they set, not in their bits, so that an opcode whose bits
are 0 is not told from one that is not.  A script that gave up leaves `want` as
it is; `init_v1290.sh` resets its module first, `init_v1190.sh` does not, but
writes its first opcode twice (`Repeated`).  If the first write is taken for an
operand that was awaited (`awaited`) the second sets the trigger mode, unless it
comes while the controller is at work on the first (`lost`; the second write is
not preceded by a look at the status): this is the only case in which `AllSet`
lets a setting be missing, and the only one in which the code does.

The two scripts are for two modules: `init_v1190.sh:4` has 0xee0d0000, the address
`V1190_ADR` that `evt()` reads (`bbmodules.h:19`), `init_v1290.sh:4` has 0x52000000.
A behaviour of `Crate` follows one of them (`file`).  With `init_v1190.sh` its last
line is `RunScript` of `Readout`.  `init_v1290.sh` changes nothing of the V1190 that
is read, whose own script is then the one step `OtherScript`.  The device is opened
only when no script runs.

### Lifecycle

`OpenFirst` and `ReleaseLast` are `UOpen` and `URelease` with the module count
that the empty macros do not move; `OpenAgain` and `ReleaseOne` are the same code
when a client is there already.  Calls of the two clients do not overlap.

### Readers

`OutputBuffer` gives a header, data and an end word for each event and a filler
when it is empty.  In `WordReaders` a reader is a record: who writes the size,
how many words at most, which words end the loop; `First`, `Loop` and
`EndSegment` are the steps of all thirteen, one word each, and `Event` may come
between any two.  `v785_segdata` counts its address up by 32 for each word, which
stays in the window that shows the same FIFO.  `SetClear` and `Unclear` are the
two writes of `v7XX_clear`.

The loops' limits are taken to leave room for the longest event
(`WordsAssumption`).  The exit of `v1X90_segdata` at 10001 words
(`babirldrvcaen.c:154-157`), which leaves the rest of an event in the module, is
therefore not in `WordReaders`, and `InStep` and `OneEvent` say nothing of it; what
an event of that length does to the buffer is the run `capacity`.

`DmaReaders`: `Start`, then `Finish` or `Timeout`; `Fetch` is the engine, which
knows nothing of a timeout.  A start while the engine is at work may be lost, the
answer to it being that of the old transfer.  `stoadr` and `staadr` are the scan of
`v785_dmasegdata`.  `data` is the half as halfwords, each known by the word it
belongs to, or `Stale`.  The three readers copy bytes, move `mp` by halfwords and
count `segmentsize` each in statements of its own and from numbers of its own
(`vsize`, `csize` and `rsize`, `size`); they are written out as three definitions,
so that `SizesRight` compares three things the code computes apart.  `clean` records
whether the reader began with one whole event and an idle engine.

`MemoryReaders` are three pieces of arithmetic with a loop around two of them:
where the ring wraps, which words of `buff` the windows fill (`written`) or give up
(`missing`), how many pages are mapped.  Every window but that of a depth below
one is full-size, the last too (`madc32.c:262-263`): a depth that is more than a
window and not whole windows overruns `buff` to the end of the last window.
`WindowsCover` says that every word asked for has had its turn, once, and how far
the writes go (`Reached`).  The value that is returned counts windows given up as
well; the code has no other report of them.

### CamacBlocks, Ccnet and Camac

`CamacBlocks` has an action per function; `format` says which file is included,
and what differs between the files is in the actions side by side.  Readers
differ only in how many words they store and count (`Read`), or write a segment of
their own (`Segment`).  The values read are one mark, `Value`: only sizes matter.

`Ccnet`: the `mk_` actions are the calls of a user's `ccnetsegment.c`, each
leaving an entry in `segcmd` and commands; `ccnetstartup` loads both lists, again at
every open; `Recseg`, `Entry`, `Return` are `ccnet_recseg`, with any number of
replies.  Beside each entry the same call is read directly into `dir`, as
`bbrl.c` would do it.  Commands are taken to fit in the list (`gen + n <= Cmdlen`
in `Compile`): neither `mkccnetsegment.c` nor `ccnetevt.c:29-33` compares their
number with `CMDLEN`, and what a list that overflows does is left out.  A value
is the event and the number of the command it was read by, so a value of another event or command is seen.

## Runs

| run | instance | shows |
|---|---|---|
| `single` | one processor, own line, window of one event | safety, refinement of `BlockChannel`, `IInv` |
| `quiet` | as `single`, empty window, fairness | exact count, mask iff full, liveness |
| `stall` | as `single`, fairness | **violation**: the veto of a run may never end |
| `closed` | shared line | **violation**: the handler of a closed device goes on |
| `smp` | two processors, shared line | no missed wake-up with racing updates and foreign interrupts |
| `format` | room for exactly the largest event, data that looks like marks | blocks can be taken apart; no store leaves the half |
| `capacity` | the sizes of `bbmodules.h` and `common.h` | **violation**: an accepted event overruns its half |
| `aligned` | `init_v1190.sh` run in full before every open, slow controller; triggers at any time | the modules have their settings; the three digitizers stay in step in every run that is not disturbed |
| `leftover` | no script | **violation**: events of the last run in the next |
| `readers` | all readers, short loops, ring of 6, pages of 4 | one event, in step, sizes right; ring, windows and pages; events below the loops' limits |
| `camac` | three formats; every list of up to 5 calls and 3 commands (that fit) | sizes lead on; CCNET equals direct reads |
| `inuse` | two clients | **violation**: a second open is let in |

Bounds.  `MaxBuff = 8`, a header of 4 and events of 3 or 4 words (`MCEventSizes`
of `MCNbbqdrvUP`): after one event a block has 7 or 8 words, below and exactly at
`MAXBUFF`, after two it is over, so both comparisons of `mp` take both values.
`WindowWords` is 0 (nothing is recorded in the window), 3 or 4 (one event is).
`Ids` numbers tell a block that was overwritten or repeated from the right one:
two finished blocks of two events, one being filled and an event waiting are
fewer than 7 events, so 7 are enough in `single`, `quiet` and `stall`; `smp`, `closed` and `inuse`, whose properties do not look at numbers, use 1 and
events of 3 words.  The number of runs, reads and stops is not bounded: the state
space is finite by itself, except in `smp`, where `chkbuff` can run away from
the blocks it counts; `MCBound` cuts there at two waiting blocks and a count of
3, one more than the driver means to reach.  In `format`, `MaxBuff = 13` and segments of 0 or 2 words let an event begin
exactly at `MAXBUFF` and, with `Half = 32`, fill the half to its last word; three
blocks of a run (`MaxBlocks`) write each half, and one of them twice.
In `Readout`, `MaxQueue = 2` stops
triggers when the V1190 holds two events, one more than `NoMultiEvent` allows, and
`Ids = 3` tells the event before and the event behind from the right one.  In
`Crate`, `MaxTries = 1` lets a poll succeed at once, or give up; `LeftOut` drops
settings that are written in the same way as those that stay.

In `readers` an event has up to 2 words of data, the loop limits are 4, 5 and 6
(exactly what an event needs, and more; 34, 256 and 10001 in the code), and
`Rsize = 4` is the largest event: a DMA of a shorter one runs into fillers or the
next event.  The module holds 2 events and numbers are 1..3, so that three
different events meet.  The ring of 6 with reads of 0 to 4 samples has every
trigger position, so it wraps at both ends and in the middle of a read; depths lie
below, at and between multiples of the window of 3, so that the last window is full,
and is not; the areas of `mmp` begin at
each offset of a page of 4 and end before, at and behind a border.

In `camac`, `Top = 16` words hold one event of two segments or two short events,
and two blocks are enough for what a first leaves behind (`eventsize`,
`segmenthmp`).  Five calls with three commands make every list of one segment with
three calls in it, and two segments with one.  Two events tell a stale reply from a
fresh one, and the lists can be loaded again at any time.

Fairness (`FairSpec`): an unmasked request is served and a handler or call that
has begun goes on (a processor runs), and the client polls and reads again and
again; strong, because a client that is interrupted between two polls still
comes back.  Triggers, timeouts, STOP, open and release are never forced.

### What the violations show

* `inuse`, `nbbqdrv.c:257`.  `MOD_IN_USE` is `module_refcount`, but on a 2.6
  kernel the macros that should move it are empty and `nbbqdrv_fops` has no
  `.owner`: an open of a device in use returns 0 instead of `-EBUSY`, and resets
  `chkbuff`, `dn`, `drn` and the buffer under the first client.
* `stall`, `nbbqdrv.c:342`.  With one block waiting, the client reads it; between
  the load and the store of `chkbuff--` the handler finishes the second block:
  `chkbuff` becomes 2, so mask and veto stay, and the read then stores 0.  Poll
  reports nothing, no read will unmask, and the run stands still until STOP.
  `single` shows that even then nothing is overwritten.
* `closed`, `nbbqdrv.c:296-311`.  The comment at 451-452 says the handler returns
  when the device is not open; `release` does not reset `startflag`, so after a
  close without STOP it does not.
* `capacity`, `babirldrvcaen.c:154`.  The limit on one event of the V1190 (10001
  transfers) is larger than a half.  `NeverOverrun` gives the limit that would
  do: with the sizes of this build, 156 words for each of the three segments.
* `leftover`, `startup.c:83`.  The event counter of the V1190 is reset, not its
  output buffer, and `stop()` leaves the module alone.

TLC also shows, with a shared line, that a foreign interrupt between STOP's
mask and `startflag = 0` records an event after STOP, and one with both halves
full lets STOP close a block over an unread one; and, on two processors, that
`UnreadIntact`, `CountNeverAhead`, `VetoOwned`, `StopAnswer` and `StopIsFinal`
fail.  No text of the repository claims otherwise for these, so they are no
runs; they are why `QuietAssumption` is what it is.

## Proofs

Every invariant and every safety property that a passing run checks is also
proved, for all values of the constants that the assumptions of the modules
allow.  Where a theorem needs more than these, it is a hypothesis of the theorem
and named here.

### The driver core

`Nbbqdrv_proofs`, for all constants allowed by `FlagAssumption` and
`SizeAssumption`: `TypeCorrect`, and `NeverMissesWakeup` from the invariant
`WakeInv` (inductive with the types).

`NbbqdrvUP_proofs`, with `QuietAssumption` (one processor, own line, a window
that with the header does not exceed `MAXBUFF`), for every `MaxBuff`, `Half`,
`EventSizes`, `Ids`: `UnreadStaysIntact`, `CountStaysBehind`, `StopAnswersRight`,
`VetoStaysOwned`, `StopEndsRecording`.  They follow from
`IInv`, which holds in every reachable state (`InvariantHolds`):

* `HalvesInv`: while anything can be recorded at most one half is unread, and
  the half in use is the other one (`InStep`).  With `IntactInv` this is why
  nothing is overwritten.  It is not inductive alone: the handler decides by
  `chkbuff`, so
* `CountInv` ties `chkbuff` to the number of unread blocks, except after the lost
  update (`Stalled`), which is a state nothing moves out of but STOP and release;
* `WindowInv` says why the count may be stale while a read runs: the half it has
  freed cannot be filled to its end in the window (`LostIncrement`);
* `HandlerInv`, `StopInv`, `ClosedInv` say what the program counters imply;
  `MaskInv` and `VetoInv` who owns the mask and the veto.

The step of the conjunction is cut by subject: `ControlStep` (handler, stop,
halves, count), `IntactStep`, `MaskStep`, `VetoStep`; each is a case per action.

`Channel_proofs` adds what relates the driver to `BlockChannel`:

* `DriverIsChannel`: the initial states and the steps of the driver are those of
  the channel, or leave it alone; `TriggerSeen`, `HandlerSeen` and `ClientSeen` say
  what becomes of the channel's four variables as they are read off the driver
  (`ModeNow`, `QueueNow`, `CurNow`, `NextNow`).  What the channel has queued is
  `fifo` (`QueueIsFifo`, from `IInv`).  For the rest two invariants are needed:
  `FilledInv` (the half in use holds the `eventid` events of its block, and nothing
  of an older block among them) and `BeginInv` (a run begins with event 1, and only
  STOP resets `startflag`).
* `CountIsExact` and `MaskFollowsCount`, under `ShortWindow`: every event has
  more words than may be recorded in the window, so none is.  This is the case
  of the run `quiet`; `CountInv` then has no exception left (`QuietInv`).

### The blocks

`BlockFormat_proofs`, for all constants: `SizesAreRight` and `TypeCorrect`; and,
for all constants with `Capacity` (`MAXBUFF` and one largest event, two END words
and the scaler words fit into the half), `NeverOverrun` and
`NeighbourStaysIntact`.  `FillInv` counts, call by call, how far `mp` can be when
the event began at `MAXBUFF`, and `SizeInv` where the words to be written back
lie; `OtherHalf` turns "the store is inside the half" into "the other half keeps
its words".

`BlocksRoundTrip` needs `Capacity` and `Half < Flag`: a marked size must not run
into its mark (0x2000 words and 0x8000 in the code).  The proof has two parts.
`RoundInv` says what a half holds at each call: a *chain* of events, and in the
event being written a chain of segments.  A chain is a list of positions, each
with the size word that leads to the next (`Chain`, `SegmentOk`, `EventOk`); a
store behind a chain leaves it (`SegmentsStay`, `EventsStay`), and the size that
is written back extends it by one (`ChainAppend`).  The other part is the reader,
`Parsed`, a recursive function: that its definition has a solution is shown by
the least position from which one exists (`WalkExists`), and that a walk along a
chain returns its parts, from the last back to the first, in the same way
(`ChainWalk`).  Both replace induction by the fact that a set of numbers that is
not empty has a least element (`LeastNatural`), which the library's theorems
about well-founded relations give.

### The readers

`WordReaders_proofs`, for all constants with `BufferAssumption` and
`WordsAssumption` (a loop limit leaves room for the largest event): `TypeCorrect`,
`StaysInStep`, `StoresOneEvent`, `SizesAgree`.  The invariant `Inv` says that
while a reader is in its loop the words stored are exactly the first `pos` words
of the event at the head of the queue, whatever has been appended behind it, so
the next word is the one that continues them; that the loop cannot reach its limit
before the end word (`pos` is at most what an event has); and how `mp` and the
counters follow the number of words in each of the three conventions.  A module
that is cleared or empty gives one filler, which ends every reader.

`Readers_proofs` are about the other two, inside `Readers`: a step of one of them
leaves the rest alone (`ReadersInv` is the conjunction of all their invariants).

* `SamplesAreLatest`: `RingInv` gives `adptr` as a distance from where the trigger
  stopped the ring, modulo its length; both wraps are then one fact about
  division (`ModUnique`).
* `WindowsDoCover`: between two transfers the words before the count, and no
  others, are written or missing (`Turns`); the count being whole windows, where it
  stops is the depth rounded up to them (`UpToWindow`).
* `PagesDoCover`: whether an area ends on a border of a page or behind it.
* `DmaSizesAgree`: the scan's first word is never behind its last and both are
  among the words fetched (`CopiedBounds`), and a transfer of the event FIFO's length
  is no longer than `Rsize` (`EngineInv`); so each reader's copy is of n words of
  those fetched (`DmaFinished`), and that fills the halfwords up to the new `mp` and
  no others (`DmaCopy`; `DmaMark` for a timeout).
* `DmaKeepsOneEvent`, for events of at least one word of data:
  `EngineInv` says what the engine is still at when a reader begins, `CleanInv`
  that a reader which began with one whole event and an idle engine has fetched the
  words of this event and after its end fillers.  What the scan keeps is then
  the stretch between the last header and the end word (`Holds`, `Run`).  The
  *last* and the *first* word of a kind in the words fetched exist by the same
  argument from a least number as above.

### CAMAC

`Camac_proofs`, for every `Top >= 4` and any number of calls and commands.

* `SegmentsDoLead`, `LengthsDoLead`: `StartsInv` and `EventsInv` keep, for every
  part that is finished, that its size leads to the next one, and for the one
  that is open that its counter reaches to `mp`; `CountInv` that `eventsize` has
  counted all segments in the formats that have no events.  In each format the
  words a size is written to lie below what is written next, so a later store
  changes no size.
* `AllAreTaken`, `SameAsDirectly`, `ShapeIsKept`: `FitsInv` says that each entry
  of `segcmd` fits the call it was made for, `Tally` how many commands the calls
  before it have generated, so the reply an entry takes is the one of its own
  command (`Answered`).  `Shapes` compares the block from replies with the block
  from direct reads, word by word.
* `CamacTypesHold`, when the words of a block are fewer than 0x8000 and the
  number of blocks is a 16-bit word.

### The crate

`Crate_proofs`, for every `Ids`, `MaxQueue`, `MaxTries` and `LeftOut`.

* `EventsAligned` and `OneEventQueued`, with `init_v1190.sh` before every open
  (`Scripted = TRUE`; `leftover` is a run without): while a run is on and not
  disturbed, the crate is in one of three states (`Running`).  `Waiting`: no module
  holds anything.  `Converting`: one trigger, the veto up, and every module holds or
  converts the event of this trigger.  `Reading`: `evt` has taken the parts of the
  modules before `pc` and left those behind it.  `StartInv` is why a run begins with
  `Waiting`, whatever the one before has left: the script has emptied the V1190, a
  `readout_reset` each MADC32, and no trigger came since (`Emptying`).
* `OpenIsConfigured`: in every script an operand stands right behind its opcode
  (`Proper`, which is kept when scripts are put together), so before each word the
  controller waits for exactly that word (`InStep`), and what is behind is set.
  The exception is the trigger mode, while its second write is still to come or if
  that was lost (`Doubtful`).  `OpenInv`: the device is opened behind an
  `init_v1190.sh` that ran to its end.
* `CrateTypesHold`.

### Only model-checked

Liveness, which the prover does not reach: `IsLiveChannel` and `VetoReleased`, in
the run `quiet`.  The properties of the five runs that end in a violation fail
for the code, so there is nothing to prove; three of them (`VetoReleased`,
`NeighbourIntact`, `NoMultiEvent`) hold where the condition they miss is given,
and for the last two the theorems say which it is.

## Plan

Every module of the table is written, checked and, but for liveness, proved.
What is left are extensions:

1. `UnreadIntact` and `VetoOwned` on two processors (the hazards at
   `nbbqdrv.c:358` and 486), for which the model would
   have to say which of the handler's stores the client may see late;
2. a condition weaker than `Capacity`, by segment: the largest event as the sum
   of what each module can give.

## Not modelled

* The bridge drivers behind `bb-vme.h` and the CAMAC headers are not in the
  repository; they appear as the interrupt mask and request, and the DMA engine.
* The VMIVME build of `nbbqdrv.c`, and loading and unloading the module, where
  the only question (`request_irq` refused) is one of a result not looked at.
* `read_scaler`, `read_sscaler`, `read_pedestal` and the FERA set-up of the three
  block builders: nothing in the repository calls them, so what they may be
  called with is not known; `sca`'s own jump is in `BlockFormat`.
* Functions that write one register of a module (thresholds, levels, modes) and
  the control words of CCNET: they change no state that the driver reads.
* Creating and releasing DMA buffers (`dma_window`, `univ_end_dma`): calls of a
  library, once each.
* Events at or above the limit of a word loop, and CCNET lists longer than `CMDLEN`.
* What a failed status read leads to in the set-up scripts, beyond that it is
  taken for ready.
* `chkgeo.sh`, headers, generated files and logs hold no behaviour.

`PROJECT.json` has a reason for each.
