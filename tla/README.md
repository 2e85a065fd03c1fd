# A TLA+ model of MXFS

MXFS is a log-structured file system for sensor data on a W25N01G NAND device,
with a bus arbiter in hardware that lets two processors share the device. This
directory models the file system of the child, the format of its pages, its
drivers, the parent's formatter and the arbiter; checks them with TLC on small
instances; and proves most of what the runs check with TLAPS, for all sizes. Paths below
are relative to the repository root.

`PROJECT.json` lists the components, the runs, a mutation for each property (the
mutated operators stand next to the originals in the modules, `X_...` next to
`X`), the source lines each definition stands for, the hazards and the theorems.

## 1. The system

| Part | Source | State it keeps | Operations |
|---|---|---|---|
| Staging buffers | `mxfs_append.cc`, first half of `mxfs_flush.cc` | per layer: bytes, records, staged data | append, flush |
| Log on flash | `mxfs_flush.cc`, `mxfs_instance.cc`, `mxfs_write.cc`, `mxfs_erase.cc`, `mxfs_timerange.cc`, `mxfs_read.cc` | current block and page, block and page flags in RAM; pages on flash | mount, release, flush, direct write, erase, time range, read |
| Page codec | `mxfs_flush.cc`, `mxfs_read.cc`, `mxfs_timerange.cc`, csv and search of `format.cc` | the headers (`compress_t`) in a page | assemble a page, walk its headers |
| Instance counter | `mxfs_instance.cc` | `singleton`, `singleton_lock` | create, release |
| Drivers | `drivers/rp2040`, `drivers/bcm2711` | none; the device has status registers, a page buffer and the array | create, read, write, erase |
| Formatter | `sw/parent/src` | block and page of its loops, a position in each operation, kept between polls | erase, format, config, read, write, check, csv, search |
| Bus arbiter | `hw/fsm_fast.v`, `fsm_slow.v`, `fsm_selector.v` | registers of two clock domains and a selector | clock edges, software bits, resets |
| macOS driver | `drivers/macos` | an array | a test double |

How they interact. The application calls `mxfs_append`, which stages a record
and, when the page estimate is full, calls `mxfs_flush`. `mxfs_flush` assembles
one page image of all layers, erases the current block if it is marked, and
programs the page through `mxfs_driver_erase` and `mxfs_driver_write`. A mount
reads the first page of each block through `mxfs_driver_read`, and rebuilds the
flags and the current position from that alone. The drivers talk to the device
by commands and by polling its status registers; the device works on its own in
between. Which processor's commands reach the device is decided by the arbiter:
the Mother offers the bus with a software bit, which crosses two clock domains
and a synchroniser before the select line `Q` moves.

What is hard here:

* *Loss of power.* It is the reason for the design. A restart has only the first
  pages to judge blocks by, and any page or block can be half written or half
  erased.
* *Two measures of one thing.* `mxfs_append` decides by counts and an estimate
  that leaves one header out; `mxfs_flush` copies by lengths without looking at
  the end of the page.
* *One flag with two meanings.* `BLOCK_INVALID` is "used" at a mount and "erase
  before use" in a flush.
* *Ignored results.* The result of the automatic flush is dropped; the drivers
  do not look at the program and erase failure bits.
* *An autonomous device.* A command sent while it is busy is ignored without an
  error.
* *A page without a directory.* No header says where the next one is; four
  readers compute it with sizes of their own, and the times of most records are
  made up from a first time and an average step in 16 bits.
* *A process that can die anywhere.* SIGINT ends the formatter while the device
  is erasing; the next start resets the device without waiting.
* *Two clocks* in the arbiter, with outputs that have no reset.
* *Threads* in `mxfs_create_instance` and `mxfs_release_instance`; nothing else
  in the file system is locked, or meant to be called by two threads.

What makes each part correct: no buffer or page image overflows (staging); no
page is programmed twice, no acknowledged record disappears before its block is
recycled, everything intact is found again, blocks are recycled only for want of
room (log); what was appended is what the readers find and date (codec); a
finished command has done what it reports, and touched nothing but what its
options lead to (formatter);
one instance at a time and every call returns (counter); each driver
call does exactly what it says although the device is asynchronous (drivers);
the Child owns the bus only when it is up, and offer, revocation and contention
end with the documented owner (arbiter).

## 2. The modules

| Module | Models | Uses |
|---|---|---|
| `MxfsDef` | layers, record sizes, the length arithmetic | |
| `MxfsBuffer` | the staging buffers as counters | `MxfsDef` |
| `MxfsDefProofs` | what the length arithmetic yields | `MxfsDef` |
| `MxfsBufferProofs` | proofs about the staging buffers | `MxfsBuffer`, `MxfsDefProofs` |
| `MxfsLog` | the file system with its records, the flash, mounts, errors and loss of power; implements `MxfsBuffer` | `MxfsDef`, instance of `MxfsBuffer` |
| `MxfsLogProofs` | proofs about the log, and that it implements `MxfsBuffer` | `MxfsLog`, `MxfsDefProofs` |
| `MxfsCodec` | the page image with its headers, and the four readers of it | `MxfsDef` |
| `MxfsCodecProofs` | proofs about the image and the readers | `MxfsCodec`, `MxfsDefProofs` |
| `Formatter` | the formatter's commands as loops over blocks and pages | |
| `MCFormatter` | the ranges of options of the run | `Formatter` |
| `FormatterProofs` | proofs about them | `Formatter` |
| `MxfsSingleton`, `MxfsSingletonProofs` | instance counter and mutex, and proofs about them | |
| `NandDef`, `NandFlash` | driver calls and pages; what the file system expects of a driver | |
| `NandDriver` | the three sets of command sequences against the device; implements `NandFlash` | `NandDef`, instance of `NandFlash` |
| `NandDriverProofs` | proofs about addresses, status registers and lost commands, and that the drivers implement `NandFlash` | `NandDriver` |
| `BusFsm`, `BusFsmProofs` | the arbiter, and proofs about it | |

**MxfsDef, MxfsBuffer.** Variables `mxfs_length` and `mxfs_count` are the arrays
of `mxfs_inst`, `ret` is the result of the last call, `work_len` the length of
the page image it assembled in `_work_buffer`. Additions in `uint16_t` are taken
modulo 2^16. `mxfs_append` is the three actions `AppendInvalid`, `AppendFits`,
`AppendFlushes`; `mxfs_flush` is `FlushNothing` and `Flush`. The second half of
`mxfs_append` is the operator `Stage`, applied to the counters the first half
left. Other calls and loss of power are `Elsewhere`, which leaves or empties the
buffers: with it the module is an abstract specification of the RAM side of
`MxfsLog`.

**MxfsLog.** A record is a pair of a layer and a time. A staging buffer is the
sequence of its times; lengths and counts are functions of it. A page is a
record of whether its first word is MAGIC, the time in its first header, the
records its headers announce, and what became of it (erased, data, torn or
overwritten), which the program cannot see. One call is one action, because the
file system is used by one thread; what a driver may answer is a choice inside
the action (`WriteBackDone`, `WriteBackEraseFails`, `WriteBackWriteFails`; with
`"FAIL"` the device fails to erase or program and the driver, which does not look
at E_FAIL and P_FAIL, returns OK), and
a loss of power inside a flush is an action of its own, at one of four points.
A torn page keeps its headers or not, as chance has it. `FindCurrent` is the
search for the current block at a mount, with both arms of `__LINUX__`;
`PAGE_VALID` is 0, so the Linux arm finds nothing. `mxfs_timerange`,
`mxfs_timerange_by_block` and `mxfs_read` change nothing and are functions of the
state (`timerange`, `timerange_by_block`, `read`). `owed` is a history variable: the records acknowledged and neither
lost with the RAM nor recycled.

**MxfsCodec.** A page is two functions of byte offsets, one to the headers and one
to the payloads that start there; `Image` lays them out as `mxfs_flush` does, one
header per ANT+ record, one per layer for the others. Header fields have the
widths of `compress_t` as constants. `LastTmm` is the variable of that name when
a header is made: `mxfs_flush` does not reset it between the layers, and its
temperature loop starts at the second record, so a single temperature record
gets its step from another layer. `Walk` is the loop all readers share, as
a recursive function of the offset it has come to; `Behind` is where it goes on
after a header, `OfLayer` keeps the headers of one layer, and `RecordStride` and
`ByteStride` are the sizes the readers skip by (`search` takes one byte a
sample). `read`, `timerange_by_block`, `csv` and `search` are functions of the
page, made of what is taken at a header (`RecordsAt`, `Ranged`, `RowsAt`). `csv` asks for 4096 bytes; its walk is bounded by the device's page,
since MAGIC ends it long before.

**Formatter.** A process has a command with its options, a phase and the loop
variables `block` and `page`. A step is one page or block operation, which begins
when the device is idle and, for an erase or a program, returns while it works
(the operations themselves are in `NandDriver`). `Start` resets a device that may
be busy, with the work done or cut short, and all commands but erase then scan
the blocks. SIGINT (`Kill`) ends the process at any step and leaves the device at
work; an erase may fail, which nobody looks at; the child records between
commands. `format` erases and verifies the first 16 bytes of each page, `check`
judges the same bytes, `search` leaves a block at its first page without MAGIC,
and `config` is read back as `mxfs_read` of the child does (`read_config`).
The options are any `uint16_t`: `format.cc:52-55` compares them with nothing, and
the address bytes of an operation keep ten bits of the block and six of the page
(`AddressedBlock`, `AddressedPage`), so that a range beyond the device comes back
to its first blocks and pages. A page of `config` keeps the length its header
says and the number of bytes of the string that are programmed (`Kept`): the
copy behind the 16 bytes of the header takes any accepted string, and the last 64
bytes of the buffer are not programmed. A string that overruns the buffer
(`Overruns`) is undefined behaviour; config then goes on as if nothing were, or
crashes before or behind the write, or hangs in its loop (`ConfigOverrun`). `read`
stands for `csv` too: the loops are the same, and what csv prints is in `MxfsCodec`.

**MxfsSingleton.** One label per step between lock operations; a refused create
returns with the lock held, as in `mxfs_instance.cc:22-24`.

**NandFlash, NandDriver.** An operation of a driver is the sequence of its
commands and polls (`Write_rp2040` and so on). The formatter's operations return
between polls and are entered again until done: as nothing else uses the device
meanwhile, that is the same sequence. The device is not part of the repository
and is modelled from how the drivers use it: BUSY, write enable latch, protect
bits, OTP_E, a page buffer which `RANDOM_PG_DATA_LOAD` changes in part, and an
array by row address. `NandFlash` is what `mxfs_flush` and the mount rely on; a
write that is short of a page says nothing about the rest of the page there.

**BusFsm.** One action per clock edge of each domain; all registers of the
domain take their next value from the values before the edge. The software bits
change at any time, the fast domain may be reset at any time.

## 3. The runs

Passing runs:

| Run | What it shows | Bounds and why they are enough |
|---|---|---|
| `buffer` | `LengthMatchesCount`, `ImageFitsPage`, `StagingFitsBuffer` | All six layers with a page of 24 bytes: several records of each kind fit, a single layer can fill the page, and the staging buffer of the smallest record fills up before the page. The theorems cover the other sizes. |
| `log_restart` | `NoOverwrite`, `AcknowledgedIsKept`, `RetrievalComplete`, `HiddenIsKnown`, `EraseOnlyWhenFull` | The build without `__LINUX__`: 3 data blocks of 2 pages, 7 records at most (one a tick, from tick 2 to `MaxTime` 9), 3 mounts, two layers, power lost between calls or between erase and program, `mxfs_erase` of the configuration block. The log wraps, and restarts happen with free blocks, with none, and in a block just erased. |
| `log_faults` | `BlockIsChronological`, `ImplementsBuffers` | The `__LINUX__` build: drivers that fail in mount, erase and program, devices that fail in erase and program unseen, power lost at all four points, direct writes to a page of block 0, staging buffers that hold a single record. 2 data blocks of 2 pages, 2 mounts, 3 ticks (2 to `MaxTime` 5). |
| `codec` | `ReadReturnsAppended`, `WalkStaysInPage`, `TimerangeBrackets`, `CsvShowsRecords`, `SearchFindsAnt` | A page of 24 bytes, up to 5 records of speed, gyro, accelerometer and temperature in any mix, a quarter of a second or a second apart: pages with every set of layers, full pages, steps that fit their field (0 to 2) and that saturate it, times in and across seconds. `UINT32` is above every time (section 6). |
| `formatter` | `FormatClears`, `CheckVerdict`, `ReportComplete`, `ConfigReadsBack`, `DataOutsideSurvives`, `CommandEnds` | 2 blocks of 2 pages. Blocks: the last one, or the last one and one beyond, which is addressed as the first. Pages: the first, the last and one beyond, or a reversed range. A configuration that fits, an empty one, one so long that its length is cut, its end is not programmed and the buffer overruns, and one that is refused (sizes scaled: a buffer of 14 with a header of 6 and a spare end of 2, lengths below 4). Any sequence of commands, each cut off at any step. Erases may fail, so the part of `FormatClears` for erases that do not is left to the theorem. |
| `singleton` | `OneInstance`, `ReleaseIsCounted` | Three threads, memory may run out. |
| `bus` | `StartUpOwner`, `MotherRevokes`, `ChildIsGranted`, `ContentionIsMothers` | Thresholds 0 and 1 (the hardware has 100 and 200: they only count edges, and the theorem has any value). Every order of the edges. |
| `nand_rp2040` | `MainArraySelected`, `PageIsCallers`, `ImplementsFlash`, `CallReturns` | A device protected at power-up, loss of power at each step, two mounts; blocks 0 and 4, which differ only in the high address byte, page 63; short, refused and repeated writes of two contents. |
| `nand_polled` | `ImplementsFlash`, `CommandsAreHeeded` | bcm2711 and formatter, device unprotected and opened once (see section 6). |

The type invariant of each module (`TypeOK`) is checked in one of its runs.
Deadlock is not checked where the bounds on time, mounts or calls make the model
stop, or where, as in `singleton`, threads can wait for each other (that is the
subject of `singleton_release`).

Runs that end in a violation, each for a statement of the repository that the
code does not keep:

| Run | Statement | What the trace shows |
|---|---|---|
| `log_restart_full` | "optimized for recent data access" (`README.md:49`) | With all blocks used, a mount resumes at the block with the latest data, and the first flush erases it. |
| `log_torn_overwrite` | "No overwrite" (`README.md:44`) | The first page of a block is torn and has no MAGIC; the next session takes the block for free and programs the page again. `AcknowledgedIsKept` fails in this configuration too, for the same reason. |
| `singleton_release` | unmounting returns (`README.md:104`, tests) | A second create returns ERR with the mutex held; the release waits for ever. |

### Fairness

`BusFsm`: weak fairness of both clocks, which run as long as there is power;
none of software or resets. `NandDriver` (`FairSpec`): a call that has been
entered runs on (it is a loop on a processor), and the device finishes what it
started; no fairness of new calls or of loss of power. `MxfsSingleton`: a thread
inside a call that is not blocked goes on; nothing makes a thread call, and the
mutex need not be fair. `Formatter`: a process that has been started goes on, and
the device finishes what it does; no fairness of commands, SIGINT or the child.
`MxfsBuffer`, `MxfsLog` and `MxfsCodec` state safety only.

## 4. The proofs

All for every value of the constants that satisfies the `ASSUME`s, which TLC
evaluates on the runs' values.

*Staging buffers* (`MxfsBufferProofs`). Assumed: sizes are positive, the reserve
of a page is at least one header (64 against 16), a record fits a page and a
staging buffer, lengths fit 16 bits. The invariant is `BufferInv`: types,
`LengthMatchesCount`, `StagingFitsBuffer`, `ImageFitsPage` and
`StagedWithinLimit`. The last one is the strengthening: that the staged records
fit the page (`StagedFitsPage`) is not inductive, since an append adds its
payload, which the guard counted, and up to one header, which it did not; the
bound that is kept is page minus reserve plus one header. The steps are
`PageLengthStep` (one record more costs at most payload and header),
`RecordsInExact` and `WorkLenIsPageLength` (the copy by lengths yields the page
that was estimated by counts), `FlushedIsEmpty` and `StagePreserves`. Results:
`TypeCorrect`, `CountersInStep`, `PageNeverOverflows`, `StagingNeverOverflows`.
`AppendNeedsNoFlush` adds when flushing is really implicit: if a staging buffer
holds a page full of each layer's records with their times (`BufferHoldsAPage`,
which holds for `PAGE_SIZE << 3` and fails for the temperature layer with the
RP2040's `PAGE_SIZE << 2`), `mxfs_append` never returns `NEED_MORE_BUFFER`.

*Log* (`MxfsLogProofs`). Each property has the hypothesis on the constants it
needs; sections 3 and 6 show what goes wrong without the main ones:

| Theorem | Property | Hypothesis |
|---|---|---|
| `PositionStaysInside` | `TypeOK` | none |
| `LogImplementsBuffers` | `ImplementsBuffers` | none |
| `BlocksAreChronological` | `BlockIsChronological` | `NoEraseInData`: `mxfs_erase` is not used on data blocks |
| `RecordsAreFound` | `RetrievalComplete` | `BitsAreKept`: not the Linux build, which does not fill in the page bits at a mount, and no error reported by a driver |
| `PagesAreWrittenOnce`, `AcknowledgedIsNotLost`, `HiddenBlocksAreKnown` | `NoOverwrite`, `AcknowledgedIsKept`, `HiddenIsKnown` | `Reliable`: drivers and device do not fail, power is not lost inside an operation of the device, application writes and erases keep out of the data area |
| `DataGoesLast` | `EraseOnlyWhenFull` | `Reliable`, and not the Linux build |

The first four keep unseen failures of the device and loss of power at every
point. `log_restart` and `log_faults` are instances of the hypotheses they check
under. The inductive invariants:

* `ChronInv`. That the pages of a block are in order is not inductive: a flush
  appends whatever is staged. What is kept is a chain, flash before staged before
  the clock, and that a page with records has no erased page before it, so that
  the next page lies behind all of them even after half an erase.
* `RetrievalInv`: the instance has the page bits of all layers of an intact page.
  The bits of a recycled block may be too many, never too few.
* `WritingInv`: a block is written from the front, so the first page speaks for
  the block, which is all a mount looks at; the position is the first erased page
  of the current block, or the block is marked and will be erased.
* `KeptInv`, `KnownInv`: without an instance nothing is staged; a page of a block
  that is not marked has exactly the bits this instance set.
* `FreeInv`: the free blocks are the last ones of the data area, or there is at
  most one (`FreeAreLast`, the shape a wrap leaves); and the position is at the
  first of them, or before it with everything in between written
  (`PositionIsFirst`). `EraseOnlyWhenFull` is an action property and follows from
  the two.
* `StagedInv`: the staged bytes fit the buffer, so that the `uint16_t` counters of
  `MxfsBuffer` are the lengths of the sequences of `MxfsLog`.

Under `Reliable` all that a call does to the flash comes down to five kinds of
step (`ReliableSteps`): nothing (`Stays`), the RAM lost (`Stops`), lost after the
erase (`StopsErased`), a page written with the block erased before if it is
marked (`Writes`), and a mount. The invariants are shown for the five kinds.

*Instance counter* (`MxfsSingletonProofs`), for any set of threads:
`CounterKeepsType`, `NeverTwoInstances`, `ReleaseNeverPanics`. The invariant
`CounterInv` says that a thread between lock and unlock has the lock, and that
at most one thread is counted, for which the counter is 1; a thread about to count
itself still finds the 0 it tested, because it has the lock.

*Formatter* (`FormatterProofs`), for a device of any size, any `uint16_t` as an
option, inside the device or not, and strings of any length:
`FormatterStaysInside`, `CheckIsRight`, `FormatIsComplete`, `ReportsAreComplete`,
`CommandsStayInRange`, `ConfigIsReadBack`. Each has an invariant on what the loop
has passed (`CheckInv`, `FormatInv`, `ReportInv`); the hard part of it is the
device, which works on while the command is elsewhere or dead: during a check it
is at rest, during a format it may still be erasing the block that is verified,
of which nothing has been read yet, and `MeantInv` says that what it is busy with
is reached by the command that is running or was the last. Reached are the pages
the address bytes make of those the options name (`Reached`); `WithinIsMeant`
shows that with options inside the device (`Within`) these are the pages named.
`AddressFacts` is the arithmetic of the address bytes. `FormatterAssumption` says
of the sizes only that the device can be addressed and that a string of a length
`ant.length` can hold fits into the part of the page that is programmed
(512 + 16 + 64 <= 2112): with it `ConfigIsReadBack` needs no bound on the strings.

*Arbiter* (`BusFsmProofs`). `RegistersKeepTypes`, and `ChildWaitsForStartUp`:
`StartUpOwner` for every pair of thresholds. The invariant `PipelineInv` says
that the slow line is high nowhere between `out_ctrl1` and `q` before the slow
domain is up; `StartUpOwner` alone says nothing of the stages still to be
clocked through. It needs `CleanPowerUp`: `out_ctrl1`, which has no reset, comes
up low, and the slow domain is not reset again. Both are needed (section 6).

*Drivers* (`NandDriverProofs`), for all blocks of 10 bits and pages of 6.
`RowsAreDistinct`: the shifts and masks of the address bytes tell all 1024 x 64
pages apart. `MainArrayOnly`: `MainArraySelected` for the RP2040 driver and the
formatter. Read mode copies BP3 into the place of OTP_E, so the invariant
`ArrayInv` says that the protect bits are off from mount to loss of power, and
`Opening`, that the device is idle when the command that clears them is sent and
so does not ignore it. `DriverKeepsTypes` is the type invariant.
`NoCommandIsLost`: `CommandsAreHeeded` for the RP2040 driver always, for the
others when the device is opened once. Its argument is about the sequences:
`WellFormed` is what all fourteen of them have in common (a command that starts
work is followed by a poll before the next command, a poll for the latch precedes
what needs it, protection is cleared before the array is changed), and `HeedInv`
follows a sequence one step at a time. `PagesAreNotMixed`: `PageIsCallers` for
the RP2040 driver.

*Drivers and flash* (`NandDriverProofs`). `DriversImplementFlash`: every step of
`NandDriver` is a step of `NandFlash` or leaves its variables alone, where the
flash is the array with the work in progress already done. It holds for the
RP2040 driver through any mounts and losses of power, for the others when the
device is opened once, unprotected, and power lasts (`DriverHolds`; section 6 has
what goes wrong otherwise). The shapes of the sequences say at which step an
operation does its work (`WorkAt`, `ServedMeans`); `CacheInv` says that the page
buffer holds the caller's page from the load to the program, and the page asked
for when it is read; `RestInv`, that no page came out of the OTP area; `JobInv`,
for the RP2040, that the device is never busy with anything but what the call in
progress names, since the driver waits for the end before it returns. This is
what confines a loss of power to that page or block.

*Codec* (`MxfsCodecProofs`), for all sizes of pages, headers and records, all
widths of the header fields that hold a page's counts (`FieldsAssumption`), any
number of records and any times:

| Theorem | Property | Hypothesis |
|---|---|---|
| `CodecInvariant`, `CodecTypes` | `TypeOK` | none |
| `ReadIsFaithful` | `ReadReturnsAppended` | none |
| `WalkInPage` | `WalkStaysInPage` | the reserve holds two headers (64 and 2 x 16 bytes): one that `mxfs_append` does not count, one looked for behind the records |
| `CsvIsFaithful`, `SearchIsFaithful` | `CsvShowsRecords`, `SearchFindsAnt` | in states in which the seconds of the clock fit the 32 bits of a header |
| `TimerangeIsFaithful` | `TimerangeBrackets`, and `Bracketed` of the ANT+ layers | the ANT+ layers as the line above; the others in states in which the clock itself, in milliseconds, fits 32 bits (section 6) |

The invariant `CodecInv` says that the page last flushed is the image of the
records it was made of, that it and the staged records take at most a page less
the reserve and with one header, and that the times of a layer are never 0 and
never go back; the readers are functions of the page, so everything else is about
the image of any records that fit a page.

*The walk.* A reader is a recursive function, and what it computes is shown by
induction on numbers, which the prover does not have as a rule. `LeastNumber`
takes it from the library's theorem that `<` is well founded: a set of naturals
that is not empty has a least element. From that come `Induction`, over a set,
and with it that the recursive definition of a walk has a value at all
(`WalkExists`: a reader moves on at every header, so what it takes from the last
k bytes decides what it takes from the last k + 1), that a walk over a chain of
headers takes what they give one after the other (`WalkRun`) and that headers of
other layers do not show (`WalkSkip`). The range of `mxfs_timerange_by_block`,
summed up header by header, is treated alike (`RangesExist`).

*The image.* Each layer has its own stretch of the page, from `Base` to `End`
(`Bases`, `LayersApart`), in which the records follow each other by a fixed pitch
(`Layout`); so no two headers and no two payloads share an offset
(`PayloadInjective`), and the `CHOOSE` of the image has one candidate
(`ImageHeader`, `ImagePayload`). A reader that skips by `RecordStride` thus comes
from `Base` to `End` of every layer (`AntTaken`, `AntSkipped`, `OtherTaken`) and
takes the parts of its layer and nothing else (`LayerRead`). `search` is right
about the ANT+ headers because they are in front and carry their own length
(`FoundAnt`); behind them it may miss headers, but it never takes anything else
for one (`FoundHeaders`).

*The times.* `HeaderKeepsTime` says seconds and milliseconds together give the
time back. `StepBounds` is the arithmetic of a step: rounded down, cut to 32 bits
and saturated it never takes a record beyond the last one, and unless saturated
it falls short by less than one unit per record.

Only model-checked: the liveness properties `CallReturns`, `CommandEnds`,
`MotherRevokes`, `ChildIsGranted` and `ContentionIsMothers` (fairness and ENABLED
are beyond the proof system). Every other property of a passing run is stated by
a theorem. The statements of the runs that end in a violation are false and so
not theorems.

## 5. What is not modelled

* Payload bytes. In particular a payload is taken not to contain the four bytes
  of MAGIC where a reader looks for a header.
* The start and last times the Linux build keeps per page and `mxfs_timerange`
  reports (RAM only, lost at a release), and the hex dumps of the formatter.
* SPI or gpio devices that cannot be opened (bcm2711: `create_spi` then skips the
  initialisation and returns OK, and every poll reads what the memory held), pin
  set-up, the macOS test double, test benches, build files, network and USB
  options.
* A command sequence that loses the bus. Nothing under `sw/` drives the software
  bits of the arbiter or asks who owns the bus, so there is no protocol between
  drivers and arbiter to translate: `BusFsm` leaves the bits free.

## 6. Observations outside the runs

Met while modelling; those that name a run or constants are reproduced by
changing them.

* `buffer` with the sizes of the RP2040 build (`PAGE_SIZE` 2048, reserve 64,
  records of 18, 6 and 2, headers of 16, times of 8, `MXFS_BUFFER_SIZE` 8192) and
  `Sensors = {"temperature"}`: `FlushIsImplicit` fails. After 819 records
  `mxfs_append` returns `NEED_MORE_BUFFER`: the page estimate counts 2 bytes a
  record, the staging buffer 10. `README.md:101` says "flush is implicit".
* `log_restart` with `LINUX = TRUE`: `EraseOnlyWhenFull` fails. The loop under
  "find current block, and page" (`mxfs_instance.cc:110`) tests a bit of
  `PAGE_VALID`, which is 0; every session starts at the first data block and
  erases it while others are free.
* `codec` with `UINT32 = 16`, below the times of the run: `TimerangeBrackets`
  fails. `mxfs_timerange_by_block` multiplies the seconds of gyro, accelerometer
  and temperature headers in 32 bits (`mxfs_timerange.cc:126`), which is short of
  any time after 49 days in milliseconds; ANT+ headers use 64.
* The options of the formatter are not compared with the size of the device
  (`format.cc:52-55`), and the address bytes wrap: `-t erase -s 1025 -e 1026`
  erases block 1, `-t write -e 1 -E 65` programs page 0 a second time, and read
  and csv print pages of the device under numbers it does not have. In `formatter`,
  `DataOutsideSurvives` with `Meant` for all options, without `Within`, fails.
* `config` accepts strings of up to 2107 bytes (`format.cc:331`). From 512 bytes on
  the length is cut to 9 bits, and the child reads a part of the string; from 2033
  on the end of the string is not programmed (`format.cc:358`); from 2097 on the
  copy overruns `cmd` (`format.cc:338-342`). `ConfigReadsBack` says what is left of
  its promise, and `CommandEnds` leaves out the overrun. A second `config` without
  an erase merges both pages; the property is about an erased page, as the
  procedure of the parent's README.
* The properties of the codec keep clear of three habits of the code: a single
  temperature record has the step of another layer (`OwnStep`); csv prints a
  third of the gyro and accelerometer samples, because its loop steps by three
  samples (`format.cc:535`), and row k shows sample k with the index and time of
  sample 3(k - 1), which `CsvShowsRecords` only keeps between first and last;
  search sees no header behind the first one of gyro, accelerometer or
  temperature (`format.cc:595-597`).
* `erase` of the formatter ignores `-S` and `-E` and erases whole blocks, as the
  device must; `sw/parent/README.md:93` heads it "erase instruction by block and
  page".
* `BusFsm` with `PowerUp = {TRUE, FALSE}`: `StartUpOwner` fails. A high
  `out_ctrl1` of a slow domain that has not been clocked yet passes the selector.
  With `ResetDomains = {"fast", "slow"}` it fails too: after a reset of the slow
  domain `q` stays with the Child until the change has been clocked through.
* `NandDriver` with `Platforms = {"bcm2711"}` and `ProtectedAtStart = TRUE`:
  `MainArraySelected` fails. `create_spi` of that driver does not clear the
  protect bits, so a first read after power-up selects the OTP area
  (`bcm2711_read.cc:44`).
* `nand_polled` with `PageIsCallers`: a short write leaves a rest of another
  page behind it (`bcm2711_write.cc:87`), and `mxfs_read` parses what it finds.
* `nand_polled` with `MaxMounts = 2`: `ImplementsFlash` fails. The bcm2711
  driver returns while the device is working, and opening it again resets it
  without a poll.
* `log_restart` with `EraseBlocks = {1}`: `NoOverwrite` fails. `mxfs_erase`
  leaves flags and position as they were.
* `mxfs_flush` clears `BLOCK_INVALID` before the first page of a block is
  written, so `mxfs_timerange_by_block` does not report a block of the running
  session, although `mxfs_timerange.cc:93` says the flag means used. `HiddenIsKnown`
  says that nothing of an earlier session is hidden by it.
* Pages whose program was cut short behind their headers are returned by
  `mxfs_timerange` and `mxfs_read`, which test MAGIC only; `README.md:45` says
  incomplete pages are skipped.

## 7. Plan

Done: all the parts of section 1 but the macOS test double, with their runs; and
the proofs of section 4, which state every safety property of the passing runs.
In this order remain:

1. *Weaker hypotheses*: how much of `AcknowledgedIsNotLost` survives a torn page,
   for instance that a record is only lost to a block whose first page was torn.
2. *Parts of a liveness argument*: the safety facts `CallReturns` rests on, that a
   poll is never entered in a state in which its bit cannot come.

Related questions are kept in one run of a module with shared constants; a new
component should come with one run, and replace one where it asks the same.
