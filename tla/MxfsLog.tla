------------------------------- MODULE MxfsLog -------------------------------
(***************************************************************************)
(* The log-structured file system of the child: the staging buffers with   *)
(* their records, the flash they are flushed to, the block and page status *)
(* an instance keeps in RAM, and what mount, release, loss of power and    *)
(* driver errors do to them (mxfs_instance.cc, mxfs_append.cc,             *)
(* mxfs_flush.cc, mxfs_timerange.cc, mxfs_read.cc, mxfs_write.cc and       *)
(* mxfs_erase.cc).                                                         *)
(*                                                                         *)
(* A record is a pair <<layer, time>>, its payload being whatever those    *)
(* two identify.  A staging buffer is the sequence of the times of its     *)
(* records; its length and count in bytes and records (MxfsBuffer) follow  *)
(* from that sequence.  The calls of one program run one after the other,  *)
(* so each is one action; a loss of power inside a call is an action that  *)
(* leaves on the flash what the interrupted call had done.                 *)
(***************************************************************************)
EXTENDS MxfsDef, Sequences

CONSTANTS
    BLOCK_COUNT, PAGE_COUNT, BLOCK_START_DATA_AREA,
    MSEC,             \* units of tmm in a second: headers keep whole seconds
    LINUX,            \* whether __LINUX__ is defined (the bcm2711 build)
    Sensors,          \* the layers the application appends to
    EraseBlocks,      \* the blocks it gives to mxfs_erase
    WriteBlocks, WritePages,    \* the blocks and pages it gives to mxfs_write
    DriverResults,    \* how driver calls end: "OK", "ERR", or "FAIL", when the
                      \* device fails and the driver, which does not look, says OK
    PowerLossPoints,  \* where power may fail, see PowerLoss
    MaxTime,          \* bound: number of ticks the clock runs to
    MaxBoots          \* bound: number of times the program mounts the device

Blocks     == 0 .. BLOCK_COUNT - 1
DataBlocks == BLOCK_START_DATA_AREA .. BLOCK_COUNT - 1
Pages      == 0 .. PAGE_COUNT - 1

ASSUME GeometryAssumption ==
    /\ BLOCK_COUNT \in Nat /\ PAGE_COUNT \in Nat \ {0}
    /\ BLOCK_START_DATA_AREA \in Nat /\ BLOCK_START_DATA_AREA < BLOCK_COUNT
    /\ MSEC \in Nat \ {0} /\ MaxTime \in Nat /\ MaxBoots \in Nat
    /\ LINUX \in BOOLEAN

ASSUME EnvironmentAssumption ==
    /\ Sensors \subseteq Layers
    /\ EraseBlocks \subseteq Blocks /\ WriteBlocks \subseteq Blocks
    /\ WritePages \subseteq Pages
    /\ DriverResults \subseteq {"OK", "ERR", "FAIL"} /\ "OK" \in DriverResults
    /\ PowerLossPoints \subseteq {"idle", "after_erase", "in_erase", "in_write"}

VARIABLES
    mounted,        \* whether an instance exists
    buffer,         \* mxfs_buffer: the staged times, per layer
    current_block, current_page,    \* where the next page goes
    invalid,        \* blocks[b].flags & BLOCK_INVALID
    pages,          \* blocks[b].pages[p]: the PAGE_IN_ bits, as layers
    flash,          \* the pages of the NAND device
    ret, work_len,  \* of the last call, as in MxfsBuffer
    now,            \* the time the application gives to its next record
    boots,          \* mounts so far
    owed            \* history: records acknowledged, and neither dropped with
                    \* the RAM nor recycled since

ram  == <<buffer, current_block, current_page, invalid, pages>>
vars == <<mounted, ram, flash, ret, work_len, now, boots, owed>>

-----------------------------------------------------------------------------
(* Pages of the flash *)

\* A page as a reader finds it: whether its first word is MAGIC, the time in
\* its first header, the records its headers announce, and (not visible to
\* the program) what became of it.
Erased == [st |-> "erased", magic |-> FALSE, time |-> 0, recs |-> {}]

ErasedBlock == [p \in Pages |-> Erased]

\* A program or erase pulse that was cut short leaves the headers readable or not.
Torn(cell, readable) ==
    [st |-> "torn", magic |-> readable, time |-> IF readable THEN cell.time ELSE 0,
     recs |-> IF readable THEN cell.recs ELSE {}]

\* Programming clears bits only: on a page that is not erased, old and new
\* contents are merged.
Program(f, b, p, image) ==
    [f EXCEPT ![b][p] = IF @.st = "erased" THEN image ELSE [@ EXCEPT !.st = "overwritten"]]

\* What the caller of a driver sees of its end.
Returned(result) == IF result = "FAIL" THEN "OK" ELSE result

IntactIn(f, b) == UNION {f[b][p].recs : p \in {q \in Pages : f[b][q].st = "data"}}

-----------------------------------------------------------------------------
(* Staging *)

NoRecords == [l \in Layers |-> <<>>]

mxfs_count == [l \in Layers |-> Len(buffer[l])]

mxfs_length == [l \in Layers |-> Len(buffer[l]) * StagedSize(l)]

StagedRecords == UNION {{<<l, buffer[l][i]>> : i \in DOMAIN buffer[l]} : l \in Layers}

\* The page image of the staged records; its first header carries the second
\* of the first record of the first layer that has one.
Image ==
    LET first == CHOOSE i \in DOMAIN LayerOrder :
                    /\ buffer[LayerOrder[i]] # <<>>
                    /\ \A j \in 1 .. i - 1 : buffer[LayerOrder[j]] = <<>>
    IN  [st |-> "data", magic |-> TRUE,
         time |-> Head(buffer[LayerOrder[first]]) \div MSEC, recs |-> StagedRecords]

FlaggedLayers == {l \in Layers : buffer[l] # <<>>}

-----------------------------------------------------------------------------
(* Mount, release *)

\* No instance: what create_instance starts from and release_instance leaves.
NoInstance ==
    /\ mounted' = FALSE
    /\ buffer' = NoRecords
    /\ current_block' = BLOCK_START_DATA_AREA
    /\ current_page' = 0
    /\ invalid' = [b \in Blocks |-> FALSE]
    /\ pages' = [b \in Blocks |-> [p \in Pages |-> {}]]

\* Mutant of FindCurrent: the loop does not stop at the first free block.
FindCurrent_NoBreak(used, time) ==
    LET free == {b \in DataBlocks : ~ used[b]}
    IN  IF free = {} THEN BLOCK_START_DATA_AREA
        ELSE CHOOSE b \in free : \A c \in free : c <= b

\* The block mxfs_create_instance starts to write at, given which blocks are
\* used and the times in their first headers: the first free block or, when
\* there is none, the first of the latest used ones.  The __LINUX__ loop tests
\* a bit of PAGE_VALID, which is 0, and finds no block at all.
FindCurrent(used, time) ==
    LET free == {b \in DataBlocks : ~ used[b]}
        latest == {b \in DataBlocks : time[b] > 0 /\ \A c \in DataBlocks : time[c] <= time[b]}
        first(S) == CHOOSE b \in S : \A c \in S : b <= c
    IN  CASE LINUX -> BLOCK_START_DATA_AREA
          [] ~ LINUX /\ free # {} -> first(free)
          [] ~ LINUX /\ free = {} /\ latest # {} -> first(latest)
          [] OTHER -> BLOCK_START_DATA_AREA

\* Mutant of Mount: the page bits start cleared.
Mount_NoBits(unreadable) ==
    /\ ~ mounted /\ boots < MaxBoots
    /\ mounted' = TRUE /\ boots' = boots + 1
    /\ invalid' = [b \in Blocks |-> b \in DataBlocks /\ flash[b][0].magic]
    /\ pages' = [b \in Blocks |-> [p \in Pages |-> {}]]
    /\ current_block' = FindCurrent([b \in DataBlocks |-> flash[b][0].magic],
                                    [b \in DataBlocks |-> flash[b][0].time])
    /\ current_page' = 0 /\ buffer' = NoRecords /\ ret' = "OK" /\ work_len' = 0
    /\ UNCHANGED <<flash, now, owed>>

\* mxfs_create_instance: a block is used if its first page starts with MAGIC or
\* cannot be read (unreadable: the blocks whose first page the driver fails
\* on).  Which layers a page holds is not read: every bit is set, or on Linux
\* and for an unreadable block none.
Mount(unreadable) ==
    LET used == [b \in DataBlocks |-> b \in unreadable \/ flash[b][0].magic]
        time == [b \in DataBlocks |-> IF b \in unreadable THEN 0 ELSE flash[b][0].time]
    IN  /\ ~ mounted /\ boots < MaxBoots
        /\ mounted' = TRUE
        /\ boots' = boots + 1
        /\ invalid' = [b \in Blocks |-> b \in DataBlocks /\ used[b]]
        /\ pages' = [b \in Blocks |-> [p \in Pages |->
                        IF LINUX \/ b \in unreadable \/ b \notin DataBlocks THEN {} ELSE Layers]]
        /\ current_block' = FindCurrent(used, time)
        /\ current_page' = 0
        /\ buffer' = NoRecords
        /\ ret' = "OK" /\ work_len' = 0
        /\ UNCHANGED <<flash, now, owed>>

\* mxfs_release_instance frees the buffers; it does not flush them.
Release ==
    /\ mounted
    /\ NoInstance
    /\ owed' = owed \ StagedRecords
    /\ ret' = "OK" /\ work_len' = 0
    /\ UNCHANGED <<flash, now, boots>>

-----------------------------------------------------------------------------
(* Flush: the flash half *)

Recycles == invalid[current_block]

\* Mutant of AfterErase: only the page to be programmed is erased.
AfterErase_PageOnly ==
    IF Recycles THEN [flash EXCEPT ![current_block][current_page] = Erased] ELSE flash

AfterErase ==
    IF Recycles THEN [flash EXCEPT ![current_block] = ErasedBlock] ELSE flash

OwedAfterErase == IF Recycles THEN owed \ IntactIn(flash, current_block) ELSE owed

\* Mutant of NextPosition: the wrap is one block late.
NextPosition_LateWrap(b, p) ==
    IF p + 1 < PAGE_COUNT THEN <<b, p + 1>>
    ELSE IF b < BLOCK_COUNT THEN <<b + 1, 0>> ELSE <<BLOCK_START_DATA_AREA, 0>>

NextPosition(b, p) ==
    IF p + 1 < PAGE_COUNT THEN <<b, p + 1>>
    ELSE IF b + 1 < BLOCK_COUNT THEN <<b + 1, 0>>
    ELSE <<BLOCK_START_DATA_AREA, 0>>

\* Mutant of WriteBackDone: the block that is entered is not marked for erasure.
WriteBackDone_NoMark(erased, image) ==
    LET next == NextPosition(current_block, current_page)
    IN  /\ flash' = Program(erased, current_block, current_page, image)
        /\ pages' = [pages EXCEPT ![current_block][current_page] = FlaggedLayers]
        /\ current_block' = next[1]
        /\ current_page' = next[2]
        /\ invalid' = [invalid EXCEPT ![current_block] = FALSE]

\* Erase the block if it is marked, program the page, record its layers, move
\* on, and mark the next block when one has been entered.
WriteBackDone(erased, image) ==
    LET b == current_block
        p == current_page
        next == NextPosition(b, p)
    IN  /\ flash' = Program(erased, b, p, image)
        /\ pages' = [pages EXCEPT ![b][p] = FlaggedLayers]
        /\ current_block' = next[1]
        /\ current_page' = next[2]
        /\ invalid' = IF next[2] = 0
                      THEN [[invalid EXCEPT ![b] = FALSE] EXCEPT ![next[1]] = TRUE]
                      ELSE [invalid EXCEPT ![b] = FALSE]

\* The driver fails to erase: the mark has been cleared before the attempt.
WriteBackEraseFails ==
    /\ Recycles
    /\ invalid' = [invalid EXCEPT ![current_block] = FALSE]
    /\ UNCHANGED <<flash, pages, current_block, current_page>>

\* The driver refuses to program the page.
WriteBackWriteFails ==
    /\ flash' = AfterErase
    /\ invalid' = [invalid EXCEPT ![current_block] = FALSE]
    /\ UNCHANGED <<pages, current_block, current_page>>

\* mxfs_flush after it has emptied the buffers into the page image; acked are
\* the records the same call acknowledges.
WriteBack(result, acked) ==
    /\ result \in DriverResults
    /\ work_len' = PageLength(mxfs_count)
    /\ \/ result = "OK" /\ WriteBackDone(AfterErase, Image) /\ owed' = OwedAfterErase \cup acked
       \/ /\ result = "FAIL"
          /\ \/ \E readable \in BOOLEAN : WriteBackDone(AfterErase, Torn(Image, readable))
             \/ Recycles /\ WriteBackDone(flash, Image)
          /\ owed' = (OwedAfterErase \ StagedRecords) \cup acked
       \/ result = "ERR" /\ WriteBackEraseFails /\ owed' = owed \cup acked
       \/ result = "ERR" /\ WriteBackWriteFails /\ owed' = OwedAfterErase \cup acked

-----------------------------------------------------------------------------
(* The operations of an instance *)

\* mxfs_append when the page has room: the record is staged, or refused when
\* its layer's buffer is full.
AppendFits(layer) ==
    /\ mounted /\ now < MaxTime
    /\ ~ MustFlush(mxfs_count, RecordSize(layer))
    /\ now' = now + 1
    /\ work_len' = 0
    /\ IF mxfs_length[layer] + StagedSize(layer) > MXFS_BUFFER_SIZE
       THEN ret' = "NEED_MORE_BUFFER" /\ UNCHANGED <<buffer, owed>>
       ELSE /\ ret' = "OK"
            /\ buffer' = [buffer EXCEPT ![layer] = Append(@, now)]
            /\ owed' = owed \cup {<<layer, now>>}
    /\ UNCHANGED <<mounted, current_block, current_page, invalid, pages, flash, boots>>

\* Mutant of AppendFlushes: only the appended layer is reset after the flush.
AppendFlushes_OneLayer(layer) ==
    /\ mounted /\ now < MaxTime
    /\ MustFlush(mxfs_count, RecordSize(layer))
    /\ now' = now + 1
    /\ \E result \in DriverResults : WriteBack(result, {<<layer, now>>})
    /\ buffer' = [buffer EXCEPT ![layer] = <<now>>]
    /\ ret' = "OK"
    /\ UNCHANGED <<mounted, boots>>

\* mxfs_append when it has not: the result of the flush is not looked at.
AppendFlushes(layer) ==
    /\ mounted /\ now < MaxTime
    /\ MustFlush(mxfs_count, RecordSize(layer))
    /\ now' = now + 1
    /\ \E result \in DriverResults : WriteBack(result, {<<layer, now>>})
    /\ buffer' = [NoRecords EXCEPT ![layer] = <<now>>]
    /\ ret' = "OK"
    /\ UNCHANGED <<mounted, boots>>

\* mxfs_flush
FlushNothing ==
    /\ mounted
    /\ NothingStaged(mxfs_count)
    /\ ret' = "OK" /\ work_len' = 0
    /\ UNCHANGED <<mounted, ram, flash, now, boots, owed>>

Flush(result) ==
    /\ mounted
    /\ ~ NothingStaged(mxfs_count)
    /\ WriteBack(result, {})
    /\ buffer' = NoRecords
    /\ ret' = Returned(result)
    /\ UNCHANGED <<mounted, now, boots>>

\* mxfs_erase goes to the driver and leaves the status in RAM as it was.
Erase(b, result) ==
    /\ mounted
    /\ ret' = Returned(result) /\ work_len' = 0
    /\ IF result = "OK"
       THEN /\ flash' = [flash EXCEPT ![b] = ErasedBlock]
            /\ owed' = owed \ IntactIn(flash, b)
       ELSE UNCHANGED <<flash, owed>>
    /\ UNCHANGED <<mounted, ram, now, boots>>

\* mxfs_write of LAYER_DIRECT data into a page of the caller's choice: the time
\* of its header is not set, so it holds what the memory held.
Write(b, p, result, time) ==
    /\ mounted
    /\ ret' = Returned(result) /\ work_len' = 0
    /\ LET image == [st |-> "data", magic |-> TRUE, time |-> time, recs |-> {}]
       IN  \/ result = "OK" /\ flash' = Program(flash, b, p, image)
           \/ result = "ERR" /\ UNCHANGED flash
           \/ /\ result = "FAIL"
              /\ \E readable \in BOOLEAN : flash' = Program(flash, b, p, Torn(image, readable))
    /\ UNCHANGED <<mounted, ram, now, boots, owed>>

\* mxfs_append of an unknown layer or of a record of the wrong size, mxfs_write
\* of another layer or of no data.
Refuse ==
    /\ mounted
    /\ ret' = "ERR" /\ work_len' = 0
    /\ UNCHANGED <<mounted, ram, flash, now, boots, owed>>

\* Power fails: between two calls ("idle"), or in a flush while the block is
\* being erased, between erase and program, or while the page is programmed.
PowerLoss(point) ==
    /\ mounted
    /\ NoInstance
    /\ ret' = "OK" /\ work_len' = 0
    /\ \/ /\ point = "idle"
          /\ owed' = owed \ StagedRecords
          /\ UNCHANGED flash
       \/ /\ point = "in_erase"
          /\ ~ NothingStaged(mxfs_count) /\ Recycles
          /\ \E readable \in BOOLEAN :
                flash' = [flash EXCEPT ![current_block] =
                            [p \in Pages |-> IF @[p].st = "erased" THEN @[p]
                                             ELSE Torn(@[p], readable)]]
          /\ owed' = OwedAfterErase \ StagedRecords
       \/ /\ point = "after_erase"
          /\ ~ NothingStaged(mxfs_count) /\ Recycles
          /\ flash' = AfterErase
          /\ owed' = OwedAfterErase \ StagedRecords
       \/ /\ point = "in_write"
          /\ ~ NothingStaged(mxfs_count)
          /\ \E readable \in BOOLEAN :
                flash' = Program(AfterErase, current_block, current_page, Torn(Image, readable))
          /\ owed' = OwedAfterErase \ StagedRecords
    /\ UNCHANGED <<now, boots>>

-----------------------------------------------------------------------------
\* A device the parent has formatted, before the first mount.
Init ==
    /\ mounted = FALSE
    /\ buffer = NoRecords
    /\ current_block = BLOCK_START_DATA_AREA
    /\ current_page = 0
    /\ invalid = [b \in Blocks |-> FALSE]
    /\ pages = [b \in Blocks |-> [p \in Pages |-> {}]]
    /\ flash = [b \in Blocks |-> ErasedBlock]
    /\ ret = "OK" /\ work_len = 0
    /\ now = MSEC
    /\ boots = 0
    /\ owed = {}

Next ==
    \/ \E unreadable \in IF "ERR" \in DriverResults THEN SUBSET DataBlocks ELSE {{}} :
            Mount(unreadable)
    \/ Release
    \/ \E layer \in Sensors : AppendFits(layer)
    \/ \E layer \in Sensors : AppendFlushes(layer)
    \/ FlushNothing
    \/ \E result \in DriverResults : Flush(result)
    \/ \E b \in EraseBlocks, result \in DriverResults : Erase(b, result)
    \/ \E b \in WriteBlocks, p \in WritePages, result \in DriverResults :
            \E time \in IF b \in DataBlocks THEN {0, MaxTime} ELSE {0} :
                Write(b, p, result, time)
    \/ Refuse
    \/ \E point \in PowerLossPoints : PowerLoss(point)

Spec == Init /\ [][Next]_vars

-----------------------------------------------------------------------------
(* Retrieval: mxfs_timerange and mxfs_read change nothing, so they are       *)
(* functions of the state.                                                   *)

\* The pages mxfs_timerange reports for a layer: their first word is MAGIC and
\* the instance has the layer's bit set; on Linux the bit alone decides.
timerange(layer) ==
    {bp \in DataBlocks \X Pages :
        layer \in pages[bp[1]][bp[2]] /\ (LINUX \/ flash[bp[1]][bp[2]].magic)}

\* The pages of a block mxfs_timerange_by_block reports for a layer: those whose
\* headers announce records of it, if the block carries BLOCK_INVALID.
timerange_by_block(layer, b) ==
    {<<b, p>> : p \in {q \in Pages :
        invalid[b] /\ flash[b][q].magic /\ \E r \in flash[b][q].recs : r[1] = layer}}

\* The records mxfs_read finds in a page by its headers.
read(layer, b, p) ==
    IF flash[b][p].magic THEN {r \in flash[b][p].recs : r[1] = layer} ELSE {}

-----------------------------------------------------------------------------
(* Properties *)

Record == Layers \X Nat

\* The variables keep their types; in particular the position of the next page
\* (current_block, current_page) stays inside the data area.
TypeOK ==
    /\ mounted \in BOOLEAN
    /\ buffer \in [Layers -> Seq(Nat)]
    /\ current_block \in DataBlocks /\ current_page \in Pages
    /\ invalid \in [Blocks -> BOOLEAN]
    /\ pages \in [Blocks -> [Pages -> SUBSET Layers]]
    /\ \A b \in Blocks : DOMAIN flash[b] = Pages /\ \A p \in Pages :
            /\ flash[b][p].st \in {"erased", "data", "torn", "overwritten"}
            /\ flash[b][p].magic \in BOOLEAN /\ flash[b][p].time \in Nat
            /\ \A r \in flash[b][p].recs : r \in Record
    /\ ret \in {"OK", "ERR", "NEED_MORE_BUFFER"} /\ work_len \in Nat
    /\ now \in Nat /\ boots \in Nat
    /\ \A r \in owed : r \in Record

Buffers == INSTANCE MxfsBuffer

\* The staging buffers do what MxfsBuffer says: mxfs_append and mxfs_flush with
\* their records and driver errors implement it, lengths and counts being those
\* of the staged sequences.
ImplementsBuffers == Buffers!Spec

\* "No overwrite": mxfs_flush never programs a page of the data area that is
\* not erased, across the wrap at the last block, mounts and losses of power.
NoOverwrite ==
    \A b \in DataBlocks, p \in Pages : flash[b][p].st # "overwritten"

\* An acknowledged record stays staged or intact on the flash until the RAM is
\* lost or mxfs_flush recycles its block: no append, automatic flush or wrap
\* drops one in between.
AcknowledgedIsKept ==
    owed \subseteq StagedRecords \cup UNION {IntactIn(flash, b) : b \in DataBlocks}

\* Every record on an intact page is found again: mxfs_timerange reports its
\* page, from bits of this session or of the mount, and mxfs_read returns it.
RetrievalComplete ==
    mounted => \A b \in DataBlocks, p \in Pages : flash[b][p].st = "data" =>
        \A r \in flash[b][p].recs : <<b, p>> \in timerange(r[1]) /\ r \in read(r[1], b, p)

\* BLOCK_INVALID means used to mxfs_timerange_by_block and to be erased to
\* mxfs_flush, which clears it.  Still no data of an earlier session is hidden by
\* that: a block it does not report has been written by this instance, which
\* knows the layers of its pages exactly.
HiddenIsKnown ==
    (mounted /\ ~ LINUX) =>
        \A b \in DataBlocks, p \in Pages : flash[b][p].st = "data" =>
            LET layers == {r[1] : r \in flash[b][p].recs}
            IN  (\A l \in layers : <<b, p>> \in timerange_by_block(l, b)) \/ pages[b][p] = layers

\* "A single, chronological append-only structure": within a block, the intact
\* pages hold the records in the order they were appended.
BlockIsChronological ==
    \A b \in DataBlocks : \A p, q \in Pages :
        (p < q /\ flash[b][p].st = "data" /\ flash[b][q].st = "data") =>
            \A r \in flash[b][p].recs, s \in flash[b][q].recs : r[2] < s[2]

\* Data of block b is gone after the step.
Loses(b) == ~ (IntactIn(flash, b) \subseteq IntactIn(flash', b))

\* Recorded data is given up only for want of room: no flush erases a block
\* with data while some block of the data area is free.
EraseOnlyWhenFull ==
    [][\A b \in DataBlocks : Loses(b) => \A c \in DataBlocks : flash[c][0].magic]_vars

\* The block given up is the one with the oldest data: the file system keeps
\* the recent logs.
RecycleOldest ==
    [][\A b \in DataBlocks : Loses(b) =>
          \A c \in DataBlocks \ {b} : \A r \in IntactIn(flash, b), s \in IntactIn(flash, c) :
              r[2] < s[2]]_vars
=============================================================================
