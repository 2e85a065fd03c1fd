----------------------------- MODULE MxfsBuffer -----------------------------
(***************************************************************************)
(* The staging buffers of an mxfs instance (mxfs_append.cc and the RAM     *)
(* half of mxfs_flush.cc): how many bytes and records each layer holds,    *)
(* and how long the page image is that a flush assembles in _work_buffer.  *)
(*                                                                         *)
(* mxfs_append decides from the record COUNTS whether the page is full,    *)
(* mxfs_flush copies as many bytes as the staged LENGTHS say, without      *)
(* looking at the end of the page.  The two agree only if every operation  *)
(* keeps lengths and counts in step, and the page image fits only if the   *)
(* reserve makes up for the header mxfs_append does not count.             *)
(***************************************************************************)
EXTENDS MxfsDef

CONSTANT
    Sensors     \* the layers the application appends to

ASSUME SensorsAreLayers == Sensors \subseteq Layers

VARIABLES
    mxfs_length,    \* bytes staged, per layer
    mxfs_count,     \* records staged, per layer
    ret,            \* what the last operation returned
    work_len        \* length of the page image of the last operation, 0 if none

vars == <<mxfs_length, mxfs_count, ret, work_len>>

Empty == [l \in Layers |-> 0]

\* Records mxfs_flush finds in len staged bytes: its loops step through the
\* buffer from 0 while the offset is below the length.
RecordsIn(layer, len) == (len + StagedSize(layer) - 1) \div StagedSize(layer)

\* The page image mxfs_flush assembles from the staged lengths.
WorkLen(length) == PageLength([l \in Layers |-> RecordsIn(l, length[l])])

\* Mutant of FlushedCount: a flush takes one record off each layer.
FlushedCount_ByOne(count, length) == [l \in Layers |-> count[l] - 1]

\* The counts after mxfs_flush has copied every layer: the ANT+ layers are
\* reset in any case, the others when they hold bytes.
FlushedCount(count, length) ==
    [l \in Layers |-> IF l \in AntpLayers \/ length[l] > 0 THEN 0 ELSE count[l]]

\* The variables keep their types: no count or length of mxfs_inst goes below 0.
TypeOK ==
    /\ mxfs_length \in [Layers -> Nat]
    /\ mxfs_count \in [Layers -> Nat]
    /\ ret \in {"OK", "ERR", "NEED_MORE_BUFFER"}
    /\ work_len \in Nat

Init ==
    /\ mxfs_length = Empty
    /\ mxfs_count = Empty
    /\ ret = "OK"
    /\ work_len = 0

-----------------------------------------------------------------------------
\* mxfs_append refuses an unknown layer and a record of the wrong size.
AppendInvalid(layer, bufferlen) ==
    /\ ~ ValidRecord(layer, bufferlen)
    /\ ret' = "ERR"
    /\ work_len' = 0
    /\ UNCHANGED <<mxfs_length, mxfs_count>>

\* Mutant of Stage: the length does not grow by the time kept with the record.
Stage_NoTime(layer, length, count) ==
    /\ length[layer] + StagedSize(layer) <= MXFS_BUFFER_SIZE
    /\ ret' = "OK"
    /\ mxfs_length' = [length EXCEPT ![layer] = U16(@ + RecordSize(layer))]
    /\ mxfs_count' = [count EXCEPT ![layer] = U16(@ + 1)]

\* Mutant of Stage: the check for room leaves out the time.
Stage_ShortCheck(layer, length, count) ==
    /\ length[layer] + RecordSize(layer) <= MXFS_BUFFER_SIZE
    /\ ret' = "OK"
    /\ mxfs_length' = [length EXCEPT ![layer] = U16(@ + StagedSize(layer))]
    /\ mxfs_count' = [count EXCEPT ![layer] = U16(@ + 1)]

\* The second half of mxfs_append: stage the record if its layer's buffer has
\* room for it, given the counters the first half left.
Stage(layer, length, count) ==
    IF length[layer] + StagedSize(layer) > MXFS_BUFFER_SIZE
    THEN /\ ret' = "NEED_MORE_BUFFER"
         /\ mxfs_length' = length
         /\ mxfs_count' = count
    ELSE /\ ret' = "OK"
         /\ mxfs_length' = [length EXCEPT ![layer] = U16(@ + StagedSize(layer))]
         /\ mxfs_count' = [count EXCEPT ![layer] = U16(@ + 1)]

\* mxfs_append of a valid record: the page estimate leaves room for it.
AppendFits(layer) ==
    /\ ~ MustFlush(mxfs_count, RecordSize(layer))
    /\ work_len' = 0
    /\ Stage(layer, mxfs_length, mxfs_count)

\* mxfs_append of a valid record when it does not: flush whatever the result,
\* reset the layer, and stage the record.  (MustFlush with nothing staged
\* cannot be: a single record fits into the page.)
AppendFlushes(layer) ==
    /\ MustFlush(mxfs_count, RecordSize(layer))
    /\ work_len' = WorkLen(mxfs_length)
    /\ Stage(layer, Empty,
             [FlushedCount(mxfs_count, mxfs_length) EXCEPT ![layer] = 0])

\* mxfs_flush with nothing staged returns at once.
FlushNothing ==
    /\ NothingStaged(mxfs_count)
    /\ ret' = "OK"
    /\ work_len' = 0
    /\ UNCHANGED <<mxfs_length, mxfs_count>>

\* mxfs_flush empties the buffers before it turns to the flash, and returns
\* what the driver says.
Flush(result) ==
    /\ ~ NothingStaged(mxfs_count)
    /\ work_len' = WorkLen(mxfs_length)
    /\ mxfs_length' = Empty
    /\ mxfs_count' = FlushedCount(mxfs_count, mxfs_length)
    /\ ret' = result

\* Any other call (create, release, erase, write) or a loss of power: the
\* buffers are as they were, or those of a fresh instance.
Elsewhere(result) ==
    /\ ret' = result
    /\ work_len' = 0
    /\ \/ UNCHANGED <<mxfs_length, mxfs_count>>
       \/ mxfs_length' = Empty /\ mxfs_count' = Empty

Next ==
    \/ \E layer \in Sensors \cup {LAYER_DIRECT},
          bufferlen \in {ANTP_RECORD_SIZE, GYRO_RECORD_SIZE, TEMPERATURE_RECORD_SIZE} :
            AppendInvalid(layer, bufferlen)
    \/ \E layer \in Sensors : AppendFits(layer)
    \/ \E layer \in Sensors : AppendFlushes(layer)
    \/ FlushNothing
    \/ \E result \in {"OK", "ERR"} : Flush(result)
    \/ \E result \in {"OK", "ERR"} : Elsewhere(result)

Spec == Init /\ [][Next]_vars

-----------------------------------------------------------------------------
\* Lengths and counts stay in step: what mxfs_flush copies by length is what
\* mxfs_append estimated by count, after any sequence of appends (accepted or
\* refused), automatic and explicit flushes and resets.
LengthMatchesCount ==
    \A l \in Layers : mxfs_length[l] = mxfs_count[l] * StagedSize(l)

\* What is staged can always be flushed into one page: the estimate leaves out
\* the header of the record being appended, and the reserve makes up for it.
StagedFitsPage == PageLength(mxfs_count) <= PAGE_SIZE

\* mxfs_flush never writes past the end of _work_buffer[PAGE_SIZE].
ImageFitsPage == work_len <= PAGE_SIZE

\* No memcpy of mxfs_append ends behind the layer's staging buffer, although
\* the staged records are 8 bytes larger than what the page estimate counts.
StagingFitsBuffer == \A l \in Layers : mxfs_length[l] <= MXFS_BUFFER_SIZE

\* Flushing is implicit: a valid record is never refused for want of room,
\* because a full page is flushed before any staging buffer is full.
FlushIsImplicit == ret # "NEED_MORE_BUFFER"
=============================================================================
