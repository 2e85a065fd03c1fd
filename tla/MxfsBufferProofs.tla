-------------------------- MODULE MxfsBufferProofs --------------------------
(***************************************************************************)
(* Proofs about the staging buffers, for every value of the sizes that     *)
(* satisfies the assumptions of MxfsDef: the counters stay in step, no     *)
(* staging buffer and no page image overflows.                             *)
(***************************************************************************)
EXTENDS MxfsBuffer, MxfsDefProofs

\* StagedFitsPage is not inductive: an append adds a payload that the guard
\* counted and at most one header that it did not.
StagedWithinLimit ==
    PageLength(mxfs_count) <= PAGE_SIZE - PAGE_RESERVE + COMPRESS_SIZE

BufferInv ==
    /\ TypeOK
    /\ LengthMatchesCount
    /\ StagedWithinLimit
    /\ StagingFitsBuffer
    /\ ImageFitsPage

-----------------------------------------------------------------------------
(* Page images *)

\* An empty buffer makes an empty page.
LEMMA PageLengthEmpty == PageLength(Empty) = 0
  <1>1. \A l \in Layers : Empty[l] = 0 /\ LayerLength(l, Empty[l]) = 0
    BY LayerLengthType DEF Empty
  <1> QED
    BY <1>1 DEF PageLength, Layers, AntpLayers, Dim3Layers

\* mxfs_flush's loops find n records in the bytes of n records.
LEMMA RecordsInExact ==
    ASSUME NEW l \in Layers, NEW n \in Nat
    PROVE  RecordsIn(l, n * StagedSize(l)) = n
  <1>1. PICK s \in Nat \ {0} : s = StagedSize(l)
    BY RecordSizeType
  <1> QED
    BY <1>1, RoundsOfLoop DEF RecordsIn

\* While lengths and counts are in step, the page image mxfs_flush assembles by
\* length is the page mxfs_append estimated by count.
LEMMA WorkLenIsPageLength ==
    ASSUME TypeOK, LengthMatchesCount
    PROVE  WorkLen(mxfs_length) = PageLength(mxfs_count)
  <1> DEFINE found == [l \in Layers |-> RecordsIn(l, mxfs_length[l])]
  <1>1. \A l \in Layers : found[l] = mxfs_count[l]
    BY RecordsInExact DEF TypeOK, LengthMatchesCount
  <1>2. WorkLen(mxfs_length) = PageLength(found)
    BY DEF WorkLen
  <1> HIDE DEF found
  <1> QED
    BY <1>1, <1>2 DEF PageLength, Layers, AntpLayers, Dim3Layers

\* Before an append that does not flush first, the staged page leaves room for
\* the payload: the uint16_t in which the estimate is summed does not wrap.
LEMMA RoomForPayload ==
    ASSUME TypeOK, StagedWithinLimit, NEW l \in Layers,
           ~ MustFlush(mxfs_count, RecordSize(l))
    PROVE  PageLength(mxfs_count) + RecordSize(l) <= PAGE_SIZE - PAGE_RESERVE
  <1>1. PageLength(mxfs_count) \in Nat
    BY PageLengthType DEF TypeOK
  <1>2. PageLength(mxfs_count) + RecordSize(l) < UINT16
    BY <1>1, RecordSizeType, SizesArePositive, PageHoldsARecord
    DEF StagedWithinLimit, UINT16
  <1>3. U16(PageLength(mxfs_count) + RecordSize(l)) = PageLength(mxfs_count) + RecordSize(l)
    BY <1>1, <1>2, RecordSizeType, U16Small DEF UINT16
  <1> QED
    BY <1>1, <1>3, RecordSizeType, SizesArePositive DEF MustFlush

\* The second half of mxfs_append keeps the counters in step, the staging
\* buffer within its size and the page within its limit, whenever the counters
\* it starts from have those properties and room for the payload is left.
LEMMA StagePreserves ==
    ASSUME NEW l \in Layers,
           NEW length \in [Layers -> Nat], NEW count \in [Layers -> Nat],
           \A k \in Layers : length[k] = count[k] * StagedSize(k),
           \A k \in Layers : length[k] <= MXFS_BUFFER_SIZE,
           PageLength(count) + RecordSize(l) <= PAGE_SIZE - PAGE_RESERVE,
           Stage(l, length, count)
    PROVE  /\ mxfs_length' \in [Layers -> Nat] /\ mxfs_count' \in [Layers -> Nat]
           /\ ret' \in {"OK", "ERR", "NEED_MORE_BUFFER"}
           /\ LengthMatchesCount'
           /\ StagedWithinLimit'
           /\ StagingFitsBuffer'
  <1> DEFINE s == StagedSize(l)
  <1>0. /\ s \in Nat \ {0} /\ RecordSize(l) \in Nat
        /\ COMPRESS_SIZE \in Nat /\ PAGE_SIZE \in Nat /\ PAGE_RESERVE \in Nat
        /\ MXFS_BUFFER_SIZE \in Nat /\ MXFS_BUFFER_SIZE < 65536
        /\ PageLength(count) \in Nat
    BY RecordSizeType, SizesArePositive, LengthsFitUint16, PageLengthType DEF UINT16
  <1>1. CASE length[l] + s > MXFS_BUFFER_SIZE
    <2>1. mxfs_length' = length /\ mxfs_count' = count /\ ret' = "NEED_MORE_BUFFER"
      BY <1>1 DEF Stage
    <2> QED
      BY <2>1, <1>0 DEF LengthMatchesCount, StagedWithinLimit, StagingFitsBuffer
  <1>2. CASE ~ (length[l] + s > MXFS_BUFFER_SIZE)
    <2>1. /\ ret' = "OK"
          /\ mxfs_length' = [length EXCEPT ![l] = U16(@ + s)]
          /\ mxfs_count' = [count EXCEPT ![l] = U16(@ + 1)]
      BY <1>2 DEF Stage
    <2>2. U16(length[l] + s) = length[l] + s
      <3> HIDE DEF s
      <3>1. length[l] + s \in Nat /\ length[l] + s < 65536
        BY <1>0, <1>2
      <3> QED BY <3>1, U16Small
    <2>3. (count[l] + 1) * s = length[l] + s
      <3>1. count[l] \in Nat /\ length[l] = count[l] * s
        OBVIOUS
      <3> HIDE DEF s
      <3> QED BY <3>1, <1>0
    <2>4. count[l] + 1 <= (count[l] + 1) * s
      <3>1. PICK n \in Nat : n = count[l] + 1
        OBVIOUS
      <3> HIDE DEF s
      <3>2. n <= n * s
        BY <1>0
      <3> QED BY <3>1, <3>2
    <2>5. U16(count[l] + 1) = count[l] + 1
      <3>1. count[l] + 1 < 65536
        <4> HIDE DEF s
        <4> QED BY <2>3, <2>4, <1>0, <1>2
      <3> QED BY <3>1, U16Small
    <2>6. /\ mxfs_length' = [length EXCEPT ![l] = @ + s]
          /\ mxfs_count' = [count EXCEPT ![l] = @ + 1]
      BY <2>1, <2>2, <2>5
    <2>7. LengthMatchesCount'
      <3>1. \A k \in Layers : k # l => mxfs_length'[k] = mxfs_count'[k] * StagedSize(k)
        BY <2>6
      <3>2. mxfs_length'[l] = length[l] + s /\ mxfs_count'[l] = count[l] + 1
        BY <2>6
      <3> QED BY <3>1, <3>2, <2>3 DEF LengthMatchesCount
    <2>8. StagedWithinLimit'
      <3>1. PageLength(mxfs_count') <= PageLength(count) + RecordSize(l) + COMPRESS_SIZE
        BY <2>6, PageLengthStep
      <3>2. mxfs_count' \in [Layers -> Nat]
        BY <2>6
      <3>3. PageLength(mxfs_count') \in Nat
        BY <3>2, PageLengthType
      <3> QED BY <3>1, <3>3, <1>0 DEF StagedWithinLimit
    <2>9. StagingFitsBuffer'
      BY <2>6, <1>0, <1>2 DEF StagingFitsBuffer
    <2> QED
      BY <2>1, <2>6, <2>7, <2>8, <2>9, <1>0
  <1> QED
    BY <1>1, <1>2

-----------------------------------------------------------------------------
(* The invariant *)

\* Empty counters have every property of the invariant.
LEMMA EmptyCounters ==
    /\ Empty \in [Layers -> Nat]
    /\ \A l \in Layers : Empty[l] = Empty[l] * StagedSize(l)
    /\ \A l \in Layers : Empty[l] <= MXFS_BUFFER_SIZE
    /\ PageLength(Empty) <= PAGE_SIZE - PAGE_RESERVE + COMPRESS_SIZE
    /\ \A l \in Layers : PageLength(Empty) + RecordSize(l) <= PAGE_SIZE - PAGE_RESERVE
  <1>1. \A l \in Layers : 0 = 0 * StagedSize(l)
    BY RecordSizeType
  <1>2. Empty \in [Layers -> Nat] /\ \A l \in Layers : Empty[l] = 0
    BY DEF Empty
  <1> QED
    BY <1>1, <1>2, PageLengthEmpty, RecordSizeType, SizesArePositive, PageHoldsARecord

\* A flush leaves nothing staged: the counters it does not reset are 0 already.
LEMMA FlushedIsEmpty ==
    ASSUME TypeOK, LengthMatchesCount
    PROVE  FlushedCount(mxfs_count, mxfs_length) = Empty
  <1>1. ASSUME NEW l \in Layers, ~ (mxfs_length[l] > 0)
        PROVE  mxfs_count[l] = 0
    <2>1. PICK n \in Nat : n = mxfs_count[l]
      BY DEF TypeOK
    <2>2. PICK s \in Nat \ {0} : s = StagedSize(l)
      BY RecordSizeType
    <2>3. n * s = 0
      BY <1>1, <2>1, <2>2 DEF TypeOK, LengthMatchesCount
    <2>4. n = 0
      BY <2>3
    <2> QED BY <2>1, <2>4
  <1> QED
    BY <1>1 DEF FlushedCount, Empty

\* No operation takes the buffers out of the invariant.
LEMMA BufferStep ==
    BufferInv /\ [Next]_vars => BufferInv'
  <1> SUFFICES ASSUME BufferInv, [Next]_vars
               PROVE  BufferInv'
    OBVIOUS
  <1> USE DEF BufferInv
  <1>0. /\ PAGE_SIZE \in Nat /\ PAGE_RESERVE \in Nat /\ COMPRESS_SIZE \in Nat
        /\ COMPRESS_SIZE <= PAGE_RESERVE
        /\ PageLength(mxfs_count) \in Nat
    BY SizesArePositive, PageHoldsARecord, PageLengthType DEF TypeOK
  <1>image. WorkLen(mxfs_length) \in Nat /\ WorkLen(mxfs_length) <= PAGE_SIZE
    BY <1>0, WorkLenIsPageLength DEF StagedWithinLimit
  <1>1. ASSUME NEW layer, NEW bufferlen, AppendInvalid(layer, bufferlen)
        PROVE  BufferInv'
    BY <1>1, <1>0 DEF AppendInvalid, TypeOK, LengthMatchesCount, StagedWithinLimit,
                      StagingFitsBuffer, ImageFitsPage
  <1>2. ASSUME NEW layer \in Sensors, AppendFits(layer)
        PROVE  BufferInv'
    <2>1. layer \in Layers /\ work_len' = 0 /\ Stage(layer, mxfs_length, mxfs_count)
      BY <1>2, SensorsAreLayers DEF AppendFits
    <2>2. PageLength(mxfs_count) + RecordSize(layer) <= PAGE_SIZE - PAGE_RESERVE
      BY <1>2, <2>1, RoomForPayload DEF AppendFits
    <2> QED
      BY <2>1, <2>2, <1>0, StagePreserves
      DEF TypeOK, LengthMatchesCount, StagingFitsBuffer, ImageFitsPage
  <1>3. ASSUME NEW layer \in Sensors, AppendFlushes(layer)
        PROVE  BufferInv'
    <2>1. layer \in Layers /\ work_len' = WorkLen(mxfs_length)
      BY <1>3, SensorsAreLayers DEF AppendFlushes
    <2>2. [Empty EXCEPT ![layer] = 0] = Empty
      BY <2>1 DEF Empty
    <2>3. Stage(layer, Empty, Empty)
      BY <1>3, <2>2, FlushedIsEmpty DEF AppendFlushes
    <2> QED
      BY <2>1, <2>3, <1>image, EmptyCounters, StagePreserves DEF TypeOK, ImageFitsPage
  <1>4. CASE FlushNothing
    BY <1>4, <1>0 DEF FlushNothing, TypeOK, LengthMatchesCount, StagedWithinLimit,
                      StagingFitsBuffer, ImageFitsPage
  <1>5. ASSUME NEW result \in {"OK", "ERR"}, Flush(result)
        PROVE  BufferInv'
    <2>1. /\ mxfs_length' = Empty /\ mxfs_count' = Empty
          /\ work_len' = WorkLen(mxfs_length) /\ ret' = result
      BY <1>5, FlushedIsEmpty DEF Flush
    <2> QED
      BY <2>1, <1>image, EmptyCounters
      DEF TypeOK, LengthMatchesCount, StagedWithinLimit, StagingFitsBuffer, ImageFitsPage
  <1>6. ASSUME NEW result \in {"OK", "ERR"}, Elsewhere(result)
        PROVE  BufferInv'
    <2>1. work_len' = 0 /\ ret' = result
      BY <1>6 DEF Elsewhere
    <2>2. CASE UNCHANGED <<mxfs_length, mxfs_count>>
      BY <2>1, <2>2, <1>0 DEF TypeOK, LengthMatchesCount, StagedWithinLimit,
                              StagingFitsBuffer, ImageFitsPage
    <2>3. CASE mxfs_length' = Empty /\ mxfs_count' = Empty
      BY <2>1, <2>3, <1>0, EmptyCounters
      DEF TypeOK, LengthMatchesCount, StagedWithinLimit, StagingFitsBuffer, ImageFitsPage
    <2> QED
      BY <1>6, <2>2, <2>3 DEF Elsewhere
  <1>7. CASE UNCHANGED vars
    BY <1>7, <1>0 DEF vars, TypeOK, LengthMatchesCount, StagedWithinLimit,
                      StagingFitsBuffer, ImageFitsPage
  <1> QED
    BY <1>1, <1>2, <1>3, <1>4, <1>5, <1>6, <1>7 DEF Next

\* The invariant holds in every reachable state.
LEMMA BufferInvariant == Spec => []BufferInv
  <1>1. Init => BufferInv
    BY EmptyCounters, SizesArePositive
    DEF Init, BufferInv, TypeOK, LengthMatchesCount, StagedWithinLimit,
        StagingFitsBuffer, ImageFitsPage
  <1> QED
    BY <1>1, BufferStep, PTL DEF Spec

\* The counters of mxfs_append and mxfs_flush keep their types.
THEOREM TypeCorrect == Spec => []TypeOK
  <1>1. BufferInv => TypeOK
    BY DEF BufferInv
  <1> QED
    BY <1>1, BufferInvariant, PTL

\* Lengths and counts stay in step, for every choice of the sizes.
THEOREM CountersInStep == Spec => []LengthMatchesCount
  <1>1. BufferInv => LengthMatchesCount
    BY DEF BufferInv
  <1> QED
    BY <1>1, BufferInvariant, PTL

\* mxfs_flush never writes past the end of _work_buffer, and what is staged
\* always fits into one page, for every choice of the sizes in which the
\* reserve covers one header.
THEOREM PageNeverOverflows == Spec => [](ImageFitsPage /\ StagedFitsPage)
  <1>1. BufferInv => ImageFitsPage /\ StagedFitsPage
    BY SizesArePositive, PageHoldsARecord, PageLengthType
    DEF BufferInv, TypeOK, StagedWithinLimit, StagedFitsPage
  <1> QED
    BY <1>1, BufferInvariant, PTL

\* mxfs_append never copies past the end of a layer's staging buffer.
THEOREM StagingNeverOverflows == Spec => []StagingFitsBuffer
  <1>1. BufferInv => StagingFitsBuffer
    BY DEF BufferInv
  <1> QED
    BY <1>1, BufferInvariant, PTL

-----------------------------------------------------------------------------
(* Room for every record *)

\* A staging buffer holds a page full of any layer's records, times included:
\* true of PAGE_SIZE << 3, and false of PAGE_SIZE << 2 for the temperature.
BufferHoldsAPage ==
    \A l \in Layers :
        (PAGE_SIZE - PAGE_RESERVE) * StagedSize(l) <= MXFS_BUFFER_SIZE * RecordSize(l)

\* The records of one layer take no more than the whole page.
LEMMA PayloadWithinPage ==
    ASSUME NEW count \in [Layers -> Nat], NEW l \in Layers
    PROVE  count[l] * RecordSize(l) <= PageLength(count)
  <1>1. \A k \in Layers : LayerLength(k, count[k]) \in Nat
    BY LayerLengthType
  <1>2. count[l] * RecordSize(l) <= LayerLength(l, count[l])
    <2>1. PICK p \in Nat : p = count[l] * RecordSize(l)
      <3>1. PICK n \in Nat, r \in Nat : n = count[l] /\ r = RecordSize(l)
        BY RecordSizeType
      <3>2. n * r \in Nat
        OBVIOUS
      <3> QED BY <3>1, <3>2
    <2>2. PICK h \in Nat : h = COMPRESS_SIZE * count[l]
      <3>1. PICK n \in Nat, c \in Nat : n = count[l] /\ c = COMPRESS_SIZE
        BY SizesArePositive
      <3>2. c * n \in Nat
        OBVIOUS
      <3> QED BY <3>1, <3>2
    <2>3. LayerLength(l, count[l]) = p + h \/ LayerLength(l, count[l]) = p
          \/ LayerLength(l, count[l]) = p + COMPRESS_SIZE
      BY <2>1, <2>2 DEF LayerLength
    <2> QED BY <2>1, <2>3, SizesArePositive
  <1>3. LayerLength(l, count[l]) <= PageLength(count)
    BY <1>1 DEF PageLength, Layers, AntpLayers, Dim3Layers
  <1>4. PICK p \in Nat : p = count[l] * RecordSize(l)
    <2>1. PICK n \in Nat, r \in Nat : n = count[l] /\ r = RecordSize(l)
      BY RecordSizeType
    <2>2. n * r \in Nat
      OBVIOUS
    <2> QED BY <2>1, <2>2
  <1> QED
    BY <1>1, <1>2, <1>3, <1>4, PageLengthType

\* n records that fit into m bytes of page at r bytes each fit into b bytes of
\* buffer at s bytes each, if m / r records do.
LEMMA FitsScaled ==
    ASSUME NEW n \in Nat, NEW r \in Nat \ {0}, NEW s \in Nat, NEW m \in Nat, NEW b \in Nat,
           n * r <= m, m * s <= b * r
    PROVE  n * s <= b
  <1>1. (n * r) * s <= m * s
    <2>1. PICK d \in Nat : m = n * r + d
      <3>1. n * r \in Nat
        OBVIOUS
      <3>2. m = n * r + (m - n * r) /\ m - n * r \in Nat
        BY <3>1
      <3> QED BY <3>2
    <2>2. m * s = (n * r) * s + d * s /\ d * s \in Nat /\ (n * r) * s \in Int
      BY <2>1
    <2> QED BY <2>2
  <1>2. (n * r) * s = (n * s) * r
    OBVIOUS
  <1>3. ASSUME ~ (n * s <= b) PROVE FALSE
    <2>1. PICK d \in Nat : n * s = b + 1 + d
      <3>1. n * s \in Nat
        OBVIOUS
      <3>2. n * s = b + 1 + (n * s - b - 1) /\ n * s - b - 1 \in Nat
        BY <1>3, <3>1
      <3> QED BY <3>2
    <2>2. (n * s) * r = b * r + r + d * r
      BY <2>1
    <2>3. b * r \in Nat /\ d * r \in Nat
      OBVIOUS
    <2>4. (n * s) * r \in Int /\ m * s \in Int /\ (n * r) * s \in Int
      OBVIOUS
    <2> QED BY <1>1, <1>2, <2>2, <2>3, <2>4
  <1> QED
    BY <1>3

\* A record for whose payload the page has room finds room in its staging
\* buffer, whatever is staged.
LEMMA StageAccepts ==
    ASSUME BufferHoldsAPage, NEW l \in Layers,
           NEW length \in [Layers -> Nat], NEW count \in [Layers -> Nat],
           \A k \in Layers : length[k] = count[k] * StagedSize(k),
           PageLength(count) + RecordSize(l) <= PAGE_SIZE - PAGE_RESERVE,
           Stage(l, length, count)
    PROVE  ret' = "OK"
  <1>1. PICK n \in Nat, r \in Nat \ {0}, s \in Nat :
            n = count[l] /\ r = RecordSize(l) /\ s = StagedSize(l)
    BY RecordSizeType
  <1>2. PICK m \in Nat, b \in Nat : m = PAGE_SIZE - PAGE_RESERVE /\ b = MXFS_BUFFER_SIZE
    BY SizesArePositive, PageHoldsARecord
  <1>3. n * r + r <= m
    <2>1. n * r <= PageLength(count) /\ PageLength(count) \in Nat
      BY <1>1, PayloadWithinPage, PageLengthType
    <2>2. n * r \in Nat
      OBVIOUS
    <2> QED BY <2>1, <2>2, <1>1, <1>2
  <1>4. (n + 1) * r <= m
    BY <1>3
  <1>5. m * s <= b * r
    BY <1>1, <1>2 DEF BufferHoldsAPage
  <1>6. (n + 1) * s <= b
    BY <1>4, <1>5, FitsScaled
  <1>7. n * s + s <= b
    BY <1>6
  <1>8. length[l] = n * s /\ n * s \in Nat
    BY <1>1
  <1>9. ~ (length[l] + StagedSize(l) > MXFS_BUFFER_SIZE)
    BY <1>1, <1>2, <1>7, <1>8
  <1> QED
    BY <1>9 DEF Stage

\* Flushing is implicit in the builds whose staging buffers hold a page full of
\* records: mxfs_append never returns NEED_MORE_BUFFER, for every choice of the
\* sizes that satisfies BufferHoldsAPage.
THEOREM AppendNeedsNoFlush ==
    ASSUME BufferHoldsAPage
    PROVE  Spec => []FlushIsImplicit
  <1>1. Init => FlushIsImplicit
    BY DEF Init, FlushIsImplicit
  <1>2. BufferInv /\ FlushIsImplicit /\ [Next]_vars => FlushIsImplicit'
    <2> SUFFICES ASSUME BufferInv, FlushIsImplicit, [Next]_vars
                 PROVE  FlushIsImplicit'
      OBVIOUS
    <2>1. ASSUME NEW layer \in Sensors, AppendFits(layer)
          PROVE  FlushIsImplicit'
      <3>1. layer \in Layers /\ Stage(layer, mxfs_length, mxfs_count)
        BY <2>1, SensorsAreLayers DEF AppendFits
      <3>2. PageLength(mxfs_count) + RecordSize(layer) <= PAGE_SIZE - PAGE_RESERVE
        BY <2>1, <3>1, RoomForPayload DEF AppendFits, BufferInv
      <3>3. ret' = "OK"
        BY <3>1, <3>2, StageAccepts DEF BufferInv, TypeOK, LengthMatchesCount
      <3> QED BY <3>3 DEF FlushIsImplicit
    <2>2. ASSUME NEW layer \in Sensors, AppendFlushes(layer)
          PROVE  FlushIsImplicit'
      <3>1. layer \in Layers /\ [Empty EXCEPT ![layer] = 0] = Empty
        BY SensorsAreLayers DEF Empty
      <3>2. Stage(layer, Empty, Empty)
        BY <2>2, <3>1, FlushedIsEmpty DEF AppendFlushes, BufferInv
      <3>3. ret' = "OK"
        BY <3>1, <3>2, EmptyCounters, StageAccepts
      <3> QED BY <3>3 DEF FlushIsImplicit
    <2>3. CASE \/ \E layer, bufferlen : AppendInvalid(layer, bufferlen)
               \/ FlushNothing
               \/ \E result \in {"OK", "ERR"} : Flush(result) \/ Elsewhere(result)
               \/ UNCHANGED vars
      BY <2>3 DEF AppendInvalid, FlushNothing, Flush, Elsewhere, vars, FlushIsImplicit
    <2> QED
      BY <2>1, <2>2, <2>3 DEF Next
  <1> QED
    BY <1>1, <1>2, BufferInvariant, PTL DEF Spec
=============================================================================
