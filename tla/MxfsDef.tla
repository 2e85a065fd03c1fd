------------------------------ MODULE MxfsDef ------------------------------
(***************************************************************************)
(* The definitions of sw/child/inc/mxfs_def.h that the file system modules *)
(* share: the logical layers, the sizes a record takes in the staging      *)
(* buffers and in a page image, and the length arithmetic mxfs_append and  *)
(* mxfs_flush do with them.  The sizes are constants, so that a model can  *)
(* use the code's values or scaled ones; nothing below depends on a value. *)
(***************************************************************************)
EXTENDS Integers

CONSTANTS
    PAGE_SIZE,               \* bytes of a flash page and of _work_buffer (2048)
    PAGE_RESERVE,            \* bytes mxfs_append leaves free in a page (64)
    MXFS_BUFFER_SIZE,        \* bytes of each layer's staging buffer
    ANTP_RECORD_SIZE,        \* payload of a speed, power or cadence record (18)
    GYRO_RECORD_SIZE,        \* payload of a gyro or accelerometer record (6)
    TEMPERATURE_RECORD_SIZE, \* payload of a temperature record (2)
    COMPRESS_SIZE,           \* sizeof(compress_t), a header in the page (16)
    TMM_SIZE                 \* sizeof(tmm), the time kept with a record (8)

UINT16 == 65536

U16(x) == x % UINT16

ASSUME SizesArePositive ==
    /\ PAGE_SIZE \in Nat \ {0}
    /\ MXFS_BUFFER_SIZE \in Nat \ {0}
    /\ ANTP_RECORD_SIZE \in Nat \ {0}
    /\ GYRO_RECORD_SIZE \in Nat \ {0}
    /\ TEMPERATURE_RECORD_SIZE \in Nat \ {0}
    /\ COMPRESS_SIZE \in Nat \ {0}
    /\ TMM_SIZE \in Nat \ {0}
    /\ PAGE_RESERVE \in Nat

\* The reserve of a page is at least one header, and any single record with
\* its header fits into what the reserve leaves of the page.
ASSUME PageHoldsARecord ==
    /\ COMPRESS_SIZE <= PAGE_RESERVE
    /\ ANTP_RECORD_SIZE + COMPRESS_SIZE + PAGE_RESERVE <= PAGE_SIZE
    /\ GYRO_RECORD_SIZE + COMPRESS_SIZE + PAGE_RESERVE <= PAGE_SIZE
    /\ TEMPERATURE_RECORD_SIZE + COMPRESS_SIZE + PAGE_RESERVE <= PAGE_SIZE

\* The lengths the code keeps in uint16_t do not wrap: a page, one record
\* more than a page, and a staging buffer are all below 2^16.
ASSUME LengthsFitUint16 ==
    /\ PAGE_SIZE + ANTP_RECORD_SIZE < UINT16
    /\ PAGE_SIZE + GYRO_RECORD_SIZE < UINT16
    /\ PAGE_SIZE + TEMPERATURE_RECORD_SIZE < UINT16
    /\ MXFS_BUFFER_SIZE < UINT16

-----------------------------------------------------------------------------
(* Layers *)

AntpLayers == {"speed", "power", "cadence"}

Dim3Layers == {"gyro", "accelerometer"}

Layers == AntpLayers \cup Dim3Layers \cup {"temperature"}

\* LAYER_CONFIG = LAYER_DIRECT = LAYER_MAX: not a layer one can append to.
LAYER_DIRECT == "direct"

\* The order in which mxfs_flush copies the layers into the page.
LayerOrder == <<"speed", "power", "cadence", "gyro", "accelerometer", "temperature">>

RecordSize(layer) ==
    CASE layer \in AntpLayers -> ANTP_RECORD_SIZE
      [] layer \in Dim3Layers -> GYRO_RECORD_SIZE
      [] layer = "temperature" -> TEMPERATURE_RECORD_SIZE

\* The switch at the head of mxfs_append.
ValidRecord(layer, bufferlen) ==
    layer \in Layers /\ bufferlen = RecordSize(layer)

\* A record in the staging buffer: its time, then its payload.
StagedSize(layer) == TMM_SIZE + RecordSize(layer)

\* A staging buffer holds a record of any layer.
ASSUME BufferHoldsARecord == \A l \in Layers : StagedSize(l) <= MXFS_BUFFER_SIZE

-----------------------------------------------------------------------------
(* Page lengths *)

\* Bytes n records of a layer take in a page: an ANT+ record has a header of
\* its own, the records of any other layer share one.
LayerLength(layer, n) ==
    IF layer \in AntpLayers
    THEN n * RecordSize(layer) + COMPRESS_SIZE * n
    ELSE n * RecordSize(layer) + (IF n > 0 THEN COMPRESS_SIZE ELSE 0)

\* The page image of count[l] records of every layer l.
PageLength(count) ==
    LayerLength("speed", count["speed"])
    + LayerLength("power", count["power"])
    + LayerLength("cadence", count["cadence"])
    + LayerLength("gyro", count["gyro"])
    + LayerLength("accelerometer", count["accelerometer"])
    + LayerLength("temperature", count["temperature"])

\* Mutant of MustFlush: the page is filled to its end, without the reserve.
MustFlush_NoReserve(count, bufferlen) == U16(PageLength(count) + bufferlen) > PAGE_SIZE

\* mxfs_append flushes first when the staged records and the payload of the
\* new one (not its header) would leave less than the reserve.
MustFlush(count, bufferlen) ==
    U16(PageLength(count) + bufferlen) > PAGE_SIZE - PAGE_RESERVE

\* mxfs_flush has nothing to do: the payload of the counted records is empty.
NothingStaged(count) == \A l \in Layers : count[l] = 0
=============================================================================
