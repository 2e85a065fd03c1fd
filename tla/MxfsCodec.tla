----------------------------- MODULE MxfsCodec -----------------------------
(***************************************************************************)
(* The format of a page and the programs that read it: the headers         *)
(* (compress_t) mxfs_flush.cc puts in front of the records, and the walks  *)
(* over them of mxfs_read.cc, of mxfs_timerange_by_block                   *)
(* (mxfs_timerange.cc) and of the formatter's csv and search commands      *)
(* (format.cc).  No header says where the next one is: each reader skips   *)
(* the records by a stride of its own, and takes a page to end where it    *)
(* does not find MAGIC.  The times of gyro, accelerometer and temperature  *)
(* records are not kept; they are made up from the first one and a step.   *)
(*                                                                         *)
(* The payload of a record is its identity <<layer, i>>, the i-th staged   *)
(* one of its layer.  A page is two functions of offsets: the headers and  *)
(* the payloads that start there.  Everything else is read as not being    *)
(* MAGIC: the erased rest of the page, and the inside of a payload (which  *)
(* must not contain the four bytes of MAGIC).                              *)
(***************************************************************************)
EXTENDS MxfsDef, SequencesExt

CONSTANTS
    MSEC,           \* units of tmm in a second (1000)
    UINT32,         \* 2^32, the width of the header's time and of unsigned
    MSEC_FIELD,     \* 2^10, of msec
    STEP_FIELD,     \* 2^16, of step
    ANT_FIELD,      \* 2^9, of ant.length
    GYR_FIELD,      \* 2^11, of gyr.count
    TMP_FIELD,      \* 2^16, of tmp.count
    RBF_SIZE,       \* bytes mxfs_timerange_by_block and search read (2112)
    Sensors,        \* the layers the application appends to
    StartTime,      \* the time of the application's clock at first
    Ticks,          \* by how much it may advance from one record to the next
    MaxRecords,     \* bound: records appended in a behaviour
    Epochs          \* the seconds given to search as -a and -z

\* The counts and lengths of a page fit their fields; times need not.
ASSUME FieldsAssumption ==
    /\ MSEC \in Nat \ {0} /\ MSEC <= MSEC_FIELD
    /\ UINT32 \in Nat \ {0} /\ STEP_FIELD \in Nat \ {0}
    /\ MSEC_FIELD \in Nat /\ ANT_FIELD \in Nat /\ GYR_FIELD \in Nat /\ TMP_FIELD \in Nat
    /\ RBF_SIZE \in Nat
    /\ ANTP_RECORD_SIZE < ANT_FIELD
    /\ PAGE_SIZE < GYR_FIELD * GYRO_RECORD_SIZE
    /\ PAGE_SIZE < TMP_FIELD * TEMPERATURE_RECORD_SIZE
    /\ PAGE_SIZE <= RBF_SIZE

ASSUME CodecEnvironment ==
    /\ Sensors \subseteq Layers
    /\ StartTime \in Nat \ {0} /\ Ticks \subseteq Nat
    /\ MaxRecords \in Nat /\ Epochs \subseteq Nat

VARIABLES
    staged,     \* mxfs_buffer: the times of the staged records, per layer
    now,        \* the time the application gave to its last record
    total,      \* records appended so far
    page,       \* the page last flushed
    source      \* history: the records that page was made of

vars == <<staged, now, total, page, source>>

NoRecords == [l \in Layers |-> <<>>]

Counts(buffer) == [l \in Layers |-> Len(buffer[l])]

-----------------------------------------------------------------------------
(* Writing: the page image of mxfs_flush *)

Rank(l) == CHOOSE i \in DOMAIN LayerOrder : LayerOrder[i] = l

\* work_len when mxfs_flush turns to layer l.
Base(buffer, l) ==
    PageLength([k \in Layers |-> IF Rank(k) < Rank(l) THEN Len(buffer[k]) ELSE 0])

\* Where the payload of the i-th record of layer l goes.
PayloadAt(buffer, l, i) ==
    IF l \in AntpLayers
    THEN Base(buffer, l) + (i - 1) * RecordSize(l) + i * COMPRESS_SIZE
    ELSE Base(buffer, l) + (i - 1) * RecordSize(l) + COMPRESS_SIZE

\* The records that have a header in front of them.
Headed(buffer) ==
    {r \in UNION {{<<l, i>> : i \in DOMAIN buffer[l]} : l \in Layers} :
        r[1] \in AntpLayers \/ r[2] = 1}

\* Mutant of LastTmm: the gyro loop starts at the second record, as the
\* temperature loop does.
LastTmm_SkipsFirst(buffer, l) ==
    LET before == {k \in Layers : Rank(k) < Rank(l) /\ buffer[k] # <<>>}
    IN  CASE Len(buffer[l]) > 1 -> Last(buffer[l])
          [] Len(buffer[l]) = 1 /\ before # {} ->
                Last(buffer[CHOOSE k \in before : \A j \in before : Rank(j) <= Rank(k)])
          [] OTHER -> 0

\* last_tmm when the header of layer l is made.  The temperature loop starts at
\* the second record: for a single one, last_tmm is what the layers before have
\* left in it.
LastTmm(buffer, l) ==
    LET before == {k \in Layers : Rank(k) < Rank(l) /\ buffer[k] # <<>>}
    IN  CASE l # "temperature" \/ Len(buffer[l]) > 1 -> Last(buffer[l])
          [] l = "temperature" /\ Len(buffer[l]) = 1 /\ before # {} ->
                Last(buffer[CHOOSE k \in before : \A j \in before : Rank(j) <= Rank(k)])
          [] OTHER -> 0

\* Mutant of Step: the quotient is stored as it is.
Step_Unbounded(first, last, count) == (last - first) \div count

\* cp.step: the distance of two records on average, in 16 bits, at most 0xFFFF.
\* The quotient is cast to uint32_t; last - first is below 0 (and then wraps)
\* only for a single record, where count is 1.
Step(first, last, count) ==
    LET average == ((last - first) \div count) % UINT32
    IN  IF average > STEP_FIELD - 1 THEN STEP_FIELD - 1 ELSE average % STEP_FIELD

\* The header in front of the i-th record of layer l; size is ant.length,
\* gyr.count or tmp.count.
Header(buffer, l, i) ==
    LET tmm == buffer[l][i]
        count == Len(buffer[l])
    IN  [type |-> l,
         time |-> (tmm \div MSEC) % UINT32,
         msec |-> (tmm % MSEC) % MSEC_FIELD,
         step |-> IF l \in AntpLayers THEN 0 ELSE Step(tmm, LastTmm(buffer, l), count),
         size |-> CASE l \in AntpLayers -> ANTP_RECORD_SIZE % ANT_FIELD
                    [] l \in Dim3Layers -> count % GYR_FIELD
                    [] l = "temperature" -> count % TMP_FIELD]

Image(buffer) ==
    LET records == UNION {{<<l, i>> : i \in DOMAIN buffer[l]} : l \in Layers}
        payloadAt(r) == PayloadAt(buffer, r[1], r[2])
        headerAt(r) == payloadAt(r) - COMPRESS_SIZE
    IN  [header |->
            [o \in {headerAt(r) : r \in Headed(buffer)} |->
                LET r == CHOOSE q \in Headed(buffer) : headerAt(q) = o
                IN  Header(buffer, r[1], r[2])],
         payload |->
            [o \in {payloadAt(r) : r \in records} |->
                CHOOSE r \in records : payloadAt(r) = o]]

-----------------------------------------------------------------------------
Init ==
    /\ staged = NoRecords
    /\ now = StartTime
    /\ total = 0
    /\ page = Image(NoRecords)
    /\ source = NoRecords

\* mxfs_append of a record taken tick after the last one; a full page is
\* flushed first.  (That a staging buffer has room is the subject of MxfsBuffer.)
AppendRecord(layer, tick) ==
    /\ total < MaxRecords
    /\ total' = total + 1
    /\ now' = now + tick
    /\ IF MustFlush(Counts(staged), RecordSize(layer))
       THEN /\ page' = Image(staged)
            /\ source' = staged
            /\ staged' = [NoRecords EXCEPT ![layer] = <<now'>>]
       ELSE /\ staged' = [staged EXCEPT ![layer] = Append(@, now')]
            /\ UNCHANGED <<page, source>>

\* mxfs_flush
Flush ==
    /\ ~ NothingStaged(Counts(staged))
    /\ page' = Image(staged)
    /\ source' = staged
    /\ staged' = NoRecords
    /\ UNCHANGED <<now, total>>

Next ==
    \/ \E layer \in Sensors, tick \in Ticks : AppendRecord(layer, tick)
    \/ Flush

Spec == Init /\ [][Next]_vars

-----------------------------------------------------------------------------
(* Reading *)

\* The offset a reader goes on at after the header at offset o; unit is its
\* stride per counted record of each layer.
Behind(pg, unit, o) ==
    LET h == pg.header[o]
    IN  o + COMPRESS_SIZE + IF h.type \in AntpLayers THEN h.size ELSE h.size * unit[h.type]

\* The loop of a reader of limit bytes: what it takes, header by header, from
\* any offset on.
Walk(pg, limit, unit, take) ==
    LET from[o \in Nat] ==
            IF o >= limit \/ o \notin DOMAIN pg.header THEN <<>>
            ELSE take[o] \o from[Behind(pg, unit, o)]
    IN  from

HeadersFound(pg, limit, unit) ==
    Walk(pg, limit, unit, [o \in DOMAIN pg.header |-> <<o>>])[0]

\* Every offset at which the reader looks for MAGIC, the last one included.
OffsetsTried(pg, limit, unit) ==
    <<0>> \o Walk(pg, limit, unit, [o \in DOMAIN pg.header |-> <<Behind(pg, unit, o)>>])[0]

\* The readers of one layer pass over the headers of the others.
OfLayer(pg, layer, part) ==
    [o \in DOMAIN pg.header |-> IF pg.header[o].type = layer THEN part[o] ELSE <<>>]

\* Mutant of RecordStride: a gyro record is taken for one coordinate.
RecordStride_Coordinate ==
    [l \in Layers |-> IF l \in Dim3Layers THEN TEMPERATURE_RECORD_SIZE ELSE RecordSize(l)]

\* GYRO_RECORD_SIZE and TEMPERATURE_RECORD_SIZE in mxfs_read, sizeof(int16_t)
\* times three and one in mxfs_timerange_by_block and csv.
RecordStride == [l \in Layers |-> RecordSize(l)]

\* sizeof(int8_t) in search.
ByteStride == [l \in Layers |-> 1]

\* The payloads mxfs_read copies for the header at offset o.
RecordsAt(pg, o) ==
    LET h == pg.header[o]
        count == IF h.type \in AntpLayers THEN 1 ELSE h.size
    IN  [n \in 1 .. count |->
            LET at == o + COMPRESS_SIZE + (n - 1) * RecordSize(h.type)
            IN  IF at \in DOMAIN pg.payload THEN pg.payload[at] ELSE <<"garbage", at>>]

\* mxfs_read
read(pg, layer) ==
    LET records == [o \in DOMAIN pg.header |-> RecordsAt(pg, o)]
    IN  Walk(pg, PAGE_SIZE, RecordStride, OfLayer(pg, layer, records))[0]

\* The time of a header: uint64_t for the ANT+ layers, unsigned for the others.
HeaderTime(h) ==
    IF h.type \in AntpLayers THEN h.time * MSEC + h.msec
    ELSE (h.time * MSEC + h.msec) % UINT32

\* A range of mxfs_timerange_by_block after one more header of its layer.
Ranged(range, h) ==
    [start_time |-> IF range.start_time = 0 THEN HeaderTime(h) ELSE range.start_time,
     last_time |-> IF h.type \in AntpLayers THEN HeaderTime(h)
                   ELSE HeaderTime(h) + h.size * h.step,
     record_count |-> U16(range.record_count + IF h.type \in AntpLayers THEN 1 ELSE h.size)]

\* What mxfs_timerange_by_block reports of a page; nothing if record_count is 0.
timerange_by_block(pg, layer) ==
    LET headers == Walk(pg, RBF_SIZE, RecordStride,
                        OfLayer(pg, layer, [o \in DOMAIN pg.header |-> <<pg.header[o]>>]))[0]
        range[n \in 0 .. Len(headers)] ==
            IF n = 0 THEN [start_time |-> 0, last_time |-> 0, record_count |-> 0]
            ELSE Ranged(range[n - 1], headers[n])
    IN  range[Len(headers)]

\* Mutant of CsvStride: every layer is printed in threes.
CsvStride_Threes(layer) == 3

\* The stride of the printing loops of csv: those of gyro and accelerometer step
\* over samples as if they were coordinates.
CsvStride(layer) == IF layer \in Dim3Layers THEN 3 ELSE 1

\* The rows csv prints for the header at offset o: a record and the time given
\* to it.  Row k of the printing loop has n = (k - 1) * stride, shows sample k
\* and the time of sample n.
RowsAt(pg, o) ==
    LET h == pg.header[o]
        stride == CsvStride(h.type)
        time == h.time * MSEC + h.msec
    IN  IF h.type \in AntpLayers
        THEN <<[rec |-> pg.payload[o + COMPRESS_SIZE], time |-> time]>>
        ELSE [k \in 1 .. (h.size + stride - 1) \div stride |->
                [rec |-> RecordsAt(pg, o)[k], time |-> time + h.step * ((k - 1) * stride)]]

csv(pg, layer) ==
    LET rows == [o \in DOMAIN pg.header |-> RowsAt(pg, o)]
    IN  Walk(pg, RBF_SIZE, RecordStride, OfLayer(pg, layer, rows))[0]

\* Mutant of search: the second of a header is looked up after the walk has
\* moved on, in the next header.
search_Next(pg, epoch_s, epoch_e) ==
    {s \in {pg.header[o].time :
                o \in Range(Tail(OffsetsTried(pg, RBF_SIZE, ByteStride))) \cap DOMAIN pg.header} :
        s # 0 /\ s >= epoch_s /\ s <= epoch_e}

\* The seconds search lists for a page.
search(pg, epoch_s, epoch_e) ==
    {s \in {pg.header[o].time : o \in Range(HeadersFound(pg, RBF_SIZE, ByteStride))} :
        s # 0 /\ s >= epoch_s /\ s <= epoch_e}

-----------------------------------------------------------------------------
(* Properties *)

\* The variables keep their types; every field of a header fits its bits.
TypeOK ==
    /\ staged \in [Layers -> Seq(Nat)] /\ source \in [Layers -> Seq(Nat)]
    /\ now \in Nat /\ total \in 0 .. MaxRecords
    /\ \A o \in DOMAIN page.header :
            /\ page.header[o].type \in Layers
            /\ page.header[o].time \in 0 .. UINT32 - 1
            /\ page.header[o].msec \in 0 .. MSEC_FIELD - 1
            /\ page.header[o].step \in 0 .. STEP_FIELD - 1

\* What was appended is read again: mxfs_read of each layer returns exactly the
\* records of that layer, in the order they were staged, however the layers are
\* mixed in the page.
ReadReturnsAppended ==
    \A l \in Layers : read(page, l) = [i \in DOMAIN source[l] |-> <<l, i>>]

\* mxfs_read looks for MAGIC only inside its page buffer: the walk stops at an
\* offset where a whole header still fits, because mxfs_append leaves room
\* behind the records.
WalkStaysInPage ==
    \A o \in Range(OffsetsTried(page, PAGE_SIZE, RecordStride)) : o + COMPRESS_SIZE <= PAGE_SIZE

\* The layers whose step is that of their own records: a single temperature
\* record has the step of an older last_tmm.
OwnStep(l) == l # "temperature" \/ Len(source[l]) > 1

\* The average distance of the records of l does not fit the field of step.
Saturated(l) ==
    (Last(source[l]) - Head(source[l])) \div Len(source[l]) >= STEP_FIELD

\* The time range made up by mxfs_timerange_by_block starts at the first record,
\* counts them all, never ends after the last one and, unless the step is
\* saturated, ends less than a unit per record before it.
Bracketed(l) ==
    LET range == timerange_by_block(page, l)
        n == Len(source[l])
    IN  /\ range.record_count = n
        /\ n > 0 => range.start_time = Head(source[l])
        /\ (n > 0 /\ OwnStep(l)) =>
                /\ range.last_time <= Last(source[l])
                /\ range.last_time > Last(source[l]) - n \/ Saturated(l)

TimerangeBrackets == \A l \in Layers : Bracketed(l)

\* csv shows the records of a layer in order, all of them or (gyro and
\* accelerometer) at least the first third, at the time they were taken or
\* (layers with a step) at a time between the first and the last of them.
CsvShowsRecords ==
    \A l \in Layers :
        LET rows == csv(page, l)
            n == Len(source[l])
        IN  /\ IF l \in Dim3Layers THEN 3 * Len(rows) >= n ELSE Len(rows) = n
            /\ \A k \in DOMAIN rows :
                    /\ rows[k].rec = <<l, k>>
                    /\ l \in AntpLayers => rows[k].time = source[l][k]
                    /\ OwnStep(l) =>
                            rows[k].time >= Head(source[l]) /\ rows[k].time <= Last(source[l])

\* search lists a second only if a record of the page was taken in it, and
\* lists the seconds of all ANT+ records, although its strides lose the way at
\* the first gyro, accelerometer or temperature header.
SearchFindsAnt ==
    \A epoch_s, epoch_e \in Epochs :
        LET seconds(layers) ==
                {t \div MSEC : t \in UNION {Range(source[l]) : l \in layers}}
                    \cap (epoch_s .. epoch_e)
        IN  /\ search(page, epoch_s, epoch_e) \subseteq seconds(Layers)
            /\ seconds(AntpLayers) \ {0} \subseteq search(page, epoch_s, epoch_e)
=============================================================================
