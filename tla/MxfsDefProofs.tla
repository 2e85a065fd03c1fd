---------------------------- MODULE MxfsDefProofs ----------------------------
(***************************************************************************)
(* Facts about the sizes of records and pages, for every value of the      *)
(* constants that satisfies the assumptions of MxfsDef.                    *)
(***************************************************************************)
EXTENDS MxfsDef, TLAPS

\* Storing a number below 2^16 in a uint16_t does not change it.
LEMMA U16Small ==
    ASSUME NEW x \in Nat, x < 65536
    PROVE  U16(x) = x
  BY DEF U16, UINT16

\* A loop over n records of s bytes, from 0 while the offset is below the end, takes
\* n rounds.
LEMMA RoundsOfLoop ==
    ASSUME NEW n \in Nat, NEW s \in Nat \ {0}
    PROVE  (n * s + s - 1) \div s = n
  <1>1. n * s \in Nat /\ (n + 1) * s = n * s + s
    OBVIOUS
  <1>2. n * s <= n * s + s - 1 /\ n * s + s - 1 < (n + 1) * s
    BY <1>1
  <1> QED
    BY <1>1, <1>2

\* Every layer's record size is a positive number that fits into a page with
\* its header.
LEMMA RecordSizeType ==
    ASSUME NEW l \in Layers
    PROVE  /\ RecordSize(l) \in Nat \ {0}
           /\ StagedSize(l) \in Nat \ {0}
           /\ RecordSize(l) + COMPRESS_SIZE + PAGE_RESERVE <= PAGE_SIZE
           /\ PAGE_SIZE + RecordSize(l) < UINT16
  BY SizesArePositive, PageHoldsARecord, LengthsFitUint16
  DEF Layers, AntpLayers, Dim3Layers, RecordSize, StagedSize, UINT16

\* The bytes a layer takes in a page are a number, and 0 for no record.
LEMMA LayerLengthType ==
    ASSUME NEW l \in Layers, NEW n \in Nat
    PROVE  /\ LayerLength(l, n) \in Nat
           /\ LayerLength(l, 0) = 0
  <1>1. PICK r \in Nat : r = RecordSize(l)
    BY RecordSizeType
  <1>2. PICK c \in Nat : c = COMPRESS_SIZE
    BY SizesArePositive
  <1>3. n * r \in Nat /\ c * n \in Nat /\ 0 * r = 0 /\ c * 0 = 0
    OBVIOUS
  <1> QED
    BY <1>1, <1>2, <1>3 DEF LayerLength

\* One record more costs its payload and at most one header.
LEMMA LayerLengthStep ==
    ASSUME NEW l \in Layers, NEW n \in Nat
    PROVE  LayerLength(l, n + 1) <= LayerLength(l, n) + RecordSize(l) + COMPRESS_SIZE
  <1> DEFINE r == RecordSize(l)
             c == COMPRESS_SIZE
             payload == n * r
             headers == c * n
             share   == IF n > 0 THEN c ELSE 0
  <1>1. r \in Nat /\ c \in Nat
    BY RecordSizeType, SizesArePositive
  <1>2. /\ payload \in Nat /\ headers \in Nat
        /\ (n + 1) * r = payload + r
        /\ c * (n + 1) = headers + c
    <2> HIDE DEF r, c
    <2> QED BY <1>1
  <1>3. share \in Nat /\ n + 1 > 0
    BY <1>1
  <1>4. CASE l \in AntpLayers
    <2>1. LayerLength(l, n + 1) = (payload + r) + (headers + c)
      BY <1>2, <1>4 DEF LayerLength
    <2>2. LayerLength(l, n) = payload + headers
      BY <1>4 DEF LayerLength
    <2> HIDE DEF payload, headers, r, c
    <2>3. (payload + r) + (headers + c) <= payload + headers + r + c
      BY <1>1, <1>2
    <2> QED BY <2>1, <2>2, <2>3 DEF r, c
  <1>5. CASE l \notin AntpLayers
    <2>1. LayerLength(l, n + 1) = (payload + r) + c
      BY <1>2, <1>3, <1>5 DEF LayerLength
    <2>2. LayerLength(l, n) = payload + share
      BY <1>5 DEF LayerLength
    <2> HIDE DEF payload, share, r, c
    <2>3. (payload + r) + c <= payload + share + r + c
      BY <1>1, <1>2, <1>3
    <2> QED BY <2>1, <2>2, <2>3 DEF r, c
  <1> QED
    BY <1>4, <1>5

\* The page length of any counts is a number.
LEMMA PageLengthType ==
    ASSUME NEW count \in [Layers -> Nat]
    PROVE  PageLength(count) \in Nat
  <1>1. \A l \in Layers : LayerLength(l, count[l]) \in Nat
    BY LayerLengthType
  <1> QED
    BY <1>1 DEF PageLength, Layers, AntpLayers, Dim3Layers

\* Staging one record of layer l lengthens the page by its payload and at most
\* one header, whatever the other layers hold.
LEMMA PageLengthStep ==
    ASSUME NEW count \in [Layers -> Nat], NEW l \in Layers
    PROVE  PageLength([count EXCEPT ![l] = @ + 1])
             <= PageLength(count) + RecordSize(l) + COMPRESS_SIZE
  <1> DEFINE next == [count EXCEPT ![l] = @ + 1]
  <1>1. /\ next \in [Layers -> Nat]
        /\ next[l] = count[l] + 1
        /\ \A k \in Layers : k # l => next[k] = count[k]
    OBVIOUS
  <1>2. /\ \A k \in Layers : LayerLength(k, count[k]) \in Nat
        /\ \A k \in Layers : LayerLength(k, next[k]) \in Nat
    BY <1>1, LayerLengthType
  <1>3. /\ LayerLength(l, next[l])
             <= LayerLength(l, count[l]) + RecordSize(l) + COMPRESS_SIZE
        /\ \A k \in Layers : k # l => LayerLength(k, next[k]) = LayerLength(k, count[k])
    BY <1>1, LayerLengthStep
  <1>4. RecordSize(l) \in Nat /\ COMPRESS_SIZE \in Nat
    BY RecordSizeType, SizesArePositive
  <1> HIDE DEF next
  <1>5. PageLength(next) <= PageLength(count) + RecordSize(l) + COMPRESS_SIZE
    BY <1>2, <1>3, <1>4 DEF PageLength, Layers, AntpLayers, Dim3Layers
  <1> QED
    BY <1>5 DEF next

\* No records make an empty page.
LEMMA PageLengthOfNothing ==
    ASSUME NEW count, NothingStaged(count)
    PROVE  PageLength(count) = 0
  <1>1. \A l \in Layers : count[l] = 0 /\ LayerLength(l, 0) = 0
    BY LayerLengthType DEF NothingStaged
  <1> QED
    BY <1>1 DEF PageLength, Layers, AntpLayers, Dim3Layers

\* A page that has to be flushed before a record fits has records.
LEMMA MustFlushSomething ==
    ASSUME NEW count, NEW l \in Layers, MustFlush(count, RecordSize(l))
    PROVE  ~ NothingStaged(count)
  <1> SUFFICES ASSUME NothingStaged(count) PROVE FALSE
    OBVIOUS
  <1>1. PageLength(count) = 0
    BY PageLengthOfNothing
  <1>2. U16(RecordSize(l)) = RecordSize(l)
    BY RecordSizeType, U16Small, SizesArePositive DEF UINT16
  <1> QED
    BY <1>1, <1>2, RecordSizeType, SizesArePositive DEF MustFlush
=============================================================================
