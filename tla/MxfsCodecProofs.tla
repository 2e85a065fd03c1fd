--------------------------- MODULE MxfsCodecProofs ---------------------------
(***************************************************************************)
(* What the readers make of a page mxfs_flush has written, for every size  *)
(* of page, record and header, any number of records and any times.        *)
(***************************************************************************)
EXTENDS MxfsCodec, MxfsDefProofs, SequenceTheorems, WellFoundedInduction

-----------------------------------------------------------------------------
(* Induction over offsets and records, by the least counterexample *)

LEMMA LeastNumber ==
    ASSUME NEW S, S \subseteq Nat, S # {}
    PROVE  \E n \in S : \A m \in S : n <= m
<1>1. PICK n \in S : \A m \in S : ~ (<<m, n>> \in OpToRel(<, Nat))
    BY NatLessThanWellFounded, WFMin
<1>2. \A m \in S : ~ (m < n)
    BY <1>1 DEF OpToRel
<1> QED
    BY <1>2

\* A set with 0 and with the successor of each of its numbers has all numbers.
LEMMA Induction ==
    ASSUME NEW S, 0 \in S, \A n \in Nat : n \in S => n + 1 \in S
    PROVE  \A n \in Nat : n \in S
<1> DEFINE T == Nat \ S
<1> SUFFICES ASSUME T # {} PROVE FALSE
    OBVIOUS
<1>1. PICK n \in T : \A m \in T : n <= m
    BY LeastNumber
<1>2. n \in Nat /\ n # 0
    BY <1>1
<1>3. n - 1 \in Nat /\ ~ (n <= n - 1)
    BY <1>2
<1>4. n - 1 \in S
    BY <1>1, <1>3
<1>5. (n - 1) + 1 \in S
    BY <1>3, <1>4
<1> QED
    BY <1>1, <1>2, <1>5

-----------------------------------------------------------------------------
(* Concatenation and prefixes, by names the provers do not expand *)

Cat(a, b) == a \o b

One(x) == <<x>>

Prefix(v, i) == SubSeq(v, 1, i)

LEMMA CatType == \A S : \A a, b \in Seq(S) : Cat(a, b) \in Seq(S)
    BY ConcatProperties DEF Cat

LEMMA CatAssociates ==
    \A S : \A a, b, c \in Seq(S) : Cat(Cat(a, b), c) = Cat(a, Cat(b, c))
<1> SUFFICES ASSUME NEW S, NEW a \in Seq(S), NEW b \in Seq(S), NEW c \in Seq(S)
             PROVE  (a \o b) \o c = a \o (b \o c)
    BY DEF Cat
<1> QED
    BY ConcatAssociative, SMT

LEMMA CatUnit == \A S : \A a \in Seq(S) : Cat(a, <<>>) = a /\ Cat(<<>>, a) = a
    BY ConcatEmptySeq DEF Cat

LEMMA OneType == \A S : \A x \in S : One(x) \in Seq(S)
    BY DEF One

LEMMA PrefixType ==
    ASSUME NEW S, NEW v \in Seq(S)
    PROVE  /\ Prefix(v, 0) = <<>> /\ Prefix(v, Len(v)) = v
           /\ \A i \in 0 .. Len(v) : Prefix(v, i) \in Seq(S)
           /\ \A i \in 1 .. Len(v) : Prefix(v, i) = Cat(Prefix(v, i - 1), One(v[i]))
<1>1. \A j \in 1 .. Len(v) : v[j] \in S
    BY ElementOfSeq
<1>2. ASSUME NEW i \in 0 .. Len(v) PROVE Prefix(v, i) \in Seq(S)
    <2>1. \A j \in 1 .. i : v[j] \in S
        BY <1>1, LenProperties
    <2> QED
        BY <2>1, SubSeqProperties DEF Prefix
<1>3. ASSUME NEW i \in 1 .. Len(v) PROVE Prefix(v, i) = Cat(Prefix(v, i - 1), One(v[i]))
    <2>1. 1 \in 1 .. Len(v) /\ i \in 1 .. Len(v)
        BY LenProperties
    <2>2. SubSeq(v, 1, i) = SubSeq(v, 1, i - 1) \o <<v[i]>>
        BY <2>1, SubSeqRecursiveSecond
    <2> QED
        BY <2>2, Zenon DEF Prefix, Cat, One
<1>4. Prefix(v, 0) = <<>>
    BY SubSeqEmpty DEF Prefix
<1>5. Prefix(v, Len(v)) = v
    BY SubSeqFull DEF Prefix
<1> QED
    BY <1>2, <1>3, <1>4, <1>5

-----------------------------------------------------------------------------
(* The loop over the headers of a page *)

\* A reader moves on at every header.
MovesOn(pg, unit) ==
    /\ DOMAIN pg.header \subseteq Nat
    /\ \A o \in DOMAIN pg.header : Behind(pg, unit, o) \in Nat /\ Behind(pg, unit, o) > o

\* One round of the loop, with what the later rounds take.
Round(pg, limit, unit, take, later) ==
    [o \in Nat |-> IF o >= limit \/ o \notin DOMAIN pg.header THEN <<>>
                   ELSE take[o] \o later[Behind(pg, unit, o)]]

\* The loop is well defined: rounds for the last k bytes are also rounds for the
\* last k + 1, as a reader moves on.
LEMMA WalkExists ==
    ASSUME NEW pg, NEW limit \in Nat, NEW unit, NEW take, MovesOn(pg, unit)
    PROVE  \E f : f = Round(pg, limit, unit, take, f)
<1> DEFINE Good(k, f) ==
        \A o \in Nat : o + k >= limit => f[o] = Round(pg, limit, unit, take, f)[o]
           S == {k \in Nat : \E f : Good(k, f)}
<1>1. 0 \in S
    <2> DEFINE f == [o \in Nat |-> <<>>]
    <2>1. ASSUME NEW o \in Nat, o + 0 >= limit
          PROVE  f[o] = Round(pg, limit, unit, take, f)[o]
        <3>1. o >= limit
            BY <2>1
        <3> QED
            BY <3>1 DEF Round
    <2> QED
        BY <2>1
<1>2. ASSUME NEW k \in Nat, k \in S PROVE k + 1 \in S
    <2>1. PICK f : Good(k, f)
        BY <1>2
    <2> DEFINE g == Round(pg, limit, unit, take, f)
    <2>2. ASSUME NEW o \in Nat, o + (k + 1) >= limit
          PROVE  g[o] = Round(pg, limit, unit, take, g)[o]
        <3>1. CASE o >= limit \/ o \notin DOMAIN pg.header
            BY <3>1 DEF Round
        <3>2. CASE ~ (o >= limit \/ o \notin DOMAIN pg.header)
            <4>1. PICK b \in Nat : b = Behind(pg, unit, o) /\ b > o
                BY <3>2 DEF MovesOn
            <4>2. b + k >= limit
                BY <2>2, <4>1
            <4>3. f[b] = g[b]
                BY <2>1, <4>2
            <4>4. /\ g[o] = take[o] \o f[b]
                  /\ Round(pg, limit, unit, take, g)[o] = take[o] \o g[b]
                <5> HIDE DEF g
                <5>1. Round(pg, limit, unit, take, g)[o] = take[o] \o g[b]
                    BY <3>2, <4>1 DEF Round
                <5>2. Round(pg, limit, unit, take, f)[o] = take[o] \o f[b]
                    BY <3>2, <4>1 DEF Round
                <5> QED
                    BY <5>1, <5>2 DEF g
            <4> QED
                BY <4>3, <4>4
        <3> QED
            BY <3>1, <3>2
    <2>3. Good(k + 1, g)
        BY <2>2
    <2> HIDE DEF g, Good
    <2>4. \E h : Good(k + 1, h)
        BY <2>3
    <2> QED
        BY <2>4
<1>3. limit \in S
    <2> HIDE DEF S
    <2> QED
        BY <1>1, <1>2, Induction
<1>4. PICK f : Good(limit, f)
    BY <1>3
<1> DEFINE g == Round(pg, limit, unit, take, f)
<1>5. \A o \in Nat : f[o] = g[o]
    BY <1>4
<1>6. g = Round(pg, limit, unit, take, g)
    <2>1. \A o \in Nat : (o < limit /\ o \in DOMAIN pg.header) =>
                f[Behind(pg, unit, o)] = g[Behind(pg, unit, o)]
        <3> HIDE DEF g
        <3> QED
            BY <1>5 DEF MovesOn
    <2> DEFINE r == Round(pg, limit, unit, take, g)
    <2>2. \A o \in Nat : g[o] = r[o]
        <3>1. \A o \in Nat : g[o] = IF o >= limit \/ o \notin DOMAIN pg.header THEN <<>>
                                    ELSE take[o] \o f[Behind(pg, unit, o)]
            BY DEF Round
        <3>2. \A o \in Nat : r[o] = IF o >= limit \/ o \notin DOMAIN pg.header THEN <<>>
                                    ELSE take[o] \o g[Behind(pg, unit, o)]
            <4> HIDE DEF g
            <4> QED BY DEF Round
        <3> HIDE DEF g, r
        <3> QED
            BY <2>1, <3>1, <3>2
    <2>3. /\ g = [o \in Nat |-> g[o]]
          /\ r = [o \in Nat |-> r[o]]
        BY DEF Round
    <2> HIDE DEF g, r
    <2>4. g = r
        BY <2>2, <2>3, Zenon
    <2> QED
        BY <2>4 DEF r
<1> QED
    BY <1>6

\* The loop, unfolded once.
LEMMA WalkRound ==
    ASSUME NEW pg, NEW limit \in Nat, NEW unit, NEW take, MovesOn(pg, unit)
    PROVE  Walk(pg, limit, unit, take)
             = Round(pg, limit, unit, take, Walk(pg, limit, unit, take))
<1> DEFINE w == CHOOSE f : f = Round(pg, limit, unit, take, f)
<1>1. w = Round(pg, limit, unit, take, w)
    BY WalkExists
<1>2. Walk(pg, limit, unit, take) = w
    BY DEF Walk, Round
<1> QED
    BY <1>1, <1>2

\* w is what a reader takes from each offset on.
Loop(pg, limit, unit, take, w) ==
    \A o \in Nat :
        /\ o >= limit \/ o \notin DOMAIN pg.header => w[o] = <<>>
        /\ o < limit /\ o \in DOMAIN pg.header =>
                w[o] = Cat(take[o], w[Behind(pg, unit, o)])

LEMMA WalkLoops ==
    ASSUME NEW pg, NEW limit \in Nat, NEW unit, NEW take, MovesOn(pg, unit)
    PROVE  Loop(pg, limit, unit, take, Walk(pg, limit, unit, take))
<1>1. PICK w : w = Walk(pg, limit, unit, take)
    OBVIOUS
<1>2. w = Round(pg, limit, unit, take, w)
    BY <1>1, WalkRound
<1>3. ASSUME NEW o \in Nat
      PROVE  /\ o >= limit \/ o \notin DOMAIN pg.header => w[o] = <<>>
             /\ o < limit /\ o \in DOMAIN pg.header =>
                    w[o] = Cat(take[o], w[Behind(pg, unit, o)])
    <2>1. w[o] = Round(pg, limit, unit, take, w)[o]
        BY <1>2, Zenon
    <2>2. o < limit <=> ~ (o >= limit)
        OBVIOUS
    <2> QED
        BY <2>1, <2>2 DEF Round, Cat
<1>4. Loop(pg, limit, unit, take, w)
    BY <1>3 DEF Loop
<1> QED
    BY <1>1, <1>4

\* What may be taken at a header is a sequence over S.
Typed(pg, take, S) == \A o \in DOMAIN pg.header : take[o] \in Seq(S)

\* n headers one behind the other, at the offsets at[1] to at[n].
Chain(pg, limit, unit, at, n) ==
    /\ at \in [1 .. n + 1 -> Nat]
    /\ \A i \in 1 .. n : /\ at[i] < limit /\ at[i] \in DOMAIN pg.header
                         /\ Behind(pg, unit, at[i]) = at[i + 1]

\* A reader takes the elements of v there, one each.
OneEach(take, at, v, n) == n = Len(v) /\ \A i \in 1 .. n : take[at[i]] = One(v[i])

\* What a reader takes is a sequence of what it may take at a header.
LEMMA WalkType ==
    ASSUME NEW pg, NEW limit \in Nat, NEW unit, NEW take, MovesOn(pg, unit),
           NEW w, Loop(pg, limit, unit, take, w),
           NEW S, Typed(pg, take, S)
    PROVE  \A o \in Nat : w[o] \in Seq(S)
<1>0.    \A o \in Nat :
            /\ o >= limit \/ o \notin DOMAIN pg.header => w[o] = <<>>
            /\ o < limit /\ o \in DOMAIN pg.header =>
                    w[o] = Cat(take[o], w[Behind(pg, unit, o)])
    BY DEF Loop
<1> DEFINE T == {k \in Nat : \A o \in Nat : o + k >= limit => w[o] \in Seq(S)}
<1>1. 0 \in T
    <2>1. ASSUME NEW o \in Nat, o + 0 >= limit PROVE w[o] \in Seq(S)
        <3>1. o >= limit
            BY <2>1
        <3>2. w[o] = <<>>
            BY <1>0, <3>1
        <3> QED
            BY <3>2, EmptySeq
    <2> QED
        BY <2>1
<1>2. ASSUME NEW k \in Nat, k \in T PROVE k + 1 \in T
    <2>1. ASSUME NEW o \in Nat, o + (k + 1) >= limit PROVE w[o] \in Seq(S)
        <3>1. CASE o >= limit \/ o \notin DOMAIN pg.header
            <4>1. w[o] = <<>>
                BY <1>0, <3>1
            <4> QED
                BY <4>1, EmptySeq
        <3>2. CASE o < limit /\ o \in DOMAIN pg.header
            <4>1. PICK b \in Nat : b = Behind(pg, unit, o) /\ b > o
                BY <3>2 DEF MovesOn
            <4>2. b + k >= limit
                BY <2>1, <4>1
            <4>3. w[b] \in Seq(S) /\ take[o] \in Seq(S)
                BY <1>2, <3>2, <4>2 DEF Typed
            <4>4. w[o] = Cat(take[o], w[b])
                BY <1>0, <3>2, <4>1
            <4> QED
                BY <4>3, <4>4, CatType
        <3> QED
            BY <3>1, <3>2
    <2> QED
        BY <2>1
<1>3. limit \in T
    <2> HIDE DEF T
    <2> QED
        BY <1>1, <1>2, Induction
<1>4. \A o \in Nat : o + limit >= limit
    OBVIOUS
<1> QED
    BY <1>3, <1>4

\* Headers one behind the other, of which a reader takes one thing each.
LEMMA WalkRun ==
    ASSUME NEW pg, NEW limit \in Nat, NEW unit, NEW take, MovesOn(pg, unit),
           NEW w, Loop(pg, limit, unit, take, w),
           NEW S, Typed(pg, take, S),
           NEW n \in Nat, NEW at, Chain(pg, limit, unit, at, n),
           NEW v \in Seq(S), OneEach(take, at, v, n)
    PROVE  w[at[1]] = Cat(v, w[at[n + 1]])
<1> USE DEF OneEach
<1>a. \A o \in Nat :
            o < limit /\ o \in DOMAIN pg.header => w[o] = Cat(take[o], w[Behind(pg, unit, o)])
    BY DEF Loop
<1>b. \A o \in Nat : w[o] \in Seq(S)
    BY WalkType
<1>c. \A i \in 1 .. n : /\ at[i] \in Nat /\ at[i + 1] \in Nat
                       /\ at[i] < limit /\ at[i] \in DOMAIN pg.header
                       /\ Behind(pg, unit, at[i]) = at[i + 1]
    BY DEF Chain
<1>d. at[1] \in Nat
    BY DEF Chain
<1> DEFINE Taken(k) == w[at[1]] = Cat(Prefix(v, k), w[at[k + 1]])
           T == {k \in Nat : k <= n => Taken(k)}
<1>1. Taken(0)
    <2>1. Prefix(v, 0) = <<>>
        BY PrefixType
    <2>2. Cat(<<>>, w[at[1]]) = w[at[1]]
        BY <1>b, <1>d, CatUnit
    <2> QED
        BY <2>1, <2>2
<1>2. ASSUME NEW i \in 1 .. n, Taken(i - 1) PROVE Taken(i)
    <2>1. w[at[1]] = Cat(Prefix(v, i - 1), w[at[i]])
        BY <1>2
    <2>2. w[at[i]] = Cat(One(v[i]), w[at[i + 1]])
        BY <1>a, <1>c
    <2>3. /\ w[at[i + 1]] \in Seq(S)
          /\ Prefix(v, i - 1) \in Seq(S)
          /\ One(v[i]) \in Seq(S)
        <3>1. v[i] \in S
            BY ElementOfSeq
        <3>2. i - 1 \in 0 .. Len(v)
            OBVIOUS
        <3>3. One(v[i]) \in Seq(S)
            BY <3>1, OneType
        <3>4. Prefix(v, i - 1) \in Seq(S)
            BY <3>2, PrefixType
        <3> QED
            BY <1>b, <1>c, <3>3, <3>4
    <2>4. Prefix(v, i) = Cat(Prefix(v, i - 1), One(v[i]))
        BY PrefixType
    <2>5. Cat(Cat(Prefix(v, i - 1), One(v[i])), w[at[i + 1]])
            = Cat(Prefix(v, i - 1), Cat(One(v[i]), w[at[i + 1]]))
        BY <2>3, CatAssociates
    <2> QED
        BY <2>1, <2>2, <2>4, <2>5
<1>3. n \in T
    <2>1. 0 \in T
        <3> HIDE DEF Taken
        <3> QED
            BY <1>1
    <2>2. ASSUME NEW k \in Nat, k \in T PROVE k + 1 \in T
        <3> HIDE DEF Taken
        <3>1. ASSUME k + 1 <= n PROVE Taken(k + 1)
            <4>1. Taken(k)
                BY <2>2, <3>1
            <4>2. k + 1 \in 1 .. n /\ (k + 1) - 1 = k
                BY <3>1
            <4>3. Taken((k + 1) - 1)
                BY <4>1, <4>2, Zenon
            <4> QED
                BY <1>2, <4>2, <4>3
        <3> QED
            BY <3>1
    <2> HIDE DEF T
    <2> QED
        BY <2>1, <2>2, Induction
<1>4. Taken(n)
    <2> HIDE DEF Taken
    <2> QED
        BY <1>3
<1>5. Prefix(v, n) = v
    BY PrefixType
<1> QED
    BY <1>4, <1>5, Zenon

\* Headers one behind the other that a reader passes over.
LEMMA WalkSkip ==
    ASSUME NEW pg, NEW limit \in Nat, NEW unit, NEW take, MovesOn(pg, unit),
           NEW w, Loop(pg, limit, unit, take, w),
           NEW S, Typed(pg, take, S),
           NEW n \in Nat, NEW at, Chain(pg, limit, unit, at, n),
           \A i \in 1 .. n : take[at[i]] = <<>>
    PROVE  w[at[1]] = w[at[n + 1]]
<1>a.    \A o \in Nat :
            /\ o >= limit \/ o \notin DOMAIN pg.header => w[o] = <<>>
            /\ o < limit /\ o \in DOMAIN pg.header =>
                    w[o] = Cat(take[o], w[Behind(pg, unit, o)])
    BY DEF Loop
<1>b. \A o \in Nat : w[o] \in Seq(S)
    BY WalkType
<1> DEFINE T == {k \in Nat : k <= n => w[at[1]] = w[at[k + 1]]}
<1>1. 0 \in T
    OBVIOUS
<1>2. ASSUME NEW k \in Nat, k \in T PROVE k + 1 \in T
    <2> SUFFICES ASSUME k + 1 <= n PROVE w[at[1]] = w[at[(k + 1) + 1]]
        OBVIOUS
    <2>1. PICK i \in 1 .. n : i = k + 1
        OBVIOUS
    <2>2. w[at[1]] = w[at[i]]
        BY <1>2, <2>1
    <2>3. /\ at[i] \in Nat /\ at[i + 1] \in Nat
          /\ at[i] < limit /\ at[i] \in DOMAIN pg.header
          /\ Behind(pg, unit, at[i]) = at[i + 1]
        BY DEF Chain
    <2>4. w[at[i]] = Cat(<<>>, w[at[i + 1]])
        BY <1>a, <2>3
    <2>5. w[at[i + 1]] \in Seq(S)
        BY <1>b, <2>3
    <2>6. Cat(<<>>, w[at[i + 1]]) = w[at[i + 1]]
        BY <2>5, CatUnit
    <2> QED
        BY <2>1, <2>2, <2>4, <2>6
<1>3. n \in T
    <2> HIDE DEF T
    <2> QED
        BY <1>1, <1>2, Induction
<1> QED
    BY <1>3

-----------------------------------------------------------------------------
(* The layout of a page *)

Buffers == [Layers -> Seq(Nat)]

LEMMA CountsType ==
    ASSUME NEW b \in Buffers
    PROVE  /\ Counts(b) \in [Layers -> Nat]
           /\ \A l \in Layers : /\ b[l] \in Seq(Nat) /\ Len(b[l]) \in Nat
                                /\ Counts(b)[l] = Len(b[l])
                                /\ DOMAIN b[l] = 1 .. Len(b[l])
<1>1. \A l \in Layers : b[l] \in Seq(Nat)
    BY DEF Buffers
<1>2. \A l \in Layers : Len(b[l]) \in Nat /\ DOMAIN b[l] = 1 .. Len(b[l])
    BY <1>1, LenProperties
<1> QED
    BY <1>1, <1>2 DEF Counts

LEMMA Ranks ==
    /\ Rank("speed") = 1 /\ Rank("power") = 2 /\ Rank("cadence") = 3
    /\ Rank("gyro") = 4 /\ Rank("accelerometer") = 5 /\ Rank("temperature") = 6
<1>1. /\ DOMAIN LayerOrder = 1 .. 6
      /\ LayerOrder[1] = "speed" /\ LayerOrder[2] = "power" /\ LayerOrder[3] = "cadence"
      /\ LayerOrder[4] = "gyro" /\ LayerOrder[5] = "accelerometer"
      /\ LayerOrder[6] = "temperature"
    BY DEF LayerOrder
<1>2. \A i \in 1 .. 6 : i = 1 \/ i = 2 \/ i = 3 \/ i = 4 \/ i = 5 \/ i = 6
    OBVIOUS
<1>3. \A i \in 1 .. 6 : /\ LayerOrder[i] = "speed" <=> i = 1
                        /\ LayerOrder[i] = "power" <=> i = 2
                        /\ LayerOrder[i] = "cadence" <=> i = 3
                        /\ LayerOrder[i] = "gyro" <=> i = 4
                        /\ LayerOrder[i] = "accelerometer" <=> i = 5
                        /\ LayerOrder[i] = "temperature" <=> i = 6
    BY <1>1, <1>2
<1> QED
    BY <1>1, <1>3 DEF Rank

\* The bytes of layer l in the page.
Size(b, l) == LayerLength(l, Len(b[l]))

End(b, l) == Base(b, l) + Size(b, l)

\* Each layer starts where the one before ends, and the last one ends the page.
LEMMA Bases ==
    ASSUME NEW b \in Buffers
    PROVE  /\ \A l \in Layers : Size(b, l) \in Nat /\ Base(b, l) \in Nat /\ End(b, l) \in Nat
           /\ Base(b, "speed") = 0
           /\ Base(b, "power") = End(b, "speed")
           /\ Base(b, "cadence") = End(b, "power")
           /\ Base(b, "gyro") = End(b, "cadence")
           /\ Base(b, "accelerometer") = End(b, "gyro")
           /\ Base(b, "temperature") = End(b, "accelerometer")
           /\ PageLength(Counts(b)) = End(b, "temperature")
<1>1. \A l \in Layers : Size(b, l) \in Nat /\ LayerLength(l, 0) = 0
    BY CountsType, LayerLengthType DEF Size
<1>2. \A l \in Layers : Base(b, l) =
            (IF 1 < Rank(l) THEN Size(b, "speed") ELSE 0)
            + (IF 2 < Rank(l) THEN Size(b, "power") ELSE 0)
            + (IF 3 < Rank(l) THEN Size(b, "cadence") ELSE 0)
            + (IF 4 < Rank(l) THEN Size(b, "gyro") ELSE 0)
            + (IF 5 < Rank(l) THEN Size(b, "accelerometer") ELSE 0)
            + (IF 6 < Rank(l) THEN Size(b, "temperature") ELSE 0)
    <2> TAKE l \in Layers
    <2>1. PICK count : count = [k \in Layers |-> IF Rank(k) < Rank(l) THEN Len(b[k]) ELSE 0]
        OBVIOUS
    <2>2. \A k \in Layers : LayerLength(k, count[k]) =
                                IF Rank(k) < Rank(l) THEN Size(b, k) ELSE 0
        BY <1>1, <2>1 DEF Size
    <2>3. Base(b, l) = PageLength(count)
        BY <2>1 DEF Base
    <2>4. /\ "speed" \in Layers /\ "power" \in Layers /\ "cadence" \in Layers
          /\ "gyro" \in Layers /\ "accelerometer" \in Layers /\ "temperature" \in Layers
        BY DEF Layers, AntpLayers, Dim3Layers
    <2> QED
        BY <2>2, <2>3, <2>4, Ranks DEF PageLength
<1>3. /\ Base(b, "speed") = 0
      /\ Base(b, "power") = Size(b, "speed")
      /\ Base(b, "cadence") = Size(b, "speed") + Size(b, "power")
      /\ Base(b, "gyro") = Size(b, "speed") + Size(b, "power") + Size(b, "cadence")
      /\ Base(b, "accelerometer") =
            Size(b, "speed") + Size(b, "power") + Size(b, "cadence") + Size(b, "gyro")
      /\ Base(b, "temperature") =
            Size(b, "speed") + Size(b, "power") + Size(b, "cadence") + Size(b, "gyro")
            + Size(b, "accelerometer")
    BY <1>1, <1>2, Ranks DEF Layers, AntpLayers, Dim3Layers
<1>4. PageLength(Counts(b)) =
            Size(b, "speed") + Size(b, "power") + Size(b, "cadence") + Size(b, "gyro")
            + Size(b, "accelerometer") + Size(b, "temperature")
    BY CountsType DEF PageLength, Size, Layers, AntpLayers, Dim3Layers
<1>5. \A l \in Layers : Base(b, l) \in Nat
    BY <1>1, <1>3 DEF Layers, AntpLayers, Dim3Layers
<1> QED
    BY <1>1, <1>3, <1>4, <1>5 DEF End, Layers, AntpLayers, Dim3Layers

\* The layers do not overlap.
LEMMA LayersApart ==
    ASSUME NEW b \in Buffers
    PROVE  /\ \A k, l \in Layers : k = l \/ End(b, k) <= Base(b, l) \/ End(b, l) <= Base(b, k)
           /\ \A l \in Layers : Base(b, l) <= End(b, l) /\ End(b, l) <= PageLength(Counts(b))
<1>1. \A l \in Layers : Base(b, l) <= End(b, l)
    BY Bases DEF End
<1>2. \A l \in Layers : End(b, l) <= PageLength(Counts(b))
    BY <1>1, Bases DEF Layers, AntpLayers, Dim3Layers
<1>3. \A k, l \in Layers : k = l \/ End(b, k) <= Base(b, l) \/ End(b, l) <= Base(b, k)
    BY <1>1, Bases DEF Layers, AntpLayers, Dim3Layers
<1> QED
    BY <1>1, <1>2, <1>3

HeaderAt(b, l, i) == PayloadAt(b, l, i) - COMPRESS_SIZE

\* How far the records of a layer are apart.
Pitch(l) == IF l \in AntpLayers THEN RecordSize(l) + COMPRESS_SIZE ELSE RecordSize(l)

LEMMA PitchType ==
    ASSUME NEW l \in Layers
    PROVE  Pitch(l) \in Nat /\ Pitch(l) >= RecordSize(l) /\ Pitch(l) > 0
    BY RecordSizeType, SizesArePositive DEF Pitch

\* The records of a layer, pitch by pitch from its base.
LEMMA Layout ==
    ASSUME NEW b \in Buffers, NEW l \in Layers, NEW i \in Int
    PROVE  /\ PayloadAt(b, l, i) = Base(b, l) + COMPRESS_SIZE + (i - 1) * Pitch(l)
           /\ Size(b, l) = Len(b[l]) * Pitch(l)
                    + IF l \in AntpLayers \/ Len(b[l]) = 0 THEN 0 ELSE COMPRESS_SIZE
<1>1. PICK r \in Nat : r = RecordSize(l)
    BY RecordSizeType
<1>2. PICK c \in Nat : c = COMPRESS_SIZE
    BY SizesArePositive
<1>3. PICK n \in Nat : n = Len(b[l])
    BY CountsType
<1>4. PICK base \in Nat : base = Base(b, l)
    BY Bases
<1>5. /\ (i - 1) * (r + c) = (i - 1) * r + (i - 1) * c
      /\ (i - 1) * c = i * c - c
      /\ n * (r + c) = n * r + c * n
    OBVIOUS
<1>6. /\ (i - 1) * r \in Int /\ i * c \in Int /\ (i - 1) * c \in Int
      /\ n * r \in Nat /\ c * n \in Nat /\ 0 * r = 0
    OBVIOUS
<1>7. CASE l \in AntpLayers
    <2>1. PayloadAt(b, l, i) = base + (i - 1) * r + i * c
        BY <1>1, <1>2, <1>4, <1>7 DEF PayloadAt
    <2>2. base + (i - 1) * r + i * c = base + c + (i - 1) * (r + c)
        BY <1>5, <1>6
    <2>3. Size(b, l) = n * r + c * n
        BY <1>1, <1>2, <1>3, <1>7 DEF Size, LayerLength
    <2>4. Pitch(l) = r + c
        BY <1>1, <1>2, <1>7 DEF Pitch
    <2>5. PayloadAt(b, l, i) = base + c + (i - 1) * (r + c)
        BY <2>1, <2>2
    <2>6. Size(b, l) = n * (r + c) + 0
        BY <1>5, <1>6, <2>3
    <2> QED
        BY <1>2, <1>3, <1>4, <1>7, <2>4, <2>5, <2>6, Zenon
<1>8. CASE l \notin AntpLayers
    <2>1. PayloadAt(b, l, i) = base + (i - 1) * r + c
        BY <1>1, <1>2, <1>4, <1>8 DEF PayloadAt
    <2>2. Size(b, l) = n * r + (IF n > 0 THEN c ELSE 0)
        BY <1>1, <1>2, <1>3, <1>8 DEF Size, LayerLength
    <2>3. Pitch(l) = r
        BY <1>1, <1>8 DEF Pitch
    <2>4. PayloadAt(b, l, i) = base + c + (i - 1) * r
        BY <1>6, <2>1
    <2>5. Size(b, l) = n * r + (IF n = 0 THEN 0 ELSE c)
        BY <1>6, <2>2
    <2> QED
        BY <1>2, <1>3, <1>4, <1>8, <2>3, <2>4, <2>5, Zenon
<1> QED
    BY <1>7, <1>8

LEMMA LayerSize ==
    ASSUME NEW b \in Buffers, NEW l \in Layers
    PROVE  Size(b, l) = Len(b[l]) * Pitch(l)
                + IF l \in AntpLayers \/ Len(b[l]) = 0 THEN 0 ELSE COMPRESS_SIZE
<1>1. 1 \in Int
    OBVIOUS
<1>2. \A i \in Int : Size(b, l) = Len(b[l]) * Pitch(l)
                + IF l \in AntpLayers \/ Len(b[l]) = 0 THEN 0 ELSE COMPRESS_SIZE
    BY Layout
<1> QED
    BY <1>1, <1>2, Zenon

LEMMA Multiples ==
    ASSUME NEW p \in Nat, NEW i \in Int, NEW j \in Int, i < j
    PROVE  i * p + p <= j * p /\ i * p \in Int /\ j * p \in Int
<1>1. PICK d \in Nat : j = (i + 1) + d
    <2>1. j - (i + 1) \in Nat /\ j = (i + 1) + (j - (i + 1))
        OBVIOUS
    <2> QED
        BY <2>1
<1>2. j * p = (i * p + p) + d * p
    BY <1>1
<1>3. d * p \in Nat /\ i * p \in Int
    OBVIOUS
<1> QED
    BY <1>2, <1>3

\* A record lies within its layer, and behind the ones before it.
LEMMA InLayer ==
    ASSUME NEW b \in Buffers, NEW l \in Layers, NEW i \in 1 .. Len(b[l])
    PROVE  /\ PayloadAt(b, l, i) \in Nat /\ HeaderAt(b, l, i) \in Nat
           /\ Base(b, l) + COMPRESS_SIZE <= PayloadAt(b, l, i)
           /\ PayloadAt(b, l, i) + RecordSize(l) <= End(b, l)
           /\ \A j \in 1 .. Len(b[l]) :
                    i < j => PayloadAt(b, l, i) + RecordSize(l) <= PayloadAt(b, l, j)
<1>1. PICK n \in Nat : n = Len(b[l])
    BY CountsType
<1>2. PICK p \in Nat : p = Pitch(l) /\ p >= RecordSize(l)
    BY PitchType
<1>3. i \in 1 .. n
    BY <1>1
<1>4. COMPRESS_SIZE \in Nat /\ COMPRESS_SIZE > 0 /\ RecordSize(l) \in Nat
    BY SizesArePositive, RecordSizeType
<1>5. Base(b, l) \in Nat
    BY Bases
<1>6. \A j \in 1 .. n : PayloadAt(b, l, j) = Base(b, l) + COMPRESS_SIZE + (j - 1) * p
    BY <1>2, Layout
<1>7. /\ (i - 1) * p \in Nat
      /\ (i - 1) * p + p <= n * p /\ n * p \in Int
    <2>1. i - 1 \in Nat /\ i - 1 < n
        BY <1>3
    <2>2. (i - 1) * p \in Nat
        BY <2>1
    <2>3. (i - 1) * p + p <= n * p /\ n * p \in Int
        BY <2>1, Multiples
    <2> QED
        BY <2>2, <2>3
<1>8. PICK q \in Nat : q = (i - 1) * p
    BY <1>7
<1>9. PayloadAt(b, l, i) = Base(b, l) + COMPRESS_SIZE + q
    BY <1>3, <1>6, <1>8
<1>10. Base(b, l) + COMPRESS_SIZE <= PayloadAt(b, l, i) /\ PayloadAt(b, l, i) \in Nat
    BY <1>4, <1>5, <1>9
<1>11. HeaderAt(b, l, i) \in Nat
    BY <1>4, <1>5, <1>9 DEF HeaderAt
<1>12. ASSUME NEW j \in 1 .. Len(b[l]), i < j
       PROVE  PayloadAt(b, l, i) + RecordSize(l) <= PayloadAt(b, l, j)
    <2>1. j \in 1 .. n /\ i - 1 \in Int /\ j - 1 \in Int /\ i - 1 < j - 1
        BY <1>1, <1>3, <1>12
    <2>2. (i - 1) * p + p <= (j - 1) * p /\ (j - 1) * p \in Int
        BY <2>1, Multiples
    <2>3. PICK m \in Int : m = (j - 1) * p
        BY <2>2
    <2>4. PayloadAt(b, l, j) = Base(b, l) + COMPRESS_SIZE + m
        BY <1>6, <2>1, <2>3
    <2>5. q + p <= m
        BY <1>8, <2>2, <2>3
    <2> QED
        BY <1>2, <1>4, <1>5, <1>9, <2>4, <2>5
<1>13. PayloadAt(b, l, i) + RecordSize(l) <= End(b, l)
    <2>1. PICK m \in Int : m = n * p
        BY <1>7
    <2>2. q + p <= m
        BY <1>7, <1>8, <2>1
    <2>3. Size(b, l) = m + IF l \in AntpLayers \/ n = 0 THEN 0 ELSE COMPRESS_SIZE
        BY <1>1, <1>2, <2>1, Layout
    <2>4. n # 0
        BY <1>3
    <2>5. CASE l \notin AntpLayers
        BY <1>2, <1>4, <1>5, <1>9, <2>2, <2>3, <2>4, <2>5 DEF End
    <2>6. CASE l \in AntpLayers
        <3>1. p = RecordSize(l) + COMPRESS_SIZE
            BY <1>2, <2>6 DEF Pitch
        <3> QED
            BY <3>1, <1>4, <1>5, <1>9, <2>2, <2>3, <2>6 DEF End
    <2> QED
        BY <2>5, <2>6
<1> QED
    BY <1>10, <1>11, <1>12, <1>13

\* No two records start at the same offset.
LEMMA PayloadInjective ==
    ASSUME NEW b \in Buffers, NEW k \in Layers, NEW l \in Layers,
           NEW i \in 1 .. Len(b[k]), NEW j \in 1 .. Len(b[l]),
           PayloadAt(b, k, i) = PayloadAt(b, l, j)
    PROVE  k = l /\ i = j
<1>1. /\ PayloadAt(b, k, i) \in Nat /\ PayloadAt(b, l, j) \in Nat
      /\ Base(b, k) + COMPRESS_SIZE <= PayloadAt(b, k, i)
      /\ Base(b, l) + COMPRESS_SIZE <= PayloadAt(b, l, j)
      /\ PayloadAt(b, k, i) + RecordSize(k) <= End(b, k)
      /\ PayloadAt(b, l, j) + RecordSize(l) <= End(b, l)
    BY InLayer
<1>2. /\ RecordSize(k) \in Nat \ {0} /\ RecordSize(l) \in Nat \ {0}
      /\ COMPRESS_SIZE \in Nat
    BY SizesArePositive, RecordSizeType
<1>3. /\ Base(b, k) \in Nat /\ End(b, k) \in Nat /\ Base(b, l) \in Nat /\ End(b, l) \in Nat
    BY Bases
<1>4. k = l
    <2>1. k = l \/ End(b, k) <= Base(b, l) \/ End(b, l) <= Base(b, k)
        BY LayersApart
    <2> QED
        BY <1>1, <1>2, <1>3, <2>1
<1>5. i = j
    <2>1. j \in 1 .. Len(b[k]) /\ i \in Int /\ j \in Int
        BY <1>4, CountsType
    <2>2. i < j => PayloadAt(b, k, i) + RecordSize(k) <= PayloadAt(b, k, j)
        BY <2>1, InLayer
    <2>3. j < i => PayloadAt(b, k, j) + RecordSize(k) <= PayloadAt(b, k, i)
        BY <2>1, InLayer
    <2> QED
        BY <1>1, <1>2, <1>4, <2>1, <2>2, <2>3
<1> QED
    BY <1>4, <1>5

\* The layers whose i-th record has a header in front of it.
HasHeader(b, l, i) == l \in Layers /\ i \in 1 .. Len(b[l]) /\ (l \in AntpLayers \/ i = 1)

LEMMA HeadedRecords ==
    ASSUME NEW b \in Buffers
    PROVE  /\ \A r \in Headed(b) : HasHeader(b, r[1], r[2]) /\ r = <<r[1], r[2]>>
           /\ \A l \in Layers : \A i \in 1 .. Len(b[l]) :
                    HasHeader(b, l, i) => <<l, i>> \in Headed(b)
<1>1. \A l \in Layers : DOMAIN b[l] = 1 .. Len(b[l])
    BY CountsType
<1>2. \A r \in Headed(b) :
            \E l \in Layers : \E i \in DOMAIN b[l] : r = <<l, i>> /\ (l \in AntpLayers \/ i = 1)
    BY DEF Headed
<1>3. \A l \in Layers : \A i \in DOMAIN b[l] :
            (l \in AntpLayers \/ i = 1) => <<l, i>> \in Headed(b)
    BY DEF Headed
<1> QED
    BY <1>1, <1>2, <1>3 DEF HasHeader

\* The header that is read at the offset of a header is the one put there.
LEMMA ImageHeader ==
    ASSUME NEW b \in Buffers
    PROVE  /\ \A o \in DOMAIN Image(b).header :
                    \E l \in Layers : \E i \in 1 .. Len(b[l]) :
                        HasHeader(b, l, i) /\ o = HeaderAt(b, l, i)
           /\ \A l \in Layers : \A i \in 1 .. Len(b[l]) :
                    HasHeader(b, l, i) =>
                        /\ HeaderAt(b, l, i) \in DOMAIN Image(b).header
                        /\ Image(b).header[HeaderAt(b, l, i)] = Header(b, l, i)
<1> DEFINE at(r) == PayloadAt(b, r[1], r[2]) - COMPRESS_SIZE
           D == {at(r) : r \in Headed(b)}
           found(o) == CHOOSE q \in Headed(b) : at(q) = o
<1>1. Image(b).header = [o \in D |-> Header(b, found(o)[1], found(o)[2])]
    BY DEF Image
<1>2. ASSUME NEW o \in DOMAIN Image(b).header
      PROVE  \E l \in Layers : \E i \in 1 .. Len(b[l]) :
                    HasHeader(b, l, i) /\ o = HeaderAt(b, l, i)
    <2>1. PICK r \in Headed(b) : o = at(r)
        BY <1>1
    <2>2. HasHeader(b, r[1], r[2])
        BY HeadedRecords
    <2> QED
        BY <2>1, <2>2 DEF HasHeader, HeaderAt
<1>3. ASSUME NEW l \in Layers, NEW i \in 1 .. Len(b[l]), HasHeader(b, l, i)
      PROVE  /\ HeaderAt(b, l, i) \in DOMAIN Image(b).header
             /\ Image(b).header[HeaderAt(b, l, i)] = Header(b, l, i)
    <2>1. PICK r \in Headed(b) : r = <<l, i>>
        BY <1>3, HeadedRecords
    <2>2. PICK o : o = at(r)
        OBVIOUS
    <2>3. o = HeaderAt(b, l, i) /\ o \in D
        BY <2>1, <2>2 DEF HeaderAt
    <2>4. PICK q : q = found(o)
        OBVIOUS
    <2>5. q \in Headed(b) /\ at(q) = o
        BY <2>2, <2>4
    <2>6. HasHeader(b, q[1], q[2])
        BY <2>5, HeadedRecords
    <2>7. /\ q[1] \in Layers /\ q[2] \in 1 .. Len(b[q[1]])
        BY <2>6 DEF HasHeader
    <2>8. PayloadAt(b, q[1], q[2]) = PayloadAt(b, l, i)
        <3>1. PayloadAt(b, q[1], q[2]) \in Nat /\ PayloadAt(b, l, i) \in Nat
            BY <2>7, InLayer
        <3>2. PayloadAt(b, q[1], q[2]) - COMPRESS_SIZE = PayloadAt(b, l, i) - COMPRESS_SIZE
            BY <2>3, <2>5 DEF HeaderAt
        <3> QED
            BY <3>1, <3>2, SizesArePositive
    <2>9. q[1] = l /\ q[2] = i
        BY <2>7, <2>8, PayloadInjective
    <2>10. Image(b).header[o] = Header(b, q[1], q[2])
        BY <1>1, <2>3, <2>4
    <2> QED
        BY <1>1, <2>3, <2>9, <2>10
<1> QED
    BY <1>2, <1>3

\* The record that is read at the offset of a record is the one put there.
LEMMA ImagePayload ==
    ASSUME NEW b \in Buffers, NEW l \in Layers, NEW i \in 1 .. Len(b[l])
    PROVE  /\ PayloadAt(b, l, i) \in DOMAIN Image(b).payload
           /\ Image(b).payload[PayloadAt(b, l, i)] = <<l, i>>
<1> DEFINE records == UNION {{<<k, j>> : j \in DOMAIN b[k]} : k \in Layers}
           at(r) == PayloadAt(b, r[1], r[2])
           D == {at(r) : r \in records}
           found(o) == CHOOSE r \in records : at(r) = o
<1>1. Image(b).payload = [o \in D |-> found(o)]
    BY DEF Image
<1>2. <<l, i>> \in records
    BY CountsType
<1>3. PICK r \in records : r = <<l, i>>
    BY <1>2
<1>4. PICK o : o = at(r)
    OBVIOUS
<1>4a. o = PayloadAt(b, l, i)
    BY <1>3, <1>4
<1>5. PICK q : q = found(o)
    OBVIOUS
<1>6. q \in records /\ at(q) = o /\ o \in D
    <2> HIDE DEF records
    <2> QED
        BY <1>4, <1>5
<1>7. PICK k \in Layers : \E j \in DOMAIN b[k] : q = <<k, j>>
    BY <1>6
<1>7a. PICK j \in DOMAIN b[k] : q = <<k, j>>
    BY <1>7
<1>8. j \in 1 .. Len(b[k]) /\ PayloadAt(b, k, j) = PayloadAt(b, l, i)
    BY <1>4a, <1>6, <1>7a, CountsType
<1>9. k = l /\ j = i
    BY <1>8, PayloadInjective
<1>10. q = <<l, i>>
    BY <1>7a, <1>9
<1> HIDE DEF D, found
<1> QED
    BY <1>1, <1>4a, <1>5, <1>6, <1>10

-----------------------------------------------------------------------------
(* The fields of the headers *)

LEMMA SmallMod ==
    ASSUME NEW m \in Nat \ {0}, NEW x \in Nat, x < m
    PROVE  x % m = x
    OBVIOUS

LEMMA ModRange ==
    ASSUME NEW m \in Nat \ {0}, NEW x \in Int
    PROVE  x % m \in 0 .. m - 1
    OBVIOUS

\* The images that fit a page.
Fits(b) == b \in Buffers /\ PageLength(Counts(b)) <= PAGE_SIZE

\* A count that takes no more than a page fits a field the page fits.
LEMMA CountFits ==
    ASSUME NEW n \in Nat, NEW r \in Nat, NEW field \in Nat, n * r < field * r
    PROVE  n < field
<1> SUFFICES ASSUME field <= n PROVE FALSE
    OBVIOUS
<1>1. PICK d \in Nat : n = field + d
    <2>1. n - field \in Nat /\ n = field + (n - field)
        OBVIOUS
    <2> QED
        BY <2>1
<1>2. n * r = field * r + d * r
    BY <1>1
<1>3. d * r \in Nat /\ field * r \in Nat
    OBVIOUS
<1> QED
    BY <1>2, <1>3

LEMMA PayloadFits ==
    ASSUME NEW b, Fits(b), NEW l \in Layers
    PROVE  /\ Len(b[l]) * RecordSize(l) \in Nat
           /\ Len(b[l]) * RecordSize(l) <= PAGE_SIZE
           /\ Len(b[l]) \in Nat /\ Len(b[l]) <= PAGE_SIZE
<1>1. b \in Buffers /\ PageLength(Counts(b)) <= PAGE_SIZE
    BY DEF Fits
<1>2. PICK n \in Nat : n = Len(b[l])
    BY <1>1, CountsType
<1>3. PICK r \in Nat : r = RecordSize(l) /\ r > 0
    BY RecordSizeType
<1>4. PICK s \in Nat : s = Size(b, l)
    BY <1>1, Bases
<1>5. s <= PAGE_SIZE
    <2>1. End(b, l) <= PageLength(Counts(b)) /\ End(b, l) = Base(b, l) + s
        BY <1>1, <1>4, LayersApart DEF End
    <2>2. Base(b, l) \in Nat /\ PageLength(Counts(b)) \in Nat
        BY <1>1, Bases, CountsType, PageLengthType
    <2> QED
        BY <1>1, <2>1, <2>2, SizesArePositive
<1>6. PICK q \in Nat : q = n * r
    OBVIOUS
<1>7. PICK c \in Nat : c = COMPRESS_SIZE
    BY SizesArePositive
<1>8. c * n \in Nat
    OBVIOUS
<1>9. q <= s
    <2>1. s = q + (IF l \in AntpLayers THEN c * n ELSE IF n > 0 THEN c ELSE 0)
        BY <1>2, <1>3, <1>4, <1>6, <1>7 DEF Size, LayerLength
    <2> QED
        BY <1>8, <2>1
<1>10. n <= q
    <2>1. PICK d \in Nat : r = 1 + d
        <3>1. r - 1 \in Nat /\ r = 1 + (r - 1)
            BY <1>3
        <3> QED
            BY <3>1
    <2>2. q = n + n * d
        BY <1>6, <2>1
    <2>3. n * d \in Nat
        OBVIOUS
    <2> QED
        BY <2>2, <2>3
<1>11. q <= PAGE_SIZE /\ n <= PAGE_SIZE
    BY <1>5, <1>9, <1>10, SizesArePositive
<1> QED
    BY <1>2, <1>3, <1>6, <1>11

\* The type and the size a reader finds are those of the records, uncut.
LEMMA HeaderFields ==
    ASSUME NEW b, Fits(b), NEW l \in Layers, NEW i
    PROVE  /\ Header(b, l, i).type = l
           /\ Header(b, l, i).size = IF l \in AntpLayers THEN ANTP_RECORD_SIZE ELSE Len(b[l])
<1>1. Header(b, l, i).type = l
    BY DEF Header
<1>2. CASE l \in AntpLayers
    <2>1. Header(b, l, i).size = ANTP_RECORD_SIZE % ANT_FIELD
        BY <1>2 DEF Header, AntpLayers, Dim3Layers
    <2>2. ANTP_RECORD_SIZE % ANT_FIELD = ANTP_RECORD_SIZE
        BY FieldsAssumption, SizesArePositive, SmallMod
    <2> QED
        BY <1>1, <1>2, <2>1, <2>2
<1>3. CASE l \in Dim3Layers
    <2>0. l \notin AntpLayers
        BY <1>3 DEF AntpLayers, Dim3Layers
    <2>1. Header(b, l, i).size = Len(b[l]) % GYR_FIELD
        BY <1>3, <2>0 DEF Header, AntpLayers, Dim3Layers
    <2>2. RecordSize(l) = GYRO_RECORD_SIZE
        BY <1>3, <2>0 DEF RecordSize, AntpLayers, Dim3Layers
    <2>3. PICK n \in Nat : n = Len(b[l]) /\ n * GYRO_RECORD_SIZE \in Nat
                            /\ n * GYRO_RECORD_SIZE <= PAGE_SIZE
        BY <2>2, PayloadFits
    <2>4. /\ GYR_FIELD \in Nat /\ GYRO_RECORD_SIZE \in Nat /\ PAGE_SIZE \in Nat
          /\ PAGE_SIZE < GYR_FIELD * GYRO_RECORD_SIZE
        BY FieldsAssumption, SizesArePositive
    <2>5. PICK f \in Nat : f = GYR_FIELD * GYRO_RECORD_SIZE
        BY <2>4
    <2>6. n * GYRO_RECORD_SIZE < GYR_FIELD * GYRO_RECORD_SIZE
        <3>1. PICK q \in Nat : q = n * GYRO_RECORD_SIZE
            BY <2>3
        <3>2. q < f
            BY <2>3, <2>4, <2>5, <3>1
        <3> QED
            BY <2>5, <3>1, <3>2
    <2>7. n < GYR_FIELD
        BY <2>4, <2>6, CountFits
    <2>8. n % GYR_FIELD = n
        BY <2>4, <2>7, SmallMod
    <2> QED
        BY <1>1, <2>0, <2>1, <2>3, <2>8
<1>4. CASE l = "temperature"
    <2>0. l \notin AntpLayers /\ l \notin Dim3Layers
        BY <1>4 DEF AntpLayers, Dim3Layers
    <2>1. Header(b, l, i).size = Len(b[l]) % TMP_FIELD
        BY <1>4, <2>0 DEF Header
    <2>2. RecordSize(l) = TEMPERATURE_RECORD_SIZE
        BY <1>4, <2>0 DEF RecordSize
    <2>3. PICK n \in Nat : n = Len(b[l]) /\ n * TEMPERATURE_RECORD_SIZE \in Nat
                            /\ n * TEMPERATURE_RECORD_SIZE <= PAGE_SIZE
        BY <2>2, PayloadFits
    <2>4. /\ TMP_FIELD \in Nat /\ TEMPERATURE_RECORD_SIZE \in Nat /\ PAGE_SIZE \in Nat
          /\ PAGE_SIZE < TMP_FIELD * TEMPERATURE_RECORD_SIZE
        BY FieldsAssumption, SizesArePositive
    <2>5. PICK f \in Nat : f = TMP_FIELD * TEMPERATURE_RECORD_SIZE
        BY <2>4
    <2>6. n * TEMPERATURE_RECORD_SIZE < TMP_FIELD * TEMPERATURE_RECORD_SIZE
        <3>1. PICK q \in Nat : q = n * TEMPERATURE_RECORD_SIZE
            BY <2>3
        <3>2. q < f
            BY <2>3, <2>4, <2>5, <3>1
        <3> QED
            BY <2>5, <3>1, <3>2
    <2>7. n < TMP_FIELD
        BY <2>4, <2>6, CountFits
    <2>8. n % TMP_FIELD = n
        BY <2>4, <2>7, SmallMod
    <2> QED
        BY <1>1, <2>0, <2>1, <2>3, <2>8
<1> QED
    BY <1>2, <1>3, <1>4 DEF Layers

-----------------------------------------------------------------------------
(* Where a reader goes from a header *)

LEMMA HeaderPositions ==
    ASSUME NEW b \in Buffers, NEW l \in Layers
    PROVE  /\ HeaderAt(b, l, 1) = Base(b, l)
           /\ l \in AntpLayers => HeaderAt(b, l, Len(b[l]) + 1) = End(b, l)
           /\ \A i \in Nat : HeaderAt(b, l, i + 1) = HeaderAt(b, l, i) + Pitch(l)
           /\ \A i \in Nat : i > 0 => HeaderAt(b, l, i) \in Nat
<1>1. PICK p \in Nat : p = Pitch(l)
    BY PitchType
<1>2. PICK c \in Nat : c = COMPRESS_SIZE
    BY SizesArePositive
<1>3. PICK base \in Nat : base = Base(b, l)
    BY Bases
<1>4. PICK n \in Nat : n = Len(b[l])
    BY CountsType
<1>5. \A i \in Int : HeaderAt(b, l, i) = base + (i - 1) * p
    <2> TAKE i \in Int
    <2>1. PICK q \in Int : q = (i - 1) * p
        OBVIOUS
    <2>2. HeaderAt(b, l, i) = (base + c + q) - c
        BY <1>1, <1>2, <1>3, <2>1, Layout DEF HeaderAt
    <2> QED
        BY <2>1, <2>2
<1>6. HeaderAt(b, l, 1) = base
    <2>1. HeaderAt(b, l, 1) = base + (1 - 1) * p
        BY <1>5
    <2>2. (1 - 1) * p = 0
        OBVIOUS
    <2> QED
        BY <2>1, <2>2
<1>7. ASSUME NEW i \in Nat PROVE HeaderAt(b, l, i + 1) = HeaderAt(b, l, i) + p
    <2>1. HeaderAt(b, l, i + 1) = base + ((i + 1) - 1) * p /\ HeaderAt(b, l, i) = base + (i - 1) * p
        BY <1>5
    <2>2. ((i + 1) - 1) * p = (i - 1) * p + p /\ (i - 1) * p \in Int
        OBVIOUS
    <2> QED
        BY <2>1, <2>2
<1>8. ASSUME NEW i \in Nat, i > 0 PROVE HeaderAt(b, l, i) \in Nat
    <2>1. i - 1 \in Nat
        BY <1>8
    <2>2. (i - 1) * p \in Nat
        BY <2>1
    <2> QED
        BY <1>5, <2>2
<1>9. ASSUME l \in AntpLayers PROVE HeaderAt(b, l, Len(b[l]) + 1) = End(b, l)
    <2>1. HeaderAt(b, l, n + 1) = base + ((n + 1) - 1) * p
        BY <1>5
    <2>2. PICK q \in Nat : q = n * p
        OBVIOUS
    <2>3. (n + 1) - 1 = n
        OBVIOUS
    <2>4. Size(b, l) = n * p + 0
        BY <1>1, <1>4, <1>9, LayerSize
    <2>5. End(b, l) = base + q
        BY <1>3, <2>2, <2>4 DEF End
    <2> QED
        BY <1>4, <2>1, <2>2, <2>3, <2>5
<1> QED
    BY <1>1, <1>3, <1>6, <1>7, <1>8, <1>9

LEMMA BehindHeader ==
    ASSUME NEW b, Fits(b), NEW unit \in [Layers -> Nat],
           NEW l \in Layers, NEW i \in 1 .. Len(b[l]), HasHeader(b, l, i)
    PROVE  Behind(Image(b), unit, HeaderAt(b, l, i)) =
                HeaderAt(b, l, i) + COMPRESS_SIZE
                + IF l \in AntpLayers THEN RecordSize(l) ELSE Len(b[l]) * unit[l]
<1>1. Image(b).header[HeaderAt(b, l, i)] = Header(b, l, i)
    BY ImageHeader DEF Fits
<1>2. /\ Header(b, l, i).type = l
      /\ Header(b, l, i).size = IF l \in AntpLayers THEN ANTP_RECORD_SIZE ELSE Len(b[l])
    BY HeaderFields
<1>3. l \in AntpLayers => RecordSize(l) = ANTP_RECORD_SIZE
    BY DEF RecordSize, AntpLayers, Dim3Layers
<1> QED
    BY <1>1, <1>2, <1>3, Zenon DEF Behind

LEMMA ReadersMoveOn ==
    ASSUME NEW b, Fits(b), NEW unit \in [Layers -> Nat]
    PROVE  MovesOn(Image(b), unit)
<1>1. ASSUME NEW o \in DOMAIN Image(b).header
      PROVE  o \in Nat /\ Behind(Image(b), unit, o) \in Nat /\ Behind(Image(b), unit, o) > o
    <2>1. PICK l \in Layers : \E i \in 1 .. Len(b[l]) : HasHeader(b, l, i) /\ o = HeaderAt(b, l, i)
        BY ImageHeader DEF Fits
    <2>2. PICK i \in 1 .. Len(b[l]) : HasHeader(b, l, i) /\ o = HeaderAt(b, l, i)
        BY <2>1
    <2>3. o \in Nat
        BY <2>2, InLayer DEF Fits
    <2>4. PICK s \in Nat : s = IF l \in AntpLayers THEN RecordSize(l) ELSE Len(b[l]) * unit[l]
        <3>1. RecordSize(l) \in Nat /\ Len(b[l]) \in Nat /\ unit[l] \in Nat
            BY RecordSizeType, CountsType DEF Fits
        <3>2. Len(b[l]) * unit[l] \in Nat
            BY <3>1
        <3> QED
            BY <3>1, <3>2
    <2>5. Behind(Image(b), unit, o) = o + COMPRESS_SIZE + s
        BY <2>2, <2>4, BehindHeader, Zenon
    <2> QED
        BY <2>3, <2>5, SizesArePositive
<1> QED
    BY <1>1 DEF MovesOn

-----------------------------------------------------------------------------
(* What a reader takes from a page *)

\* The ANT+ headers follow each other, whatever the strides of the reader.
LEMMA AntHeaders ==
    ASSUME NEW b, Fits(b), NEW unit \in [Layers -> Nat], NEW limit \in Nat, PAGE_SIZE <= limit,
           NEW l \in Layers, l \in AntpLayers, NEW i \in 1 .. Len(b[l])
    PROVE  /\ HeaderAt(b, l, i) < limit /\ HeaderAt(b, l, i) \in DOMAIN Image(b).header
           /\ Behind(Image(b), unit, HeaderAt(b, l, i)) = HeaderAt(b, l, i + 1)
<1>0. b \in Buffers /\ PageLength(Counts(b)) <= PAGE_SIZE /\ PageLength(Counts(b)) \in Nat
    BY CountsType, PageLengthType DEF Fits
<1>1. HasHeader(b, l, i)
    BY DEF HasHeader
<1>2. HeaderAt(b, l, i) \in DOMAIN Image(b).header
    BY <1>0, <1>1, ImageHeader
<1>3. HeaderAt(b, l, i) < limit
    <2>1. /\ PayloadAt(b, l, i) \in Nat /\ PayloadAt(b, l, i) + RecordSize(l) <= End(b, l)
          /\ End(b, l) <= PageLength(Counts(b)) /\ End(b, l) \in Nat
        BY <1>0, InLayer, LayersApart, Bases
    <2> QED
        BY <1>0, <2>1, RecordSizeType, SizesArePositive DEF HeaderAt
<1>4. /\ i \in Nat /\ HeaderAt(b, l, i) \in Nat
      /\ HeaderAt(b, l, i + 1) = HeaderAt(b, l, i) + Pitch(l)
    <2>1. i \in Nat
        OBVIOUS
    <2> QED
        BY <1>0, <2>1, HeaderPositions, InLayer
<1>5. Pitch(l) = RecordSize(l) + COMPRESS_SIZE
    BY DEF Pitch
<1>6. Behind(Image(b), unit, HeaderAt(b, l, i)) = HeaderAt(b, l, i) + COMPRESS_SIZE + RecordSize(l)
    BY <1>1, BehindHeader
<1> QED
    BY <1>2, <1>3, <1>4, <1>5, <1>6, RecordSizeType, SizesArePositive

\* The offsets of the headers of an ANT+ layer, and the end of the layer.
LEMMA AntOffsets ==
    ASSUME NEW b \in Buffers, NEW l \in Layers, l \in AntpLayers
    PROVE  \E at \in [1 .. Len(b[l]) + 1 -> Nat] :
                /\ \A i \in 1 .. Len(b[l]) + 1 : at[i] = HeaderAt(b, l, i)
                /\ at[1] = Base(b, l) /\ at[Len(b[l]) + 1] = End(b, l)
<1>1. PICK n \in Nat : n = Len(b[l])
    BY CountsType
<1>2. PICK at : at = [i \in 1 .. n + 1 |-> HeaderAt(b, l, i)]
    OBVIOUS
<1>3. \A i \in 1 .. n + 1 : HeaderAt(b, l, i) \in Nat
    <2>1. \A i \in 1 .. n + 1 : i \in Nat /\ i > 0
        OBVIOUS
    <2> QED
        BY <2>1, HeaderPositions
<1>4. at \in [1 .. n + 1 -> Nat] /\ \A i \in 1 .. n + 1 : at[i] = HeaderAt(b, l, i)
    BY <1>2, <1>3
<1>5. 1 \in 1 .. n + 1 /\ n + 1 \in 1 .. n + 1
    OBVIOUS
<1>6. at[1] = Base(b, l) /\ at[n + 1] = End(b, l)
    BY <1>1, <1>4, <1>5, HeaderPositions
<1> QED
    BY <1>1, <1>4, <1>6

LEMMA AntTaken ==
    ASSUME NEW b, Fits(b), NEW unit \in [Layers -> Nat], NEW limit \in Nat, PAGE_SIZE <= limit,
           NEW take, NEW w, Loop(Image(b), limit, unit, take, w),
           NEW S, Typed(Image(b), take, S),
           NEW l \in Layers, l \in AntpLayers,
           NEW v \in Seq(S), Len(v) = Len(b[l]),
           \A i \in 1 .. Len(b[l]) : take[HeaderAt(b, l, i)] = One(v[i])
    PROVE  w[Base(b, l)] = Cat(v, w[End(b, l)])
<1>1. b \in Buffers
    BY DEF Fits
<1>2. PICK n \in Nat : n = Len(b[l])
    BY <1>1, CountsType
<1>3. PICK at \in [1 .. n + 1 -> Nat] :
                /\ \A i \in 1 .. n + 1 : at[i] = HeaderAt(b, l, i)
                /\ at[1] = Base(b, l) /\ at[n + 1] = End(b, l)
    BY <1>1, <1>2, AntOffsets
<1>4. ASSUME NEW i \in 1 .. n
      PROVE  /\ at[i] < limit /\ at[i] \in DOMAIN Image(b).header
             /\ Behind(Image(b), unit, at[i]) = at[i + 1]
             /\ take[at[i]] = One(v[i])
    <2>1. i \in 1 .. n + 1 /\ i + 1 \in 1 .. n + 1 /\ i \in 1 .. Len(b[l])
        BY <1>2
    <2>2. at[i] = HeaderAt(b, l, i) /\ at[i + 1] = HeaderAt(b, l, i + 1)
        BY <1>3, <2>1
    <2> QED
        BY <2>1, <2>2, AntHeaders
<1>5. MovesOn(Image(b), unit)
    BY ReadersMoveOn
<1>6. Chain(Image(b), limit, unit, at, n)
    BY <1>4 DEF Chain
<1>7. OneEach(take, at, v, n)
    BY <1>2, <1>4 DEF OneEach
<1>8. w[at[1]] = Cat(v, w[at[n + 1]])
    BY <1>5, <1>6, <1>7, WalkRun
<1> QED
    BY <1>3, <1>8

LEMMA AntSkipped ==
    ASSUME NEW b, Fits(b), NEW unit \in [Layers -> Nat], NEW limit \in Nat, PAGE_SIZE <= limit,
           NEW take, NEW w, Loop(Image(b), limit, unit, take, w),
           NEW S, Typed(Image(b), take, S),
           NEW l \in Layers, l \in AntpLayers,
           \A i \in 1 .. Len(b[l]) : take[HeaderAt(b, l, i)] = <<>>
    PROVE  w[Base(b, l)] = w[End(b, l)]
<1>1. b \in Buffers
    BY DEF Fits
<1>2. PICK n \in Nat : n = Len(b[l])
    BY <1>1, CountsType
<1>3. PICK at \in [1 .. n + 1 -> Nat] :
                /\ \A i \in 1 .. n + 1 : at[i] = HeaderAt(b, l, i)
                /\ at[1] = Base(b, l) /\ at[n + 1] = End(b, l)
    BY <1>1, <1>2, AntOffsets
<1>4. ASSUME NEW i \in 1 .. n
      PROVE  /\ at[i] < limit /\ at[i] \in DOMAIN Image(b).header
             /\ Behind(Image(b), unit, at[i]) = at[i + 1]
             /\ take[at[i]] = <<>>
    <2>1. i \in 1 .. n + 1 /\ i + 1 \in 1 .. n + 1 /\ i \in 1 .. Len(b[l])
        BY <1>2
    <2>2. at[i] = HeaderAt(b, l, i) /\ at[i + 1] = HeaderAt(b, l, i + 1)
        BY <1>3, <2>1
    <2> QED
        BY <2>1, <2>2, AntHeaders
<1>5. MovesOn(Image(b), unit)
    BY ReadersMoveOn
<1>6. Chain(Image(b), limit, unit, at, n)
    BY <1>4 DEF Chain
<1>7. w[at[1]] = w[at[n + 1]]
    BY <1>4, <1>5, <1>6, WalkSkip
<1> QED
    BY <1>3, <1>7

LEMMA Strides ==
    /\ RecordStride \in [Layers -> Nat] /\ \A l \in Layers : RecordStride[l] = RecordSize(l)
    /\ ByteStride \in [Layers -> Nat] /\ \A l \in Layers : ByteStride[l] = 1
    BY RecordSizeType DEF RecordStride, ByteStride

\* The one header of another layer, for a reader with the right strides.
LEMMA OtherTaken ==
    ASSUME NEW b, Fits(b), NEW limit \in Nat, PAGE_SIZE <= limit,
           NEW take, NEW w, Loop(Image(b), limit, RecordStride, take, w),
           NEW l \in Layers, l \notin AntpLayers
    PROVE  /\ Len(b[l]) = 0 => Base(b, l) = End(b, l)
           /\ Len(b[l]) # 0 => w[Base(b, l)] = Cat(take[Base(b, l)], w[End(b, l)])
<1>1. b \in Buffers /\ PageLength(Counts(b)) <= PAGE_SIZE /\ PageLength(Counts(b)) \in Nat
    BY CountsType, PageLengthType DEF Fits
<1>2. PICK n \in Nat : n = Len(b[l])
    BY <1>1, CountsType
<1>3. Base(b, l) \in Nat /\ End(b, l) \in Nat
    BY <1>1, Bases
<1>6. PICK p \in Nat : p = RecordSize(l) /\ p = Pitch(l)
    BY RecordSizeType DEF Pitch
<1>7. Size(b, l) = n * p + IF n = 0 THEN 0 ELSE COMPRESS_SIZE
    BY <1>1, <1>2, <1>6, LayerSize
<1>8. CASE n = 0
    <2>1. Size(b, l) = 0
        BY <1>6, <1>7, <1>8
    <2>2. End(b, l) = Base(b, l)
        BY <1>3, <2>1 DEF End
    <2> QED
        BY <1>2, <1>8, <2>2
<1>9. CASE n > 0
    <2>1. 1 \in 1 .. Len(b[l]) /\ HasHeader(b, l, 1)
        BY <1>2, <1>9 DEF HasHeader
    <2>2. HeaderAt(b, l, 1) = Base(b, l)
        BY <1>1, HeaderPositions
    <2>3. Base(b, l) \in DOMAIN Image(b).header
        BY <1>1, <2>1, <2>2, ImageHeader
    <2>4. Base(b, l) < limit
        <3>1. /\ PayloadAt(b, l, 1) \in Nat /\ PayloadAt(b, l, 1) + RecordSize(l) <= End(b, l)
              /\ End(b, l) <= PageLength(Counts(b))
            BY <1>1, <2>1, InLayer, LayersApart
        <3> QED
            BY <1>1, <1>3, <2>2, <3>1, RecordSizeType, SizesArePositive DEF HeaderAt
    <2>5. Behind(Image(b), RecordStride, Base(b, l)) = Base(b, l) + COMPRESS_SIZE + n * p
        <3>1. RecordStride \in [Layers -> Nat] /\ RecordStride[l] = p
            BY <1>6, Strides
        <3> QED
            BY <1>2, <2>1, <2>2, <3>1, BehindHeader
    <2>6. End(b, l) = Base(b, l) + COMPRESS_SIZE + n * p
        <3>1. PICK q \in Nat : q = n * p
            OBVIOUS
        <3>2. Size(b, l) = q + COMPRESS_SIZE
            BY <1>7, <1>9, <3>1
        <3> QED
            BY <1>3, <3>1, <3>2, SizesArePositive DEF End
    <2>7. w[Base(b, l)] = Cat(take[Base(b, l)], w[Behind(Image(b), RecordStride, Base(b, l))])
        BY <1>3, <2>3, <2>4 DEF Loop
    <2> QED
        BY <1>2, <1>9, <2>5, <2>6, <2>7
<1> QED
    BY <1>8, <1>9

\* Behind the records a reader finds no header.
LEMMA PageEnds ==
    ASSUME NEW b, Fits(b), NEW limit \in Nat, NEW unit, NEW take,
           NEW w, Loop(Image(b), limit, unit, take, w)
    PROVE  w[End(b, "temperature")] = <<>>
<1>1. b \in Buffers
    BY DEF Fits
<1>2. PICK e \in Nat : e = End(b, "temperature") /\ e = PageLength(Counts(b))
    BY <1>1, Bases DEF Layers
<1>3. e \notin DOMAIN Image(b).header
    <2> SUFFICES ASSUME e \in DOMAIN Image(b).header PROVE FALSE
        OBVIOUS
    <2>1. PICK l \in Layers : \E i \in 1 .. Len(b[l]) : HasHeader(b, l, i) /\ e = HeaderAt(b, l, i)
        BY <1>1, ImageHeader
    <2>2. PICK i \in 1 .. Len(b[l]) : e = HeaderAt(b, l, i)
        BY <2>1
    <2>3. /\ PayloadAt(b, l, i) \in Nat /\ PayloadAt(b, l, i) + RecordSize(l) <= End(b, l)
          /\ End(b, l) \in Nat /\ End(b, l) <= e
        BY <1>1, <1>2, InLayer, LayersApart, Bases
    <2> QED
        BY <2>2, <2>3, RecordSizeType, SizesArePositive DEF HeaderAt
<1> QED
    BY <1>2, <1>3 DEF Loop

\* The parts of the headers of a layer make up v: one element per ANT+ header,
\* all of it at the one header of another layer.
Delivers(b, layer, part, v) ==
    IF layer \in AntpLayers
    THEN /\ Len(v) = Len(b[layer])
         /\ \A i \in 1 .. Len(b[layer]) : part[HeaderAt(b, layer, i)] = One(v[i])
    ELSE v = IF Len(b[layer]) = 0 THEN <<>> ELSE part[Base(b, layer)]

\* A reader of a layer takes the parts of the layer and nothing else, whatever
\* the other layers hold.
LEMMA LayerRead ==
    ASSUME NEW b, Fits(b), NEW limit \in Nat, PAGE_SIZE <= limit, NEW layer \in Layers,
           NEW part, NEW S, NEW v \in Seq(S), Delivers(b, layer, part, v)
    PROVE  Walk(Image(b), limit, RecordStride, OfLayer(Image(b), layer, part))[0] = v
<1>0. b \in Buffers
    BY DEF Fits
<1>1. PICK take : take = OfLayer(Image(b), layer, part)
    OBVIOUS
<1>2. PICK w : w = Walk(Image(b), limit, RecordStride, take)
    OBVIOUS
<1>3. MovesOn(Image(b), RecordStride)
    BY ReadersMoveOn, Strides
<1>4. Loop(Image(b), limit, RecordStride, take, w)
    BY <1>2, <1>3, WalkLoops
<1>5. ASSUME NEW l \in Layers, NEW i \in 1 .. Len(b[l]), HasHeader(b, l, i)
      PROVE  take[HeaderAt(b, l, i)] = IF l = layer THEN part[HeaderAt(b, l, i)] ELSE <<>>
    <2>1. /\ HeaderAt(b, l, i) \in DOMAIN Image(b).header
          /\ Image(b).header[HeaderAt(b, l, i)] = Header(b, l, i)
        BY <1>0, <1>5, ImageHeader
    <2>2. Image(b).header[HeaderAt(b, l, i)].type = l
        BY <2>1, HeaderFields
    <2> QED
        BY <1>1, <2>1, <2>2 DEF OfLayer
<1>6. Typed(Image(b), take, S)
    <2>1. ASSUME NEW o \in DOMAIN Image(b).header PROVE take[o] \in Seq(S)
        <3>1. PICK l \in Layers : \E i \in 1 .. Len(b[l]) :
                    HasHeader(b, l, i) /\ o = HeaderAt(b, l, i)
            BY <1>0, ImageHeader
        <3>2. PICK i \in 1 .. Len(b[l]) : HasHeader(b, l, i) /\ o = HeaderAt(b, l, i)
            BY <3>1
        <3>3. take[o] = IF l = layer THEN part[o] ELSE <<>>
            BY <1>5, <3>2
        <3>4. CASE l # layer
            BY <3>3, <3>4, EmptySeq
        <3>5. CASE l = layer /\ l \in AntpLayers
            <4>1. part[o] = One(v[i]) /\ i \in 1 .. Len(v)
                BY <3>2, <3>5 DEF Delivers
            <4>2. v[i] \in S
                BY <4>1, ElementOfSeq
            <4> QED
                BY <3>3, <3>5, <4>1, <4>2, OneType
        <3>6. CASE l = layer /\ l \notin AntpLayers
            <4>1. i = 1 /\ Len(b[l]) \in Nat
                BY <1>0, <3>2, <3>6, CountsType DEF HasHeader
            <4>2. o = Base(b, l)
                BY <1>0, <3>2, <4>1, HeaderPositions
            <4>2a. Len(b[l]) # 0
                BY <4>1
            <4>3. v = part[o]
                BY <3>6, <4>2, <4>2a DEF Delivers
            <4> QED
                BY <3>3, <3>6, <4>3
        <3> QED
            BY <3>4, <3>5, <3>6
    <2> QED
        BY <2>1 DEF Typed
<1>7. \A o \in Nat : w[o] \in Seq(S)
    BY <1>3, <1>4, <1>6, WalkType
<1>8. \A l \in Layers : Base(b, l) \in Nat /\ End(b, l) \in Nat
    BY <1>0, Bases
<1>9. ASSUME NEW l \in Layers, l # layer PROVE w[Base(b, l)] = w[End(b, l)]
    <2>1. CASE l \in AntpLayers
        <3>1. \A i \in 1 .. Len(b[l]) : take[HeaderAt(b, l, i)] = <<>>
            BY <1>5, <1>9, <2>1 DEF HasHeader
        <3> QED
            BY <1>4, <1>6, <2>1, <3>1, AntSkipped, Strides
    <2>2. CASE l \notin AntpLayers
        <3>1. Len(b[l]) \in Nat /\ HeaderAt(b, l, 1) = Base(b, l)
            BY <1>0, CountsType, HeaderPositions
        <3>2. Len(b[l]) # 0 => take[Base(b, l)] = <<>>
            BY <1>5, <1>9, <3>1 DEF HasHeader
        <3>3. /\ Len(b[l]) = 0 => Base(b, l) = End(b, l)
              /\ Len(b[l]) # 0 => w[Base(b, l)] = Cat(take[Base(b, l)], w[End(b, l)])
            BY <1>4, <2>2, OtherTaken
        <3>4. Cat(<<>>, w[End(b, l)]) = w[End(b, l)]
            BY <1>7, <1>8, CatUnit
        <3> QED
            BY <3>2, <3>3, <3>4
    <2> QED
        BY <2>1, <2>2
<1>10. w[Base(b, layer)] = Cat(v, w[End(b, layer)])
    <2>1. CASE layer \in AntpLayers
        <3>1. Len(v) = Len(b[layer])
            BY <2>1 DEF Delivers
        <3>2. \A i \in 1 .. Len(b[layer]) : take[HeaderAt(b, layer, i)] = One(v[i])
            <4>1. \A i \in 1 .. Len(b[layer]) : part[HeaderAt(b, layer, i)] = One(v[i])
                BY <2>1 DEF Delivers
            <4> QED
                BY <1>5, <2>1, <4>1 DEF HasHeader
        <3> QED
            BY <1>4, <1>6, <2>1, <3>1, <3>2, AntTaken, Strides
    <2>2. CASE layer \notin AntpLayers
        <3>1. Len(b[layer]) \in Nat /\ HeaderAt(b, layer, 1) = Base(b, layer)
            BY <1>0, CountsType, HeaderPositions
        <3>2. Len(b[layer]) # 0 => take[Base(b, layer)] = part[Base(b, layer)]
            BY <1>5, <3>1 DEF HasHeader
        <3>3. v = IF Len(b[layer]) = 0 THEN <<>> ELSE take[Base(b, layer)]
            BY <2>2, <3>2 DEF Delivers
        <3>4. /\ Len(b[layer]) = 0 => Base(b, layer) = End(b, layer)
              /\ Len(b[layer]) # 0 =>
                    w[Base(b, layer)] = Cat(take[Base(b, layer)], w[End(b, layer)])
            BY <1>4, <2>2, OtherTaken
        <3>5. Cat(<<>>, w[End(b, layer)]) = w[End(b, layer)]
            BY <1>7, <1>8, CatUnit
        <3> QED
            BY <3>3, <3>4, <3>5
    <2> QED
        BY <2>1, <2>2
<1>11. w[End(b, "temperature")] = <<>>
    BY <1>4, PageEnds
<1>12. w[End(b, layer)] = <<>> /\ w[0] = w[Base(b, layer)]
    BY <1>0, <1>9, <1>11, Bases DEF Layers, AntpLayers, Dim3Layers
<1>13. Cat(v, <<>>) = v
    BY CatUnit
<1> QED
    BY <1>1, <1>2, <1>10, <1>12, <1>13

-----------------------------------------------------------------------------
(* mxfs_read *)

LEMMA FunctionIsSequence ==
    ASSUME NEW n \in Nat, NEW S, NEW f \in [1 .. n -> S]
    PROVE  f \in Seq(S) /\ Len(f) = n /\ DOMAIN f = 1 .. n
<1>1. f \in Seq(S)
    BY SeqDef
<1>2. DOMAIN f = 1 .. n
    OBVIOUS
<1>3. Len(f) \in Nat /\ DOMAIN f = 1 .. Len(f)
    BY <1>1, LenProperties
<1>4. Len(f) = n
    BY <1>2, <1>3
<1> QED
    BY <1>1, <1>2, <1>4

\* The payloads behind a header are those of its records.
LEMMA RecordsOfHeader ==
    ASSUME NEW b, Fits(b), NEW l \in Layers, NEW i \in 1 .. Len(b[l]), HasHeader(b, l, i)
    PROVE  RecordsAt(Image(b), HeaderAt(b, l, i)) =
                IF l \in AntpLayers THEN One(<<l, i>>) ELSE [m \in 1 .. Len(b[l]) |-> <<l, m>>]
<1>0. b \in Buffers
    BY DEF Fits
<1>1. PICK h : h = Image(b).header[HeaderAt(b, l, i)] /\ h.type = l
               /\ h.size = IF l \in AntpLayers THEN ANTP_RECORD_SIZE ELSE Len(b[l])
    BY <1>0, HeaderFields, ImageHeader
<1>2. PICK n \in Nat : n = Len(b[l])
    BY <1>0, CountsType
<1>3. PICK pl : pl = Image(b).payload
    OBVIOUS
<1>4. \A m \in 1 .. n : PayloadAt(b, l, m) \in DOMAIN pl /\ pl[PayloadAt(b, l, m)] = <<l, m>>
    BY <1>0, <1>2, <1>3, ImagePayload
<1>5. PICK count : count = IF l \in AntpLayers THEN 1 ELSE n
    OBVIOUS
<1> DEFINE at(m) == HeaderAt(b, l, i) + COMPRESS_SIZE + (m - 1) * RecordSize(l)
<1>6. RecordsAt(Image(b), HeaderAt(b, l, i)) =
            [m \in 1 .. count |-> IF at(m) \in DOMAIN pl THEN pl[at(m)] ELSE <<"garbage", at(m)>>]
    BY <1>1, <1>2, <1>3, <1>5, Zenon DEF RecordsAt
<1>7. CASE l \in AntpLayers
    <2>1. at(1) = PayloadAt(b, l, i)
        <3>1. PayloadAt(b, l, i) \in Nat /\ RecordSize(l) \in Nat /\ COMPRESS_SIZE \in Nat
            BY <1>0, InLayer, RecordSizeType, SizesArePositive
        <3>2. (1 - 1) * RecordSize(l) = 0
            BY <3>1
        <3> QED
            BY <3>1, <3>2 DEF HeaderAt
    <2>2. i \in 1 .. n /\ count = 1
        BY <1>2, <1>5, <1>7
    <2>3. pl[at(1)] = <<l, i>> /\ at(1) \in DOMAIN pl
        BY <1>4, <2>1, <2>2
    <2> HIDE DEF at
    <2>4. \A m \in 1 .. 1 : m = 1
        OBVIOUS
    <2>5. RecordsAt(Image(b), HeaderAt(b, l, i)) = [m \in 1 .. 1 |-> <<l, i>>]
        BY <1>6, <2>2, <2>3, <2>4
    <2>6. [m \in 1 .. 1 |-> <<l, i>>] = One(<<l, i>>)
        BY DEF One
    <2> QED
        BY <1>7, <2>5, <2>6
<1>8. CASE l \notin AntpLayers
    <2>1. ASSUME NEW m \in 1 .. n PROVE at(m) = PayloadAt(b, l, m)
        <3>1. i = 1 /\ HeaderAt(b, l, 1) = Base(b, l)
            BY <1>0, <1>8, HeaderPositions DEF HasHeader
        <3>2. Pitch(l) = RecordSize(l)
            BY <1>8 DEF Pitch
        <3>3. PayloadAt(b, l, m) = Base(b, l) + COMPRESS_SIZE + (m - 1) * Pitch(l)
            BY <1>0, Layout
        <3> QED
            BY <3>1, <3>2, <3>3, Zenon
    <2>2. \A m \in 1 .. n : at(m) \in DOMAIN pl /\ pl[at(m)] = <<l, m>>
        <3> HIDE DEF at
        <3> QED
            BY <1>4, <2>1
    <2>3. count = n
        BY <1>5, <1>8
    <2> HIDE DEF at
    <2>4. RecordsAt(Image(b), HeaderAt(b, l, i)) = [m \in 1 .. n |-> <<l, m>>]
        BY <1>6, <2>2, <2>3
    <2> QED
        BY <1>2, <1>8, <2>4
<1> QED
    BY <1>7, <1>8

\* mxfs_read returns the records of a layer, in order.
LEMMA ReadImage ==
    ASSUME NEW b, Fits(b), NEW layer \in Layers
    PROVE  read(Image(b), layer) = [i \in DOMAIN b[layer] |-> <<layer, i>>]
<1>0. b \in Buffers
    BY DEF Fits
<1>1. PICK n \in Nat : n = Len(b[layer]) /\ DOMAIN b[layer] = 1 .. n
    BY <1>0, CountsType
<1>2. PICK v : v = [i \in 1 .. n |-> <<layer, i>>]
    OBVIOUS
<1>3. PICK S : S = {<<layer, i>> : i \in Nat}
    OBVIOUS
<1>4. v \in [1 .. n -> S]
    BY <1>2, <1>3
<1>5. v \in Seq(S) /\ Len(v) = n
    BY <1>4, FunctionIsSequence
<1>6. PICK part : part = [o \in DOMAIN Image(b).header |-> RecordsAt(Image(b), o)]
    OBVIOUS
<1>7. \A i \in 1 .. n : HasHeader(b, layer, i) =>
            part[HeaderAt(b, layer, i)] = IF layer \in AntpLayers THEN One(<<layer, i>>) ELSE v
    <2> SUFFICES ASSUME NEW i \in 1 .. n, HasHeader(b, layer, i)
                 PROVE  part[HeaderAt(b, layer, i)] =
                            IF layer \in AntpLayers THEN One(<<layer, i>>) ELSE v
        OBVIOUS
    <2>1. HeaderAt(b, layer, i) \in DOMAIN Image(b).header
        BY <1>0, <1>1, ImageHeader
    <2>2. part[HeaderAt(b, layer, i)] = RecordsAt(Image(b), HeaderAt(b, layer, i))
        BY <1>6, <2>1
    <2> QED
        BY <1>1, <1>2, <2>2, RecordsOfHeader
<1>8. Delivers(b, layer, part, v)
    <2>1. CASE layer \in AntpLayers
        <3>1. \A i \in 1 .. n : v[i] = <<layer, i>> /\ HasHeader(b, layer, i)
            BY <1>1, <1>2, <2>1 DEF HasHeader
        <3>2. \A i \in 1 .. n : part[HeaderAt(b, layer, i)] = One(v[i])
            BY <1>7, <2>1, <3>1
        <3> QED
            BY <1>1, <1>5, <2>1, <3>2 DEF Delivers
    <2>2. CASE layer \notin AntpLayers /\ n = 0
        <3>1. v = <<>>
            BY <1>2, <2>2
        <3> QED
            BY <1>1, <2>2, <3>1 DEF Delivers
    <2>3. CASE layer \notin AntpLayers /\ n # 0
        <3>1. 1 \in 1 .. n /\ HasHeader(b, layer, 1)
            BY <1>1, <2>3 DEF HasHeader
        <3>2. HeaderAt(b, layer, 1) = Base(b, layer)
            BY <1>0, HeaderPositions
        <3>3. part[Base(b, layer)] = v
            BY <1>7, <2>3, <3>1, <3>2
        <3> QED
            BY <1>1, <2>3, <3>3 DEF Delivers
    <2> QED
        BY <2>1, <2>2, <2>3
<1>9. PAGE_SIZE \in Nat /\ PAGE_SIZE <= PAGE_SIZE
    BY SizesArePositive
<1>10. Walk(Image(b), PAGE_SIZE, RecordStride, OfLayer(Image(b), layer, part))[0] = v
    BY <1>5, <1>8, <1>9, LayerRead
<1> QED
    BY <1>1, <1>2, <1>6, <1>10, Zenon DEF read

-----------------------------------------------------------------------------
(* The steps of a header *)

\* A number and what is left of it by a divisor.
LEMMA DivMod ==
    ASSUME NEW m \in Nat \ {0}, NEW x \in Nat
    PROVE  /\ x \div m \in Nat /\ x % m \in 0 .. m - 1
           /\ (x \div m) * m \in Nat
           /\ x = (x \div m) * m + (x % m)
<1>1. x \div m \in Nat /\ x % m \in 0 .. m - 1
    OBVIOUS
<1>2. x = m * (x \div m) + (x % m)
    OBVIOUS
<1>3. PICK q \in Nat : q = x \div m
    BY <1>1
<1>4. PICK r \in Nat : r = x % m
    BY <1>1
<1>5. m * q = q * m /\ q * m \in Nat
    OBVIOUS
<1>6. x = q * m + r
    BY <1>2, <1>3, <1>4, <1>5
<1> QED
    BY <1>1, <1>3, <1>4, <1>5, <1>6

LEMMA LastElement ==
    ASSUME NEW S, NEW s \in Seq(S), Len(s) # 0
    PROVE  /\ Last(s) = s[Len(s)] /\ Head(s) = s[1] /\ Last(s) \in S /\ Head(s) \in S
           /\ Len(s) \in 1 .. Len(s) /\ 1 \in 1 .. Len(s)
<1>1. Len(s) \in Nat
    BY LenProperties
<1>2. Len(s) \in 1 .. Len(s) /\ 1 \in 1 .. Len(s)
    BY <1>1
<1>3. s[Len(s)] \in S /\ s[1] \in S
    BY <1>2, ElementOfSeq
<1>4. Last(s) = s[Len(s)] /\ Head(s) = s[1]
    BY DEF Last
<1> QED
    BY <1>2, <1>3, <1>4

\* The last time a header is made with is that of a record of the page, or 0.
LEMMA LastTmmType ==
    ASSUME NEW b \in Buffers, NEW l \in Layers, Len(b[l]) # 0
    PROVE  /\ LastTmm(b, l) \in Nat
           /\ (l # "temperature" \/ Len(b[l]) > 1) => LastTmm(b, l) = Last(b[l])
<1> DEFINE before == {k \in Layers : Rank(k) < Rank(l) /\ b[k] # <<>>}
           closest == CHOOSE k \in before : \A j \in before : Rank(j) <= Rank(k)
<1>1. Last(b[l]) \in Nat /\ Len(b[l]) \in Nat
    BY CountsType, LastElement
<1>1a. PICK n \in Nat : n = Len(b[l])
    BY <1>1
<1>1b. n > 1 <=> n # 1
    <2>1. n # 0
        BY <1>1a
    <2> QED
        BY <2>1
<1>2. CASE l # "temperature" \/ Len(b[l]) > 1
    <2>1. LastTmm(b, l) = Last(b[l])
        <3>1. ~ (l = "temperature" /\ Len(b[l]) = 1)
            BY <1>1a, <1>1b, <1>2
        <3> QED
            BY <1>2, <3>1 DEF LastTmm
    <2> QED
        BY <1>1, <2>1
<1>3. CASE ~ (l # "temperature" \/ Len(b[l]) > 1) /\ before # {}
    <2>1. \E k \in before : \A j \in before : Rank(j) <= Rank(k)
        <3>1. \A k \in before : k \in Layers
            OBVIOUS
        <3> HIDE DEF before
        <3> QED
            BY <1>3, <3>1, Ranks DEF Layers, AntpLayers, Dim3Layers
    <2>2. closest \in before
        <3> HIDE DEF before
        <3> QED
            BY <2>1
    <2>3. closest \in Layers /\ b[closest] # <<>>
        BY <2>2
    <2>4. Last(b[closest]) \in Nat
        <3> HIDE DEF closest
        <3>1. b[closest] \in Seq(Nat) /\ Len(b[closest]) # 0
            BY <2>3, CountsType, EmptySeq
        <3> QED
            BY <3>1, LastElement
    <2>5. LastTmm(b, l) = Last(b[closest])
        <3>1. ~ (Len(b[l]) > 1) => Len(b[l]) = 1
            BY <1>1a, <1>1b
        <3>2. l = "temperature" /\ Len(b[l]) = 1
            BY <1>3, <3>1
        <3> QED
            BY <1>3, <3>2 DEF LastTmm
    <2> QED
        BY <1>3, <2>4, <2>5
<1>4. CASE ~ (l # "temperature" \/ Len(b[l]) > 1) /\ before = {}
    <2>1. LastTmm(b, l) = 0
        BY <1>4 DEF LastTmm
    <2> QED
        BY <1>4, <2>1
<1> QED
    BY <1>2, <1>3, <1>4

\* A step fits its field.
LEMMA StepType ==
    ASSUME NEW first \in Nat, NEW last \in Nat, NEW count \in Nat \ {0}
    PROVE  Step(first, last, count) \in 0 .. STEP_FIELD - 1
<1>1. PICK d \in Int : d = (last - first) \div count
    OBVIOUS
<1>2. PICK a \in Nat : a = d % UINT32
    <2>1. d % UINT32 \in 0 .. UINT32 - 1
        BY FieldsAssumption, ModRange
    <2> QED
        BY <2>1
<1>3. Step(first, last, count) = IF a > STEP_FIELD - 1 THEN STEP_FIELD - 1 ELSE a % STEP_FIELD
    BY <1>1, <1>2 DEF Step
<1>4. STEP_FIELD \in Nat \ {0} /\ a % STEP_FIELD \in 0 .. STEP_FIELD - 1
    BY FieldsAssumption, ModRange
<1> QED
    BY <1>3, <1>4

\* Every field of a header fits its bits.
LEMMA HeaderType ==
    ASSUME NEW b \in Buffers, NEW l \in Layers, NEW i \in 1 .. Len(b[l])
    PROVE  /\ Header(b, l, i).type = l
           /\ Header(b, l, i).time \in 0 .. UINT32 - 1
           /\ Header(b, l, i).msec \in 0 .. MSEC_FIELD - 1
           /\ Header(b, l, i).step \in 0 .. STEP_FIELD - 1
<1>1. PICK tmm \in Nat : tmm = b[l][i]
    <2>1. b[l] \in Seq(Nat)
        BY CountsType
    <2> QED
        BY <2>1, ElementOfSeq
<1>2. PICK n \in Nat \ {0} : n = Len(b[l])
    <2>1. Len(b[l]) \in Nat
        BY CountsType
    <2> QED
        BY <2>1
<1>3. PICK h : h = Header(b, l, i)
    OBVIOUS
<1>4. /\ h.type = l
      /\ h.time = (tmm \div MSEC) % UINT32
      /\ h.msec = (tmm % MSEC) % MSEC_FIELD
      /\ h.step = IF l \in AntpLayers THEN 0 ELSE Step(tmm, LastTmm(b, l), n)
    BY <1>1, <1>2, <1>3 DEF Header
<1>5. tmm \div MSEC \in Nat /\ tmm % MSEC \in Nat
    <2>1. MSEC \in Nat \ {0}
        BY FieldsAssumption
    <2>2. tmm \div MSEC \in Nat /\ tmm % MSEC \in 0 .. MSEC - 1
        BY <2>1, DivMod
    <2> QED
        BY <2>1, <2>2
<1>6. h.time \in 0 .. UINT32 - 1
    <2>1. PICK x \in Nat : x = tmm \div MSEC
        BY <1>5
    <2>2. x % UINT32 \in 0 .. UINT32 - 1
        <3>1. UINT32 \in Nat \ {0} /\ x \in Int
            BY FieldsAssumption
        <3> QED
            BY <3>1, ModRange
    <2> QED
        BY <1>4, <2>1, <2>2
<1>7. h.msec \in 0 .. MSEC_FIELD - 1
    <2>1. MSEC_FIELD \in Nat \ {0}
        BY FieldsAssumption
    <2>2. PICK x \in Nat : x = tmm % MSEC
        BY <1>5
    <2>3. x % MSEC_FIELD \in 0 .. MSEC_FIELD - 1
        <3>1. x \in Int
            OBVIOUS
        <3> QED
            BY <2>1, <3>1, ModRange
    <2> QED
        BY <1>4, <2>2, <2>3
<1>8. h.step \in 0 .. STEP_FIELD - 1
    <2>1. LastTmm(b, l) \in Nat
        BY <1>2, LastTmmType
    <2>2. Step(tmm, LastTmm(b, l), n) \in 0 .. STEP_FIELD - 1
        BY <2>1, StepType
    <2>3. 0 \in 0 .. STEP_FIELD - 1
        BY FieldsAssumption
    <2> QED
        BY <1>4, <2>2, <2>3
<1> QED
    BY <1>3, <1>4, <1>6, <1>7, <1>8

-----------------------------------------------------------------------------
(* The invariant of the file system *)

\* Appending keeps room for the reserve, less the header mxfs_append forgets.
Bounded(b) == PageLength(Counts(b)) <= PAGE_SIZE - PAGE_RESERVE + COMPRESS_SIZE

\* The times of a layer never go back, and none is 0 or later than t.
Timely(b, t) ==
    \A l \in Layers : \A i \in DOMAIN b[l] :
        /\ b[l][i] > 0 /\ b[l][i] <= t
        /\ \A j \in DOMAIN b[l] : i <= j => b[l][i] <= b[l][j]

CodecInv ==
    /\ staged \in Buffers /\ source \in Buffers
    /\ now \in Nat \ {0} /\ total \in 0 .. MaxRecords
    /\ page = Image(source)
    /\ Bounded(staged) /\ Bounded(source)
    /\ Timely(staged, now) /\ Timely(source, now)

LEMMA NoRecordsFit ==
    /\ NoRecords \in Buffers /\ Bounded(NoRecords)
    /\ Counts(NoRecords) \in [Layers -> Nat] /\ PageLength(Counts(NoRecords)) = 0
    /\ \A l \in Layers : Counts(NoRecords)[l] = 0
    /\ \A t : Timely(NoRecords, t)
<1>1. \A l \in Layers : NoRecords[l] = <<>>
    BY DEF NoRecords
<1>2. NoRecords \in Buffers
    BY DEF NoRecords, Buffers
<1>3. \A l \in Layers : Counts(NoRecords)[l] = 0
    BY <1>1, EmptySeq DEF Counts
<1>4. PageLength(Counts(NoRecords)) = 0
    BY <1>3, PageLengthOfNothing DEF NothingStaged
<1>5. Bounded(NoRecords)
    BY <1>4, SizesArePositive, RecordSizeType, PageHoldsARecord DEF Bounded
<1>6. Counts(NoRecords) \in [Layers -> Nat]
    BY <1>2, CountsType
<1>7. \A t : Timely(NoRecords, t)
    <2>1. DOMAIN <<>> = {}
        OBVIOUS
    <2> QED
        BY <1>1, <2>1, Zenon DEF Timely
<1> QED
    BY <1>2, <1>3, <1>4, <1>5, <1>6, <1>7

LEMMA BoundedFits ==
    ASSUME NEW b \in Buffers, Bounded(b)
    PROVE  Fits(b)
<1>1. PageLength(Counts(b)) \in Nat
    BY CountsType, PageLengthType
<1> QED
    BY <1>1, SizesArePositive, PageHoldsARecord DEF Bounded, Fits

LEMMA AppendOne ==
    ASSUME NEW s \in Seq(Nat), NEW t \in Nat
    PROVE  /\ Append(s, t) \in Seq(Nat) /\ Len(Append(s, t)) = Len(s) + 1
           /\ \A i \in 1 .. Len(s) : Append(s, t)[i] = s[i]
           /\ Append(s, t)[Len(s) + 1] = t
           /\ DOMAIN Append(s, t) = 1 .. Len(s) + 1
    BY AppendProperties

\* Staging one record more.
WithRecord(b, layer, t) == [b EXCEPT ![layer] = Append(@, t)]

LEMMA Staging ==
    ASSUME NEW b \in Buffers, NEW layer \in Layers, NEW t \in Nat
    PROVE  /\ WithRecord(b, layer, t) \in Buffers
           /\ PageLength(Counts(WithRecord(b, layer, t)))
                    <= PageLength(Counts(b)) + RecordSize(layer) + COMPRESS_SIZE
           /\ \A u \in Nat : t > 0 /\ u <= t /\ Timely(b, u) => Timely(WithRecord(b, layer, t), t)
<1> DEFINE c == WithRecord(b, layer, t)
<1>0. b[layer] \in Seq(Nat) /\ Len(b[layer]) \in Nat /\ DOMAIN b[layer] = 1 .. Len(b[layer])
    BY CountsType
<1>1. PICK a : a = Append(b[layer], t)
    OBVIOUS
<1>2. /\ a \in Seq(Nat) /\ Len(a) = Len(b[layer]) + 1
      /\ \A i \in 1 .. Len(b[layer]) : a[i] = b[layer][i]
      /\ a[Len(b[layer]) + 1] = t
      /\ DOMAIN a = 1 .. Len(b[layer]) + 1
    BY <1>0, <1>1, AppendOne
<1>3. /\ DOMAIN c = Layers /\ c[layer] = a
      /\ \A k \in Layers : k # layer => c[k] = b[k]
    BY <1>1 DEF Buffers, WithRecord
<1>5. c = [k \in Layers |-> c[k]]
    BY DEF Buffers, WithRecord
<1> HIDE DEF c
<1>4. \A k \in Layers : c[k] \in Seq(Nat)
    BY <1>2, <1>3, CountsType
<1>6. c \in Buffers
    BY <1>4, <1>5 DEF Buffers
<1>7. Counts(c) = [Counts(b) EXCEPT ![layer] = @ + 1]
    BY <1>2, <1>3 DEF Counts
<1>8. PageLength(Counts(c)) <= PageLength(Counts(b)) + RecordSize(layer) + COMPRESS_SIZE
    BY <1>7, CountsType, PageLengthStep
<1>9. ASSUME NEW u \in Nat, t > 0, u <= t, Timely(b, u) PROVE Timely(c, t)
    <2>0. \A l \in Layers : \A i \in DOMAIN b[l] : b[l][i] \in Nat
        BY CountsType, ElementOfSeq
    <2>1. ASSUME NEW l \in Layers, NEW i \in DOMAIN c[l]
          PROVE  /\ c[l][i] > 0 /\ c[l][i] <= t
                 /\ \A j \in DOMAIN c[l] : i <= j => c[l][i] <= c[l][j]
        <3>1. CASE l # layer
            BY <1>3, <1>9, <2>0, <2>1, <3>1 DEF Timely
        <3>2. CASE l = layer
            <4>1. PICK n \in Nat : n = Len(b[layer])
                BY <1>0
            <4>2. \A j \in 1 .. n + 1 : j \in 1 .. n \/ j = n + 1
                OBVIOUS
            <4>3. \A j \in 1 .. n : /\ a[j] \in Nat /\ a[j] > 0 /\ a[j] <= t
                                    /\ \A k \in 1 .. n : j <= k => a[j] <= a[k]
                <5>1. \A j \in 1 .. n : /\ b[layer][j] \in Nat
                                        /\ b[layer][j] > 0 /\ b[layer][j] <= u
                                        /\ \A k \in 1 .. n : j <= k => b[layer][j] <= b[layer][k]
                    BY <1>0, <1>9, <2>0, <4>1 DEF Timely
                <5>2. \A j \in 1 .. n : a[j] = b[layer][j]
                    BY <1>2, <4>1
                <5> QED
                    BY <1>9, <5>1, <5>2
            <4>4. a[n + 1] = t /\ DOMAIN c[l] = 1 .. n + 1 /\ c[l] = a
                BY <1>2, <1>3, <3>2, <4>1
            <4>5. \A j \in 1 .. n + 1 : a[j] > 0 /\ a[j] <= t
                BY <1>9, <4>2, <4>3, <4>4
            <4>6. \A j, k \in 1 .. n + 1 : j <= k => a[j] <= a[k]
                <5>1. \A j \in 1 .. n : ~ (n + 1 <= j)
                    OBVIOUS
                <5> QED
                    BY <4>2, <4>3, <4>4, <4>5, <5>1
            <4> QED
                BY <2>1, <4>4, <4>5, <4>6
        <3> QED
            BY <3>1, <3>2
    <2> QED
        BY <2>1 DEF Timely
<1> QED
    BY <1>6, <1>8, <1>9 DEF c

LEMMA TimelyLater ==
    ASSUME NEW b \in Buffers, NEW t \in Nat, NEW u \in Nat, t <= u, Timely(b, t)
    PROVE  Timely(b, u)
<1>1. \A l \in Layers : \A i \in DOMAIN b[l] : b[l][i] \in Nat
    BY CountsType, ElementOfSeq
<1> QED
    BY <1>1 DEF Timely

LEMMA InitHolds == Init => CodecInv
    BY NoRecordsFit, CodecEnvironment DEF Init, CodecInv

LEMMA AppendHolds ==
    ASSUME CodecInv, NEW layer \in Sensors, NEW tick \in Ticks, AppendRecord(layer, tick)
    PROVE  CodecInv'
<1>0. layer \in Layers /\ tick \in Nat
    BY CodecEnvironment
<1>1. PICK t \in Nat \ {0} : t = now' /\ now <= t
    BY <1>0 DEF AppendRecord, CodecInv
<1>2. total' \in 0 .. MaxRecords
    BY CodecEnvironment DEF AppendRecord, CodecInv
<1>3. /\ RecordSize(layer) \in Nat /\ COMPRESS_SIZE \in Nat /\ PAGE_SIZE \in Nat
      /\ PAGE_RESERVE \in Nat
      /\ RecordSize(layer) + COMPRESS_SIZE + PAGE_RESERVE <= PAGE_SIZE
      /\ COMPRESS_SIZE <= PAGE_RESERVE
      /\ PAGE_SIZE + RecordSize(layer) < 65536
    BY <1>0, RecordSizeType, SizesArePositive, PageHoldsARecord DEF UINT16
<1>4. CASE MustFlush(Counts(staged), RecordSize(layer))
    <2>1. page' = Image(staged) /\ source' = staged
        BY <1>4 DEF AppendRecord
    <2>2. staged' = WithRecord(NoRecords, layer, t)
        <3>1. Append(NoRecords[layer], t) = <<t>>
            BY <1>0 DEF NoRecords
        <3>2. staged' = [NoRecords EXCEPT ![layer] = <<t>>]
            BY <1>1, <1>4 DEF AppendRecord
        <3> QED
            BY <3>1, <3>2 DEF WithRecord
    <2>3. /\ staged' \in Buffers
          /\ PageLength(Counts(staged')) <= 0 + RecordSize(layer) + COMPRESS_SIZE
        BY <1>0, <2>2, Staging, NoRecordsFit
    <2>4. Timely(staged', t)
        <3>1. 0 \in Nat /\ t > 0 /\ 0 <= t /\ Timely(NoRecords, 0)
            BY NoRecordsFit
        <3>2. \A u \in Nat : t > 0 /\ u <= t /\ Timely(NoRecords, u) => Timely(staged', t)
            BY <1>0, <2>2, Staging, NoRecordsFit
        <3> QED
            BY <3>1, <3>2
    <2>5. Bounded(staged')
        <3>1. PageLength(Counts(staged')) \in Nat
            BY <2>3, CountsType, PageLengthType
        <3> QED
            BY <1>3, <2>3, <3>1 DEF Bounded
    <2>6. Timely(staged, t)
        BY <1>1, TimelyLater DEF CodecInv
    <2> QED
        BY <1>1, <1>2, <2>1, <2>3, <2>4, <2>5, <2>6 DEF CodecInv
<1>5. CASE ~ MustFlush(Counts(staged), RecordSize(layer))
    <2>1. page' = page /\ source' = source
        BY <1>5 DEF AppendRecord
    <2>2. staged' = WithRecord(staged, layer, t)
        BY <1>1, <1>5 DEF AppendRecord, WithRecord
    <2>3. /\ staged' \in Buffers
          /\ PageLength(Counts(staged')) <=
                PageLength(Counts(staged)) + RecordSize(layer) + COMPRESS_SIZE
        BY <1>0, <2>2, Staging DEF CodecInv
    <2>4. Timely(staged', t)
        <3>1. now \in Nat /\ t > 0 /\ now <= t /\ Timely(staged, now) /\ staged \in Buffers
            BY <1>1 DEF CodecInv
        <3>2. \A u \in Nat : t > 0 /\ u <= t /\ Timely(staged, u) => Timely(staged', t)
            BY <1>0, <2>2, <3>1, Staging
        <3> QED
            BY <3>1, <3>2
    <2>5. Bounded(staged')
        <3>1. PageLength(Counts(staged')) \in Nat
            BY <2>3, CountsType, PageLengthType
        <3>2. PICK len \in Nat : len = PageLength(Counts(staged))
            BY CountsType, PageLengthType DEF CodecInv
        <3>3. len <= PAGE_SIZE - PAGE_RESERVE + COMPRESS_SIZE
            BY <3>2 DEF CodecInv, Bounded
        <3>4. U16(len + RecordSize(layer)) = len + RecordSize(layer)
            BY <1>3, <3>3, U16Small
        <3>5. len + RecordSize(layer) <= PAGE_SIZE - PAGE_RESERVE
            BY <1>3, <1>5, <3>2, <3>4 DEF MustFlush
        <3> QED
            BY <1>3, <2>3, <3>1, <3>2, <3>5 DEF Bounded
    <2>6. Timely(source, t)
        BY <1>1, TimelyLater DEF CodecInv
    <2> QED
        BY <1>1, <1>2, <2>1, <2>3, <2>4, <2>5, <2>6 DEF CodecInv
<1> QED
    BY <1>4, <1>5

LEMMA FlushHolds ==
    ASSUME CodecInv, Flush
    PROVE  CodecInv'
    BY NoRecordsFit DEF CodecInv, Flush

LEMMA StutterHolds ==
    ASSUME CodecInv, UNCHANGED vars
    PROVE  CodecInv'
    BY DEF CodecInv, vars

LEMMA NextHolds ==
    ASSUME CodecInv, [Next]_vars
    PROVE  CodecInv'
    BY AppendHolds, FlushHolds, StutterHolds DEF Next

\* The page last flushed is the image of the records it was made of; it and the
\* staged records take no more than a page less the reserve and with one header;
\* and the times of every layer never go back (mxfs_append, mxfs_flush).
THEOREM CodecInvariant == Spec => []CodecInv
<1>1. Init => CodecInv
    BY InitHolds
<1>2. CodecInv /\ [Next]_vars => CodecInv'
    BY NextHolds
<1> QED
    BY <1>1, <1>2, PTL DEF Spec

\* The variables keep their types, and every field of the headers mxfs_flush
\* makes fits its bits: time, msec and the saturated step.
THEOREM CodecTypes == Spec => []TypeOK
<1>1. ASSUME CodecInv PROVE TypeOK
    <2>1. ASSUME NEW o \in DOMAIN page.header
          PROVE  /\ page.header[o].type \in Layers
                 /\ page.header[o].time \in 0 .. UINT32 - 1
                 /\ page.header[o].msec \in 0 .. MSEC_FIELD - 1
                 /\ page.header[o].step \in 0 .. STEP_FIELD - 1
        <3>1. source \in Buffers /\ page = Image(source)
            BY <1>1 DEF CodecInv
        <3>2. PICK l \in Layers : \E i \in 1 .. Len(source[l]) :
                    HasHeader(source, l, i) /\ o = HeaderAt(source, l, i)
            BY <2>1, <3>1, ImageHeader
        <3>3. PICK i \in 1 .. Len(source[l]) :
                    HasHeader(source, l, i) /\ o = HeaderAt(source, l, i)
            BY <3>2
        <3>4. page.header[o] = Header(source, l, i)
            BY <3>1, <3>3, ImageHeader
        <3>5. /\ Header(source, l, i).type = l
              /\ Header(source, l, i).time \in 0 .. UINT32 - 1
              /\ Header(source, l, i).msec \in 0 .. MSEC_FIELD - 1
              /\ Header(source, l, i).step \in 0 .. STEP_FIELD - 1
            BY <3>1, HeaderType
        <3> QED
            BY <3>4, <3>5
    <2>2. /\ staged \in [Layers -> Seq(Nat)] /\ source \in [Layers -> Seq(Nat)]
          /\ now \in Nat /\ total \in 0 .. MaxRecords
        BY <1>1 DEF CodecInv, Buffers
    <2> QED
        BY <2>1, <2>2 DEF TypeOK
<1>2. CodecInv => TypeOK
    BY <1>1
<1> QED
    BY <1>2, CodecInvariant, PTL

\* What was appended is read again: of every page mxfs_flush writes, whatever
\* mix of layers it holds, mxfs_read of a layer returns exactly the records of
\* that layer, in the order they were staged.
THEOREM ReadIsFaithful == Spec => []ReadReturnsAppended
<1>1. ASSUME CodecInv PROVE ReadReturnsAppended
    <2>1. Fits(source) /\ page = Image(source)
        BY <1>1, BoundedFits DEF CodecInv
    <2>2. \A l \in Layers : read(Image(source), l) = [i \in DOMAIN source[l] |-> <<l, i>>]
        BY <2>1, ReadImage
    <2> QED
        BY <2>1, <2>2 DEF ReadReturnsAppended
<1>2. CodecInv => ReadReturnsAppended
    BY <1>1
<1> QED
    BY <1>2, CodecInvariant, PTL

\* With the strides of mxfs_read, a reader never goes beyond the records.
LEMMA BehindWithin ==
    ASSUME NEW b, Fits(b), NEW o \in DOMAIN Image(b).header
    PROVE  /\ Behind(Image(b), RecordStride, o) \in Nat
           /\ Behind(Image(b), RecordStride, o) <= PageLength(Counts(b))
<1>0. b \in Buffers
    BY DEF Fits
<1>1. PICK l \in Layers : \E i \in 1 .. Len(b[l]) : HasHeader(b, l, i) /\ o = HeaderAt(b, l, i)
    BY <1>0, ImageHeader
<1>2. PICK i \in 1 .. Len(b[l]) : HasHeader(b, l, i) /\ o = HeaderAt(b, l, i)
    BY <1>1
<1>3. Behind(Image(b), RecordStride, o) \in Nat
    <2>1. MovesOn(Image(b), RecordStride)
        BY ReadersMoveOn, Strides
    <2> QED
        BY <2>1 DEF MovesOn
<1>4. /\ PayloadAt(b, l, i) \in Nat /\ PayloadAt(b, l, i) + RecordSize(l) <= End(b, l)
      /\ End(b, l) \in Nat /\ End(b, l) <= PageLength(Counts(b)) /\ Base(b, l) \in Nat
      /\ PageLength(Counts(b)) \in Nat
    BY <1>0, InLayer, LayersApart, Bases, CountsType, PageLengthType
<1>5. /\ RecordStride \in [Layers -> Nat] /\ RecordStride[l] = RecordSize(l)
      /\ RecordSize(l) \in Nat /\ COMPRESS_SIZE \in Nat
    BY Strides, RecordSizeType, SizesArePositive
<1>6. Behind(Image(b), RecordStride, o) =
            o + COMPRESS_SIZE + IF l \in AntpLayers THEN RecordSize(l) ELSE Len(b[l]) * RecordSize(l)
    BY <1>2, <1>5, BehindHeader
<1>7. CASE l \in AntpLayers
    BY <1>2, <1>4, <1>5, <1>6, <1>7 DEF HeaderAt
<1>8. CASE l \notin AntpLayers
    <2>1. PICK n \in Nat : n = Len(b[l])
        BY <1>0, CountsType
    <2>2. PICK q \in Nat : q = n * RecordSize(l)
        BY <1>5
    <2>3. n # 0
        BY <2>1
    <2>4. Size(b, l) = q + COMPRESS_SIZE
        BY <1>0, <1>8, <2>1, <2>2, <2>3, LayerSize DEF Pitch
    <2>5. o = Base(b, l)
        BY <1>0, <1>2, <1>8, HeaderPositions DEF HasHeader
    <2>6. Behind(Image(b), RecordStride, o) = o + COMPRESS_SIZE + q
        BY <1>6, <1>8, <2>1, <2>2
    <2>7. End(b, l) = Base(b, l) + Size(b, l)
        BY DEF End
    <2> QED
        BY <1>4, <1>5, <2>4, <2>5, <2>6, <2>7
<1> QED
    BY <1>3, <1>7, <1>8

\* mxfs_read looks for MAGIC only where a whole header is in its page buffer,
\* if the reserve holds two headers (64 and 2 * 16 bytes in the code): the one
\* mxfs_append does not count, and the one looked for behind the records.
THEOREM WalkInPage == 2 * COMPRESS_SIZE <= PAGE_RESERVE => (Spec => []WalkStaysInPage)
<1> SUFFICES ASSUME 2 * COMPRESS_SIZE <= PAGE_RESERVE PROVE Spec => []WalkStaysInPage
    OBVIOUS
<1>1. ASSUME CodecInv PROVE WalkStaysInPage
    <2>1. Fits(source) /\ page = Image(source)
        BY <1>1, BoundedFits DEF CodecInv
    <2>2. PICK take : take = [o \in DOMAIN page.header |-> <<Behind(page, RecordStride, o)>>]
        OBVIOUS
    <2>3. PICK w : w = Walk(page, PAGE_SIZE, RecordStride, take)
        OBVIOUS
    <2>4. PICK S : S = {o \in Nat : o + COMPRESS_SIZE <= PAGE_SIZE}
        OBVIOUS
    <2>5. PICK len \in Nat : len = PageLength(Counts(source))
        BY <1>1, CountsType, PageLengthType DEF CodecInv
    <2>6. len + COMPRESS_SIZE <= PAGE_SIZE
        <3>1. len <= PAGE_SIZE - PAGE_RESERVE + COMPRESS_SIZE
            BY <1>1, <2>5 DEF CodecInv, Bounded
        <3> QED
            BY <3>1, SizesArePositive
    <2>7. Typed(page, take, S)
        <3>1. ASSUME NEW o \in DOMAIN page.header PROVE take[o] \in Seq(S)
            <4>1. PICK e \in Nat : e = Behind(page, RecordStride, o) /\ e <= len
                BY <2>1, <2>5, <3>1, BehindWithin
            <4>2. e \in S
                BY <2>4, <2>6, <4>1, SizesArePositive
            <4>3. take[o] = One(e)
                BY <2>2, <3>1, <4>1 DEF One
            <4> QED
                BY <4>2, <4>3, OneType
        <3> QED
            BY <3>1 DEF Typed
    <2>8. MovesOn(page, RecordStride)
        BY <2>1, ReadersMoveOn, Strides
    <2>9. Loop(page, PAGE_SIZE, RecordStride, take, w)
        BY <2>3, <2>8, WalkLoops, SizesArePositive
    <2>10. \A o \in Nat : w[o] \in Seq(S)
        <3>1. PAGE_SIZE \in Nat
            BY SizesArePositive
        <3> QED
            BY <2>7, <2>8, <2>9, <3>1, WalkType
    <2>11. One(0) \in Seq(S)
        <3>1. 0 \in S
            BY <2>4, <2>5, <2>6, SizesArePositive
        <3> QED
            BY <3>1, OneType
    <2>12. PICK s : s = Cat(One(0), w[0])
        OBVIOUS
    <2>13. s \in Seq(S)
        BY <2>10, <2>11, <2>12, CatType
    <2>14. OffsetsTried(page, PAGE_SIZE, RecordStride) = s
        BY <2>2, <2>3, <2>12, Zenon DEF OffsetsTried, Cat, One
    <2>15. \A i \in DOMAIN s : s[i] \in S
        BY <2>13, LenProperties, ElementOfSeq
    <2> QED
        BY <2>4, <2>14, <2>15 DEF WalkStaysInPage, Range
<1>2. CodecInv => WalkStaysInPage
    BY <1>1
<1> QED
    BY <1>2, CodecInvariant, PTL

-----------------------------------------------------------------------------
(* The times of a page *)

LEMMA DivMonotone ==
    ASSUME NEW m \in Nat \ {0}, NEW x \in Nat, NEW y \in Nat, x <= y
    PROVE  x \div m <= y \div m
<1>1. PICK p \in Nat : p = x \div m /\ x = p * m + (x % m)
    BY DivMod
<1>2. PICK q \in Nat : q = y \div m /\ y = q * m + (y % m)
    BY DivMod
<1>3. PICK r \in 0 .. m - 1 : r = x % m
    BY DivMod
<1>4. PICK t \in 0 .. m - 1 : t = y % m
    BY DivMod
<1>5. SUFFICES ASSUME q < p PROVE FALSE
    BY <1>1, <1>2
<1>6. q * m + m <= p * m /\ q * m \in Int /\ p * m \in Int
    BY <1>5, Multiples
<1>7. x = p * m + r /\ y = q * m + t
    BY <1>1, <1>2, <1>3, <1>4
<1> QED
    BY <1>3, <1>4, <1>6, <1>7

\* The seconds of all records fit the 32 bits of a header.
InTime(b) == \A l \in Layers : \A i \in 1 .. Len(b[l]) : b[l][i] \div MSEC < UINT32

LEMMA InTimeBefore ==
    ASSUME NEW b \in Buffers, NEW t \in Nat, Timely(b, t), t \div MSEC < UINT32
    PROVE  InTime(b)
<1> SUFFICES ASSUME NEW l \in Layers, NEW i \in 1 .. Len(b[l])
             PROVE  b[l][i] \div MSEC < UINT32
    BY DEF InTime
<1>1. b[l] \in Seq(Nat) /\ DOMAIN b[l] = 1 .. Len(b[l])
    BY CountsType
<1>2. PICK x \in Nat : x = b[l][i]
    BY <1>1, ElementOfSeq
<1>3. x <= t
    BY <1>1, <1>2 DEF Timely
<1>4. MSEC \in Nat \ {0} /\ UINT32 \in Nat
    BY FieldsAssumption
<1>5. x \div MSEC <= t \div MSEC /\ x \div MSEC \in Nat /\ t \div MSEC \in Nat
    BY <1>3, <1>4, DivMonotone, DivMod
<1> QED
    BY <1>2, <1>4, <1>5

\* A header keeps the time of its record.
LEMMA HeaderKeepsTime ==
    ASSUME NEW b \in Buffers, InTime(b), NEW l \in Layers, NEW i \in 1 .. Len(b[l])
    PROVE  /\ b[l][i] \in Nat
           /\ Header(b, l, i).time = b[l][i] \div MSEC
           /\ Header(b, l, i).time * MSEC + Header(b, l, i).msec = b[l][i]
<1>1. PICK x \in Nat : x = b[l][i]
    <2>1. b[l] \in Seq(Nat)
        BY CountsType
    <2> QED
        BY <2>1, ElementOfSeq
<1>2. MSEC \in Nat \ {0} /\ UINT32 \in Nat \ {0} /\ MSEC_FIELD \in Nat /\ MSEC <= MSEC_FIELD
    BY FieldsAssumption
<1>3. PICK q \in Nat : q = x \div MSEC /\ q * MSEC \in Nat /\ x = q * MSEC + (x % MSEC)
    BY <1>2, DivMod
<1>4. PICK r \in 0 .. MSEC - 1 : r = x % MSEC
    BY <1>2, DivMod
<1>5. q % UINT32 = q
    <2>1. q < UINT32
        BY <1>1, <1>3 DEF InTime
    <2> QED
        BY <1>2, <2>1, SmallMod
<1>6. r % MSEC_FIELD = r
    <2>1. MSEC_FIELD \in Nat \ {0} /\ r \in Nat /\ r < MSEC_FIELD
        BY <1>2, <1>4
    <2> QED
        BY <2>1, SmallMod
<1>7. /\ Header(b, l, i).time = (x \div MSEC) % UINT32
      /\ Header(b, l, i).msec = (x % MSEC) % MSEC_FIELD
    BY <1>1 DEF Header
<1>8. Header(b, l, i).time = q /\ Header(b, l, i).msec = r
    BY <1>3, <1>4, <1>5, <1>6, <1>7, Zenon
<1>9. x = q * MSEC + r
    BY <1>3, <1>4
<1> QED
    BY <1>1, <1>3, <1>8, <1>9, Zenon

\* The steps from the first record on never go beyond the last one; unless the
\* step is saturated, they end less than a unit per record before it.
LEMMA StepBounds ==
    ASSUME NEW first \in Nat, NEW last \in Nat, first <= last, NEW count \in Nat \ {0}
    PROVE  /\ Step(first, last, count) \in Nat
           /\ Step(first, last, count) * count \in Nat
           /\ Step(first, last, count) * count <= last - first
           /\ \A k \in 0 .. count : /\ Step(first, last, count) * k \in Nat
                                    /\ Step(first, last, count) * k <= last - first
           /\ (last - first < UINT32 /\ (last - first) \div count < STEP_FIELD) =>
                    last - first < Step(first, last, count) * count + count
<1>1. PICK d \in Nat : d = last - first
    OBVIOUS
<1>2. PICK a \in Nat : a = d \div count /\ a * count \in Nat /\ d = a * count + (d % count)
    BY DivMod
<1>3. PICK r \in 0 .. count - 1 : r = d % count
    BY DivMod
<1>4. UINT32 \in Nat \ {0} /\ STEP_FIELD \in Nat \ {0}
    BY FieldsAssumption
<1>5. PICK u \in Nat : u = a % UINT32 /\ u <= a /\ (a < UINT32 => u = a)
    <2>1. a % UINT32 \in Nat
        BY <1>4, DivMod
    <2>2. a = (a \div UINT32) * UINT32 + (a % UINT32) /\ (a \div UINT32) * UINT32 \in Nat
        BY <1>4, DivMod
    <2>3. a < UINT32 => a % UINT32 = a
        BY <1>4, SmallMod
    <2> QED
        BY <2>1, <2>2, <2>3
<1>6. PICK s : s = Step(first, last, count)
    OBVIOUS
<1>7. s = IF u > STEP_FIELD - 1 THEN STEP_FIELD - 1 ELSE u % STEP_FIELD
    BY <1>1, <1>2, <1>5, <1>6 DEF Step
<1>8. u <= STEP_FIELD - 1 => u % STEP_FIELD = u
    BY <1>4, SmallMod
<1>9. s \in Nat /\ s <= a /\ (a < UINT32 /\ a < STEP_FIELD => s = a)
    BY <1>4, <1>5, <1>7, <1>8
<1>10. PICK c \in Nat : c = s * count
    BY <1>9
<1>11. c <= a * count
    <2>1. s < a => s * count + count <= a * count
        BY <1>9, Multiples
    <2>2. s = a => c = a * count
        BY <1>10
    <2> QED
        BY <1>2, <1>9, <1>10, <2>1, <2>2
<1>12. d = a * count + r
    BY <1>2, <1>3
<1>13. c <= d
    BY <1>2, <1>11, <1>12
<1>14. ASSUME NEW k \in 0 .. count PROVE s * k \in Nat /\ s * k <= d
    <2>1. k * s \in Nat /\ count * s \in Nat /\ s * k = k * s /\ s * count = count * s
        BY <1>9
    <2>2. k < count => k * s + s <= count * s
        BY <1>9, Multiples
    <2>3. k * s <= count * s
        BY <1>9, <2>1, <2>2
    <2> QED
        BY <1>10, <1>13, <2>1, <2>3
<1>15. d < UINT32 /\ a < STEP_FIELD => d < c + count
    <2>1. a <= d
        <3>1. PICK g \in Nat : count = g + 1
            <4>1. count - 1 \in Nat /\ count = (count - 1) + 1
                OBVIOUS
            <4> QED
                BY <4>1
        <3>2. a * count = a * g + a /\ a * g \in Nat
            BY <3>1
        <3> QED
            BY <1>12, <3>2
    <2>2. ASSUME d < UINT32, a < STEP_FIELD PROVE d < c + count
        <3>1. s = a
            BY <1>4, <1>9, <2>1, <2>2
        <3>2. c = a * count
            BY <1>10, <3>1
        <3> QED
            BY <1>12, <3>2
    <2> QED
        BY <2>2
<1> QED
    BY <1>1, <1>2, <1>6, <1>9, <1>10, <1>13, <1>14, <1>15

-----------------------------------------------------------------------------
(* The csv command of the formatter *)

Row(l, k, t) == [rec |-> <<l, k>>, time |-> t]

Rows(l) == {Row(l, k, t) : k \in Nat, t \in Nat}

LEMMA RowFields == \A l, k, t : Row(l, k, t).rec = <<l, k>> /\ Row(l, k, t).time = t
    BY DEF Row

\* How many rows csv prints of n records, and the record whose time row k shows.
RowCount(l, n) == (n + CsvStride(l) - 1) \div CsvStride(l)

TimeOf(l, k) == (k - 1) * CsvStride(l)

LEMMA RowBounds ==
    ASSUME NEW l \in Layers, NEW n \in Nat
    PROVE  /\ RowCount(l, n) \in Nat /\ RowCount(l, n) <= n
           /\ IF l \in Dim3Layers THEN 3 * RowCount(l, n) >= n ELSE RowCount(l, n) = n
           /\ \A k \in 1 .. RowCount(l, n) : TimeOf(l, k) \in 0 .. n
<1>1. CASE l \in Dim3Layers
    <2>1. CsvStride(l) = 3
        BY <1>1 DEF CsvStride
    <2>2. RowCount(l, n) = (n + 2) \div 3
        BY <2>1 DEF RowCount
    <2>3. PICK m \in Nat : m = (n + 2) \div 3 /\ 3 * m <= n + 2 /\ n + 2 < 3 * m + 3
        OBVIOUS
    <2>4. ASSUME NEW k \in 1 .. m PROVE TimeOf(l, k) \in 0 .. n
        BY <2>1, <2>3 DEF TimeOf
    <2> QED
        BY <1>1, <2>2, <2>3, <2>4
<1>2. CASE l \notin Dim3Layers
    <2>1. CsvStride(l) = 1
        BY <1>2 DEF CsvStride
    <2>2. RowCount(l, n) = n
        BY <2>1 DEF RowCount
    <2>3. ASSUME NEW k \in 1 .. n PROVE TimeOf(l, k) \in 0 .. n
        BY <2>1 DEF TimeOf
    <2> QED
        BY <1>2, <2>2, <2>3
<1> QED
    BY <1>1, <1>2

\* The rows of a header.
LEMMA RowsOfHeader ==
    ASSUME NEW b, Fits(b), InTime(b),
           NEW l \in Layers, NEW i \in 1 .. Len(b[l]), HasHeader(b, l, i)
    PROVE  RowsAt(Image(b), HeaderAt(b, l, i)) =
                IF l \in AntpLayers THEN One(Row(l, i, b[l][i]))
                ELSE [k \in 1 .. RowCount(l, Len(b[l])) |->
                        Row(l, k, b[l][1] + Header(b, l, 1).step * TimeOf(l, k))]
<1>0. b \in Buffers
    BY DEF Fits
<1>1. PICK pg : pg = Image(b)
    OBVIOUS
<1>2. PICK o \in Nat : o = HeaderAt(b, l, i)
    BY <1>0, InLayer
<1>3. PICK h : h = pg.header[o] /\ h = Header(b, l, i)
    BY <1>0, <1>1, <1>2, ImageHeader
<1>4. /\ h.type = l /\ h.time * MSEC + h.msec = b[l][i]
      /\ h.size = IF l \in AntpLayers THEN ANTP_RECORD_SIZE ELSE Len(b[l])
    BY <1>0, <1>3, HeaderFields, HeaderKeepsTime
<1>5. RowsAt(pg, o) =
            IF h.type \in AntpLayers
            THEN <<[rec |-> pg.payload[o + COMPRESS_SIZE], time |-> h.time * MSEC + h.msec]>>
            ELSE [k \in 1 .. (h.size + CsvStride(h.type) - 1) \div CsvStride(h.type) |->
                    [rec |-> RecordsAt(pg, o)[k],
                     time |-> h.time * MSEC + h.msec + h.step * ((k - 1) * CsvStride(h.type))]]
    BY <1>3, Zenon DEF RowsAt
<1>6. CASE l \in AntpLayers
    <2>1. o + COMPRESS_SIZE = PayloadAt(b, l, i)
        BY <1>0, <1>2, InLayer, SizesArePositive DEF HeaderAt
    <2>2. pg.payload[o + COMPRESS_SIZE] = <<l, i>>
        BY <1>0, <1>1, <2>1, ImagePayload
    <2>3. RowsAt(pg, o) = <<[rec |-> <<l, i>>, time |-> b[l][i]]>>
        BY <1>4, <1>5, <1>6, <2>2, Zenon
    <2> QED
        BY <1>1, <1>2, <1>6, <2>3, Zenon DEF One, Row
<1>7. CASE l \notin AntpLayers
    <2>1. i = 1
        BY <1>7 DEF HasHeader
    <2>2. PICK n \in Nat : n = Len(b[l])
        BY <1>0, CountsType
    <2>3. PICK m \in Nat : m = RowCount(l, n) /\ m <= n
        BY RowBounds
    <2>4. PICK recs : recs = RecordsAt(pg, o) /\ recs = [k \in 1 .. n |-> <<l, k>>]
        BY <1>1, <1>2, <1>7, <2>2, RecordsOfHeader
    <2>5. \A k \in 1 .. m : recs[k] = <<l, k>>
        <3>1. \A k \in 1 .. m : k \in 1 .. n
            BY <2>3
        <3> QED
            BY <2>4, <3>1
    <2>6. RowsAt(pg, o) =
            [k \in 1 .. m |-> [rec |-> recs[k],
                               time |-> b[l][1] + h.step * ((k - 1) * CsvStride(l))]]
        BY <1>4, <1>5, <1>7, <2>1, <2>2, <2>3, <2>4, Zenon DEF RowCount
    <2>7. RowsAt(pg, o) =
            [k \in 1 .. m |-> [rec |-> <<l, k>>,
                               time |-> b[l][1] + h.step * ((k - 1) * CsvStride(l))]]
        BY <2>5, <2>6, Zenon
    <2> QED
        BY <1>1, <1>2, <1>3, <1>7, <2>1, <2>2, <2>3, <2>7, Zenon DEF Row, TimeOf
<1> QED
    BY <1>6, <1>7

\* The step of a header in front of n records takes none of them beyond the last.
LEMMA StepOfHeader ==
    ASSUME NEW b \in Buffers, NEW t, Timely(b, t),
           NEW l \in Layers, l \notin AntpLayers, Len(b[l]) # 0,
           l # "temperature" \/ Len(b[l]) > 1
    PROVE  /\ Head(b[l]) = b[l][1] /\ b[l][1] \in Nat /\ b[l][1] > 0
           /\ Last(b[l]) \in Nat /\ b[l][1] <= Last(b[l])
           /\ Header(b, l, 1).step = Step(b[l][1], Last(b[l]), Len(b[l]))
           /\ Last(b[l]) = b[l][Len(b[l])]
<1>1. b[l] \in Seq(Nat) /\ DOMAIN b[l] = 1 .. Len(b[l]) /\ Len(b[l]) \in Nat
    BY CountsType
<1>2. /\ Last(b[l]) = b[l][Len(b[l])] /\ Head(b[l]) = b[l][1]
      /\ Last(b[l]) \in Nat /\ Head(b[l]) \in Nat
      /\ Len(b[l]) \in 1 .. Len(b[l]) /\ 1 \in 1 .. Len(b[l])
    BY <1>1, LastElement
<1>3. b[l][1] <= b[l][Len(b[l])] /\ b[l][1] > 0
    BY <1>1, <1>2 DEF Timely
<1>4. LastTmm(b, l) = Last(b[l])
    BY LastTmmType
<1>5. Header(b, l, 1).step = Step(b[l][1], LastTmm(b, l), Len(b[l]))
    BY DEF Header
<1> QED
    BY <1>2, <1>3, <1>4, <1>5

\* The time csv shows in row k.
RowTime(b, l, k) ==
    IF l \in AntpLayers THEN b[l][k] ELSE b[l][1] + Header(b, l, 1).step * TimeOf(l, k)

LEMMA RowTimeType ==
    ASSUME NEW b \in Buffers, NEW l \in Layers, NEW k \in 1 .. RowCount(l, Len(b[l]))
    PROVE  RowTime(b, l, k) \in Nat
<1>1. PICK n \in Nat : n = Len(b[l]) /\ b[l] \in Seq(Nat)
    BY CountsType
<1>2. RowCount(l, n) \in Nat /\ RowCount(l, n) <= n /\ TimeOf(l, k) \in 0 .. n
    BY <1>1, RowBounds
<1>3. k \in 1 .. Len(b[l]) /\ 1 \in 1 .. Len(b[l])
    BY <1>1, <1>2
<1>4. b[l][k] \in Nat /\ b[l][1] \in Nat
    BY <1>1, <1>3, ElementOfSeq
<1>5. PICK s \in Nat : s = Header(b, l, 1).step
    <2>1. Header(b, l, 1).step \in 0 .. STEP_FIELD - 1 /\ STEP_FIELD \in Nat
        BY <1>3, HeaderType, FieldsAssumption
    <2> QED
        BY <2>1
<1>6. PICK t \in Nat : t = TimeOf(l, k)
    BY <1>2
<1>7. s * t \in Nat
    OBVIOUS
<1>8. Header(b, l, 1).step * TimeOf(l, k) \in Nat
    BY <1>5, <1>6, <1>7, Zenon
<1> QED
    BY <1>4, <1>8 DEF RowTime

\* What csv prints of a layer.
LEMMA CsvImage ==
    ASSUME NEW b, Fits(b), InTime(b), NEW layer \in Layers
    PROVE  csv(Image(b), layer) =
                [k \in 1 .. RowCount(layer, Len(b[layer])) |-> Row(layer, k, RowTime(b, layer, k))]
<1>0. b \in Buffers
    BY DEF Fits
<1>1. PICK n \in Nat : n = Len(b[layer])
    BY <1>0, CountsType
<1>2. PICK m \in Nat : /\ m = RowCount(layer, n) /\ m <= n
                       /\ layer \in AntpLayers => m = n
    BY RowBounds DEF AntpLayers, Dim3Layers
<1>3. PICK v : v = [k \in 1 .. m |-> Row(layer, k, RowTime(b, layer, k))]
    OBVIOUS
<1>4. v \in [1 .. m -> Rows(layer)]
    <2>1. \A k \in 1 .. m : Row(layer, k, RowTime(b, layer, k)) \in Rows(layer)
        <3>1. \A k \in 1 .. m : k \in Nat /\ RowTime(b, layer, k) \in Nat
            BY <1>0, <1>1, <1>2, RowTimeType
        <3> QED
            BY <3>1 DEF Rows
    <2> QED
        BY <1>3, <2>1
<1>5. v \in Seq(Rows(layer)) /\ Len(v) = m
    BY <1>4, FunctionIsSequence
<1>6. PICK part : part = [o \in DOMAIN Image(b).header |-> RowsAt(Image(b), o)]
    OBVIOUS
<1>7. \A i \in 1 .. n : HasHeader(b, layer, i) =>
            part[HeaderAt(b, layer, i)] = RowsAt(Image(b), HeaderAt(b, layer, i))
    BY <1>0, <1>1, <1>6, ImageHeader
<1>8. Delivers(b, layer, part, v)
    <2>1. CASE layer \in AntpLayers
        <3>1. \A i \in 1 .. n : HasHeader(b, layer, i)
            BY <1>1, <2>1 DEF HasHeader
        <3>2. \A i \in 1 .. n : part[HeaderAt(b, layer, i)] = One(Row(layer, i, b[layer][i]))
            BY <1>1, <1>7, <2>1, <3>1, RowsOfHeader
        <3>3. \A i \in 1 .. n : v[i] = Row(layer, i, b[layer][i])
            BY <1>2, <1>3, <2>1 DEF RowTime
        <3>4. \A i \in 1 .. n : part[HeaderAt(b, layer, i)] = One(v[i])
            BY <3>2, <3>3
        <3> QED
            BY <1>1, <1>2, <1>5, <2>1, <3>4 DEF Delivers
    <2>2. CASE layer \notin AntpLayers /\ n = 0
        <3>1. v = <<>>
            BY <1>2, <1>3, <2>2
        <3> QED
            BY <1>1, <2>2, <3>1 DEF Delivers
    <2>3. CASE layer \notin AntpLayers /\ n # 0
        <3>1. 1 \in 1 .. n /\ HasHeader(b, layer, 1)
            BY <1>1, <2>3 DEF HasHeader
        <3>2. HeaderAt(b, layer, 1) = Base(b, layer)
            BY <1>0, HeaderPositions
        <3>3. RowsAt(Image(b), HeaderAt(b, layer, 1)) =
                [k \in 1 .. m |->
                    Row(layer, k, b[layer][1] + Header(b, layer, 1).step * TimeOf(layer, k))]
            BY <1>1, <1>2, <2>3, <3>1, RowsOfHeader
        <3>4. v = [k \in 1 .. m |->
                    Row(layer, k, b[layer][1] + Header(b, layer, 1).step * TimeOf(layer, k))]
            BY <1>3, <2>3, Zenon DEF RowTime
        <3>5. part[Base(b, layer)] = v
            BY <1>7, <3>1, <3>2, <3>3, <3>4
        <3> QED
            BY <1>1, <2>3, <3>5 DEF Delivers
    <2> QED
        BY <2>1, <2>2, <2>3
<1>9. RBF_SIZE \in Nat /\ PAGE_SIZE <= RBF_SIZE
    BY FieldsAssumption
<1>10. Walk(Image(b), RBF_SIZE, RecordStride, OfLayer(Image(b), layer, part))[0] = v
    BY <1>5, <1>8, <1>9, LayerRead
<1> QED
    BY <1>1, <1>2, <1>3, <1>6, <1>10, Zenon DEF csv

\* The times csv shows of a layer are between those of its first and last record.
LEMMA RowTimes ==
    ASSUME NEW b \in Buffers, NEW t, Timely(b, t),
           NEW l \in Layers, l # "temperature" \/ Len(b[l]) > 1,
           NEW k \in 1 .. RowCount(l, Len(b[l]))
    PROVE  RowTime(b, l, k) >= Head(b[l]) /\ RowTime(b, l, k) <= Last(b[l])
<1>1. PICK n \in Nat : n = Len(b[l]) /\ b[l] \in Seq(Nat) /\ DOMAIN b[l] = 1 .. n
    BY CountsType
<1>2. RowCount(l, n) \in Nat /\ RowCount(l, n) <= n /\ TimeOf(l, k) \in 0 .. n
    BY <1>1, RowBounds
<1>3. k \in 1 .. n /\ n # 0 /\ 1 \in 1 .. n /\ n \in 1 .. n
    BY <1>1, <1>2
<1>4. Last(b[l]) = b[l][n] /\ Head(b[l]) = b[l][1]
    BY <1>1, <1>3, LastElement
<1>5. CASE l \in AntpLayers
    <2>1. b[l][1] \in Nat /\ b[l][k] \in Nat /\ b[l][n] \in Nat
        BY <1>1, <1>3, ElementOfSeq
    <2>2. b[l][1] <= b[l][k] /\ b[l][k] <= b[l][n]
        <3>1. 1 <= k /\ k <= n
            BY <1>3
        <3> QED
            BY <1>1, <1>3, <3>1 DEF Timely
    <2> QED
        BY <1>4, <1>5, <2>1, <2>2 DEF RowTime
<1>6. CASE l \notin AntpLayers
    <2>1. PICK first \in Nat : first = b[l][1]
        BY <1>1, <1>3, <1>6, StepOfHeader
    <2>2. PICK last \in Nat : last = Last(b[l])
        BY <1>1, <1>3, <1>6, StepOfHeader
    <2>3. first <= last /\ Header(b, l, 1).step = Step(first, last, n)
        BY <1>1, <1>3, <1>6, <2>1, <2>2, StepOfHeader
    <2>4. n \in Nat \ {0}
        BY <1>3
    <2>5. /\ Step(first, last, n) * TimeOf(l, k) \in Nat
          /\ Step(first, last, n) * TimeOf(l, k) <= last - first
        BY <1>2, <2>3, <2>4, StepBounds
    <2>6. PICK p \in Nat : p = Step(first, last, n) * TimeOf(l, k) /\ p <= last - first
        BY <2>5
    <2>7. RowTime(b, l, k) = first + p
        BY <1>6, <2>1, <2>3, <2>6 DEF RowTime
    <2> QED
        BY <1>4, <2>1, <2>2, <2>6, <2>7
<1> QED
    BY <1>5, <1>6

\* csv of a page prints the records of a layer in order, all of them or the first
\* third of the gyro and accelerometer samples, at the time an ANT+ record was
\* taken, and no other at a time outside those of the layer, as long as the
\* clock of the application fits the 32 bits of seconds of a header.
THEOREM CsvIsFaithful == Spec => []((now \div MSEC < UINT32) => CsvShowsRecords)
<1>1. ASSUME CodecInv, now \div MSEC < UINT32 PROVE CsvShowsRecords
    <2>1. source \in Buffers /\ Fits(source) /\ page = Image(source)
        BY <1>1, BoundedFits DEF CodecInv
    <2>2. Timely(source, now) /\ now \in Nat
        BY <1>1 DEF CodecInv
    <2>3. InTime(source)
        BY <1>1, <2>1, <2>2, InTimeBefore
    <2>4. ASSUME NEW l \in Layers
          PROVE  /\ IF l \in Dim3Layers THEN 3 * Len(csv(page, l)) >= Len(source[l])
                    ELSE Len(csv(page, l)) = Len(source[l])
                 /\ \A k \in DOMAIN csv(page, l) :
                        /\ csv(page, l)[k].rec = <<l, k>>
                        /\ l \in AntpLayers => csv(page, l)[k].time = source[l][k]
                        /\ OwnStep(l) => /\ csv(page, l)[k].time >= Head(source[l])
                                         /\ csv(page, l)[k].time <= Last(source[l])
        <3>1. PICK n \in Nat : n = Len(source[l])
            BY <2>1, CountsType
        <3>2. PICK m \in Nat : m = RowCount(l, n)
            BY RowBounds
        <3>3. PICK rows : /\ rows = csv(page, l)
                          /\ rows = [k \in 1 .. m |-> Row(l, k, RowTime(source, l, k))]
            BY <2>1, <2>3, <3>1, <3>2, CsvImage
        <3>4. DOMAIN rows = 1 .. m /\ Len(rows) = m
            <4>1. PICK S : S = {rows[k] : k \in 1 .. m}
                OBVIOUS
            <4>2. rows \in [1 .. m -> S]
                BY <3>3, <4>1
            <4> QED
                BY <4>2, FunctionIsSequence
        <3>5. IF l \in Dim3Layers THEN 3 * m >= n ELSE m = n
            BY <3>2, RowBounds
        <3>6. ASSUME NEW k \in 1 .. m
              PROVE  /\ rows[k].rec = <<l, k>>
                     /\ l \in AntpLayers => rows[k].time = source[l][k]
                     /\ OwnStep(l) => /\ rows[k].time >= Head(source[l])
                                      /\ rows[k].time <= Last(source[l])
            <4>1. rows[k] = Row(l, k, RowTime(source, l, k))
                BY <3>3
            <4>2. rows[k].rec = <<l, k>> /\ rows[k].time = RowTime(source, l, k)
                BY <4>1, RowFields
            <4>3. l \in AntpLayers => RowTime(source, l, k) = source[l][k]
                BY DEF RowTime
            <4>4. OwnStep(l) => /\ RowTime(source, l, k) >= Head(source[l])
                                /\ RowTime(source, l, k) <= Last(source[l])
                BY <2>1, <2>2, <3>1, <3>2, RowTimes DEF OwnStep
            <4> QED
                BY <4>2, <4>3, <4>4
        <3> QED
            BY <3>1, <3>3, <3>4, <3>5, <3>6
    <2> QED
        BY <2>4 DEF CsvShowsRecords
<1>2. CodecInv => ((now \div MSEC < UINT32) => CsvShowsRecords)
    BY <1>1
<1> QED
    BY <1>2, CodecInvariant, PTL

-----------------------------------------------------------------------------
(* The time ranges of mxfs_timerange_by_block *)

NoRange == [start_time |-> 0, last_time |-> 0, record_count |-> 0]

\* The range after each of the first n headers, from those before.
Ranges(hs, n, f) ==
    [k \in 0 .. n |-> IF k = 0 THEN NoRange ELSE Ranged(f[k - 1], hs[k])]

LEMMA RangesExist ==
    ASSUME NEW hs, NEW n \in Nat
    PROVE  \E f : f = Ranges(hs, n, f)
<1> DEFINE Good(k, f) == \A i \in 0 .. n : i <= k => f[i] = Ranges(hs, n, f)[i]
           S == {k \in Nat : \E f : Good(k, f)}
<1>1. 0 \in S
    <2> DEFINE f == [i \in 0 .. n |-> NoRange]
    <2>1. ASSUME NEW i \in 0 .. n, i <= 0 PROVE f[i] = Ranges(hs, n, f)[i]
        <3>1. i = 0
            BY <2>1
        <3> QED
            BY <3>1 DEF Ranges
    <2> QED
        BY <2>1
<1>2. ASSUME NEW k \in Nat, k \in S PROVE k + 1 \in S
    <2>1. PICK f : Good(k, f)
        BY <1>2
    <2>2. PICK g : g = Ranges(hs, n, f)
        OBVIOUS
    <2>3. ASSUME NEW i \in 0 .. n, i <= k + 1 PROVE g[i] = Ranges(hs, n, g)[i]
        <3>1. CASE i = 0
            BY <2>2, <3>1 DEF Ranges
        <3>2. CASE i # 0
            <4>1. i - 1 \in 0 .. n /\ i - 1 <= k
                BY <2>3, <3>2
            <4>2. f[i - 1] = g[i - 1]
                BY <2>1, <2>2, <4>1
            <4>3. g[i] = Ranged(f[i - 1], hs[i])
                BY <2>2, <3>2 DEF Ranges
            <4>4. Ranges(hs, n, g)[i] = Ranged(g[i - 1], hs[i])
                BY <3>2 DEF Ranges
            <4> QED
                BY <4>2, <4>3, <4>4
        <3> QED
            BY <3>1, <3>2
    <2>4. Good(k + 1, g)
        BY <2>3
    <2> HIDE DEF Good
    <2>5. \E h : Good(k + 1, h)
        BY <2>4
    <2> QED
        BY <2>5
<1>3. n \in S
    <2> HIDE DEF S
    <2> QED
        BY <1>1, <1>2, Induction
<1>4. PICK f : Good(n, f)
    BY <1>3
<1>5. PICK g : g = Ranges(hs, n, f)
    OBVIOUS
<1>6. \A i \in 0 .. n : f[i] = g[i]
    BY <1>4, <1>5
<1>7. \A i \in 0 .. n : g[i] = Ranges(hs, n, g)[i]
    <2> SUFFICES ASSUME NEW i \in 0 .. n PROVE g[i] = Ranges(hs, n, g)[i]
        OBVIOUS
    <2>1. CASE i = 0
        BY <1>5, <2>1 DEF Ranges
    <2>2. CASE i # 0
        <3>1. f[i - 1] = g[i - 1]
            BY <1>6, <2>2
        <3>2. g[i] = Ranged(f[i - 1], hs[i])
            BY <1>5, <2>2 DEF Ranges
        <3>3. Ranges(hs, n, g)[i] = Ranged(g[i - 1], hs[i])
            BY <2>2 DEF Ranges
        <3> QED
            BY <3>1, <3>2, <3>3
    <2> QED
        BY <2>1, <2>2
<1>8. PICK r : r = Ranges(hs, n, g)
    OBVIOUS
<1>9. g = [i \in 0 .. n |-> g[i]]
    BY <1>5 DEF Ranges
<1>10. r = [i \in 0 .. n |-> r[i]]
    BY <1>8 DEF Ranges
<1>11. \A i \in 0 .. n : g[i] = r[i]
    BY <1>7, <1>8
<1>12. g = r
    BY <1>9, <1>10, <1>11, Zenon
<1> QED
    BY <1>8, <1>12

\* f is the range after each of n headers.
RangeLoop(hs, n, f) ==
    f[0] = NoRange /\ \A k \in 1 .. n : f[k] = Ranged(f[k - 1], hs[k])

\* The headers mxfs_timerange_by_block finds.
HeaderWalk(pg, layer) ==
    Walk(pg, RBF_SIZE, RecordStride,
         OfLayer(pg, layer, [o \in DOMAIN pg.header |-> <<pg.header[o]>>]))[0]

LEMMA TimerangeLoops ==
    ASSUME NEW pg, NEW layer, NEW hs, NEW n \in Nat, n = Len(hs), hs = HeaderWalk(pg, layer)
    PROVE  \E f : RangeLoop(hs, n, f) /\ timerange_by_block(pg, layer) = f[n]
<1>1. PICK f : f = CHOOSE g : g = Ranges(hs, n, g)
    OBVIOUS
<1>2. f = Ranges(hs, n, f)
    BY <1>1, RangesExist
<1>3. timerange_by_block(pg, layer) = f[n]
    BY <1>1, Zenon DEF timerange_by_block, Ranges, NoRange, HeaderWalk
<1>4. f[0] = NoRange
    <2>1. f[0] = Ranges(hs, n, f)[0]
        BY <1>2, Zenon
    <2> QED
        BY <2>1 DEF Ranges
<1>5. ASSUME NEW k \in 1 .. n PROVE f[k] = Ranged(f[k - 1], hs[k])
    <2>1. f[k] = Ranges(hs, n, f)[k]
        BY <1>2, Zenon
    <2>2. k \in 0 .. n /\ k # 0
        OBVIOUS
    <2> QED
        BY <2>1, <2>2 DEF Ranges
<1> QED
    BY <1>3, <1>4, <1>5 DEF RangeLoop

\* mxfs_timerange_by_block finds the headers of a layer, in order.
HeaderCount(b, l) == IF l \in AntpLayers \/ Len(b[l]) = 0 THEN Len(b[l]) ELSE 1

LayerHeaders(b, l) == [i \in 1 .. HeaderCount(b, l) |-> Header(b, l, i)]

LEMMA HeadersOfLayer ==
    ASSUME NEW b, Fits(b), NEW layer \in Layers
    PROVE  /\ HeaderWalk(Image(b), layer) = LayerHeaders(b, layer)
           /\ Len(LayerHeaders(b, layer)) = HeaderCount(b, layer)
           /\ HeaderCount(b, layer) \in Nat
<1>0. b \in Buffers
    BY DEF Fits
<1>1. PICK n \in Nat : n = Len(b[layer])
    BY <1>0, CountsType
<1>2. PICK m \in Nat : m = HeaderCount(b, layer)
    BY <1>1 DEF HeaderCount
<1>3. PICK v : v = LayerHeaders(b, layer) /\ v = [i \in 1 .. m |-> Header(b, layer, i)]
    BY <1>2 DEF LayerHeaders
<1>4. PICK S : S = {Header(b, layer, i) : i \in Nat}
    OBVIOUS
<1>5. v \in [1 .. m -> S]
    BY <1>3, <1>4
<1>6. v \in Seq(S) /\ Len(v) = m
    BY <1>5, FunctionIsSequence
<1>7. PICK hd : hd = Image(b).header
    OBVIOUS
<1>8. PICK part : part = [o \in DOMAIN hd |-> <<hd[o]>>]
    OBVIOUS
<1>9. \A i \in 1 .. n : HasHeader(b, layer, i) =>
            part[HeaderAt(b, layer, i)] = One(Header(b, layer, i))
    <2> SUFFICES ASSUME NEW i \in 1 .. n, HasHeader(b, layer, i)
                 PROVE  part[HeaderAt(b, layer, i)] = One(Header(b, layer, i))
        OBVIOUS
    <2>1. /\ HeaderAt(b, layer, i) \in DOMAIN hd
          /\ hd[HeaderAt(b, layer, i)] = Header(b, layer, i)
        BY <1>0, <1>1, <1>7, ImageHeader
    <2> QED
        BY <1>8, <2>1 DEF One
<1>10. Delivers(b, layer, part, v)
    <2>1. CASE layer \in AntpLayers
        <3>1. m = n /\ \A i \in 1 .. n : HasHeader(b, layer, i)
            BY <1>1, <1>2, <2>1 DEF HasHeader, HeaderCount
        <3>2. \A i \in 1 .. n : v[i] = Header(b, layer, i)
            BY <1>3, <3>1
        <3>3. \A i \in 1 .. n : part[HeaderAt(b, layer, i)] = One(v[i])
            BY <1>9, <3>1, <3>2
        <3> QED
            BY <1>1, <1>6, <2>1, <3>1, <3>3 DEF Delivers
    <2>2. CASE layer \notin AntpLayers /\ n = 0
        <3>1. v = <<>>
            BY <1>1, <1>2, <1>3, <2>2 DEF HeaderCount
        <3> QED
            BY <1>1, <2>2, <3>1 DEF Delivers
    <2>3. CASE layer \notin AntpLayers /\ n # 0
        <3>1. 1 \in 1 .. n /\ HasHeader(b, layer, 1)
            BY <1>1, <2>3 DEF HasHeader
        <3>2. HeaderAt(b, layer, 1) = Base(b, layer)
            BY <1>0, HeaderPositions
        <3>3. m = 1
            BY <1>1, <1>2, <2>3 DEF HeaderCount
        <3>4. v = One(Header(b, layer, 1))
            <4>1. \A i \in 1 .. 1 : i = 1
                OBVIOUS
            <4>2. v = [i \in 1 .. 1 |-> Header(b, layer, 1)]
                BY <1>3, <3>3, <4>1, Zenon
            <4> QED
                BY <4>2 DEF One
        <3>5. part[Base(b, layer)] = v
            BY <1>9, <3>1, <3>2, <3>4
        <3> QED
            BY <1>1, <2>3, <3>5 DEF Delivers
    <2> QED
        BY <2>1, <2>2, <2>3
<1>11. RBF_SIZE \in Nat /\ PAGE_SIZE <= RBF_SIZE
    BY FieldsAssumption
<1>12. Walk(Image(b), RBF_SIZE, RecordStride, OfLayer(Image(b), layer, part))[0] = v
    BY <1>6, <1>10, <1>11, LayerRead
<1> QED
    BY <1>2, <1>3, <1>6, <1>7, <1>8, <1>12, Zenon DEF HeaderWalk

LEMMA RangedFields ==
    ASSUME NEW range, NEW h
    PROVE  /\ Ranged(range, h).start_time =
                    IF range.start_time = 0 THEN HeaderTime(h) ELSE range.start_time
           /\ Ranged(range, h).last_time =
                    IF h.type \in AntpLayers THEN HeaderTime(h) ELSE HeaderTime(h) + h.size * h.step
           /\ Ranged(range, h).record_count =
                    U16(range.record_count + IF h.type \in AntpLayers THEN 1 ELSE h.size)
    BY DEF Ranged

\* A count of records of a page fits uint16_t.
LEMMA CountInUint16 ==
    ASSUME NEW n \in Nat, n <= PAGE_SIZE
    PROVE  U16(n) = n
<1>1. UINT16 \in Nat \ {0} /\ n < UINT16
    BY SizesArePositive, LengthsFitUint16 DEF UINT16
<1>2. n % UINT16 = n
    BY <1>1, SmallMod
<1> QED
    BY <1>2 DEF U16

LEMMA ImageRange ==
    ASSUME NEW b, Fits(b), NEW l \in Layers
    PROVE  \E f : /\ RangeLoop(LayerHeaders(b, l), HeaderCount(b, l), f)
                  /\ timerange_by_block(Image(b), l) = f[HeaderCount(b, l)]
<1>1. PICK pg : pg = Image(b)
    OBVIOUS
<1>2. PICK hs : hs = LayerHeaders(b, l)
    OBVIOUS
<1>3. PICK n \in Nat : n = HeaderCount(b, l) /\ n = Len(hs)
    BY <1>2, HeadersOfLayer
<1>4. hs = HeaderWalk(pg, l)
    BY <1>1, <1>2, HeadersOfLayer, Zenon
<1>5. \E f : RangeLoop(hs, n, f) /\ timerange_by_block(pg, l) = f[n]
    BY <1>3, <1>4, TimerangeLoops
<1> QED
    BY <1>1, <1>2, <1>3, <1>5

\* The range of an ANT+ layer goes from its first record to its last, exactly.
LEMMA RangeOfAnt ==
    ASSUME NEW b, Fits(b), InTime(b), NEW t, Timely(b, t), NEW l \in Layers, l \in AntpLayers
    PROVE  /\ timerange_by_block(Image(b), l).record_count = Len(b[l])
           /\ Len(b[l]) > 0 =>
                /\ timerange_by_block(Image(b), l).start_time = b[l][1]
                /\ timerange_by_block(Image(b), l).last_time = b[l][Len(b[l])]
<1>0. b \in Buffers
    BY DEF Fits
<1>1. PICK n \in Nat : n = Len(b[l]) /\ n <= PAGE_SIZE /\ DOMAIN b[l] = 1 .. n
    BY <1>0, PayloadFits, CountsType
<1>2. PICK hs : hs = LayerHeaders(b, l)
    OBVIOUS
<1>3. HeaderCount(b, l) = n
    BY <1>1 DEF HeaderCount
<1>4. PICK f : RangeLoop(hs, n, f) /\ timerange_by_block(Image(b), l) = f[n]
    BY <1>2, <1>3, ImageRange
<1>5. ASSUME NEW k \in 1 .. n
      PROVE  /\ hs[k].type \in AntpLayers /\ HeaderTime(hs[k]) = b[l][k]
             /\ f[k] = Ranged(f[k - 1], hs[k]) /\ b[l][k] \in Nat /\ b[l][k] > 0
    <2>1. hs[k] = Header(b, l, k)
        BY <1>2, <1>3 DEF LayerHeaders
    <2>2. hs[k].type = l /\ hs[k].time * MSEC + hs[k].msec = b[l][k] /\ b[l][k] \in Nat
        BY <1>0, <1>1, <2>1, HeaderFields, HeaderKeepsTime
    <2>3. HeaderTime(hs[k]) = b[l][k]
        BY <2>2 DEF HeaderTime
    <2>4. b[l][k] > 0
        BY <1>1 DEF Timely
    <2> QED
        BY <1>4, <2>2, <2>3, <2>4 DEF RangeLoop
<1> DEFINE P(k) == /\ f[k].record_count = k
                   /\ k = 0 => f[k].start_time = 0
                   /\ k > 0 => f[k].start_time = b[l][1] /\ f[k].last_time = b[l][k]
           S == {k \in Nat : k <= n => P(k)}
<1>6. 0 \in S
    <2>1. f[0].record_count = 0 /\ f[0].start_time = 0
        BY <1>4 DEF RangeLoop, NoRange
    <2> QED
        BY <2>1
<1>7. ASSUME NEW k \in Nat, k \in S PROVE k + 1 \in S
    <2>1. SUFFICES ASSUME k + 1 <= n PROVE P(k + 1)
        OBVIOUS
    <2>2. P(k)
        BY <1>1, <1>7, <2>1
    <2>3. PICK i \in 1 .. n : i = k + 1
        BY <2>1
    <2>4. /\ hs[i].type \in AntpLayers /\ HeaderTime(hs[i]) = b[l][i]
          /\ f[i] = Ranged(f[k], hs[i])
        <3>1. i - 1 = k
            BY <2>3
        <3> QED
            BY <1>5, <3>1
    <2>5. /\ f[i].start_time = IF f[k].start_time = 0 THEN b[l][i] ELSE f[k].start_time
          /\ f[i].last_time = b[l][i]
          /\ f[i].record_count = U16(f[k].record_count + 1)
        BY <2>4, RangedFields
    <2>6. f[i].record_count = i
        <3>1. i \in Nat /\ i <= PAGE_SIZE
            BY <1>1, SizesArePositive
        <3> QED
            BY <2>2, <2>3, <2>5, <3>1, CountInUint16
    <2>7. f[i].start_time = b[l][1]
        <3>1. CASE k = 0
            BY <2>2, <2>3, <2>5, <3>1
        <3>2. CASE k > 0
            <4>1. b[l][1] # 0
                <5>1. 1 \in 1 .. n
                    BY <2>3
                <5> QED
                    BY <1>5, <5>1
            <4> QED
                BY <2>2, <2>5, <3>2, <4>1
        <3> QED
            BY <3>1, <3>2
    <2> QED
        BY <2>3, <2>5, <2>6, <2>7
<1>8. n \in S
    <2> HIDE DEF S
    <2> QED
        BY <1>6, <1>7, Induction
<1>9. P(n)
    BY <1>8
<1> QED
    BY <1>1, <1>4, <1>9

\* The range of another layer starts at its first record and goes on by a step
\* per record.
LEMMA RangeOfOther ==
    ASSUME NEW b, Fits(b), InTime(b), NEW l \in Layers, l \notin AntpLayers,
           \A i \in 1 .. Len(b[l]) : b[l][i] < UINT32
    PROVE  /\ timerange_by_block(Image(b), l).record_count = Len(b[l])
           /\ Len(b[l]) > 0 =>
                /\ timerange_by_block(Image(b), l).start_time = b[l][1]
                /\ timerange_by_block(Image(b), l).last_time =
                        b[l][1] + Len(b[l]) * Header(b, l, 1).step
<1>0. b \in Buffers
    BY DEF Fits
<1>1. PICK n \in Nat : n = Len(b[l]) /\ n <= PAGE_SIZE
    BY <1>0, PayloadFits
<1>2. PICK hs : hs = LayerHeaders(b, l)
    OBVIOUS
<1>3. PICK m \in Nat : m = HeaderCount(b, l) /\ m = IF n = 0 THEN 0 ELSE 1
    BY <1>1 DEF HeaderCount
<1>4. PICK f : RangeLoop(hs, m, f) /\ timerange_by_block(Image(b), l) = f[m]
    BY <1>2, <1>3, ImageRange
<1>5. f[0].record_count = 0 /\ f[0].start_time = 0
    BY <1>4 DEF RangeLoop, NoRange
<1>6. CASE n = 0
    BY <1>1, <1>3, <1>4, <1>5, <1>6
<1>7. CASE n # 0
    <2>1. m = 1 /\ 1 \in 1 .. m /\ 1 \in 1 .. n
        BY <1>3, <1>7
    <2>2. PICK h : h = Header(b, l, 1) /\ h = hs[1]
        BY <1>2, <1>3, <2>1 DEF LayerHeaders
    <2>3. h.type = l /\ h.size = n
        BY <1>1, <2>2, HeaderFields
    <2>4. h.time * MSEC + h.msec = b[l][1] /\ b[l][1] \in Nat /\ b[l][1] < UINT32
        BY <1>0, <1>1, <2>1, <2>2, HeaderKeepsTime
    <2>5. HeaderTime(h) = b[l][1]
        <3>1. HeaderTime(h) = (h.time * MSEC + h.msec) % UINT32
            BY <2>3 DEF HeaderTime
        <3>2. PICK x \in Nat : x = b[l][1] /\ x < UINT32
            BY <2>4
        <3>3. x % UINT32 = x
            BY <3>2, SmallMod, FieldsAssumption
        <3> QED
            BY <2>4, <3>1, <3>2, <3>3
    <2>6. f[1] = Ranged(f[0], h)
        <3>1. f[1] = Ranged(f[1 - 1], hs[1])
            BY <1>4, <2>1 DEF RangeLoop
        <3>2. 1 - 1 = 0
            OBVIOUS
        <3> QED
            BY <2>2, <3>1, <3>2
    <2>7. /\ f[1].start_time = HeaderTime(h)
          /\ f[1].last_time = HeaderTime(h) + n * h.step
          /\ f[1].record_count = U16(0 + n)
        BY <1>5, <2>3, <2>6, RangedFields
    <2>8. U16(0 + n) = n
        BY <1>1, CountInUint16
    <2> QED
        BY <1>1, <1>4, <2>1, <2>2, <2>5, <2>7, <2>8, Zenon
<1> QED
    BY <1>6, <1>7

\* What Bracketed says of the page made of b.
Spans(b, l) ==
    LET range == timerange_by_block(Image(b), l)
        n == Len(b[l])
    IN  /\ range.record_count = n
        /\ n > 0 => range.start_time = Head(b[l])
        /\ (n > 0 /\ (l # "temperature" \/ n > 1)) =>
                /\ range.last_time <= Last(b[l])
                /\ \/ range.last_time > Last(b[l]) - n
                   \/ (Last(b[l]) - Head(b[l])) \div n >= STEP_FIELD

LEMMA SpansAnt ==
    ASSUME NEW b, Fits(b), InTime(b), NEW t, Timely(b, t), NEW l \in Layers, l \in AntpLayers
    PROVE  Spans(b, l)
<1>0. b \in Buffers
    BY DEF Fits
<1>1. PICK n \in Nat : n = Len(b[l]) /\ b[l] \in Seq(Nat)
    BY <1>0, CountsType
<1>2. PICK range : range = timerange_by_block(Image(b), l)
    OBVIOUS
<1>3. /\ range.record_count = n
      /\ n > 0 => range.start_time = b[l][1] /\ range.last_time = b[l][n]
    BY <1>1, <1>2, RangeOfAnt
<1>4. n > 0 => Last(b[l]) = b[l][n] /\ Head(b[l]) = b[l][1] /\ b[l][n] \in Nat
    BY <1>1, LastElement
<1>5. n > 0 => range.last_time <= Last(b[l]) /\ range.last_time > Last(b[l]) - n
    BY <1>3, <1>4
<1> QED
    BY <1>1, <1>2, <1>3, <1>4, <1>5 DEF Spans

LEMMA SpansOther ==
    ASSUME NEW b, Fits(b), InTime(b), NEW t \in Nat, Timely(b, t), t < UINT32,
           NEW l \in Layers, l \notin AntpLayers
    PROVE  Spans(b, l)
<1>0. b \in Buffers /\ UINT32 \in Nat
    BY FieldsAssumption DEF Fits
<1>1. PICK n \in Nat : n = Len(b[l]) /\ b[l] \in Seq(Nat) /\ DOMAIN b[l] = 1 .. n
    BY <1>0, CountsType
<1>2. \A i \in 1 .. n : b[l][i] \in Nat /\ b[l][i] <= t
    BY <1>1, ElementOfSeq DEF Timely
<1>3. \A i \in 1 .. n : b[l][i] < UINT32
    BY <1>0, <1>2
<1>4. PICK range : range = timerange_by_block(Image(b), l)
    OBVIOUS
<1>5. /\ range.record_count = n
      /\ n > 0 => /\ range.start_time = b[l][1]
                  /\ range.last_time = b[l][1] + n * Header(b, l, 1).step
    BY <1>1, <1>3, <1>4, RangeOfOther
<1>6. n > 0 => range.start_time = Head(b[l])
    BY <1>1, <1>5, LastElement
<1>7. ASSUME n > 0, l # "temperature" \/ n > 1
      PROVE  /\ range.last_time <= Last(b[l])
             /\ \/ range.last_time > Last(b[l]) - n
                \/ (Last(b[l]) - Head(b[l])) \div n >= STEP_FIELD
    <2>1. /\ Head(b[l]) = b[l][1] /\ b[l][1] \in Nat
          /\ Last(b[l]) \in Nat /\ b[l][1] <= Last(b[l])
          /\ Header(b, l, 1).step = Step(b[l][1], Last(b[l]), n)
          /\ Last(b[l]) = b[l][n]
        BY <1>0, <1>1, <1>7, StepOfHeader
    <2>2. PICK first \in Nat : first = b[l][1]
        BY <2>1
    <2>3. PICK last \in Nat : last = Last(b[l]) /\ first <= last /\ last < UINT32
        <3>1. n \in 1 .. n
            BY <1>7
        <3> QED
            BY <1>3, <2>1, <2>2, <3>1
    <2>4. n \in Nat \ {0}
        BY <1>7
    <2>5. PICK s \in Nat : s = Step(first, last, n)
        BY <2>3, <2>4, StepBounds
    <2>6. PICK c \in Nat : c = s * n
        OBVIOUS
    <2>7. c <= last - first
        BY <2>3, <2>4, <2>5, <2>6, StepBounds
    <2>8. last - first < UINT32 /\ (last - first) \div n < STEP_FIELD => last - first < c + n
        BY <2>3, <2>4, <2>5, <2>6, StepBounds
    <2>9. n * s = c
        BY <2>6
    <2>10. n * Header(b, l, 1).step = c
        BY <2>1, <2>2, <2>3, <2>5, <2>9
    <2>11. range.last_time = first + c
        BY <1>5, <1>7, <2>2, <2>10
    <2>12. last - first < UINT32
        BY <1>0, <2>3
    <2>13. PICK a \in Nat : a = (last - first) \div n
        BY <2>3, <2>4
    <2>14. STEP_FIELD \in Nat /\ (a >= STEP_FIELD \/ last - first < c + n)
        BY <2>8, <2>12, <2>13, FieldsAssumption
    <2>15. range.last_time <= last
        BY <2>7, <2>11
    <2>16. range.last_time > last - n \/ a >= STEP_FIELD
        BY <2>11, <2>14
    <2> QED
        BY <2>1, <2>2, <2>3, <2>13, <2>15, <2>16
<1> QED
    BY <1>1, <1>4, <1>5, <1>6, <1>7 DEF Spans

\* The range mxfs_timerange_by_block makes of a page is that of its records: it
\* starts at the first, counts them all, and ends no later than the last and at
\* most a unit per record before it.  For the ANT+ layers this needs the seconds
\* of the application's clock to fit 32 bits, for the others the clock itself,
\* as they are added up in an unsigned.
THEOREM TimerangeIsFaithful ==
    Spec => []( /\ (now \div MSEC < UINT32) => \A l \in AntpLayers : Bracketed(l)
                /\ (now < UINT32) => TimerangeBrackets )
<1>1. ASSUME CodecInv, NEW l \in Layers, Spans(source, l) PROVE Bracketed(l)
    <2>1. page = Image(source)
        BY <1>1 DEF CodecInv
    <2> QED
        BY <1>1, <2>1 DEF Spans, Bracketed, OwnStep, Saturated
<1>2. ASSUME CodecInv, now \div MSEC < UINT32, NEW l \in AntpLayers PROVE Bracketed(l)
    <2>1. source \in Buffers /\ Fits(source) /\ Timely(source, now) /\ now \in Nat
        BY <1>2, BoundedFits DEF CodecInv
    <2>2. InTime(source)
        BY <1>2, <2>1, InTimeBefore
    <2>3. l \in Layers
        BY DEF Layers
    <2> QED
        BY <1>1, <1>2, <2>1, <2>2, <2>3, SpansAnt
<1>3. ASSUME CodecInv, now < UINT32 PROVE now \div MSEC < UINT32
    <2>1. now \in Nat /\ MSEC \in Nat \ {0} /\ UINT32 \in Nat
        BY <1>3, FieldsAssumption DEF CodecInv
    <2>2. PICK q \in Nat : q = now \div MSEC /\ now = q * MSEC + (now % MSEC)
        BY <2>1, DivMod
    <2>3. now % MSEC \in Nat
        BY <2>1, DivMod
    <2>4. PICK g \in Nat : MSEC = g + 1
        <3>1. MSEC - 1 \in Nat /\ MSEC = (MSEC - 1) + 1
            BY <2>1
        <3> QED
            BY <3>1
    <2>5. q * MSEC = q * g + q /\ q * g \in Nat
        BY <2>4
    <2> QED
        BY <1>3, <2>1, <2>2, <2>3, <2>5
<1>4. ASSUME CodecInv, now < UINT32 PROVE TimerangeBrackets
    <2>1. source \in Buffers /\ Fits(source) /\ Timely(source, now) /\ now \in Nat
        BY <1>4, BoundedFits DEF CodecInv
    <2>2. InTime(source)
        BY <1>3, <1>4, <2>1, InTimeBefore
    <2>3. \A l \in Layers : Spans(source, l)
        BY <1>4, <2>1, <2>2, SpansAnt, SpansOther
    <2>4. \A l \in Layers : Bracketed(l)
        BY <1>1, <1>4, <2>3
    <2> QED
        BY <2>4 DEF TimerangeBrackets
<1>5. CodecInv => /\ (now \div MSEC < UINT32) => \A l \in AntpLayers : Bracketed(l)
                  /\ (now < UINT32) => TimerangeBrackets
    BY <1>2, <1>4
<1> QED
    BY <1>5, CodecInvariant, PTL

-----------------------------------------------------------------------------
(* The search command of the formatter *)

LEMMA RangeOfCat ==
    ASSUME NEW S, NEW a \in Seq(S), NEW c \in Seq(S)
    PROVE  Range(a) \subseteq Range(Cat(a, c)) /\ Range(c) \subseteq Range(Cat(a, c))
<1>1. PICK m \in Nat : m = Len(a) /\ DOMAIN a = 1 .. m
    BY LenProperties
<1>2. PICK n \in Nat : n = Len(c) /\ DOMAIN c = 1 .. n
    BY LenProperties
<1>3. PICK s : s = Cat(a, c)
    OBVIOUS
<1>4. /\ s \in Seq(S) /\ Len(s) = m + n
      /\ \A i \in 1 .. m + n : s[i] = IF i <= m THEN a[i] ELSE c[i - m]
    BY <1>1, <1>2, <1>3, ConcatProperties DEF Cat
<1>5. DOMAIN s = 1 .. m + n
    BY <1>4, LenProperties
<1>6. ASSUME NEW i \in 1 .. m PROVE i \in 1 .. m + n /\ s[i] = a[i]
    BY <1>4
<1>7. ASSUME NEW i \in 1 .. n PROVE i + m \in 1 .. m + n /\ s[i + m] = c[i]
    <2>1. i + m \in 1 .. m + n /\ ~ (i + m <= m) /\ (i + m) - m = i
        OBVIOUS
    <2> QED
        BY <1>4, <2>1
<1>8. \A i \in DOMAIN a : \E j \in DOMAIN s : s[j] = a[i]
    BY <1>1, <1>5, <1>6
<1>9. \A i \in DOMAIN c : \E j \in DOMAIN s : s[j] = c[i]
    BY <1>2, <1>5, <1>7
<1>10. Range(a) \subseteq Range(s)
    BY <1>8, Zenon DEF Range
<1>11. Range(c) \subseteq Range(s)
    BY <1>9, Zenon DEF Range
<1> QED
    BY <1>3, <1>10, <1>11

\* Every header search finds is one of the page.
LEMMA FoundHeaders ==
    ASSUME NEW b, Fits(b)
    PROVE  Range(HeadersFound(Image(b), RBF_SIZE, ByteStride)) \subseteq DOMAIN Image(b).header
<1>1. PICK D : D = DOMAIN Image(b).header
    OBVIOUS
<1>2. PICK take : take = [o \in D |-> <<o>>]
    OBVIOUS
<1>3. PICK w : w = Walk(Image(b), RBF_SIZE, ByteStride, take)
    OBVIOUS
<1>4. MovesOn(Image(b), ByteStride) /\ RBF_SIZE \in Nat
    BY ReadersMoveOn, Strides, FieldsAssumption
<1>5. Typed(Image(b), take, D)
    <2>1. \A o \in D : take[o] = One(o)
        BY <1>2 DEF One
    <2> QED
        BY <1>1, <2>1, OneType DEF Typed
<1>6. Loop(Image(b), RBF_SIZE, ByteStride, take, w)
    BY <1>3, <1>4, WalkLoops
<1>7. w[0] \in Seq(D)
    BY <1>4, <1>5, <1>6, WalkType
<1>8. HeadersFound(Image(b), RBF_SIZE, ByteStride) = w[0]
    BY <1>1, <1>2, <1>3, Zenon DEF HeadersFound
<1>9. \A i \in DOMAIN w[0] : w[0][i] \in D
    BY <1>7, LenProperties, ElementOfSeq
<1> QED
    BY <1>1, <1>8, <1>9 DEF Range

\* search finds the headers of all ANT+ records: they are in front of the others,
\* and its stride is right for them.
LEMMA FoundAnt ==
    ASSUME NEW b, Fits(b), NEW l \in AntpLayers, NEW i \in 1 .. Len(b[l])
    PROVE  HeaderAt(b, l, i) \in Range(HeadersFound(Image(b), RBF_SIZE, ByteStride))
<1>0. b \in Buffers
    BY DEF Fits
<1>1. PICK D : D = DOMAIN Image(b).header
    OBVIOUS
<1>2. PICK take : take = [o \in D |-> <<o>>] /\ \A o \in D : take[o] = One(o)
    <2>1. PICK f : f = [o \in D |-> <<o>>]
        OBVIOUS
    <2>2. \A o \in D : f[o] = One(o)
        BY <2>1 DEF One
    <2> QED
        BY <2>1, <2>2
<1>3. PICK w : w = Walk(Image(b), RBF_SIZE, ByteStride, take)
    OBVIOUS
<1>4. /\ MovesOn(Image(b), ByteStride) /\ ByteStride \in [Layers -> Nat]
      /\ RBF_SIZE \in Nat /\ PAGE_SIZE <= RBF_SIZE
    BY ReadersMoveOn, Strides, FieldsAssumption
<1>5. Typed(Image(b), take, D)
    BY <1>1, <1>2, OneType DEF Typed
<1>6. Loop(Image(b), RBF_SIZE, ByteStride, take, w)
    BY <1>3, <1>4, WalkLoops
<1>7. \A o \in Nat : w[o] \in Seq(D)
    BY <1>4, <1>5, <1>6, WalkType
<1>8. HeadersFound(Image(b), RBF_SIZE, ByteStride) = w[0]
    BY <1>1, <1>2, <1>3, Zenon DEF HeadersFound
<1>9. ASSUME NEW k \in AntpLayers
      PROVE  /\ \A j \in 1 .. Len(b[k]) : HeaderAt(b, k, j) \in Range(w[Base(b, k)])
             /\ Range(w[End(b, k)]) \subseteq Range(w[Base(b, k)])
    <2>1. k \in Layers
        BY DEF Layers
    <2>2. PICK n \in Nat : n = Len(b[k])
        BY <1>0, <2>1, CountsType
    <2>3. PICK v : v = [j \in 1 .. n |-> HeaderAt(b, k, j)]
        OBVIOUS
    <2>4. \A j \in 1 .. n : HeaderAt(b, k, j) \in D
        <3>1. \A j \in 1 .. n : HasHeader(b, k, j)
            BY <2>1, <2>2 DEF HasHeader
        <3> QED
            BY <1>0, <1>1, <2>1, <2>2, <3>1, ImageHeader
    <2>5. v \in [1 .. n -> D]
        BY <2>3, <2>4
    <2>6. v \in Seq(D) /\ Len(v) = n /\ DOMAIN v = 1 .. n
        BY <2>5, FunctionIsSequence
    <2>7. \A j \in 1 .. n : v[j] = HeaderAt(b, k, j) /\ take[HeaderAt(b, k, j)] = One(v[j])
        BY <1>2, <2>3, <2>4
    <2>8. w[Base(b, k)] = Cat(v, w[End(b, k)])
        BY <1>4, <1>5, <1>6, <2>1, <2>2, <2>6, <2>7, AntTaken
    <2>9. w[End(b, k)] \in Seq(D)
        BY <1>0, <1>7, <2>1, Bases
    <2>10. Range(v) \subseteq Range(w[Base(b, k)]) /\ Range(w[End(b, k)]) \subseteq Range(w[Base(b, k)])
        BY <2>6, <2>8, <2>9, RangeOfCat
    <2>11. \A j \in 1 .. n : HeaderAt(b, k, j) \in Range(v)
        BY <2>6, <2>7 DEF Range
    <2> QED
        BY <2>2, <2>10, <2>11
<1>10. /\ Base(b, "speed") = 0 /\ Base(b, "power") = End(b, "speed")
       /\ Base(b, "cadence") = End(b, "power")
    BY <1>0, Bases
<1>11. "speed" \in AntpLayers /\ "power" \in AntpLayers /\ "cadence" \in AntpLayers
    BY DEF AntpLayers
<1>12. Range(w[Base(b, "power")]) \subseteq Range(w[0])
    BY <1>9, <1>10, <1>11
<1>13. Range(w[Base(b, "cadence")]) \subseteq Range(w[0])
    BY <1>9, <1>10, <1>11, <1>12
<1>14. Range(w[Base(b, l)]) \subseteq Range(w[0])
    BY <1>10, <1>12, <1>13 DEF AntpLayers
<1> QED
    BY <1>8, <1>9, <1>14

\* The time of a second of a record.
LEMMA RecordSeconds ==
    ASSUME NEW b \in Buffers, NEW l \in Layers
    PROVE  /\ Range(b[l]) \subseteq Nat
           /\ \A x \in Range(b[l]) : \E i \in 1 .. Len(b[l]) : x = b[l][i]
           /\ \A i \in 1 .. Len(b[l]) : b[l][i] \in Range(b[l])
<1>1. b[l] \in Seq(Nat) /\ DOMAIN b[l] = 1 .. Len(b[l])
    BY CountsType
<1>2. \A i \in 1 .. Len(b[l]) : b[l][i] \in Nat
    BY <1>1, ElementOfSeq
<1> QED
    BY <1>1, <1>2 DEF Range

\* search lists no second in which no record of the page was taken, and the
\* seconds of all its ANT+ records, although its strides lose the way at the
\* first other header, as long as the seconds of the application's clock fit
\* the 32 bits of a header.
THEOREM SearchIsFaithful == Spec => []((now \div MSEC < UINT32) => SearchFindsAnt)
<1>1. ASSUME CodecInv, now \div MSEC < UINT32 PROVE SearchFindsAnt
    <2>1. source \in Buffers /\ Fits(source) /\ Timely(source, now) /\ now \in Nat
        BY <1>1, BoundedFits DEF CodecInv
    <2>2. InTime(source)
        BY <1>1, <2>1, InTimeBefore
    <2>3. PICK pg : pg = Image(source) /\ page = pg
        BY <1>1 DEF CodecInv
    <2>4. PICK F : F = Range(HeadersFound(pg, RBF_SIZE, ByteStride))
        OBVIOUS
    <2>5. ASSUME NEW o \in F
          PROVE  \E l \in Layers : \E x \in Range(source[l]) : pg.header[o].time = x \div MSEC
        <3>1. o \in DOMAIN pg.header
            BY <2>1, <2>3, <2>4, FoundHeaders
        <3>2. PICK l \in Layers : \E i \in 1 .. Len(source[l]) :
                    HasHeader(source, l, i) /\ o = HeaderAt(source, l, i)
            BY <2>1, <2>3, <3>1, ImageHeader
        <3>3. PICK i \in 1 .. Len(source[l]) :
                    HasHeader(source, l, i) /\ o = HeaderAt(source, l, i)
            BY <3>2
        <3>4. pg.header[o] = Header(source, l, i)
            BY <2>1, <2>3, <3>3, ImageHeader
        <3>5. pg.header[o].time = source[l][i] \div MSEC
            BY <2>1, <2>2, <3>4, HeaderKeepsTime
        <3>6. source[l][i] \in Range(source[l])
            BY <2>1, RecordSeconds
        <3> QED
            BY <3>5, <3>6
    <2>6. ASSUME NEW l \in AntpLayers, NEW x \in Range(source[l])
          PROVE  \E o \in F : pg.header[o].time = x \div MSEC
        <3>1. l \in Layers
            BY DEF Layers
        <3>2. PICK i \in 1 .. Len(source[l]) : x = source[l][i]
            BY <2>1, <3>1, RecordSeconds
        <3>3. PICK o : o = HeaderAt(source, l, i)
            OBVIOUS
        <3>4. o \in F
            BY <2>1, <2>3, <2>4, <3>3, FoundAnt
        <3>5. pg.header[o] = Header(source, l, i)
            BY <2>1, <2>3, <3>1, <3>3, ImageHeader DEF HasHeader
        <3>6. pg.header[o].time = x \div MSEC
            BY <2>1, <2>2, <3>1, <3>2, <3>5, HeaderKeepsTime
        <3> QED
            BY <3>4, <3>6
    <2>7. ASSUME NEW l \in Layers, NEW x \in Range(source[l]) PROVE x \div MSEC \in Nat
        <3>1. x \in Nat /\ MSEC \in Nat \ {0}
            BY <2>1, RecordSeconds, FieldsAssumption
        <3> QED
            BY <3>1, DivMod
    <2> DEFINE Seconds(layers) == {t \div MSEC : t \in UNION {Range(source[l]) : l \in layers}}
    <2>8. \A l \in Layers : \A x \in Range(source[l]) : x \div MSEC \in Seconds(Layers)
        OBVIOUS
    <2>9. ASSUME NEW s \in Seconds(AntpLayers) PROVE \E o \in F : pg.header[o].time = s
        <3>1. PICK l \in AntpLayers : \E x \in Range(source[l]) : s = x \div MSEC
            OBVIOUS
        <3> QED
            BY <2>6, <3>1
    <2>10. Seconds(AntpLayers) \subseteq Nat
        BY <2>7 DEF Layers
    <2> HIDE DEF Seconds
    <2>11. ASSUME NEW epoch_s \in Epochs, NEW epoch_e \in Epochs
           PROVE  /\ search(page, epoch_s, epoch_e) \subseteq Seconds(Layers) \cap (epoch_s .. epoch_e)
                  /\ (Seconds(AntpLayers) \cap (epoch_s .. epoch_e)) \ {0}
                        \subseteq search(page, epoch_s, epoch_e)
        <3>1. epoch_s \in Nat /\ epoch_e \in Nat
            BY CodecEnvironment
        <3>2. search(page, epoch_s, epoch_e) =
                {s \in {pg.header[o].time : o \in F} : s # 0 /\ s >= epoch_s /\ s <= epoch_e}
            BY <2>3, <2>4 DEF search
        <3>3. ASSUME NEW s \in search(page, epoch_s, epoch_e)
              PROVE  s \in Seconds(Layers) /\ s \in epoch_s .. epoch_e
            <4>1. PICK o \in F : s = pg.header[o].time
                BY <3>2
            <4>2. PICK l \in Layers : \E x \in Range(source[l]) : s = x \div MSEC
                BY <2>5, <4>1
            <4>3. s \in Nat /\ s \in Seconds(Layers)
                BY <2>7, <2>8, <4>2
            <4>4. s >= epoch_s /\ s <= epoch_e
                BY <3>2
            <4> QED
                BY <3>1, <4>3, <4>4
        <3>4. ASSUME NEW s \in Seconds(AntpLayers), s \in epoch_s .. epoch_e, s # 0
              PROVE  s \in search(page, epoch_s, epoch_e)
            <4>1. PICK o \in F : pg.header[o].time = s
                BY <2>9
            <4>2. s >= epoch_s /\ s <= epoch_e
                BY <3>1, <3>4
            <4> QED
                BY <3>2, <3>4, <4>1, <4>2
        <3> QED
            BY <3>3, <3>4
    <2> QED
        BY <2>11 DEF SearchFindsAnt, Seconds
<1>2. CodecInv => ((now \div MSEC < UINT32) => SearchFindsAnt)
    BY <1>1
<1> QED
    BY <1>2, CodecInvariant, PTL
=============================================================================
