---------------------------- MODULE MxfsLogProofs ----------------------------
(***************************************************************************)
(* The log on flash for every geometry, all sizes and any number of        *)
(* mounts, wraps and losses of power: what holds of it however driver and  *)
(* power fail, and what holds as long as the driver does what it is asked  *)
(* to and power fails between two operations of the device.                *)
(***************************************************************************)
EXTENDS MxfsLog, MxfsDefProofs, WellFoundedInduction

Cells == [st : {"erased", "data", "torn", "overwritten"}, magic : BOOLEAN, time : Nat,
          recs : SUBSET Record]

FlashTypes == [Blocks -> [Pages -> Cells]]

\* The inductive form of TypeOK.
Types ==
    /\ mounted \in BOOLEAN
    /\ buffer \in [Layers -> Seq(Nat)]
    /\ current_block \in DataBlocks /\ current_page \in Pages
    /\ invalid \in [Blocks -> BOOLEAN]
    /\ pages \in [Blocks -> [Pages -> SUBSET Layers]]
    /\ flash \in FlashTypes
    /\ ret \in {"OK", "ERR", "NEED_MORE_BUFFER"} /\ work_len \in Nat
    /\ now \in Nat /\ boots \in Nat
    /\ owed \in SUBSET Record

-----------------------------------------------------------------------------
(* Facts about the operators *)

LEMMA TypesAreTypeOK == Types => TypeOK
    BY DEF Types, TypeOK, FlashTypes, Cells

LEMMA Geometry ==
    /\ DataBlocks \subseteq Blocks /\ Blocks \subseteq Nat /\ Pages \subseteq Nat
    /\ BLOCK_START_DATA_AREA \in DataBlocks /\ 0 \in Pages
    BY GeometryAssumption DEF DataBlocks, Blocks, Pages

\* A set of block numbers that is not empty has a least element.
LEMMA LeastBlock ==
    ASSUME NEW S, S \subseteq Nat, S # {}
    PROVE  \E b \in S : \A c \in S : b <= c
<1>1. PICK b \in S : \A c \in S : ~ (<<c, b>> \in OpToRel(<, Nat))
    BY NatLessThanWellFounded, WFMin
<1>2. \A c \in S : ~ (c < b)
    BY <1>1 DEF OpToRel
<1> QED
    BY <1>2

\* mount starts at a block of the data area: on Linux at its first block, else at
\* the first free block, if there is one.
LEMMA MountPosition ==
    ASSUME NEW used \in [DataBlocks -> BOOLEAN], NEW time \in [DataBlocks -> Nat]
    PROVE  /\ FindCurrent(used, time) \in DataBlocks
           /\ (~ LINUX /\ \E b \in DataBlocks : ~ used[b]) =>
                /\ ~ used[FindCurrent(used, time)]
                /\ \A b \in DataBlocks : ~ used[b] => FindCurrent(used, time) <= b
<1> DEFINE free == {b \in DataBlocks : ~ used[b]}
           latest == {b \in DataBlocks : time[b] > 0 /\ \A c \in DataBlocks : time[c] <= time[b]}
           first(S) == CHOOSE b \in S : \A c \in S : b <= c
<1>1. ASSUME NEW S \in SUBSET DataBlocks, S # {}
      PROVE  first(S) \in S /\ \A c \in S : first(S) <= c
    <2>1. \E b \in S : \A c \in S : b <= c
        BY <1>1, LeastBlock, Geometry
    <2> QED
        BY <2>1
<1>2. free \in SUBSET DataBlocks /\ latest \in SUBSET DataBlocks
    OBVIOUS
<1>3. FindCurrent(used, time) =
        CASE LINUX -> BLOCK_START_DATA_AREA
          [] ~ LINUX /\ free # {} -> first(free)
          [] ~ LINUX /\ free = {} /\ latest # {} -> first(latest)
          [] OTHER -> BLOCK_START_DATA_AREA
    BY DEF FindCurrent
<1>4. first(free) \in free \/ free = {}
    BY <1>1, <1>2
<1>5. first(latest) \in latest \/ latest = {}
    BY <1>1, <1>2
<1>6. free # {} => \A c \in free : first(free) <= c
    BY <1>1, <1>2
<1>7. /\ free # {} /\ ~ LINUX => FindCurrent(used, time) = first(free)
      /\ LINUX => FindCurrent(used, time) = BLOCK_START_DATA_AREA
      /\ ~ LINUX /\ free = {} /\ latest # {} => FindCurrent(used, time) = first(latest)
      /\ ~ LINUX /\ free = {} /\ latest = {} => FindCurrent(used, time) = BLOCK_START_DATA_AREA
    BY <1>3, GeometryAssumption
<1> HIDE DEF first
<1> QED
    BY <1>4, <1>5, <1>6, <1>7, Geometry, GeometryAssumption

\* The next position is in the data area; a new block is entered at its first page.
LEMMA NextPositionFacts ==
    ASSUME NEW b \in DataBlocks, NEW p \in Pages
    PROVE  /\ NextPosition(b, p)[1] \in DataBlocks /\ NextPosition(b, p)[2] \in Pages
           /\ p + 1 < PAGE_COUNT => NextPosition(b, p) = <<b, p + 1>>
           /\ ~ (p + 1 < PAGE_COUNT) =>
                /\ NextPosition(b, p)[2] = 0
                /\ NextPosition(b, p)[1] = IF b + 1 < BLOCK_COUNT THEN b + 1 ELSE BLOCK_START_DATA_AREA
    BY GeometryAssumption DEF NextPosition, DataBlocks, Pages

\* What is staged, by layer.
LEMMA StagedFacts ==
    ASSUME Types
    PROVE  /\ StagedRecords \in SUBSET Record
           /\ {r[1] : r \in StagedRecords} = FlaggedLayers
           /\ mxfs_count \in [Layers -> Nat]
           /\ NothingStaged(mxfs_count) <=> FlaggedLayers = {}
           /\ NothingStaged(mxfs_count) => StagedRecords = {}
<1>1. \A l \in Layers : buffer[l] \in Seq(Nat) /\ Len(buffer[l]) \in Nat
    BY DEF Types
<1>2. \A l \in Layers : \A i \in DOMAIN buffer[l] : buffer[l][i] \in Nat
    BY <1>1
<1>3. \A l \in Layers : buffer[l] # <<>> <=> Len(buffer[l]) # 0
    BY <1>1
<1>4. \A l \in Layers : buffer[l] # <<>> <=> 1 \in DOMAIN buffer[l]
    BY <1>1
<1>5. \A l \in Layers : buffer[l] = <<>> => ~ \E i \in DOMAIN buffer[l] : TRUE
    OBVIOUS
<1>6. mxfs_count \in [Layers -> Nat] /\ \A l \in Layers : mxfs_count[l] = Len(buffer[l])
    BY <1>1 DEF mxfs_count
<1>7. StagedRecords \in SUBSET Record
    BY <1>2 DEF StagedRecords, Record
<1>8. \A r : r \in StagedRecords <=> \E l \in Layers : \E i \in DOMAIN buffer[l] : r = <<l, buffer[l][i]>>
    BY DEF StagedRecords
<1>9. {r[1] : r \in StagedRecords} = FlaggedLayers
    <2>1. ASSUME NEW r \in StagedRecords PROVE r[1] \in FlaggedLayers
        BY <1>5, <1>8 DEF FlaggedLayers
    <2>2. ASSUME NEW l \in FlaggedLayers PROVE \E r \in StagedRecords : r[1] = l
        <3>1. <<l, buffer[l][1]>> \in StagedRecords
            BY <1>4, <1>8 DEF FlaggedLayers
        <3> QED
            BY <3>1
    <2> QED
        BY <2>1, <2>2
<1>10. NothingStaged(mxfs_count) <=> FlaggedLayers = {}
    BY <1>3, <1>6 DEF NothingStaged, FlaggedLayers
<1> QED
    BY <1>6, <1>7, <1>9, <1>10

\* The page image of something staged.
LEMMA ImageFacts ==
    ASSUME Types, ~ NothingStaged(mxfs_count)
    PROVE  /\ Image \in Cells
           /\ Image.st = "data" /\ Image.magic /\ Image.recs = StagedRecords
           /\ \A readable \in BOOLEAN :
                Torn(Image, readable) \in Cells /\ Torn(Image, readable).st = "torn"
<1> DEFINE full(i) == buffer[LayerOrder[i]] # <<>>
           first == CHOOSE i \in DOMAIN LayerOrder :
                      full(i) /\ \A j \in 1 .. i - 1 : buffer[LayerOrder[j]] = <<>>
<1>1. PICK l \in Layers : buffer[l] # <<>>
    BY StagedFacts DEF FlaggedLayers
<1>2. /\ LayerOrder[1] = "speed" /\ LayerOrder[2] = "power" /\ LayerOrder[3] = "cadence"
      /\ LayerOrder[4] = "gyro" /\ LayerOrder[5] = "accelerometer" /\ LayerOrder[6] = "temperature"
      /\ DOMAIN LayerOrder = 1 .. 6
    BY DEF LayerOrder
<1>3. full(1) \/ full(2) \/ full(3) \/ full(4) \/ full(5) \/ full(6)
    BY <1>1, <1>2 DEF Layers, AntpLayers, Dim3Layers
<1>4. \E i \in 1 .. 6 : full(i) /\ \A j \in 1 .. i - 1 : ~ full(j)
    <2> HIDE DEF full
    <2> QED
        BY <1>3
<1>5. first \in 1 .. 6 /\ buffer[LayerOrder[first]] # <<>>
    BY <1>2, <1>4
<1>6. \A i \in 1 .. 6 : LayerOrder[i] \in Layers
    BY <1>2 DEF Layers, AntpLayers, Dim3Layers
<1>7. Head(buffer[LayerOrder[first]]) \in Nat
    <2>1. buffer[LayerOrder[first]] \in Seq(Nat)
        BY <1>5, <1>6 DEF Types
    <2> HIDE DEF first
    <2> QED
        BY <1>5, <2>1
<1>8. Head(buffer[LayerOrder[first]]) \div MSEC \in Nat
    <2> HIDE DEF first
    <2> QED
        BY <1>7, GeometryAssumption
<1>9. Image = [st |-> "data", magic |-> TRUE,
               time |-> Head(buffer[LayerOrder[first]]) \div MSEC, recs |-> StagedRecords]
    BY DEF Image
<1> HIDE DEF first
<1>10. Image \in Cells /\ Image.st = "data" /\ Image.magic /\ Image.recs = StagedRecords
    BY <1>8, <1>9, StagedFacts DEF Cells
<1> QED
    BY <1>10 DEF Torn, Cells

LEMMA ErasedIsCell == Erased \in Cells /\ Erased.st = "erased" /\ ~ Erased.magic /\ Erased.recs = {}
    BY DEF Erased, Cells

\* What programming a page changes.
LEMMA ProgramFacts ==
    ASSUME NEW f \in FlashTypes, NEW b \in Blocks, NEW p \in Pages, NEW image \in Cells
    PROVE  /\ Program(f, b, p, image) \in FlashTypes
           /\ f[b][p].st = "erased" => Program(f, b, p, image)[b][p] = image
           /\ f[b][p].st # "erased" => Program(f, b, p, image)[b][p].st = "overwritten"
           /\ \A c \in Blocks, q \in Pages : (c # b \/ q # p) => Program(f, b, p, image)[c][q] = f[c][q]
<1> DEFINE cell == IF f[b][p].st = "erased" THEN image ELSE [f[b][p] EXCEPT !.st = "overwritten"]
<1>1. Program(f, b, p, image) = [f EXCEPT ![b] = [f[b] EXCEPT ![p] = cell]]
    BY DEF Program, FlashTypes
<1>2. f[b][p] \in Cells
    BY DEF FlashTypes
<1>3. cell \in Cells /\ (f[b][p].st # "erased" => cell.st = "overwritten")
    BY <1>2 DEF Cells
<1>4. f[b][p].st = "erased" => cell = image
    OBVIOUS
<1> HIDE DEF cell
<1> QED
    BY <1>1, <1>3, <1>4 DEF FlashTypes

\* What an erase changes.
LEMMA EraseFacts ==
    ASSUME NEW f \in FlashTypes, NEW b \in Blocks
    PROVE  /\ [f EXCEPT ![b] = ErasedBlock] \in FlashTypes
           /\ \A q \in Pages : [f EXCEPT ![b] = ErasedBlock][b][q] = Erased
           /\ \A c \in Blocks : c # b => [f EXCEPT ![b] = ErasedBlock][c] = f[c]
    BY ErasedIsCell DEF ErasedBlock, FlashTypes

LEMMA AfterEraseFacts ==
    ASSUME Types
    PROVE  /\ AfterErase \in FlashTypes /\ current_block \in Blocks
           /\ ~ Recycles => AfterErase = flash
           /\ Recycles => \A q \in Pages : AfterErase[current_block][q] = Erased
           /\ \A c \in Blocks : c # current_block => AfterErase[c] = flash[c]
<1>1. flash \in FlashTypes /\ current_block \in Blocks
    BY Geometry DEF Types
<1> QED
    BY <1>1, EraseFacts DEF AfterErase

\* How a write back can end: the page is written, torn or merged into what was
\* there, or the driver gave up before or after the erase.
WriteBackEnds ==
    \/ \E erased \in {flash, AfterErase}, image \in {Image, Torn(Image, TRUE), Torn(Image, FALSE)} :
            WriteBackDone(erased, image)
    \/ /\ flash' \in {flash, AfterErase}
       /\ invalid' = [invalid EXCEPT ![current_block] = FALSE]
       /\ UNCHANGED <<pages, current_block, current_page>>

LEMMA WriteBackCases ==
    ASSUME NEW result, NEW acked, WriteBack(result, acked)
    PROVE  WriteBackEnds /\ owed' \subseteq owed \cup acked /\ work_len' = PageLength(mxfs_count)
<1>1. OwedAfterErase \subseteq owed
    BY DEF OwedAfterErase
<1>2. CASE result = "OK" /\ WriteBackDone(AfterErase, Image) /\ owed' = OwedAfterErase \cup acked
    BY <1>1, <1>2 DEF WriteBack, WriteBackEnds
<1>3. CASE /\ \/ \E readable \in BOOLEAN : WriteBackDone(AfterErase, Torn(Image, readable))
              \/ Recycles /\ WriteBackDone(flash, Image)
           /\ owed' = (OwedAfterErase \ StagedRecords) \cup acked
    BY <1>1, <1>3 DEF WriteBack, WriteBackEnds
<1>4. CASE WriteBackEraseFails /\ owed' = owed \cup acked
    BY <1>4 DEF WriteBack, WriteBackEnds, WriteBackEraseFails
<1>5. CASE WriteBackWriteFails /\ owed' = OwedAfterErase \cup acked
    BY <1>1, <1>5 DEF WriteBack, WriteBackEnds, WriteBackWriteFails
<1> QED
    BY <1>2, <1>3, <1>4, <1>5 DEF WriteBack

\* What the end of a write back leaves, page by page.
LEMMA WriteBackPages ==
    ASSUME Types, NEW erased \in {flash, AfterErase}, NEW image \in Cells, WriteBackDone(erased, image)
    PROVE  /\ erased \in FlashTypes /\ flash' \in FlashTypes /\ current_block \in Blocks
           /\ erased[current_block][current_page].st = "erased" =>
                flash'[current_block][current_page] = image
           /\ erased[current_block][current_page].st # "erased" =>
                flash'[current_block][current_page].st = "overwritten"
           /\ \A c \in Blocks, q \in Pages :
                (c # current_block \/ q # current_page) => flash'[c][q] = erased[c][q]
           /\ current_block' \in DataBlocks /\ current_page' \in Pages
           /\ current_block' = NextPosition(current_block, current_page)[1]
           /\ current_page' = NextPosition(current_block, current_page)[2]
           /\ invalid' \in [Blocks -> BOOLEAN]
           /\ pages' \in [Blocks -> [Pages -> SUBSET Layers]]
           /\ pages'[current_block][current_page] = FlaggedLayers
           /\ \A c \in Blocks, q \in Pages :
                (c # current_block \/ q # current_page) => pages'[c][q] = pages[c][q]
           /\ \A c \in Blocks : invalid'[c] = IF c = current_block' /\ current_page' = 0 THEN TRUE
                                            ELSE IF c = current_block THEN FALSE ELSE invalid[c]
<1>1. erased \in FlashTypes /\ current_block \in Blocks
    BY AfterEraseFacts DEF Types
<1>2. flash' = Program(erased, current_block, current_page, image)
    BY DEF WriteBackDone
<1>3. /\ current_block' = NextPosition(current_block, current_page)[1]
      /\ current_page' = NextPosition(current_block, current_page)[2]
    BY DEF WriteBackDone
<1>4. current_block' \in DataBlocks /\ current_page' \in Pages /\ current_block' \in Blocks
    BY <1>3, NextPositionFacts, Geometry DEF Types
<1>5. FlaggedLayers \in SUBSET Layers
    BY DEF FlaggedLayers
<1>6. pages' = [pages EXCEPT ![current_block] = [pages[current_block] EXCEPT ![current_page] = FlaggedLayers]]
    BY DEF WriteBackDone, Types
<1>7. /\ pages' \in [Blocks -> [Pages -> SUBSET Layers]]
      /\ pages'[current_block][current_page] = FlaggedLayers
      /\ \A c \in Blocks, q \in Pages :
            (c # current_block \/ q # current_page) => pages'[c][q] = pages[c][q]
    BY <1>1, <1>5, <1>6 DEF Types
<1>8. invalid' = IF current_page' = 0
                 THEN [[invalid EXCEPT ![current_block] = FALSE] EXCEPT ![current_block'] = TRUE]
                 ELSE [invalid EXCEPT ![current_block] = FALSE]
    BY <1>3 DEF WriteBackDone
<1>9. invalid' \in [Blocks -> BOOLEAN]
      /\ \A c \in Blocks : invalid'[c] = IF c = current_block' /\ current_page' = 0 THEN TRUE
                                       ELSE IF c = current_block THEN FALSE ELSE invalid[c]
    BY <1>1, <1>4, <1>8 DEF Types
<1>10. current_page \in Pages
    BY DEF Types
<1>11. /\ flash' \in FlashTypes
       /\ erased[current_block][current_page].st = "erased" =>
            flash'[current_block][current_page] = image
       /\ erased[current_block][current_page].st # "erased" =>
            flash'[current_block][current_page].st = "overwritten"
       /\ \A c \in Blocks, q \in Pages :
            (c # current_block \/ q # current_page) => flash'[c][q] = erased[c][q]
    BY <1>1, <1>2, <1>10, ProgramFacts
<1> QED
    BY <1>1, <1>3, <1>4, <1>7, <1>9, <1>11

-----------------------------------------------------------------------------
(* Types *)

LEMMA InitialTypes == Init => Types
<1> SUFFICES ASSUME Init PROVE Types
    OBVIOUS
<1>1. flash \in FlashTypes
    BY ErasedIsCell DEF Init, ErasedBlock, FlashTypes
<1>2. buffer \in [Layers -> Seq(Nat)]
    BY DEF Init, NoRecords
<1>3. current_block \in DataBlocks /\ current_page \in Pages /\ now \in Nat
    BY Geometry, GeometryAssumption DEF Init
<1> QED
    BY <1>1, <1>2, <1>3 DEF Init, Types

LEMMA NoInstanceTypes ==
    NoInstance => /\ mounted' = FALSE /\ buffer' \in [Layers -> Seq(Nat)]
                  /\ current_block' \in DataBlocks /\ current_page' \in Pages
                  /\ invalid' \in [Blocks -> BOOLEAN]
                  /\ pages' \in [Blocks -> [Pages -> SUBSET Layers]]
    BY Geometry DEF NoInstance, NoRecords

\* A write back keeps the types of what it writes.
LEMMA WriteBackTypes ==
    ASSUME Types, ~ NothingStaged(mxfs_count), WriteBackEnds
    PROVE  /\ current_block' \in DataBlocks /\ current_page' \in Pages
           /\ invalid' \in [Blocks -> BOOLEAN]
           /\ pages' \in [Blocks -> [Pages -> SUBSET Layers]]
           /\ flash' \in FlashTypes
<1>1. ASSUME NEW erased \in {flash, AfterErase},
             NEW image \in {Image, Torn(Image, TRUE), Torn(Image, FALSE)},
             WriteBackDone(erased, image)
      PROVE  /\ current_block' \in DataBlocks /\ current_page' \in Pages
             /\ invalid' \in [Blocks -> BOOLEAN]
             /\ pages' \in [Blocks -> [Pages -> SUBSET Layers]]
             /\ flash' \in FlashTypes
    <2>1. image \in Cells
        BY ImageFacts
    <2> QED
        BY <1>1, <2>1, WriteBackPages
<1>2. CASE /\ flash' \in {flash, AfterErase}
           /\ invalid' = [invalid EXCEPT ![current_block] = FALSE]
           /\ UNCHANGED <<pages, current_block, current_page>>
    BY <1>2, AfterEraseFacts DEF Types
<1> QED
    BY <1>1, <1>2 DEF WriteBackEnds

\* Power lost in an erase or a program leaves pages.
LEMMA PowerLossTypes ==
    ASSUME Types, NEW point, PowerLoss(point)
    PROVE  flash' \in FlashTypes /\ owed' \in SUBSET Record
<1>1. owed' \in SUBSET Record
    BY DEF PowerLoss, OwedAfterErase, Types
<1>2. CASE flash' = flash \/ flash' = AfterErase
    BY <1>1, <1>2, AfterEraseFacts DEF Types
<1>3. ASSUME NEW readable \in BOOLEAN,
             flash' = [flash EXCEPT ![current_block] =
                        [p \in Pages |-> IF @[p].st = "erased" THEN @[p] ELSE Torn(@[p], readable)]]
      PROVE  flash' \in FlashTypes
    <2>1. \A c \in Cells : Torn(c, readable) \in Cells
        BY DEF Torn, Cells
    <2>2. \A p \in Pages : flash[current_block][p] \in Cells
        BY AfterEraseFacts DEF Types, FlashTypes
    <2> QED
        BY <1>3, <2>1, <2>2, AfterEraseFacts DEF Types, FlashTypes
<1>4. ASSUME ~ NothingStaged(mxfs_count), NEW readable \in BOOLEAN,
             flash' = Program(AfterErase, current_block, current_page, Torn(Image, readable))
      PROVE  flash' \in FlashTypes
    BY <1>4, AfterEraseFacts, ImageFacts, ProgramFacts DEF Types
<1> QED
    BY <1>1, <1>2, <1>3, <1>4 DEF PowerLoss

LEMMA TypesStep == Types /\ [Next]_vars => Types'
<1> SUFFICES ASSUME Types, [Next]_vars PROVE Types'
    OBVIOUS
<1>0. /\ NoRecords \in [Layers -> Seq(Nat)]
      /\ \A l \in Layers, n \in Nat : [NoRecords EXCEPT ![l] = <<n>>] \in [Layers -> Seq(Nat)]
      /\ \A l \in Sensors : l \in Layers
      /\ \A n \in Nat : n + 1 \in Nat
    <2>1. \A n \in Nat : <<n>> \in Seq(Nat)
        OBVIOUS
    <2>2. NoRecords \in [Layers -> Seq(Nat)]
        BY DEF NoRecords
    <2>3. \A l \in Layers, n \in Nat : [NoRecords EXCEPT ![l] = <<n>>] \in [Layers -> Seq(Nat)]
        BY <2>1, <2>2
    <2> QED
        BY <2>2, <2>3, EnvironmentAssumption
<1>1. ASSUME NEW unreadable, Mount(unreadable) PROVE Types'
    <2> DEFINE used == [b \in DataBlocks |-> b \in unreadable \/ flash[b][0].magic]
               time == [b \in DataBlocks |-> IF b \in unreadable THEN 0 ELSE flash[b][0].time]
    <2>1. \A b \in DataBlocks : b \in Blocks /\ flash[b][0] \in Cells
        BY Geometry DEF Types, FlashTypes
    <2>2. used \in [DataBlocks -> BOOLEAN] /\ time \in [DataBlocks -> Nat]
        BY <2>1 DEF Cells
    <2>3. current_block' = FindCurrent(used, time)
        BY <1>1 DEF Mount
    <2>4. current_block' \in DataBlocks
        BY <2>2, <2>3, MountPosition
    <2>5. invalid' \in [Blocks -> BOOLEAN] /\ pages' \in [Blocks -> [Pages -> SUBSET Layers]]
        BY <1>1 DEF Mount
    <2> QED
        BY <1>0, <1>1, <2>4, <2>5, Geometry DEF Mount, Types
<1>2. CASE Release
    BY <1>2, NoInstanceTypes DEF Release, Types
<1>3. ASSUME NEW layer \in Sensors, AppendFits(layer) PROVE Types'
    <2>1. [buffer EXCEPT ![layer] = Append(@, now)] \in [Layers -> Seq(Nat)]
        BY <1>0 DEF Types
    <2>2. buffer' \in [Layers -> Seq(Nat)]
        BY <1>3, <2>1 DEF AppendFits, Types
    <2>3. <<layer, now>> \in Record
        BY <1>0 DEF Types, Record
    <2>4. owed' \in SUBSET Record
        BY <1>3, <2>3 DEF AppendFits, Types
    <2> QED
        BY <1>0, <1>3, <2>2, <2>4 DEF AppendFits, Types
<1>4. ASSUME NEW layer \in Sensors, AppendFlushes(layer) PROVE Types'
    <2>1. ~ NothingStaged(mxfs_count)
        BY <1>0, <1>4, MustFlushSomething DEF AppendFlushes
    <2>2. <<layer, now>> \in Record
        BY <1>0 DEF Types, Record
    <2>3. WriteBackEnds /\ owed' \in SUBSET Record /\ work_len' = PageLength(mxfs_count)
        <3>1. PICK result \in DriverResults : WriteBack(result, {<<layer, now>>})
            BY <1>4 DEF AppendFlushes
        <3>2. /\ WriteBackEnds /\ owed' \subseteq owed \cup {<<layer, now>>}
              /\ work_len' = PageLength(mxfs_count)
            BY <3>1, WriteBackCases
        <3> QED
            BY <2>2, <3>2 DEF Types
    <2>4. work_len' \in Nat
        BY <2>3, StagedFacts, PageLengthType
    <2> QED
        BY <1>0, <1>4, <2>1, <2>3, <2>4, WriteBackTypes DEF AppendFlushes, Types
<1>5. CASE FlushNothing \/ Refuse
    BY <1>5 DEF FlushNothing, Refuse, ram, Types
<1>6. ASSUME NEW result \in DriverResults, Flush(result) PROVE Types'
    <2>1. WriteBackEnds /\ owed' \in SUBSET Record /\ work_len' = PageLength(mxfs_count)
        BY <1>6, WriteBackCases DEF Flush, Types
    <2>2. work_len' \in Nat
        BY <2>1, StagedFacts, PageLengthType
    <2>3. Returned(result) \in {"OK", "ERR"}
        BY EnvironmentAssumption DEF Returned
    <2> QED
        BY <1>0, <1>6, <2>1, <2>2, <2>3, WriteBackTypes DEF Flush, Types
<1>7. ASSUME NEW b \in EraseBlocks, NEW result \in DriverResults, Erase(b, result) PROVE Types'
    <2>1. Returned(result) \in {"OK", "ERR"} /\ b \in Blocks
        BY EnvironmentAssumption DEF Returned
    <2>2. flash' = [flash EXCEPT ![b] = ErasedBlock] \/ flash' = flash
        BY <1>7 DEF Erase
    <2>3. flash' \in FlashTypes
        <3>1. flash \in FlashTypes
            BY DEF Types
        <3>2. [flash EXCEPT ![b] = ErasedBlock] \in FlashTypes
            BY <2>1, <3>1, EraseFacts
        <3> QED
            BY <2>2, <3>1, <3>2
    <2>4. owed' \in SUBSET Record
        BY <1>7 DEF Erase, Types
    <2> QED
        BY <1>7, <2>1, <2>3, <2>4 DEF Erase, ram, Types
<1>8. ASSUME NEW b \in WriteBlocks, NEW p \in WritePages, NEW result \in DriverResults,
             NEW time \in {0, MaxTime}, Write(b, p, result, time)
      PROVE  Types'
    <2> DEFINE image == [st |-> "data", magic |-> TRUE, time |-> time, recs |-> {}]
    <2>1. Returned(result) \in {"OK", "ERR"} /\ b \in Blocks /\ p \in Pages
        BY EnvironmentAssumption DEF Returned
    <2>2. image \in Cells /\ \A readable \in BOOLEAN : Torn(image, readable) \in Cells
        BY GeometryAssumption DEF Cells, Torn
    <2>3. \/ flash' = Program(flash, b, p, image)
          \/ UNCHANGED flash
          \/ \E readable \in BOOLEAN : flash' = Program(flash, b, p, Torn(image, readable))
        BY <1>8 DEF Write
    <2> HIDE DEF image
    <2>4. flash' \in FlashTypes
        BY <2>1, <2>2, <2>3, ProgramFacts DEF Types
    <2> QED
        BY <1>8, <2>1, <2>4 DEF Write, ram, Types
<1>9. ASSUME NEW point \in PowerLossPoints, PowerLoss(point) PROVE Types'
    BY <1>9, NoInstanceTypes, PowerLossTypes DEF PowerLoss, Types
<1>10. CASE UNCHANGED vars
    BY <1>10 DEF vars, ram, Types
<1> QED
    BY <1>1, <1>2, <1>3, <1>4, <1>5, <1>6, <1>7, <1>8, <1>9, <1>10 DEF Next

LEMMA TypesInvariant == Spec => []Types
    BY InitialTypes, TypesStep, PTL DEF Spec

\* Whatever drivers and power do, the position of the next page stays in the data
\* area, and the state of an instance and of the flash keeps its type: for every
\* geometry, all record sizes and any number of mounts.
THEOREM PositionStaysInside == Spec => []TypeOK
    BY TypesInvariant, TypesAreTypeOK, PTL

-----------------------------------------------------------------------------
(* Chronology *)

\* mxfs_erase is not used on the data area.
NoEraseInData == EraseBlocks \cap DataBlocks = {}

\* Whether a page holds intact records.
Holds(b, p) == flash[b][p].st = "data" /\ flash[b][p].recs # {}

\* What is on the flash is older than what is staged, and that is older than
\* the next record.  A page with records has no erased page before it, so that
\* the next free page of a block lies behind all its records.
ChronInv ==
    /\ \A s \in StagedRecords : s[2] < now
    /\ \A b \in DataBlocks, p \in Pages : Holds(b, p) =>
          /\ \A r \in flash[b][p].recs : r[2] < now /\ \A s \in StagedRecords : r[2] < s[2]
          /\ \A q \in Pages : q < p => flash[b][q].st # "erased"
    /\ mounted => \A q \in Pages : q < current_page => flash[current_block][q].st # "erased"
    /\ (mounted /\ invalid[current_block]) => current_page = 0
    /\ BlockIsChronological

\* What is staged after an append, and after the buffers have been emptied.
LEMMA StagedAfter ==
    ASSUME Types
    PROVE  /\ buffer' = NoRecords => StagedRecords' = {}
           /\ \A l \in Layers : buffer' = [NoRecords EXCEPT ![l] = <<now>>] =>
                StagedRecords' = {<<l, now>>}
           /\ \A l \in Layers : buffer' = [buffer EXCEPT ![l] = Append(@, now)] =>
                StagedRecords' = StagedRecords \cup {<<l, now>>}
           /\ buffer' = buffer => StagedRecords' = StagedRecords
<1>1. \A r : r \in StagedRecords <=> \E l \in Layers : \E i \in DOMAIN buffer[l] : r = <<l, buffer[l][i]>>
    BY DEF StagedRecords
<1>2. \A r : r \in StagedRecords' <=> \E l \in Layers : \E i \in DOMAIN buffer'[l] : r = <<l, buffer'[l][i]>>
    BY DEF StagedRecords
<1>3. ~ \E i \in DOMAIN <<>> : TRUE
    OBVIOUS
<1>4. ASSUME buffer' = NoRecords PROVE StagedRecords' = {}
    <2>1. \A l \in Layers : buffer'[l] = <<>>
        BY <1>4 DEF NoRecords
    <2> QED
        BY <1>2, <1>3, <2>1
<1>5. ASSUME NEW l \in Layers, buffer' = [NoRecords EXCEPT ![l] = <<now>>]
      PROVE  StagedRecords' = {<<l, now>>}
    <2>1. buffer'[l] = <<now>> /\ \A k \in Layers : k # l => buffer'[k] = <<>>
        BY <1>5 DEF NoRecords
    <2>2. DOMAIN <<now>> = {1} /\ <<now>>[1] = now
        OBVIOUS
    <2>3. \A r : r \in StagedRecords' <=> r = <<l, now>>
        BY <1>2, <1>3, <2>1, <2>2
    <2> QED
        BY <2>3
<1>6. ASSUME NEW l \in Layers, buffer' = [buffer EXCEPT ![l] = Append(@, now)]
      PROVE  StagedRecords' = StagedRecords \cup {<<l, now>>}
    <2> DEFINE n == Len(buffer[l])
    <2>1. /\ buffer'[l] = Append(buffer[l], now) /\ buffer[l] \in Seq(Nat) /\ n \in Nat
          /\ \A k \in Layers : k # l => buffer'[k] = buffer[k]
        BY <1>6 DEF Types
    <2>2. /\ DOMAIN buffer[l] = 1 .. n /\ DOMAIN buffer'[l] = 1 .. n + 1
          /\ buffer'[l][n + 1] = now
          /\ \A i \in 1 .. n : buffer'[l][i] = buffer[l][i]
        BY <2>1 DEF Types
    <2>3. \A i : i \in 1 .. n + 1 <=> i \in 1 .. n \/ i = n + 1
        BY <2>1
    <2> HIDE DEF n
    <2>4. ASSUME NEW r \in StagedRecords' PROVE r \in StagedRecords \cup {<<l, now>>}
        <3>1. PICK k \in Layers : \E i \in DOMAIN buffer'[k] : r = <<k, buffer'[k][i]>>
            BY <1>2
        <3>2. CASE k # l
            BY <1>1, <2>1, <3>1, <3>2
        <3>3. CASE k = l
            BY <1>1, <2>2, <2>3, <3>1, <3>3
        <3> QED
            BY <3>2, <3>3
    <2>5. ASSUME NEW r \in StagedRecords PROVE r \in StagedRecords'
        <3>1. PICK k \in Layers : \E i \in DOMAIN buffer[k] : r = <<k, buffer[k][i]>>
            BY <1>1
        <3>2. CASE k # l
            BY <1>2, <2>1, <3>1, <3>2
        <3>3. CASE k = l
            BY <1>2, <2>2, <2>3, <3>1, <3>3
        <3> QED
            BY <3>2, <3>3
    <2>6. <<l, now>> \in StagedRecords'
        BY <1>2, <2>2, <2>3
    <2> QED
        BY <2>4, <2>5, <2>6
<1> QED
    BY <1>4, <1>5, <1>6 DEF StagedRecords

\* No record is added to block b, and an erased page is an old one or the whole
\* block has lost its records.
Fades(b) ==
    \/ \A p \in Pages : ~ Holds(b, p)'
    \/ \A p \in Pages :
          /\ Holds(b, p)' => Holds(b, p) /\ flash'[b][p].recs = flash[b][p].recs
          /\ flash'[b][p].st = "erased" => flash[b][p].st = "erased"

\* The part of ChronInv that is about the flash, for one block.
ChronBlock(b) ==
    /\ \A p \in Pages : Holds(b, p) =>
          /\ \A r \in flash[b][p].recs : r[2] < now /\ \A s \in StagedRecords : r[2] < s[2]
          /\ \A q \in Pages : q < p => flash[b][q].st # "erased"
    /\ \A p, q \in Pages : (p < q /\ Holds(b, p) /\ Holds(b, q)) =>
          \A r \in flash[b][p].recs, s \in flash[b][q].recs : r[2] < s[2]

LEMMA ChronBlocks ==
    ChronInv <=> /\ \A s \in StagedRecords : s[2] < now
                 /\ \A b \in DataBlocks : ChronBlock(b)
                 /\ mounted => \A q \in Pages : q < current_page => flash[current_block][q].st # "erased"
                 /\ (mounted /\ invalid[current_block]) => current_page = 0
    BY DEF ChronInv, ChronBlock, BlockIsChronological, Holds

\* Whatever is staged after a step was staged before or is the new record.
Appends == /\ now' \in {now, now + 1}
           /\ \A s \in StagedRecords' : s \in StagedRecords \/ s[2] = now

LEMMA FadingKeepsOrder ==
    ASSUME Types, Appends, NEW b \in DataBlocks, ChronBlock(b), Fades(b)
    PROVE  ChronBlock(b)'
<1>1. CASE \A p \in Pages : ~ Holds(b, p)'
    BY <1>1 DEF ChronBlock
<1>2. CASE \A p \in Pages :
              /\ Holds(b, p)' => Holds(b, p) /\ flash'[b][p].recs = flash[b][p].recs
              /\ flash'[b][p].st = "erased" => flash[b][p].st = "erased"
    <2>1. \A p \in Pages : \A r \in flash[b][p].recs : r[2] \in Nat
        BY Geometry DEF Types, FlashTypes, Cells, Record
    <2>2. ASSUME NEW p \in Pages, Holds(b, p)'
          PROVE  /\ \A r \in flash'[b][p].recs : r[2] < now' /\ \A s \in StagedRecords' : r[2] < s[2]
                 /\ \A q \in Pages : q < p => flash'[b][q].st # "erased"
        <3>1. Holds(b, p) /\ flash'[b][p].recs = flash[b][p].recs
            BY <1>2, <2>2
        <3>2. \A r \in flash[b][p].recs : r[2] < now /\ \A s \in StagedRecords : r[2] < s[2]
            BY <3>1 DEF ChronBlock
        <3>3. \A r \in flash[b][p].recs : r[2] < now'
            BY <2>1, <3>2 DEF Appends, Types
        <3>4. \A r \in flash[b][p].recs : \A s \in StagedRecords' : r[2] < s[2]
            BY <3>2 DEF Appends
        <3>5. \A q \in Pages : q < p => flash'[b][q].st # "erased"
            BY <1>2, <3>1 DEF ChronBlock
        <3> QED
            BY <3>1, <3>3, <3>4, <3>5
    <2>3. ASSUME NEW p \in Pages, NEW q \in Pages, p < q, Holds(b, p)', Holds(b, q)'
          PROVE  \A r \in flash'[b][p].recs, s \in flash'[b][q].recs : r[2] < s[2]
        BY <1>2, <2>3 DEF ChronBlock
    <2> QED
        BY <2>2, <2>3 DEF ChronBlock
<1> QED
    BY <1>1, <1>2 DEF Fades

\* Programming the staged records into the next page of a block, or tearing it.
LEMMA ProgramKeepsOrder ==
    ASSUME Types, ChronInv, mounted, ~ NothingStaged(mxfs_count), Appends,
           \A s \in StagedRecords' : s[2] = now,
           NEW erased \in {flash, AfterErase},
           NEW image \in {Image, Torn(Image, TRUE), Torn(Image, FALSE)},
           flash' = Program(erased, current_block, current_page, image)
    PROVE  /\ \A b \in DataBlocks : ChronBlock(b)'
           /\ flash'[current_block][current_page].st # "erased"
           /\ \A q \in Pages : q < current_page => flash'[current_block][q].st # "erased"
<1>0. PICK b \in DataBlocks, p \in Pages : b = current_block /\ p = current_page
    BY DEF Types
<1>1. /\ image \in Cells /\ image.st \in {"data", "torn"}
      /\ image.st = "data" => image.recs = StagedRecords
    BY ImageFacts
<1>2. b \in Blocks /\ b \in DataBlocks /\ p \in Pages /\ erased \in FlashTypes /\ flash \in FlashTypes
    BY <1>0, AfterEraseFacts, Geometry DEF Types
<1>3. /\ erased[b][p].st = "erased" => flash'[b][p] = image
      /\ erased[b][p].st # "erased" => flash'[b][p].st = "overwritten"
      /\ \A c \in Blocks, q \in Pages : (c # b \/ q # p) => flash'[c][q] = erased[c][q]
    BY <1>0, <1>1, <1>2, ProgramFacts
<1>4. /\ \A q \in Pages : q < p => flash[b][q].st # "erased"
      /\ Recycles => p = 0
    BY <1>0 DEF ChronInv, Recycles
<1>5. \A c \in DataBlocks : ChronBlock(c)
    BY ChronBlocks
<1>6. \/ erased = flash
      \/ Recycles /\ p = 0 /\ \A q \in Pages : erased[b][q] = Erased
    BY <1>0, <1>4, AfterEraseFacts
<1>7. \A c \in Blocks : c # b => erased[c] = flash[c]
    BY <1>0, AfterEraseFacts
<1>8. ASSUME NEW c \in DataBlocks, c # b PROVE ChronBlock(c)'
    <2>1. c \in Blocks
        BY Geometry
    <2>2. \A q \in Pages : flash'[c][q] = flash[c][q]
        BY <1>3, <1>7, <1>8, <2>1
    <2>3. Fades(c)
        BY <2>2 DEF Fades, Holds
    <2> QED
        BY <1>5, <2>3, FadingKeepsOrder
<1>9. flash'[b][p].st # "erased"
    BY <1>1, <1>3
<1>10. \A q \in Pages : q < p => flash'[b][q].st # "erased"
    <2>1. CASE erased = flash
        BY <1>2, <1>3, <1>4, <2>1, Geometry
    <2>2. CASE p = 0
        BY <2>2, Geometry
    <2> QED
        BY <1>6, <2>1, <2>2
<1>11. ASSUME ~ Holds(b, p)' PROVE ChronBlock(b)'
    <2>1. CASE erased = flash
        <3>1. Fades(b)
            BY <1>2, <1>3, <1>9, <1>11, <2>1 DEF Fades, Holds
        <3> QED
            BY <1>5, <3>1, FadingKeepsOrder
    <2>2. CASE \A q \in Pages : erased[b][q] = Erased
        <3>1. \A q \in Pages : q # p => ~ Holds(b, q)'
            BY <1>2, <1>3, <2>2, ErasedIsCell DEF Holds
        <3>2. Fades(b)
            BY <1>11, <3>1 DEF Fades
        <3> QED
            BY <1>5, <3>2, FadingKeepsOrder
    <2> QED
        BY <1>6, <2>1, <2>2
<1>12. ASSUME Holds(b, p)' PROVE ChronBlock(b)'
    <2>1. erased[b][p].st = "erased" /\ flash'[b][p].recs = StagedRecords
        BY <1>1, <1>3, <1>12 DEF Holds
    <2>2. ASSUME NEW q \in Pages, q # p, Holds(b, q)'
          PROVE  /\ q < p /\ Holds(b, q) /\ flash'[b][q].recs = flash[b][q].recs /\ erased = flash
        <3>1. flash'[b][q] = erased[b][q]
            BY <1>2, <1>3, <2>2
        <3>2. erased = flash
            BY <1>6, <2>2, <3>1, ErasedIsCell DEF Holds
        <3>3. Holds(b, q) /\ flash'[b][q].recs = flash[b][q].recs
            BY <2>2, <3>1, <3>2 DEF Holds
        <3>4. ~ (p < q)
            BY <1>2, <1>5, <2>1, <3>2, <3>3 DEF ChronBlock
        <3>5. q < p
            BY <2>2, <3>4, GeometryAssumption DEF Pages
        <3> QED
            BY <3>2, <3>3, <3>5
    <2>3. \A q \in Pages : \A r \in flash[b][q].recs : r[2] \in Nat
        BY <1>2 DEF FlashTypes, Cells, Record
    <2>4. \A s \in StagedRecords : s[2] \in Nat /\ s[2] < now
        BY StagedFacts DEF ChronInv, Record
    <2>5. \A q \in Pages : Holds(b, q)' => \A r \in flash'[b][q].recs : r[2] \in Nat /\ r[2] < now
        BY <1>2, <1>5, <2>1, <2>2, <2>3, <2>4 DEF ChronBlock
    <2>6. \A q \in Pages : Holds(b, q)' =>
            \A r \in flash'[b][q].recs : r[2] < now' /\ \A s \in StagedRecords' : r[2] < s[2]
        BY <2>5 DEF Appends, Types
    <2>7. ASSUME NEW q \in Pages, Holds(b, q)', NEW u \in Pages, u < q
          PROVE  flash'[b][u].st # "erased"
        <3>1. q = p \/ q < p
            BY <2>2, <2>7
        <3>2. u < p
            BY <1>2, <2>7, <3>1, Geometry
        <3> QED
            BY <1>10, <3>2
    <2>8. ASSUME NEW u \in Pages, NEW q \in Pages, u < q, Holds(b, u)', Holds(b, q)',
                 NEW r \in flash'[b][u].recs, NEW s \in flash'[b][q].recs
          PROVE  r[2] < s[2]
        <3>1. u # p
            BY <1>2, <2>2, <2>8, Geometry
        <3>2. Holds(b, u) /\ r \in flash[b][u].recs
            BY <2>2, <2>8, <3>1
        <3>3. CASE q = p
            BY <1>2, <1>5, <2>1, <2>8, <3>2, <3>3 DEF ChronBlock
        <3>4. CASE q # p
            BY <1>2, <1>5, <2>2, <2>8, <3>2, <3>4 DEF ChronBlock
        <3> QED
            BY <3>3, <3>4
    <2> QED
        BY <2>6, <2>7, <2>8 DEF ChronBlock
<1>13. \A c \in DataBlocks : ChronBlock(c)'
    BY <1>8, <1>11, <1>12
<1> QED
    BY <1>0, <1>9, <1>10, <1>13

\* A step that writes back the staged records keeps the order of a block's pages.
LEMMA WriteBackKeepsOrder ==
    ASSUME Types, ChronInv, mounted, mounted', ~ NothingStaged(mxfs_count), Appends,
           \A s \in StagedRecords' : s[2] = now /\ s[2] < now', WriteBackEnds
    PROVE  ChronInv'
<1>1. ASSUME NEW erased \in {flash, AfterErase},
             NEW image \in {Image, Torn(Image, TRUE), Torn(Image, FALSE)},
             WriteBackDone(erased, image)
      PROVE  ChronInv'
    <2>1. /\ \A b \in DataBlocks : ChronBlock(b)'
          /\ flash'[current_block][current_page].st # "erased"
          /\ \A q \in Pages : q < current_page => flash'[current_block][q].st # "erased"
        BY <1>1, ProgramKeepsOrder DEF WriteBackDone
    <2>2. image \in Cells
        BY ImageFacts
    <2>3. /\ current_block' = NextPosition(current_block, current_page)[1]
          /\ current_page' = NextPosition(current_block, current_page)[2]
          /\ current_block' \in Blocks
          /\ invalid'[current_block'] = IF current_page' = 0 THEN TRUE
                                        ELSE IF current_block' = current_block THEN FALSE
                                        ELSE invalid[current_block']
        BY <1>1, <2>2, WriteBackPages, Geometry
    <2>4. \/ current_block' = current_block /\ current_page' = current_page + 1
          \/ current_page' = 0
        BY <2>3, NextPositionFacts DEF Types
    <2>5. \A q \in Pages : q < current_page' => flash'[current_block'][q].st # "erased"
        <3>1. CASE current_page' = 0
            BY <3>1, GeometryAssumption DEF Pages
        <3>2. CASE current_block' = current_block /\ current_page' = current_page + 1
            <4>1. \A q \in Pages : q < current_page' => q < current_page \/ q = current_page
                BY <3>2, GeometryAssumption DEF Pages, Types
            <4> QED
                BY <2>1, <3>2, <4>1
        <3> QED
            BY <2>4, <3>1, <3>2
    <2>6. invalid'[current_block'] => current_page' = 0
        BY <2>3, <2>4
    <2> QED
        BY <2>1, <2>5, <2>6 DEF ChronInv, ChronBlock, BlockIsChronological, Holds
<1>2. ASSUME flash' \in {flash, AfterErase},
             invalid' = [invalid EXCEPT ![current_block] = FALSE],
             UNCHANGED <<pages, current_block, current_page>>
      PROVE  ChronInv'
    <2>1. ASSUME NEW b \in DataBlocks PROVE ChronBlock(b)'
        <3>1. b \in Blocks
            BY Geometry
        <3>2. flash'[b] = flash[b] \/ \A q \in Pages : flash'[b][q] = Erased
            BY <1>2, <3>1, AfterEraseFacts
        <3>3. Fades(b)
            BY <3>2, ErasedIsCell DEF Fades, Holds
        <3> QED
            BY <3>3, ChronBlocks, FadingKeepsOrder
    <2>2. \A q \in Pages : q < current_page => flash'[current_block][q].st # "erased"
        <3>1. CASE flash' = flash
            BY <3>1 DEF ChronInv
        <3>2. CASE flash' = AfterErase /\ Recycles
            BY <3>2, GeometryAssumption DEF ChronInv, Recycles, Pages
        <3> QED
            BY <1>2, <3>1, <3>2, AfterEraseFacts
    <2>3. ~ invalid'[current_block']
        BY <1>2, AfterEraseFacts DEF Types
    <2> QED
        BY <1>2, <2>1, <2>2, <2>3 DEF ChronInv, ChronBlock, BlockIsChronological, Holds
<1> QED
    BY <1>1, <1>2 DEF WriteBackEnds

LEMMA ChronStep == NoEraseInData /\ Types /\ ChronInv /\ [Next]_vars => ChronInv'
<1> SUFFICES ASSUME NoEraseInData, Types, ChronInv, [Next]_vars PROVE ChronInv'
    OBVIOUS
<1>0. /\ \A l \in Sensors : l \in Layers
      /\ now \in Nat /\ now + 1 \in Nat /\ now < now + 1
    BY EnvironmentAssumption DEF Types
\* A step that leaves the data area alone, or spoils pages of it.
<1>1. ASSUME Appends, \A b \in DataBlocks : Fades(b),
             \A s \in StagedRecords' : s[2] < now',
             \/ ~ mounted'
             \/ /\ mounted' /\ current_page' = 0
             \/ /\ UNCHANGED <<mounted, current_block, current_page, invalid>>
                /\ \A q \in Pages : flash'[current_block][q].st = "erased" =>
                                    flash[current_block][q].st = "erased"
      PROVE  ChronInv'
    <2>1. \A b \in DataBlocks : ChronBlock(b)'
        BY <1>1, ChronBlocks, FadingKeepsOrder
    <2>2. /\ mounted' => \A q \in Pages : q < current_page' => flash'[current_block'][q].st # "erased"
          /\ (mounted' /\ invalid'[current_block']) => current_page' = 0
        <3>1. \A q \in Pages : ~ (q < 0)
            BY GeometryAssumption DEF Pages
        <3> QED
            BY <1>1, <3>1 DEF ChronInv
    <2> QED
        BY <1>1, <2>1, <2>2 DEF ChronInv, ChronBlock, BlockIsChronological, Holds
<1>2. \A b \in DataBlocks : flash'[b] = flash[b] => Fades(b)
    BY DEF Fades, Holds
<1>3. now' = now /\ StagedRecords' \subseteq StagedRecords =>
        Appends /\ \A s \in StagedRecords' : s[2] < now'
    BY DEF Appends, ChronInv
<1>4. ASSUME NEW unreadable, Mount(unreadable) PROVE ChronInv'
    BY <1>1, <1>2, <1>3, <1>4, StagedAfter DEF Mount
<1>5. CASE Release
    BY <1>1, <1>2, <1>3, <1>5, StagedAfter DEF Release, NoInstance
<1>6. ASSUME NEW layer \in Sensors, AppendFits(layer) PROVE ChronInv'
    <2>1. StagedRecords' \subseteq StagedRecords \cup {<<layer, now>>}
        BY <1>0, <1>6, StagedAfter DEF AppendFits
    <2>2. /\ now' = now + 1
          /\ UNCHANGED <<flash, mounted, current_block, current_page, invalid>>
        BY <1>6 DEF AppendFits
    <2>3. Appends
        BY <2>1, <2>2 DEF Appends
    <2>4. \A s \in StagedRecords : s[2] \in Nat /\ s[2] < now
        BY StagedFacts DEF Record, ChronInv
    <2>5. \A s \in StagedRecords' : s[2] < now'
        BY <1>0, <2>1, <2>2, <2>4
    <2> QED
        BY <1>1, <1>2, <2>2, <2>3, <2>5
<1>7. ASSUME NEW layer \in Sensors, AppendFlushes(layer) PROVE ChronInv'
    <2>1. StagedRecords' = {<<layer, now>>} /\ now' = now + 1 /\ mounted /\ mounted'
        BY <1>0, <1>7, StagedAfter DEF AppendFlushes
    <2>2. ~ NothingStaged(mxfs_count)
        BY <1>0, <1>7, MustFlushSomething DEF AppendFlushes
    <2>3. WriteBackEnds
        BY <1>7, WriteBackCases DEF AppendFlushes
    <2>4. Appends /\ \A s \in StagedRecords' : s[2] = now /\ s[2] < now'
        BY <1>0, <2>1 DEF Appends
    <2> QED
        BY <2>1, <2>2, <2>3, <2>4, WriteBackKeepsOrder
<1>8. CASE FlushNothing \/ Refuse \/ UNCHANGED vars
    <2>1. UNCHANGED <<buffer, flash, now, mounted, current_block, current_page, invalid>>
        BY <1>8 DEF FlushNothing, Refuse, vars, ram
    <2> QED
        BY <1>1, <1>2, <1>3, <2>1, StagedAfter
<1>9. ASSUME NEW result \in DriverResults, Flush(result) PROVE ChronInv'
    <2>1. StagedRecords' = {} /\ now' = now /\ mounted /\ mounted'
        BY <1>9, StagedAfter DEF Flush
    <2>2. WriteBackEnds /\ ~ NothingStaged(mxfs_count)
        BY <1>9, WriteBackCases DEF Flush
    <2>3. Appends
        BY <2>1 DEF Appends
    <2> QED
        BY <2>1, <2>2, <2>3, WriteBackKeepsOrder
<1>10. ASSUME NEW b \in EraseBlocks, NEW result \in DriverResults, Erase(b, result) PROVE ChronInv'
    <2>1. b \in Blocks /\ b \notin DataBlocks
        BY EnvironmentAssumption DEF NoEraseInData
    <2>2. UNCHANGED <<buffer, now, mounted, current_block, current_page, invalid>>
        BY <1>10 DEF Erase, ram
    <2>3. \A c \in DataBlocks : flash'[c] = flash[c]
        <3>1. flash' = [flash EXCEPT ![b] = ErasedBlock] \/ flash' = flash
            BY <1>10 DEF Erase
        <3> QED
            BY <2>1, <3>1, Geometry DEF Types, FlashTypes
    <2>4. current_block \in DataBlocks
        BY DEF Types
    <2> QED
        BY <1>1, <1>2, <1>3, <2>2, <2>3, <2>4, StagedAfter
<1>11. ASSUME NEW b \in WriteBlocks, NEW p \in WritePages, NEW result \in DriverResults,
              NEW time \in {0, MaxTime}, Write(b, p, result, time)
       PROVE  ChronInv'
    <2> DEFINE image == [st |-> "data", magic |-> TRUE, time |-> time, recs |-> {}]
    <2>1. b \in Blocks /\ p \in Pages
        BY EnvironmentAssumption
    <2>2. UNCHANGED <<buffer, now, mounted, current_block, current_page, invalid>>
        BY <1>11 DEF Write, ram
    <2>3. /\ image \in Cells /\ \A readable \in BOOLEAN : Torn(image, readable) \in Cells
          /\ image.recs = {} /\ \A readable \in BOOLEAN : Torn(image, readable).recs = {}
          /\ image.st # "erased" /\ \A readable \in BOOLEAN : Torn(image, readable).st # "erased"
        BY GeometryAssumption DEF Cells, Torn
    <2>4. \/ flash' = Program(flash, b, p, image)
          \/ UNCHANGED flash
          \/ \E readable \in BOOLEAN : flash' = Program(flash, b, p, Torn(image, readable))
        BY <1>11 DEF Write
    <2> HIDE DEF image
    <2>5. ASSUME NEW c \in Blocks, NEW q \in Pages
          PROVE  /\ Holds(c, q)' => Holds(c, q) /\ flash'[c][q].recs = flash[c][q].recs
                 /\ flash'[c][q].st = "erased" => flash[c][q].st = "erased"
        <3>1. CASE UNCHANGED flash
            BY <3>1 DEF Holds
        <3>2. ASSUME NEW cell \in Cells, cell.recs = {}, cell.st # "erased",
                     flash' = Program(flash, b, p, cell)
              PROVE  /\ Holds(c, q)' => Holds(c, q) /\ flash'[c][q].recs = flash[c][q].recs
                     /\ flash'[c][q].st = "erased" => flash[c][q].st = "erased"
            BY <2>1, <3>2, ProgramFacts DEF Holds, Types
        <3> QED
            BY <2>3, <2>4, <3>1, <3>2
    <2>6. \A c \in DataBlocks : Fades(c)
        BY <2>5, Geometry DEF Fades
    <2>7. current_block \in Blocks
        BY Geometry DEF Types
    <2> QED
        BY <1>1, <1>3, <2>2, <2>5, <2>6, <2>7, StagedAfter
<1>12. ASSUME NEW point \in PowerLossPoints, PowerLoss(point) PROVE ChronInv'
    <2>1. StagedRecords' = {} /\ now' = now /\ mounted' = FALSE
        BY <1>12, StagedAfter DEF PowerLoss, NoInstance
    <2>2. CASE \A b \in DataBlocks : Fades(b)
        BY <1>1, <1>3, <2>1, <2>2
    <2>3. CASE flash' = flash \/ flash' = AfterErase
        <3>1. \A b \in DataBlocks : flash'[b] = flash[b] \/ \A q \in Pages : flash'[b][q] = Erased
            BY <2>3, AfterEraseFacts, Geometry
        <3>2. \A b \in DataBlocks : Fades(b)
            BY <3>1, ErasedIsCell DEF Fades, Holds
        <3> QED
            BY <2>2, <3>2
    <2>4. ASSUME NEW readable \in BOOLEAN,
                 flash' = [flash EXCEPT ![current_block] =
                            [p \in Pages |-> IF @[p].st = "erased" THEN @[p] ELSE Torn(@[p], readable)]]
          PROVE  ChronInv'
        <3>1. \A b \in DataBlocks, p \in Pages :
                flash'[b][p] = flash[b][p] \/ flash'[b][p] = Torn(flash[b][p], readable)
            BY <2>4, Geometry DEF Types, FlashTypes
        <3>2. \A b \in DataBlocks, p \in Pages : flash'[b][p] = flash[b][p] \/ flash'[b][p].st = "torn"
            <4>1. \A c : Torn(c, readable).st = "torn"
                BY DEF Torn
            <4> QED
                BY <3>1, <4>1
        <3>3. \A b \in DataBlocks : Fades(b)
            BY <3>2 DEF Fades, Holds
        <3> QED
            BY <2>2, <3>3
    <2>5. ASSUME ~ NothingStaged(mxfs_count), NEW readable \in BOOLEAN,
                 flash' = Program(AfterErase, current_block, current_page, Torn(Image, readable))
          PROVE  ChronInv'
        <3>1. Appends /\ mounted
            BY <1>3, <1>12, <2>1 DEF PowerLoss
        <3>2. Torn(Image, readable) \in {Image, Torn(Image, TRUE), Torn(Image, FALSE)}
            OBVIOUS
        <3>3. \A b \in DataBlocks : ChronBlock(b)'
            BY <2>1, <2>5, <3>1, <3>2, ProgramKeepsOrder
        <3> QED
            BY <2>1, <3>3 DEF ChronInv, ChronBlock, BlockIsChronological, Holds
    <2> QED
        BY <1>12, <2>3, <2>4, <2>5 DEF PowerLoss
<1> QED
    BY <1>4, <1>5, <1>6, <1>7, <1>8, <1>9, <1>10, <1>11, <1>12 DEF Next

\* "A single, chronological append-only structure": within a block the intact
\* pages hold the records in the order they were appended.  For every geometry,
\* on both builds, with driver errors, unseen failures of the device, direct
\* writes anywhere and power lost at any point, as long as mxfs_erase is not
\* used on the data area.
THEOREM BlocksAreChronological == NoEraseInData => (Spec => []BlockIsChronological)
<1> SUFFICES ASSUME NoEraseInData PROVE Spec => []BlockIsChronological
    OBVIOUS
<1>1. Init => ChronInv
    <2> SUFFICES ASSUME Init PROVE ChronInv
        OBVIOUS
    <2>1. \A b \in DataBlocks, p \in Pages : flash[b][p] = Erased
        BY Geometry DEF Init, ErasedBlock
    <2>2. StagedRecords = {}
        BY InitialTypes, StagedFacts DEF Init, NoRecords, FlaggedLayers
    <2> QED
        BY <2>1, <2>2, ErasedIsCell DEF Init, ChronInv, Holds, BlockIsChronological
<1>2. Types /\ ChronInv /\ [Next]_vars => ChronInv'
    BY ChronStep
<1>3. ChronInv => BlockIsChronological
    BY DEF ChronInv
<1> QED
    BY <1>1, <1>2, <1>3, TypesInvariant, PTL DEF Spec

-----------------------------------------------------------------------------
(* Retrieval *)

\* Mount reads every block, and the build is not the Linux one.
BitsAreKept == ~ LINUX /\ "ERR" \notin DriverResults

\* The instance has the bits of all layers of an intact page.
RetrievalInv ==
    \A b \in DataBlocks, p \in Pages : flash[b][p].st = "data" =>
        /\ flash[b][p].magic
        /\ mounted => \A r \in flash[b][p].recs : r[1] \in pages[b][p]

\* A loss of power adds no intact page.
LEMMA PowerLossSpoils ==
    ASSUME Types, NEW point, PowerLoss(point), NEW b \in DataBlocks, NEW p \in Pages,
           flash'[b][p].st = "data"
    PROVE  flash'[b][p] = flash[b][p]
<1>0. b \in Blocks
    BY Geometry
<1>1. CASE flash' = flash \/ flash' = AfterErase
    BY <1>0, <1>1, AfterEraseFacts, ErasedIsCell
<1>2. ASSUME NEW readable \in BOOLEAN,
             flash' = [flash EXCEPT ![current_block] =
                        [q \in Pages |-> IF @[q].st = "erased" THEN @[q] ELSE Torn(@[q], readable)]]
      PROVE  flash'[b][p] = flash[b][p]
    <2>1. flash'[b][p] = flash[b][p] \/ flash'[b][p] = Torn(flash[b][p], readable)
        BY <1>0, <1>2 DEF Types, FlashTypes
    <2>2. Torn(flash[b][p], readable).st = "torn"
        BY DEF Torn
    <2> QED
        BY <2>1, <2>2
<1>3. ASSUME ~ NothingStaged(mxfs_count), NEW readable \in BOOLEAN,
             flash' = Program(AfterErase, current_block, current_page, Torn(Image, readable))
      PROVE  flash'[b][p] = flash[b][p]
    <2>1. Torn(Image, readable) \in Cells /\ Torn(Image, readable).st = "torn"
        BY <1>3, ImageFacts
    <2>2. current_block \in Blocks /\ current_page \in Pages /\ AfterErase \in FlashTypes
        BY AfterEraseFacts DEF Types
    <2>3. flash'[b][p] = AfterErase[b][p] \/ flash'[b][p].st \in {"torn", "overwritten"}
        BY <1>0, <1>3, <2>1, <2>2, ProgramFacts
    <2> QED
        BY <1>0, <2>3, AfterEraseFacts, ErasedIsCell
<1> QED
    BY <1>1, <1>2, <1>3 DEF PowerLoss

\* A write back adds one intact page at most, with the bits of its layers.
LEMMA WriteBackAdds ==
    ASSUME Types, ~ NothingStaged(mxfs_count), WriteBackEnds,
           NEW b \in DataBlocks, NEW p \in Pages, flash'[b][p].st = "data"
    PROVE  \/ flash'[b][p] = flash[b][p] /\ pages'[b][p] = pages[b][p]
           \/ /\ flash'[b][p].magic
              /\ pages'[b][p] = {r[1] : r \in flash'[b][p].recs}
<1>0. b \in Blocks
    BY Geometry
<1>1. ASSUME NEW erased \in {flash, AfterErase},
             NEW image \in {Image, Torn(Image, TRUE), Torn(Image, FALSE)},
             WriteBackDone(erased, image)
      PROVE  \/ flash'[b][p] = flash[b][p] /\ pages'[b][p] = pages[b][p]
             \/ /\ flash'[b][p].magic
                /\ pages'[b][p] = {r[1] : r \in flash'[b][p].recs}
    <2>1. image \in Cells
        BY ImageFacts
    <2>2. CASE b # current_block \/ p # current_page
        <3>1. flash'[b][p] = erased[b][p] /\ pages'[b][p] = pages[b][p]
            BY <1>0, <1>1, <2>1, <2>2, WriteBackPages
        <3>2. erased[b][p] = flash[b][p] \/ erased[b][p] = Erased
            BY <1>0, AfterEraseFacts
        <3> QED
            BY <3>1, <3>2, ErasedIsCell
    <2>3. CASE b = current_block /\ p = current_page
        <3>1. flash'[b][p] = image /\ pages'[b][p] = FlaggedLayers
            BY <1>1, <2>1, <2>3, WriteBackPages
        <3>2. image = Image
            BY <3>1, ImageFacts
        <3>3. Image.magic /\ {r[1] : r \in Image.recs} = FlaggedLayers
            BY ImageFacts, StagedFacts
        <3> QED
            BY <3>1, <3>2, <3>3
    <2> QED
        BY <2>2, <2>3
<1>2. CASE flash' \in {flash, AfterErase} /\ UNCHANGED pages
    BY <1>0, <1>2, AfterEraseFacts, ErasedIsCell
<1> QED
    BY <1>1, <1>2 DEF WriteBackEnds

LEMMA RetrievalStep == BitsAreKept /\ Types /\ RetrievalInv /\ [Next]_vars => RetrievalInv'
<1> SUFFICES ASSUME BitsAreKept, Types, RetrievalInv, [Next]_vars,
                    NEW b \in DataBlocks, NEW p \in Pages, flash'[b][p].st = "data"
             PROVE  /\ flash'[b][p].magic
                    /\ mounted' => \A r \in flash'[b][p].recs : r[1] \in pages'[b][p]
    BY DEF RetrievalInv
<1>0. b \in Blocks /\ flash \in FlashTypes
    BY Geometry DEF Types
<1> DEFINE Kept == /\ flash'[b][p].magic
                   /\ mounted' => \A r \in flash'[b][p].recs : r[1] \in pages'[b][p]
<1>1. ASSUME flash'[b][p] = flash[b][p],
             (pages'[b][p] = pages[b][p] /\ mounted' = mounted) \/ ~ mounted'
      PROVE  Kept
    BY <1>1 DEF RetrievalInv
<1>2. ASSUME Mount({}) PROVE Kept
    <2>1. UNCHANGED flash /\ pages'[b][p] = Layers
        BY <1>0, <1>2 DEF Mount, BitsAreKept
    <2>2. \A r \in flash[b][p].recs : r[1] \in Layers
        BY <1>0 DEF Types, FlashTypes, Cells, Record
    <2> QED
        BY <2>1, <2>2 DEF RetrievalInv
<1>3. CASE Release
    BY <1>1, <1>3 DEF Release, NoInstance
<1>4. ASSUME NEW layer \in Sensors, AppendFits(layer) PROVE Kept
    BY <1>1, <1>4 DEF AppendFits
<1>5. ASSUME mounted, mounted', WriteBackEnds, ~ NothingStaged(mxfs_count) PROVE Kept
    BY <1>1, <1>5, WriteBackAdds
<1>6. ASSUME NEW layer \in Sensors, AppendFlushes(layer) PROVE Kept
    <2>1. ~ NothingStaged(mxfs_count) /\ WriteBackEnds
        BY <1>6, MustFlushSomething, WriteBackCases, EnvironmentAssumption DEF AppendFlushes
    <2> QED
        BY <1>5, <1>6, <2>1 DEF AppendFlushes
<1>7. CASE FlushNothing \/ Refuse \/ UNCHANGED vars
    BY <1>1, <1>7 DEF FlushNothing, Refuse, vars, ram
<1>8. ASSUME NEW result \in DriverResults, Flush(result) PROVE Kept
    <2>1. ~ NothingStaged(mxfs_count) /\ WriteBackEnds
        BY <1>8, WriteBackCases DEF Flush
    <2> QED
        BY <1>5, <1>8, <2>1 DEF Flush
<1>9. ASSUME NEW c \in EraseBlocks, NEW result \in DriverResults, Erase(c, result) PROVE Kept
    <2>1. c \in Blocks /\ UNCHANGED <<pages, mounted>>
        BY <1>9, EnvironmentAssumption DEF Erase, ram
    <2>2. flash' = [flash EXCEPT ![c] = ErasedBlock] \/ flash' = flash
        BY <1>9 DEF Erase
    <2>3. flash'[b][p] = flash[b][p] \/ flash'[b][p] = Erased
        BY <1>0, <2>1, <2>2 DEF Types, FlashTypes, ErasedBlock
    <2> QED
        BY <1>1, <2>1, <2>3, ErasedIsCell
<1>10. ASSUME NEW c \in WriteBlocks, NEW q \in WritePages, NEW result \in DriverResults,
              NEW time \in {0, MaxTime}, Write(c, q, result, time)
       PROVE  Kept
    <2> DEFINE image == [st |-> "data", magic |-> TRUE, time |-> time, recs |-> {}]
    <2>1. c \in Blocks /\ q \in Pages /\ UNCHANGED <<pages, mounted>>
        BY <1>10, EnvironmentAssumption DEF Write, ram
    <2>2. /\ image \in Cells /\ image.magic /\ image.recs = {}
          /\ \A readable \in BOOLEAN : /\ Torn(image, readable) \in Cells
                                      /\ Torn(image, readable).st = "torn"
        BY GeometryAssumption DEF Cells, Torn
    <2>3. \/ flash' = Program(flash, c, q, image)
          \/ UNCHANGED flash
          \/ \E readable \in BOOLEAN : flash' = Program(flash, c, q, Torn(image, readable))
        BY <1>10 DEF Write
    <2> HIDE DEF image
    <2>4. flash'[b][p] = flash[b][p] \/ flash'[b][p] = image
        <3>1. CASE flash' = Program(flash, c, q, image)
            BY <1>0, <2>1, <2>2, <3>1, ProgramFacts
        <3>2. ASSUME NEW readable \in BOOLEAN, flash' = Program(flash, c, q, Torn(image, readable))
              PROVE  flash'[b][p] = flash[b][p]
            BY <1>0, <2>1, <2>2, <3>2, ProgramFacts
        <3> QED
            BY <2>3, <3>1, <3>2
    <2> QED
        BY <1>1, <2>1, <2>2, <2>4
<1>11. ASSUME NEW point \in PowerLossPoints, PowerLoss(point) PROVE Kept
    BY <1>1, <1>11, PowerLossSpoils DEF PowerLoss, NoInstance
<1> QED
    BY <1>2, <1>3, <1>4, <1>6, <1>7, <1>8, <1>9, <1>10, <1>11 DEF Next, BitsAreKept

\* Every record on an intact page is found again: mxfs_timerange reports its page
\* and mxfs_read returns it.  On the builds other than Linux, for every
\* geometry, after any number of mounts, losses of power at any point, failures
\* of the device the driver does not see, erases and direct writes, as long as
\* the driver reports no error: at a mount one costs the bits of its block.
THEOREM RecordsAreFound == BitsAreKept => (Spec => []RetrievalComplete)
<1> SUFFICES ASSUME BitsAreKept PROVE Spec => []RetrievalComplete
    OBVIOUS
<1>1. Init => RetrievalInv
    <2> SUFFICES ASSUME Init PROVE RetrievalInv
        OBVIOUS
    <2>1. \A b \in DataBlocks, p \in Pages : flash[b][p] = Erased
        BY Geometry DEF Init, ErasedBlock
    <2> QED
        BY <2>1, ErasedIsCell DEF RetrievalInv
<1>2. Types /\ RetrievalInv /\ [Next]_vars => RetrievalInv'
    BY RetrievalStep
<1>3. RetrievalInv => RetrievalComplete
    BY DEF RetrievalInv, RetrievalComplete, timerange, read
<1> QED
    BY <1>1, <1>2, <1>3, TypesInvariant, PTL DEF Spec

-----------------------------------------------------------------------------
(* Writing, as long as the driver does what it is asked to *)

\* The driver does what it is asked to, power fails between two operations of
\* the device, and nobody else writes to the data area.
Reliable ==
    /\ DriverResults = {"OK"}
    /\ PowerLossPoints \subseteq {"idle", "after_erase"}
    /\ NoEraseInData
    /\ WriteBlocks \cap DataBlocks = {}

\* The pages of a block are written in order, so that a block whose first page is
\* erased is erased; the next page of the current block is the first erased
\* one, unless the block is marked, and then it will be erased.
WritingInv ==
    /\ \A b \in DataBlocks, p \in Pages :
          flash[b][p] = Erased \/ (flash[b][p].st = "data" /\ flash[b][p].magic)
    /\ \A b \in DataBlocks : \A p, q \in Pages :
          (p < q /\ flash[b][q].st = "data") => flash[b][p].st = "data"
    /\ mounted => IF invalid[current_block] THEN current_page = 0
                  ELSE \A p \in Pages : flash[current_block][p].st = "data" <=> p < current_page

\* With such a driver there are five kinds of steps.  Some leave the data area and
\* the status of the instance alone, and drop nothing that is staged;
Stays ==
    /\ \A b \in DataBlocks : flash'[b] = flash[b]
    /\ UNCHANGED <<mounted, current_block, current_page, invalid, pages>>
    /\ StagedRecords \subseteq StagedRecords'
    /\ owed' \subseteq owed \cup StagedRecords'
    /\ ~ mounted => StagedRecords' = StagedRecords

\* some end the session, with the data area as it was
Stops ==
    /\ \A b \in DataBlocks : flash'[b] = flash[b]
    /\ mounted' = FALSE /\ StagedRecords' = {}
    /\ owed' \subseteq owed \ StagedRecords

\* or with the current block erased,
StopsErased ==
    /\ mounted /\ Recycles
    /\ flash' = AfterErase
    /\ mounted' = FALSE /\ StagedRecords' = {}
    /\ owed' \subseteq OwedAfterErase \ StagedRecords

\* some write a page; and the last kind is a mount that reads every block.
Writes ==
    /\ mounted /\ mounted' /\ ~ NothingStaged(mxfs_count)
    /\ WriteBackDone(AfterErase, Image)
    /\ owed' \subseteq OwedAfterErase \cup StagedRecords'

LEMMA ReliableSteps ==
    ASSUME Reliable, Types, [Next]_vars
    PROVE  Stays \/ Stops \/ StopsErased \/ Mount({}) \/ Writes
<1>0. /\ \A l \in Sensors : l \in Layers
      /\ \A r \in DriverResults : r = "OK"
      /\ "ERR" \notin DriverResults
      /\ \A point \in PowerLossPoints : point \in {"idle", "after_erase"}
      /\ \A b \in EraseBlocks : b \in Blocks /\ b \notin DataBlocks
      /\ \A b \in WriteBlocks : b \in Blocks /\ b \notin DataBlocks
      /\ \A p \in WritePages : p \in Pages
    BY EnvironmentAssumption DEF Reliable, NoEraseInData
<1>1. ASSUME buffer' = buffer, \A b \in DataBlocks : flash'[b] = flash[b], owed' \subseteq owed,
             UNCHANGED <<mounted, current_block, current_page, invalid, pages>>
      PROVE  Stays
    BY <1>1, StagedAfter DEF Stays
<1>2. CASE Release
    BY <1>2, StagedAfter DEF Release, NoInstance, Stops
<1>3. ASSUME NEW layer \in Sensors, AppendFits(layer) PROVE Stays
    BY <1>0, <1>3, StagedAfter DEF AppendFits, Stays
<1>4. ASSUME NEW result \in DriverResults, NEW acked, WriteBack(result, acked)
      PROVE  WriteBackDone(AfterErase, Image) /\ owed' = OwedAfterErase \cup acked
    BY <1>0, <1>4 DEF WriteBack
<1>5. ASSUME NEW layer \in Sensors, AppendFlushes(layer) PROVE Writes
    <2>1. ~ NothingStaged(mxfs_count)
        BY <1>0, <1>5, MustFlushSomething DEF AppendFlushes
    <2>2. StagedRecords' = {<<layer, now>>}
        BY <1>0, <1>5, StagedAfter DEF AppendFlushes
    <2>3. WriteBackDone(AfterErase, Image) /\ owed' = OwedAfterErase \cup {<<layer, now>>}
        BY <1>4, <1>5 DEF AppendFlushes
    <2> QED
        BY <1>5, <2>1, <2>2, <2>3 DEF AppendFlushes, Writes
<1>6. CASE FlushNothing \/ Refuse \/ UNCHANGED vars
    BY <1>1, <1>6 DEF FlushNothing, Refuse, vars, ram
<1>7. ASSUME NEW result \in DriverResults, Flush(result) PROVE Writes
    <2>1. WriteBackDone(AfterErase, Image) /\ owed' = OwedAfterErase \cup {}
        BY <1>4, <1>7 DEF Flush
    <2> QED
        BY <1>7, <2>1 DEF Flush, Writes
<1>8. ASSUME NEW b \in EraseBlocks, NEW result \in DriverResults, Erase(b, result) PROVE Stays
    <2>1. flash' = [flash EXCEPT ![b] = ErasedBlock] /\ owed' = owed \ IntactIn(flash, b)
        BY <1>0, <1>8 DEF Erase
    <2>2. \A c \in DataBlocks : flash'[c] = flash[c]
        BY <1>0, <2>1, Geometry DEF Types, FlashTypes
    <2> QED
        BY <1>1, <1>8, <2>1, <2>2 DEF Erase, ram
<1>9. ASSUME NEW b \in WriteBlocks, NEW p \in WritePages, NEW result \in DriverResults, NEW time,
             Write(b, p, result, time)
      PROVE  Stays
    <2> DEFINE image == [st |-> "data", magic |-> TRUE, time |-> time, recs |-> {}]
    <2>1. flash' = Program(flash, b, p, image)
        BY <1>0, <1>9 DEF Write
    <2> HIDE DEF image
    <2>2. \A c \in DataBlocks : flash'[c] = flash[c]
        BY <1>0, <2>1, Geometry DEF Program, Types, FlashTypes
    <2> QED
        BY <1>1, <1>9, <2>2 DEF Write, ram
<1>10. ASSUME NEW point \in PowerLossPoints, PowerLoss(point) PROVE Stops \/ StopsErased
    <2>1. StagedRecords' = {} /\ mounted' = FALSE /\ mounted
        BY <1>10, StagedAfter DEF PowerLoss, NoInstance
    <2>2. \/ owed' = owed \ StagedRecords /\ UNCHANGED flash
          \/ Recycles /\ flash' = AfterErase /\ owed' = OwedAfterErase \ StagedRecords
        BY <1>0, <1>10 DEF PowerLoss
    <2> QED
        BY <2>1, <2>2 DEF Stops, StopsErased
<1> QED
    BY <1>0, <1>2, <1>3, <1>5, <1>6, <1>7, <1>8, <1>9, <1>10 DEF Next

\* The page a write programs is erased.
LEMMA NextPageIsErased ==
    ASSUME Types, WritingInv, Writes
    PROVE  /\ \A q \in Pages : flash'[current_block][q] =
                IF q = current_page THEN Image
                ELSE IF Recycles THEN Erased ELSE flash[current_block][q]
           /\ \A b \in DataBlocks : b # current_block => \A q \in Pages : flash'[b][q] = flash[b][q]
           /\ Image.st = "data" /\ Image.magic /\ Image.recs = StagedRecords
           /\ Recycles => current_page = 0
           /\ ~ Recycles => \A q \in Pages : flash[current_block][q].st = "data" <=> q < current_page
           /\ current_block' = NextPosition(current_block, current_page)[1]
           /\ current_page' = NextPosition(current_block, current_page)[2]
           /\ \A b \in DataBlocks :
                invalid'[b] = IF b = current_block' /\ current_page' = 0 THEN TRUE
                              ELSE IF b = current_block THEN FALSE ELSE invalid[b]
           /\ pages'[current_block][current_page] = {r[1] : r \in StagedRecords}
           /\ \A b \in DataBlocks, q \in Pages :
                (b # current_block \/ q # current_page) => pages'[b][q] = pages[b][q]
<1>1. /\ Image \in Cells /\ Image.st = "data" /\ Image.magic /\ Image.recs = StagedRecords
      /\ {r[1] : r \in StagedRecords} = FlaggedLayers
    BY ImageFacts, StagedFacts DEF Writes
<1>2. WriteBackDone(AfterErase, Image) /\ \A b \in DataBlocks : b \in Blocks
    BY Geometry DEF Writes
<1>3. /\ Recycles => current_page = 0
      /\ ~ Recycles => \A q \in Pages : flash[current_block][q].st = "data" <=> q < current_page
    BY DEF WritingInv, Writes, Recycles
<1>4. current_block \in DataBlocks /\ current_page \in Pages
    BY DEF Types
<1>5. ~ Recycles => flash[current_block][current_page] = Erased
    <2>1. ~ (current_page < current_page)
        BY <1>4, GeometryAssumption DEF Pages
    <2> QED
        BY <1>3, <1>4, <2>1 DEF WritingInv
<1>6. \A q \in Pages : AfterErase[current_block][q] = IF Recycles THEN Erased ELSE flash[current_block][q]
    BY AfterEraseFacts
<1>7. AfterErase[current_block][current_page].st = "erased"
    BY <1>4, <1>5, <1>6, ErasedIsCell
<1>8. \A b \in Blocks : b # current_block => AfterErase[b] = flash[b]
    BY AfterEraseFacts
<1>9. /\ flash'[current_block][current_page] = Image
      /\ \A c \in Blocks, q \in Pages :
            (c # current_block \/ q # current_page) => flash'[c][q] = AfterErase[c][q]
    BY <1>1, <1>2, <1>7, WriteBackPages
<1>10. /\ current_block' = NextPosition(current_block, current_page)[1]
       /\ current_page' = NextPosition(current_block, current_page)[2]
       /\ pages'[current_block][current_page] = FlaggedLayers
       /\ \A c \in Blocks, q \in Pages :
            (c # current_block \/ q # current_page) => pages'[c][q] = pages[c][q]
    BY <1>1, <1>2, WriteBackPages
<1>11. \A c \in Blocks : invalid'[c] = IF c = current_block' /\ current_page' = 0 THEN TRUE
                                      ELSE IF c = current_block THEN FALSE ELSE invalid[c]
    BY <1>1, <1>2, WriteBackPages
<1>12. /\ \A q \in Pages : flash'[current_block][q] =
            IF q = current_page THEN Image
            ELSE IF Recycles THEN Erased ELSE flash[current_block][q]
       /\ \A b \in DataBlocks : b # current_block => \A q \in Pages : flash'[b][q] = flash[b][q]
    BY <1>2, <1>4, <1>6, <1>8, <1>9
<1> QED
    BY <1>1, <1>2, <1>3, <1>10, <1>11, <1>12
\* What a mount that reads every block takes over from the flash.
LEMMA MountFacts ==
    ASSUME Types, Mount({})
    PROVE  /\ UNCHANGED flash /\ current_page' = 0 /\ ~ mounted /\ mounted'
           /\ current_block' \in DataBlocks
           /\ \A b \in DataBlocks : invalid'[b] <=> flash[b][0].magic
           /\ (~ LINUX /\ \E b \in DataBlocks : ~ flash[b][0].magic) =>
                /\ ~ flash[current_block'][0].magic
                /\ \A b \in DataBlocks : ~ flash[b][0].magic => current_block' <= b
<1> DEFINE used == [b \in DataBlocks |-> b \in {} \/ flash[b][0].magic]
           time == [b \in DataBlocks |-> IF b \in {} THEN 0 ELSE flash[b][0].time]
<1>1. \A b \in DataBlocks : b \in Blocks /\ (used[b] <=> flash[b][0].magic)
    BY Geometry
<1>2. \A b \in DataBlocks : flash[b][0] \in Cells
    BY Geometry DEF Types, FlashTypes
<1>3. used \in [DataBlocks -> BOOLEAN] /\ time \in [DataBlocks -> Nat]
    BY <1>2 DEF Cells
<1>4. /\ UNCHANGED flash /\ current_page' = 0 /\ ~ mounted /\ mounted'
      /\ invalid' = [b \in Blocks |-> b \in DataBlocks /\ used[b]]
      /\ current_block' = FindCurrent(used, time)
    BY DEF Mount
<1> HIDE DEF used, time
<1>5. \A b \in DataBlocks : invalid'[b] <=> flash[b][0].magic
    BY <1>1, <1>4
<1>6. /\ current_block' \in DataBlocks
      /\ (~ LINUX /\ \E b \in DataBlocks : ~ used[b]) =>
            /\ ~ used[current_block']
            /\ \A b \in DataBlocks : ~ used[b] => current_block' <= b
    BY <1>3, <1>4, MountPosition
<1> QED
    BY <1>1, <1>4, <1>5, <1>6

\* Mount looks at the first page of a block only, which is enough: a block
\* whose first page is free holds no data.
LEMMA FirstPageTells ==
    ASSUME WritingInv, NEW b \in DataBlocks, ~ flash[b][0].magic, NEW p \in Pages
    PROVE  flash[b][p].st # "data"
<1>1. flash[b][0] = Erased
    BY Geometry DEF WritingInv
<1>2. p = 0 \/ 0 < p
    BY GeometryAssumption DEF Pages
<1> QED
    BY <1>1, <1>2, Geometry, ErasedIsCell DEF WritingInv

LEMMA WritingStep ==
    ASSUME Reliable, Types, WritingInv, [Next]_vars
    PROVE  WritingInv'
<1>1. CASE Stays
    <2>1. current_block \in DataBlocks
        BY DEF Types
    <2> QED
        BY <1>1, <2>1 DEF Stays, WritingInv
<1>2. CASE Stops
    BY <1>2 DEF Stops, WritingInv
<1>3. CASE StopsErased
    <2>1. \A b \in DataBlocks : flash'[b] = flash[b] \/ \A q \in Pages : flash'[b][q] = Erased
        BY <1>3, AfterEraseFacts, Geometry DEF StopsErased
    <2> QED
        BY <1>3, <2>1, ErasedIsCell DEF StopsErased, WritingInv
<1>4. CASE Mount({})
    <2>1. /\ UNCHANGED flash /\ current_page' = 0
          /\ \A b \in DataBlocks : invalid'[b] <=> flash[b][0].magic
        BY <1>4, MountFacts
    <2>2. \A b \in DataBlocks, p \in Pages : ~ flash[b][0].magic => flash[b][p].st # "data"
        BY FirstPageTells
    <2>3. current_block' \in DataBlocks
        BY TypesStep DEF Types
    <2>4. \A p \in Pages : ~ (p < 0)
        BY GeometryAssumption DEF Pages
    <2> QED
        BY <2>1, <2>2, <2>3, <2>4 DEF WritingInv
<1>5. CASE Writes
    <2>1. PICK b \in DataBlocks, p \in Pages : b = current_block /\ p = current_page
        BY DEF Types
    <2>2. /\ \A q \in Pages : flash'[b][q] =
                IF q = p THEN Image ELSE IF Recycles THEN Erased ELSE flash[b][q]
          /\ \A c \in DataBlocks : c # b => \A q \in Pages : flash'[c][q] = flash[c][q]
          /\ Image.st = "data" /\ Image.magic
          /\ Recycles => p = 0
          /\ ~ Recycles => \A q \in Pages : flash[b][q].st = "data" <=> q < p
        BY <1>5, <2>1, NextPageIsErased
    <2>3. \A c \in DataBlocks, q \in Pages :
            flash'[c][q] = Erased \/ (flash'[c][q].st = "data" /\ flash'[c][q].magic)
        BY <2>2 DEF WritingInv
    <2>4. \A q \in Pages : flash'[b][q].st = "data" <=> q < p + 1
        <3>1. CASE Recycles
            <4>1. \A q \in Pages : q = 0 <=> q < 0 + 1
                BY GeometryAssumption DEF Pages
            <4> QED
                BY <2>2, <3>1, <4>1, ErasedIsCell
        <3>2. CASE ~ Recycles
            <4>1. \A q \in Pages : (q = p \/ q < p) <=> q < p + 1
                BY GeometryAssumption DEF Pages
            <4> QED
                BY <2>2, <3>2, <4>1
        <3> QED
            BY <3>1, <3>2
    <2>5. \A c \in DataBlocks : \A u, q \in Pages :
            (u < q /\ flash'[c][q].st = "data") => flash'[c][u].st = "data"
        <3>1. \A u, q \in Pages : u < q /\ q < p + 1 => u < p + 1
            BY GeometryAssumption DEF Pages
        <3> QED
            BY <2>2, <2>4, <3>1 DEF WritingInv
    <2>6. IF invalid'[current_block'] THEN current_page' = 0
          ELSE \A q \in Pages : flash'[current_block'][q].st = "data" <=> q < current_page'
        <3>1. /\ current_block' = NextPosition(b, p)[1] /\ current_page' = NextPosition(b, p)[2]
              /\ current_block' \in DataBlocks
            BY <1>5, <2>1, NextPageIsErased, NextPositionFacts
        <3>2. CASE p + 1 < PAGE_COUNT
            <4>1. current_block' = b /\ current_page' = p + 1 /\ p + 1 # 0
                BY <3>1, <3>2, NextPositionFacts, GeometryAssumption DEF Pages
            <4>2. invalid'[current_block'] = FALSE
                BY <1>5, <2>1, <3>1, <4>1, NextPageIsErased
            <4> QED
                BY <2>4, <4>1, <4>2
        <3>3. CASE ~ (p + 1 < PAGE_COUNT)
            <4>1. current_page' = 0
                BY <3>1, <3>3, NextPositionFacts
            <4>2. invalid'[current_block'] = TRUE
                BY <1>5, <3>1, <4>1, NextPageIsErased
            <4> QED
                BY <4>1, <4>2
        <3> QED
            BY <3>2, <3>3
    <2> QED
        BY <2>3, <2>5, <2>6 DEF WritingInv
<1> QED
    BY <1>1, <1>2, <1>3, <1>4, <1>5, ReliableSteps

LEMMA WritingInvariant == Reliable => (Spec => []WritingInv)
<1> SUFFICES ASSUME Reliable PROVE Spec => []WritingInv
    OBVIOUS
<1>1. Init => WritingInv
    <2> SUFFICES ASSUME Init PROVE WritingInv
        OBVIOUS
    <2>1. \A b \in DataBlocks, p \in Pages : flash[b][p] = Erased
        BY Geometry DEF Init, ErasedBlock
    <2> QED
        BY <2>1, ErasedIsCell DEF Init, WritingInv
<1>2. Types /\ WritingInv /\ [Next]_vars => WritingInv'
    BY WritingStep
<1> QED
    BY <1>1, <1>2, TypesInvariant, PTL DEF Spec

\* "No overwrite": mxfs_flush never programs a page of the data area that is not
\* erased, across wraps, mounts and losses of power between two operations of the
\* device, on both builds and for every geometry.
THEOREM PagesAreWrittenOnce == Reliable => (Spec => []NoOverwrite)
<1> SUFFICES ASSUME Reliable PROVE Spec => []NoOverwrite
    OBVIOUS
<1>1. WritingInv => NoOverwrite
    BY ErasedIsCell DEF WritingInv, NoOverwrite
<1> QED
    BY <1>1, WritingInvariant, PTL

-----------------------------------------------------------------------------
(* Acknowledged records *)

LEMMA IntactFacts ==
    ASSUME NEW f, NEW b, NEW r
    PROVE  r \in IntactIn(f, b) <=> \E p \in Pages : f[b][p].st = "data" /\ r \in f[b][p].recs
    BY DEF IntactIn

\* Without an instance nothing is staged.
KeptInv == AcknowledgedIsKept /\ (~ mounted => StagedRecords = {})

LEMMA KeptStep ==
    ASSUME Reliable, Types, WritingInv, KeptInv, [Next]_vars
    PROVE  KeptInv'
<1>1. \A r \in owed : r \in StagedRecords \/ \E b \in DataBlocks : r \in IntactIn(flash, b)
    BY DEF KeptInv, AcknowledgedIsKept
<1>2. ASSUME \A r \in owed' : r \in StagedRecords' \/ \E b \in DataBlocks : r \in IntactIn(flash', b)
      PROVE  AcknowledgedIsKept'
    BY <1>2 DEF AcknowledgedIsKept
<1>3. \A b \in DataBlocks : flash'[b] = flash[b] => IntactIn(flash', b) = IntactIn(flash, b)
    BY DEF IntactIn
<1>4. CASE Stays
    BY <1>1, <1>2, <1>3, <1>4 DEF Stays, KeptInv
<1>5. CASE Stops
    BY <1>1, <1>2, <1>3, <1>5 DEF Stops, KeptInv
<1>6. CASE StopsErased
    <2>1. \A b \in DataBlocks : b # current_block => flash'[b] = flash[b]
        BY <1>6, AfterEraseFacts, Geometry DEF StopsErased
    <2>2. \A r \in owed' : r \in owed /\ r \notin StagedRecords /\ r \notin IntactIn(flash, current_block)
        BY <1>6 DEF StopsErased, OwedAfterErase
    <2>3. mounted' = FALSE /\ StagedRecords' = {}
        BY <1>6 DEF StopsErased
    <2> QED
        BY <1>1, <1>2, <1>3, <2>1, <2>2, <2>3 DEF KeptInv
<1>7. CASE Mount({})
    <2>1. StagedRecords' = {} /\ StagedRecords = {} /\ mounted' /\ UNCHANGED <<flash, owed>>
        BY <1>7, StagedAfter DEF Mount, KeptInv
    <2> QED
        BY <1>1, <1>2, <1>3, <2>1 DEF KeptInv
<1>8. CASE Writes
    <2>1. PICK b \in DataBlocks, p \in Pages : b = current_block /\ p = current_page
        BY DEF Types
    <2>2. /\ \A q \in Pages : flash'[b][q] =
                IF q = p THEN Image ELSE IF Recycles THEN Erased ELSE flash[b][q]
          /\ \A c \in DataBlocks : c # b => \A q \in Pages : flash'[c][q] = flash[c][q]
          /\ Image.st = "data" /\ Image.recs = StagedRecords
          /\ ~ Recycles => \A q \in Pages : flash[b][q].st = "data" <=> q < p
        BY <1>8, <2>1, NextPageIsErased
    <2>3. ASSUME NEW r \in StagedRecords PROVE r \in IntactIn(flash', b)
        BY <2>2, IntactFacts
    <2>4. ASSUME NEW r \in OwedAfterErase, NEW c \in DataBlocks, r \in IntactIn(flash, c)
          PROVE  r \in IntactIn(flash', c)
        <3>1. PICK q \in Pages : flash[c][q].st = "data" /\ r \in flash[c][q].recs
            BY <2>4, IntactFacts
        <3>2. flash'[c][q] = flash[c][q]
            <4>1. CASE c # b
                BY <2>2, <4>1
            <4>2. CASE c = b
                <5>1. ~ Recycles
                    BY <2>1, <2>4, <4>2 DEF OwedAfterErase
                <5>2. q # p
                    BY <2>2, <3>1, <4>2, <5>1, GeometryAssumption DEF Pages
                <5> QED
                    BY <2>2, <4>2, <5>1, <5>2
            <4> QED
                BY <4>1, <4>2
        <3> QED
            BY <3>1, <3>2, IntactFacts
    <2>5. \A r \in owed' : r \in StagedRecords' \/ r \in OwedAfterErase
        BY <1>8 DEF Writes
    <2>6. \A r \in OwedAfterErase : r \in owed
        BY DEF OwedAfterErase
    <2> QED
        BY <1>1, <1>2, <1>8, <2>3, <2>4, <2>5, <2>6 DEF Writes, KeptInv
<1> QED
    BY <1>4, <1>5, <1>6, <1>7, <1>8, ReliableSteps

\* An acknowledged record stays staged or intact on the flash until the RAM is
\* lost or mxfs_flush recycles its block; for every geometry, all sizes and any
\* number of mounts.
THEOREM AcknowledgedIsNotLost == Reliable => (Spec => []AcknowledgedIsKept)
<1> SUFFICES ASSUME Reliable PROVE Spec => []AcknowledgedIsKept
    OBVIOUS
<1>1. Init => KeptInv
    <2> SUFFICES ASSUME Init PROVE KeptInv
        OBVIOUS
    <2>1. StagedRecords = {}
        BY InitialTypes, StagedFacts DEF Init, NoRecords, FlaggedLayers
    <2> QED
        BY <2>1 DEF Init, KeptInv, AcknowledgedIsKept
<1>2. Types /\ WritingInv /\ KeptInv /\ [Next]_vars => KeptInv'
    BY KeptStep
<1>3. KeptInv => AcknowledgedIsKept
    BY DEF KeptInv
<1> QED
    BY <1>1, <1>2, <1>3, TypesInvariant, WritingInvariant, PTL DEF Spec
-----------------------------------------------------------------------------
(* What mxfs_timerange_by_block does not report *)

\* A page of a block that is not marked has been written by this instance.
KnownInv ==
    mounted => \A b \in DataBlocks, p \in Pages : flash[b][p].st = "data" =>
        invalid[b] \/ pages[b][p] = {r[1] : r \in flash[b][p].recs}

LEMMA KnownStep ==
    ASSUME Reliable, Types, WritingInv, KnownInv, [Next]_vars
    PROVE  KnownInv'
<1>1. CASE Stays
    BY <1>1 DEF Stays, KnownInv
<1>2. CASE Stops \/ StopsErased
    BY <1>2 DEF Stops, StopsErased, KnownInv
<1>3. CASE Mount({})
    <2>1. \A b \in DataBlocks, p \in Pages : flash[b][p].st = "data" => flash[b][0].magic
        BY FirstPageTells
    <2> QED
        BY <1>3, <2>1, MountFacts DEF KnownInv
<1>4. CASE Writes
    <2>1. PICK b \in DataBlocks, p \in Pages : b = current_block /\ p = current_page
        BY DEF Types
    <2>2. /\ \A q \in Pages : flash'[b][q] =
                IF q = p THEN Image ELSE IF Recycles THEN Erased ELSE flash[b][q]
          /\ \A c \in DataBlocks : c # b => \A q \in Pages : flash'[c][q] = flash[c][q]
          /\ Image.recs = StagedRecords
          /\ pages'[b][p] = {r[1] : r \in StagedRecords}
          /\ \A c \in DataBlocks, q \in Pages : (c # b \/ q # p) => pages'[c][q] = pages[c][q]
          /\ \A c \in DataBlocks : c # b => (invalid'[c] = TRUE \/ invalid'[c] = invalid[c])
        BY <1>4, <2>1, NextPageIsErased
    <2>3. mounted /\ (Recycles <=> invalid[b])
        BY <1>4, <2>1 DEF Writes, Recycles
    <2>4. ASSUME NEW c \in DataBlocks, NEW q \in Pages, flash'[c][q].st = "data"
          PROVE  invalid'[c] \/ pages'[c][q] = {r[1] : r \in flash'[c][q].recs}
        <3>1. CASE c = b /\ q = p
            BY <2>2, <3>1
        <3>2. CASE c = b /\ q # p
            BY <2>2, <2>3, <2>4, <3>2, ErasedIsCell DEF KnownInv
        <3>3. CASE c # b
            BY <2>2, <2>3, <2>4, <3>3 DEF KnownInv
        <3> QED
            BY <3>1, <3>2, <3>3
    <2> QED
        BY <2>4 DEF KnownInv
<1> QED
    BY <1>1, <1>2, <1>3, <1>4, ReliableSteps

\* No data of an earlier session is hidden from mxfs_timerange_by_block by the
\* double meaning of BLOCK_INVALID: a block it does not report has been written by
\* this instance, which knows the layers of its pages exactly.
THEOREM HiddenBlocksAreKnown == Reliable => (Spec => []HiddenIsKnown)
<1> SUFFICES ASSUME Reliable PROVE Spec => []HiddenIsKnown
    OBVIOUS
<1>1. Init => KnownInv
    BY DEF Init, KnownInv
<1>2. Types /\ WritingInv /\ KnownInv /\ [Next]_vars => KnownInv'
    BY KnownStep
<1>3. Types /\ WritingInv /\ KnownInv => HiddenIsKnown
    <2> SUFFICES ASSUME WritingInv, KnownInv, mounted,
                        NEW b \in DataBlocks, NEW p \in Pages, flash[b][p].st = "data"
                 PROVE  LET layers == {r[1] : r \in flash[b][p].recs}
                        IN  \/ \A l \in layers : <<b, p>> \in timerange_by_block(l, b)
                            \/ pages[b][p] = layers
        BY DEF HiddenIsKnown
    <2>1. flash[b][p].magic
        BY ErasedIsCell DEF WritingInv
    <2>2. invalid[b] \/ pages[b][p] = {r[1] : r \in flash[b][p].recs}
        BY DEF KnownInv
    <2> QED
        BY <2>1, <2>2 DEF timerange_by_block
<1> QED
    BY <1>1, <1>2, <1>3, TypesInvariant, WritingInvariant, PTL DEF Spec
-----------------------------------------------------------------------------
(* Giving up data *)

\* To mount, a block is free when its first page does not start with MAGIC.
Free(b) == ~ flash[b][0].magic

\* The free blocks are the last ones of the data area, or there is at most one.
FreeAreLast ==
    \/ \A b, c \in DataBlocks : (Free(b) /\ b < c) => Free(c)
    \/ \A b, c \in DataBlocks : (Free(b) /\ Free(c)) => b = c

\* An instance is at the first free block, or before it with all the blocks in
\* between written, or there is none left.
PositionIsFirst ==
    /\ \A b \in DataBlocks : Free(b) => current_block <= b
    /\ \A b, c \in DataBlocks : (Free(b) /\ current_block < b /\ current_block < c) => Free(c)
    /\ (current_page = 0 /\ ~ Free(current_block)) => \A b \in DataBlocks : ~ Free(b)

FreeInv == FreeAreLast /\ (mounted => PositionIsFirst)

\* Which blocks are free after a page has been written.
LEMMA FreeAfterWrite ==
    ASSUME Types, WritingInv, Writes, NEW c \in DataBlocks
    PROVE  Free(c)' <=> Free(c) /\ c # current_block
<1>1. PICK b \in DataBlocks, p \in Pages : b = current_block /\ p = current_page
    BY DEF Types
<1>2. /\ \A q \in Pages : flash'[b][q] =
            IF q = p THEN Image ELSE IF Recycles THEN Erased ELSE flash[b][q]
      /\ b # c => \A q \in Pages : flash'[c][q] = flash[c][q]
      /\ Image.magic /\ (Recycles => p = 0)
      /\ ~ Recycles => \A q \in Pages : flash[b][q].st = "data" <=> q < p
    BY <1>1, NextPageIsErased
<1>3. p = 0 \/ 0 < p
    BY GeometryAssumption DEF Pages
<1>4. flash'[b][0].magic
    <2>1. CASE p = 0
        BY <1>2, <2>1, Geometry
    <2>2. CASE p # 0
        <3>1. flash[b][0].st = "data" /\ flash'[b][0] = flash[b][0]
            BY <1>2, <1>3, <2>2, Geometry
        <3> QED
            BY <3>1, Geometry, ErasedIsCell DEF WritingInv
    <2> QED
        BY <2>1, <2>2
<1> QED
    BY <1>1, <1>2, <1>4, Geometry DEF Free

LEMMA FreeStep ==
    ASSUME Reliable, ~ LINUX, Types, WritingInv, FreeInv, [Next]_vars
    PROVE  FreeInv'
<1>1. ASSUME \A b \in DataBlocks : flash'[b] = flash[b] PROVE FreeAreLast'
    <2>1. \A b \in DataBlocks : Free(b)' <=> Free(b)
        BY <1>1 DEF Free
    <2> QED
        BY <2>1 DEF FreeInv, FreeAreLast
<1>2. CASE Stays
    <2>1. \A b \in DataBlocks : Free(b)' <=> Free(b)
        BY <1>2 DEF Stays, Free
    <2>2. PositionIsFirst => PositionIsFirst'
        <3>1. PICK b \in DataBlocks : b = current_block
            BY DEF Types
        <3>2. current_block' = b /\ (Free(current_block)' <=> Free(b))
            BY <1>2, <3>1 DEF Stays, Free
        <3> QED
            BY <1>2, <2>1, <3>1, <3>2 DEF Stays, PositionIsFirst
    <2> QED
        BY <1>1, <1>2, <2>2 DEF Stays, FreeInv
<1>3. CASE Stops
    BY <1>1, <1>3 DEF Stops, FreeInv
<1>4. CASE StopsErased
    <2>1. PICK b \in DataBlocks : b = current_block
        BY DEF Types
    <2>2. \A c \in DataBlocks : Free(c)' <=> Free(c) \/ c = b
        BY <1>4, <2>1, AfterEraseFacts, ErasedIsCell, Geometry DEF StopsErased, Free
    <2>3. Free(b) \/ \A c \in DataBlocks : ~ Free(c)
        BY <1>4, <2>1 DEF StopsErased, FreeInv, PositionIsFirst, WritingInv, Recycles
    <2>4. FreeAreLast'
        BY <2>2, <2>3 DEF FreeInv, FreeAreLast
    <2> QED
        BY <1>4, <2>4 DEF StopsErased, FreeInv
<1>5. CASE Mount({})
    <2>1. PICK m \in DataBlocks : m = current_block'
        BY <1>5, MountFacts
    <2>2. \A b \in DataBlocks : Free(b)' <=> Free(b)
        BY <1>5, MountFacts DEF Free
    <2>3. (\E b \in DataBlocks : Free(b)) => Free(m) /\ \A b \in DataBlocks : Free(b) => m <= b
        BY <1>5, <2>1, MountFacts DEF Free
    <2>4. \A b, c \in DataBlocks : (Free(b) /\ m < b /\ m < c) => Free(c)
        <3>1. \A b \in DataBlocks : m < b => m # b
            BY GeometryAssumption DEF DataBlocks
        <3> QED
            BY <2>3, <3>1 DEF FreeInv, FreeAreLast
    <2>5. Free(current_block)' <=> Free(m)
        BY <1>5, <2>1, MountFacts DEF Free
    <2>6. PositionIsFirst'
        BY <2>1, <2>2, <2>3, <2>4, <2>5 DEF PositionIsFirst
    <2> QED
        BY <1>1, <1>5, <2>6, MountFacts DEF FreeInv
<1>6. CASE Writes
    <2>1. PICK b \in DataBlocks, p \in Pages : b = current_block /\ p = current_page
        BY DEF Types
    <2>2. \A c \in DataBlocks : Free(c)' <=> Free(c) /\ c # b
        BY <1>6, <2>1, FreeAfterWrite
    <2>3. /\ \A c \in DataBlocks : Free(c) => b <= c
          /\ \A c, d \in DataBlocks : (Free(c) /\ b < c /\ b < d) => Free(d)
        BY <1>6, <2>1 DEF Writes, FreeInv, PositionIsFirst
    <2>4. \A c, d \in DataBlocks : (b <= c /\ c < d) => d # b
        BY GeometryAssumption DEF DataBlocks
    <2>5. FreeAreLast'
        BY <2>2, <2>3, <2>4 DEF FreeInv, FreeAreLast
    <2>6. PICK n \in DataBlocks, np \in Pages :
            /\ n = current_block' /\ np = current_page'
            /\ n = NextPosition(b, p)[1] /\ np = NextPosition(b, p)[2]
        BY <1>6, <2>1, NextPageIsErased, NextPositionFacts
    <2>7. Free(current_block)' <=> Free(n)'
        BY <2>6 DEF Free
    <2>8. CASE p + 1 < PAGE_COUNT
        <3>1. n = b /\ np # 0
            BY <2>6, <2>8, NextPositionFacts, GeometryAssumption DEF Pages
        <3>2. \A c \in DataBlocks : b < c => c # b
            BY GeometryAssumption DEF DataBlocks
        <3> QED
            BY <2>2, <2>3, <2>5, <2>6, <3>1, <3>2 DEF FreeInv, PositionIsFirst
    <2>9. CASE ~ (p + 1 < PAGE_COUNT) /\ b + 1 < BLOCK_COUNT
        <3>1. n = b + 1
            BY <2>6, <2>9, NextPositionFacts
        <3>2. \A c \in DataBlocks : /\ (b <= c /\ c # b) => (n <= c /\ b < c)
                                    /\ n < c => (b < c /\ c # b)
                                    /\ b < n /\ n # b
            BY <3>1, GeometryAssumption DEF DataBlocks
        <3>3. \A c \in DataBlocks : Free(c)' => n <= c
            BY <2>2, <2>3, <3>2
        <3>4. \A c, d \in DataBlocks : (Free(c)' /\ n < c /\ n < d) => Free(d)'
            BY <2>2, <2>3, <3>2
        <3>5. ~ Free(n)' => \A c \in DataBlocks : ~ Free(c)'
            BY <2>2, <2>3, <3>2
        <3> QED
            BY <2>5, <2>6, <2>7, <3>3, <3>4, <3>5 DEF FreeInv, PositionIsFirst
    <2>10. CASE ~ (p + 1 < PAGE_COUNT) /\ ~ (b + 1 < BLOCK_COUNT)
        <3>1. \A c \in DataBlocks : b <= c => c = b
            BY <2>10, GeometryAssumption DEF DataBlocks
        <3>2. \A c \in DataBlocks : ~ Free(c)'
            BY <2>2, <2>3, <3>1
        <3> QED
            BY <2>5, <3>2 DEF FreeInv, PositionIsFirst
    <2> QED
        BY <2>8, <2>9, <2>10
<1> QED
    BY <1>2, <1>3, <1>4, <1>5, <1>6, ReliableSteps

\* Only the current block loses data, and only when it is recycled.
LEMMA OnlyRecyclingLoses ==
    ASSUME Reliable, Types, WritingInv, [Next]_vars, NEW b \in DataBlocks, Loses(b)
    PROVE  /\ mounted /\ b = current_block /\ current_page = 0
           /\ \E q \in Pages : flash[b][q].st = "data"
<1>1. PICK r : r \in IntactIn(flash, b) /\ r \notin IntactIn(flash', b)
    BY DEF Loses
<1>2. PICK q \in Pages : flash[b][q].st = "data" /\ r \in flash[b][q].recs
    BY <1>1, IntactFacts
<1>3. flash'[b][q] # flash[b][q]
    BY <1>1, <1>2, IntactFacts
<1>4. CASE Stays \/ Stops
    BY <1>3, <1>4 DEF Stays, Stops
<1>5. CASE Mount({})
    BY <1>3, <1>5, MountFacts
<1>6. CASE StopsErased
    <2>1. b = current_block
        BY <1>3, <1>6, AfterEraseFacts, Geometry DEF StopsErased
    <2> QED
        BY <1>2, <1>6, <2>1 DEF StopsErased, WritingInv, Recycles
<1>7. CASE Writes
    <2>1. b = current_block
        BY <1>3, <1>7, NextPageIsErased
    <2>2. Recycles
        <3>1. ASSUME ~ Recycles PROVE FALSE
            <4>1. q = current_page /\ q < current_page
                BY <1>2, <1>3, <1>7, <2>1, <3>1, NextPageIsErased
            <4> QED
                BY <4>1, GeometryAssumption DEF Pages
        <3> QED
            BY <3>1
    <2> QED
        BY <1>2, <1>7, <2>1, <2>2, NextPageIsErased DEF Writes
<1> QED
    BY <1>4, <1>5, <1>6, <1>7, ReliableSteps

\* Recorded data is given up only for want of room: on the RP2040 no flush erases
\* a block with data while some block of the data area is free, whatever the
\* restarts and losses of power before it.
THEOREM DataGoesLast == (Reliable /\ ~ LINUX) => (Spec => EraseOnlyWhenFull)
<1> SUFFICES ASSUME Reliable, ~ LINUX PROVE Spec => EraseOnlyWhenFull
    OBVIOUS
<1>1. Init => FreeInv
    <2> SUFFICES ASSUME Init PROVE FreeInv
        OBVIOUS
    <2>1. \A b \in DataBlocks : Free(b)
        BY Geometry, ErasedIsCell DEF Init, ErasedBlock, Free
    <2> QED
        BY <2>1 DEF Init, FreeInv, FreeAreLast
<1>2. Types /\ WritingInv /\ FreeInv /\ [Next]_vars => FreeInv'
    BY FreeStep
<1>3. Types /\ WritingInv /\ FreeInv /\ [Next]_vars =>
        [\A b \in DataBlocks : Loses(b) => \A c \in DataBlocks : flash[c][0].magic]_vars
    <2> SUFFICES ASSUME Types, WritingInv, FreeInv, [Next]_vars, NEW b \in DataBlocks, Loses(b)
                 PROVE  \A c \in DataBlocks : flash[c][0].magic
        OBVIOUS
    <2>1. mounted /\ b = current_block /\ current_page = 0
        BY OnlyRecyclingLoses
    <2>2. ~ Free(b)
        BY OnlyRecyclingLoses, FirstPageTells DEF Free
    <2> QED
        BY <2>1, <2>2 DEF FreeInv, PositionIsFirst, Free
<1> QED
    BY <1>1, <1>2, <1>3, TypesInvariant, WritingInvariant, PTL DEF Spec, EraseOnlyWhenFull
-----------------------------------------------------------------------------
(* The staging buffers of the log implement MxfsBuffer *)

\* The staged records of a layer fit into its buffer, so that the lengths and
\* counts of the code, which are uint16_t, are those of the sequences.
StagedInv == \A l \in Layers : Len(buffer[l]) * StagedSize(l) <= MXFS_BUFFER_SIZE

\* MxfsBuffer computes with the layers, sizes and lengths of MxfsDef.
LEMMA SameDefinitions ==
    ASSUME NEW l, NEW n, NEW count
    PROVE  /\ Buffers!Layers = Layers /\ Buffers!AntpLayers = AntpLayers
           /\ Buffers!RecordSize(l) = RecordSize(l) /\ Buffers!StagedSize(l) = StagedSize(l)
           /\ Buffers!U16(n) = U16(n)
           /\ Buffers!PageLength(count) = PageLength(count)
           /\ Buffers!MustFlush(count, n) = MustFlush(count, n)
           /\ Buffers!NothingStaged(count) = NothingStaged(count)
<1>1. Buffers!Layers = Layers /\ Buffers!AntpLayers = AntpLayers
    BY DEF Buffers!Layers, Buffers!AntpLayers, Buffers!Dim3Layers, Layers, AntpLayers, Dim3Layers
<1>2. \A k : Buffers!RecordSize(k) = RecordSize(k)
    BY DEF Buffers!RecordSize, Buffers!AntpLayers, Buffers!Dim3Layers,
           RecordSize, AntpLayers, Dim3Layers
<1>3. Buffers!StagedSize(l) = StagedSize(l) /\ Buffers!U16(n) = U16(n)
    BY <1>2 DEF Buffers!StagedSize, Buffers!U16, Buffers!UINT16, StagedSize, U16, UINT16
<1>4. \A k, m : Buffers!LayerLength(k, m) = LayerLength(k, m)
    BY <1>1, <1>2 DEF Buffers!LayerLength, LayerLength
<1>5. Buffers!PageLength(count) = PageLength(count)
    BY <1>4 DEF Buffers!PageLength, PageLength
<1>6. Buffers!MustFlush(count, n) = MustFlush(count, n)
    BY <1>5 DEF Buffers!MustFlush, Buffers!U16, Buffers!UINT16, MustFlush, U16, UINT16
<1>7. Buffers!NothingStaged(count) = NothingStaged(count)
    BY <1>1 DEF Buffers!NothingStaged, NothingStaged
<1> QED
    BY <1>1, <1>2, <1>3, <1>5, <1>6, <1>7

LEMMA StageDefinition ==
    ASSUME NEW layer, NEW length, NEW count,
           ~ (length[layer] + StagedSize(layer) > MXFS_BUFFER_SIZE), ret' = "OK",
           mxfs_length' = [length EXCEPT ![layer] = U16(@ + StagedSize(layer))],
           mxfs_count' = [count EXCEPT ![layer] = U16(@ + 1)]
    PROVE  Buffers!Stage(layer, length, count)
<1>1. /\ Buffers!StagedSize(layer) = StagedSize(layer)
      /\ Buffers!U16(length[layer] + StagedSize(layer)) = U16(length[layer] + StagedSize(layer))
      /\ Buffers!U16(count[layer] + 1) = U16(count[layer] + 1)
    BY SameDefinitions
<1> QED
    BY <1>1 DEF Buffers!Stage

LEMMA CountersFacts ==
    ASSUME Types
    PROVE  /\ mxfs_count \in [Layers -> Nat] /\ mxfs_length \in [Layers -> Nat]
           /\ \A l \in Layers : mxfs_count[l] = Len(buffer[l])
           /\ \A l \in Layers : mxfs_length[l] = mxfs_count[l] * StagedSize(l)
<1>1. \A l \in Layers : Len(buffer[l]) \in Nat /\ StagedSize(l) \in Nat
    BY RecordSizeType DEF Types
<1>2. \A l \in Layers : Len(buffer[l]) * StagedSize(l) \in Nat
    BY <1>1
<1> QED
    BY <1>1, <1>2 DEF mxfs_count, mxfs_length

\* What mxfs_flush copies by length is what is counted, and nothing is left.
LEMMA FlushCounters ==
    ASSUME Types
    PROVE  /\ Buffers!WorkLen(mxfs_length) = PageLength(mxfs_count)
           /\ Buffers!FlushedCount(mxfs_count, mxfs_length) = Buffers!Empty
<1>1. ASSUME NEW l \in Layers PROVE Buffers!RecordsIn(l, mxfs_length[l]) = mxfs_count[l]
    <2>1. PICK s \in Nat \ {0} : s = StagedSize(l) /\ s = Buffers!StagedSize(l)
        BY RecordSizeType, SameDefinitions
    <2>2. PICK n \in Nat : n = mxfs_count[l] /\ mxfs_length[l] = n * s
        BY <2>1, CountersFacts
    <2> QED
        BY <2>1, <2>2, RoundsOfLoop DEF Buffers!RecordsIn
<1>2. Buffers!WorkLen(mxfs_length) = PageLength(mxfs_count)
    <2> DEFINE found == [l \in Layers |-> Buffers!RecordsIn(l, mxfs_length[l])]
    <2>1. Buffers!WorkLen(mxfs_length) = PageLength(found)
        BY SameDefinitions DEF Buffers!WorkLen
    <2>2. found = mxfs_count
        BY <1>1, CountersFacts
    <2> QED
        BY <2>1, <2>2
<1>3. ASSUME NEW l \in Layers PROVE mxfs_length[l] > 0 \/ mxfs_count[l] = 0
    <2>1. PICK s \in Nat \ {0} : s = StagedSize(l)
        BY RecordSizeType
    <2>2. PICK n \in Nat : n = mxfs_count[l] /\ mxfs_length[l] = n * s
        BY <2>1, CountersFacts
    <2>3. n = 0 \/ n * s > 0
        OBVIOUS
    <2> QED
        BY <2>2, <2>3
<1>4. Buffers!FlushedCount(mxfs_count, mxfs_length) = Buffers!Empty
    BY <1>3, SameDefinitions DEF Buffers!FlushedCount, Buffers!Empty
<1> QED
    BY <1>2, <1>4

\* The counters after the buffers have been emptied or refilled.
LEMMA CountersAfter ==
    /\ buffer' = buffer => mxfs_length' = mxfs_length /\ mxfs_count' = mxfs_count
    /\ buffer' = NoRecords => mxfs_length' = Buffers!Empty /\ mxfs_count' = Buffers!Empty
<1>1. \A l \in Layers : NoRecords[l] = <<>> /\ Len(NoRecords[l]) = 0 /\ 0 * StagedSize(l) = 0
    BY RecordSizeType DEF NoRecords
<1>2. Buffers!Empty = [l \in Layers |-> 0]
    BY SameDefinitions DEF Buffers!Empty
<1> QED
    BY <1>1, <1>2 DEF mxfs_length, mxfs_count

\* A record of layer l has been staged on top of count, which leaves room for it.
LEMMA CountersAfterAppend ==
    ASSUME NEW l \in Layers,
           NEW length \in [Layers -> Nat], NEW count \in [Layers -> Nat],
           \A k \in Layers : length[k] = count[k] * StagedSize(k),
           ~ (length[l] + StagedSize(l) > MXFS_BUFFER_SIZE),
           Len(buffer'[l]) = count[l] + 1,
           \A k \in Layers : k # l => Len(buffer'[k]) = count[k]
    PROVE  /\ mxfs_length' = [length EXCEPT ![l] = U16(@ + StagedSize(l))]
           /\ mxfs_count' = [count EXCEPT ![l] = U16(@ + 1)]
           /\ Len(buffer'[l]) * StagedSize(l) <= MXFS_BUFFER_SIZE
<1>1. PICK s \in Nat \ {0} : s = StagedSize(l)
    BY RecordSizeType
<1>2. PICK n \in Nat : n = count[l]
    OBVIOUS
<1>3. length[l] = n * s /\ Len(buffer'[l]) = n + 1
    BY <1>1, <1>2
<1>4. /\ MXFS_BUFFER_SIZE \in Nat /\ MXFS_BUFFER_SIZE < 65536
    BY SizesArePositive, LengthsFitUint16 DEF UINT16
<1>5. n * s + s = (n + 1) * s /\ n * s + s \in Nat /\ n + 1 <= n * s + s
    <2>1. PICK m \in Nat : m = n + 1
        OBVIOUS
    <2>2. m * s \in Nat /\ m <= m * s
        OBVIOUS
    <2>3. n * s + s = (n + 1) * s
        OBVIOUS
    <2> QED
        BY <2>1, <2>2, <2>3
<1>6. n * s + s <= MXFS_BUFFER_SIZE
    BY <1>1, <1>3, <1>4, <1>5
<1>7. U16(n * s + s) = n * s + s /\ U16(n + 1) = n + 1
    BY <1>4, <1>5, <1>6, U16Small
<1>8. mxfs_length' = [length EXCEPT ![l] = U16(@ + StagedSize(l))]
    <2>1. mxfs_length' = [k \in Layers |-> Len(buffer'[k]) * StagedSize(k)]
        BY DEF mxfs_length
    <2>2. mxfs_length'[l] = U16(length[l] + StagedSize(l))
        BY <1>1, <1>3, <1>5, <1>7, <2>1
    <2>3. \A k \in Layers : k # l => mxfs_length'[k] = length[k]
        BY <2>1
    <2> HIDE DEF mxfs_length
    <2> QED
        BY <2>1, <2>2, <2>3
<1>9. mxfs_count' = [count EXCEPT ![l] = U16(@ + 1)]
    <2>1. mxfs_count' = [k \in Layers |-> Len(buffer'[k])]
        BY DEF mxfs_count
    <2>2. mxfs_count'[l] = U16(count[l] + 1)
        BY <1>2, <1>3, <1>7, <2>1
    <2>3. \A k \in Layers : k # l => mxfs_count'[k] = count[k]
        BY <2>1
    <2> HIDE DEF mxfs_count
    <2> QED
        BY <2>1, <2>2, <2>3
<1> QED
    BY <1>1, <1>3, <1>5, <1>6, <1>8, <1>9

\* Every step of the log is one of MxfsBuffer, or leaves its variables alone, and
\* keeps what is staged inside the buffers.
LEMMA StagingStep ==
    ASSUME Types, StagedInv, [Next]_vars
    PROVE  StagedInv' /\ [Buffers!Next]_(Buffers!vars)
<1>0. /\ \A l \in Sensors : l \in Layers
      /\ \A r \in DriverResults : r \in {"OK", "ERR", "FAIL"}
    BY EnvironmentAssumption
<1>1. /\ buffer' = buffer => StagedInv'
      /\ buffer' = NoRecords => StagedInv'
    <2>1. \A l \in Layers : Len(<<>>) * StagedSize(l) <= MXFS_BUFFER_SIZE
        BY RecordSizeType, SizesArePositive
    <2>2. \A l \in Layers : NoRecords[l] = <<>>
        BY DEF NoRecords
    <2> QED
        BY <2>1, <2>2 DEF StagedInv
\* A call that leaves the buffers as they are, or those of a fresh instance.
<1>2. ASSUME ret' \in {"OK", "ERR"}, work_len' = 0, buffer' \in {buffer, NoRecords}
      PROVE  StagedInv' /\ Buffers!Next
    <2>1. Buffers!Elsewhere(ret')
        BY <1>2, CountersAfter DEF Buffers!Elsewhere
    <2> QED
        BY <1>1, <1>2, <2>1 DEF Buffers!Next
<1>3. ASSUME NEW unreadable, Mount(unreadable) PROVE StagedInv' /\ Buffers!Next
    BY <1>2, <1>3 DEF Mount
<1>4. CASE Release \/ Refuse
    BY <1>2, <1>4 DEF Release, Refuse, NoInstance, ram
<1>5. ASSUME NEW point, PowerLoss(point) PROVE StagedInv' /\ Buffers!Next
    BY <1>2, <1>5 DEF PowerLoss, NoInstance
<1>6. ASSUME NEW b, NEW result \in DriverResults, Erase(b, result) PROVE StagedInv' /\ Buffers!Next
    BY <1>0, <1>2, <1>6 DEF Erase, Returned, ram
<1>7. ASSUME NEW b, NEW p, NEW result \in DriverResults, NEW time, Write(b, p, result, time)
      PROVE  StagedInv' /\ Buffers!Next
    BY <1>0, <1>2, <1>7 DEF Write, Returned, ram
<1>8. CASE FlushNothing
    <2>1. Buffers!FlushNothing
        BY <1>8, SameDefinitions, CountersAfter DEF FlushNothing, ram, Buffers!FlushNothing
    <2> QED
        BY <1>1, <1>8, <2>1 DEF FlushNothing, ram, Buffers!Next
<1>9. ASSUME NEW result \in DriverResults, Flush(result) PROVE StagedInv' /\ Buffers!Next
    <2>1. /\ ~ NothingStaged(mxfs_count) /\ buffer' = NoRecords
          /\ ret' = Returned(result) /\ work_len' = PageLength(mxfs_count)
        BY <1>9 DEF Flush, WriteBack
    <2>2. Returned(result) \in {"OK", "ERR"}
        BY <1>0 DEF Returned
    <2>3. Buffers!Flush(ret')
        BY <2>1, SameDefinitions, CountersAfter, FlushCounters DEF Buffers!Flush
    <2> QED
        BY <1>1, <2>1, <2>2, <2>3 DEF Buffers!Next
<1>10. ASSUME NEW layer \in Sensors, AppendFits(layer) PROVE StagedInv' /\ Buffers!Next
    <2>1. layer \in Layers /\ ~ MustFlush(mxfs_count, RecordSize(layer)) /\ work_len' = 0
        BY <1>0, <1>10 DEF AppendFits
    <2>2. StagedInv' /\ Buffers!Stage(layer, mxfs_length, mxfs_count)
        <3>1. CASE mxfs_length[layer] + StagedSize(layer) > MXFS_BUFFER_SIZE
            <4>1. ret' = "NEED_MORE_BUFFER" /\ buffer' = buffer
                BY <1>10, <3>1 DEF AppendFits
            <4> QED
                BY <1>1, <3>1, <4>1, SameDefinitions, CountersAfter DEF Buffers!Stage
        <3>2. CASE ~ (mxfs_length[layer] + StagedSize(layer) > MXFS_BUFFER_SIZE)
            <4>1. ret' = "OK" /\ buffer' = [buffer EXCEPT ![layer] = Append(@, now)]
                BY <1>10, <3>2 DEF AppendFits
            <4>2. PICK length \in [Layers -> Nat], count \in [Layers -> Nat] :
                    /\ length = mxfs_length /\ count = mxfs_count
                    /\ \A k \in Layers : length[k] = count[k] * StagedSize(k)
                    /\ \A k \in Layers : Len(buffer[k]) = count[k]
                BY CountersFacts
            <4>3. /\ Len(buffer'[layer]) = count[layer] + 1
                  /\ \A k \in Layers : k # layer => buffer'[k] = buffer[k]
                  /\ \A k \in Layers : k # layer => Len(buffer'[k]) = count[k]
                <5>1. buffer \in [Layers -> Seq(Nat)] /\ now \in Nat
                    BY DEF Types
                <5>2. buffer'[layer] = Append(buffer[layer], now)
                    BY <2>1, <4>1, <5>1
                <5>3. Len(buffer'[layer]) = Len(buffer[layer]) + 1
                    BY <2>1, <5>1, <5>2
                <5> QED
                    BY <2>1, <4>1, <4>2, <5>1, <5>3
            <4>4. /\ mxfs_length' = [length EXCEPT ![layer] = U16(@ + StagedSize(layer))]
                  /\ mxfs_count' = [count EXCEPT ![layer] = U16(@ + 1)]
                  /\ Len(buffer'[layer]) * StagedSize(layer) <= MXFS_BUFFER_SIZE
                BY <2>1, <3>2, <4>2, <4>3, CountersAfterAppend
            <4>5. StagedInv'
                BY <4>3, <4>4 DEF StagedInv
            <4>6. Buffers!Stage(layer, mxfs_length, mxfs_count)
                BY <3>2, <4>1, <4>2, <4>4, StageDefinition
            <4> QED
                BY <4>5, <4>6
        <3> QED
            BY <3>1, <3>2
    <2>3. Buffers!AppendFits(layer)
        BY <2>1, <2>2, SameDefinitions DEF Buffers!AppendFits
    <2> QED
        BY <2>2, <2>3 DEF Buffers!Next
<1>11. ASSUME NEW layer \in Sensors, AppendFlushes(layer) PROVE StagedInv' /\ Buffers!Next
    <2>1. /\ layer \in Layers /\ MustFlush(mxfs_count, RecordSize(layer))
          /\ work_len' = PageLength(mxfs_count) /\ ret' = "OK"
          /\ buffer' = [NoRecords EXCEPT ![layer] = <<now>>]
        BY <1>0, <1>11 DEF AppendFlushes, WriteBack
    <2> DEFINE empty == [k \in Layers |-> 0]
    <2>2. /\ \A k \in Layers : NoRecords[k] = <<>> /\ Len(NoRecords[k]) = 0
          /\ layer \in DOMAIN NoRecords /\ Len(<<now>>) = 1
        BY <2>1 DEF NoRecords
    <2>3. /\ empty \in [Layers -> Nat]
          /\ \A k \in Layers : empty[k] = empty[k] * StagedSize(k)
        BY RecordSizeType
    <2>4. ~ (empty[layer] + StagedSize(layer) > MXFS_BUFFER_SIZE)
        BY <2>1, BufferHoldsARecord, RecordSizeType, SizesArePositive
    <2>5. /\ Len(buffer'[layer]) = empty[layer] + 1
          /\ \A k \in Layers : k # layer => buffer'[k] = NoRecords[k]
          /\ \A k \in Layers : k # layer => Len(buffer'[k]) = empty[k]
        BY <2>1, <2>2
    <2> HIDE DEF empty
    <2>6. /\ mxfs_length' = [empty EXCEPT ![layer] = U16(@ + StagedSize(layer))]
          /\ mxfs_count' = [empty EXCEPT ![layer] = U16(@ + 1)]
          /\ Len(buffer'[layer]) * StagedSize(layer) <= MXFS_BUFFER_SIZE
        BY <2>1, <2>3, <2>4, <2>5, CountersAfterAppend
    <2>7. StagedInv'
        <3>1. \A k \in Layers : Len(NoRecords[k]) * StagedSize(k) <= MXFS_BUFFER_SIZE
            BY <2>2, RecordSizeType, SizesArePositive
        <3> QED
            BY <2>5, <2>6, <3>1 DEF StagedInv
    <2>8. Buffers!Empty = empty /\ [empty EXCEPT ![layer] = 0] = empty
        BY <2>1, SameDefinitions DEF Buffers!Empty, empty
    <2>9. Buffers!Stage(layer, Buffers!Empty,
              [Buffers!FlushedCount(mxfs_count, mxfs_length) EXCEPT ![layer] = 0])
        <3>1. Buffers!Stage(layer, empty, empty)
            BY <2>1, <2>4, <2>6, StageDefinition
        <3> QED
            BY <2>8, <3>1, FlushCounters
    <2>10. Buffers!AppendFlushes(layer)
        BY <2>1, <2>9, SameDefinitions, FlushCounters DEF Buffers!AppendFlushes
    <2> QED
        BY <2>7, <2>10 DEF Buffers!Next
<1>12. CASE UNCHANGED vars
    BY <1>1, <1>12, CountersAfter DEF vars, ram, Buffers!vars
<1> QED
    BY <1>3, <1>4, <1>5, <1>6, <1>7, <1>8, <1>9, <1>10, <1>11, <1>12 DEF Next

\* The log implements MxfsBuffer: with its records, driver errors, mounts and
\* losses of power, mxfs_append and mxfs_flush count and size the staging buffers
\* as that module says.
THEOREM LogImplementsBuffers == Spec => ImplementsBuffers
<1>1. Init => StagedInv /\ Buffers!Init
    <2> SUFFICES ASSUME Init PROVE StagedInv /\ Buffers!Init
        OBVIOUS
    <2>1. \A l \in Layers : buffer[l] = <<>> /\ Len(buffer[l]) = 0 /\ 0 * StagedSize(l) = 0
        BY RecordSizeType DEF Init, NoRecords
    <2>2. StagedInv
        BY <2>1, SizesArePositive DEF StagedInv
    <2>3. mxfs_length = [l \in Layers |-> 0] /\ mxfs_count = [l \in Layers |-> 0]
        BY <2>1 DEF mxfs_length, mxfs_count
    <2> QED
        BY <2>2, <2>3, SameDefinitions DEF Init, Buffers!Init, Buffers!Empty
<1>2. Types /\ StagedInv /\ [Next]_vars => StagedInv' /\ [Buffers!Next]_(Buffers!vars)
    BY StagingStep
<1> QED
    BY <1>1, <1>2, TypesInvariant, PTL DEF Spec, ImplementsBuffers, Buffers!Spec
=============================================================================
