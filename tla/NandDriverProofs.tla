--------------------------- MODULE NandDriverProofs ---------------------------
(***************************************************************************)
(* Facts about the SPI drivers for every set of blocks and pages the       *)
(* program uses: a block and a page have a row of their own, the drivers   *)
(* that take the protection off when they open the device never leave the  *)
(* main array, no command is sent to a device that would ignore it, the    *)
(* RP2040 driver never mixes two pages, and the drivers implement what the *)
(* file system expects of them.                                            *)
(*************************************************************************)
EXTENDS NandDriver, TLAPS

BlockNumbers == 0 .. 1023
PageNumbers  == 0 .. 63

LEMMA AddressesFit ==
    /\ \A b \in Blocks : b \in BlockNumbers
    /\ \A p \in Pages : p \in PageNumbers
    /\ 0 \in PageNumbers
    BY AddressAssumption DEF BlockNumbers, PageNumbers

\* The bytes the drivers put into cmd[2] and cmd[3] are the block and the page.
LEMMA RowAddressIsExact ==
    \A block \in BlockNumbers, page \in PageNumbers : RowAddress(block, page) = block * 64 + page
<1> SUFFICES ASSUME NEW block \in 0 .. 1023, NEW page \in 0 .. 63
             PROVE  RowAddress(block, page) = block * 64 + page
    BY DEF BlockNumbers, PageNumbers
<1>1. (block \div 4) % 256 = block \div 4
    BY SMT
<1>2. page % 64 = page
    BY SMT
<1>3. (block \div 4) * 256 + ((block * 64) % 256) = block * 64
    BY SMT
<1> QED
    BY <1>1, <1>2, <1>3, SMT DEF RowAddress

\* Two different pages of the 1024 blocks of 64 pages are never programmed,
\* read or erased through the same row address (mxfs_driver_write and
\* mxfs_driver_read: the shifts and masks of cmd[2] and cmd[3]).
THEOREM RowsAreDistinct ==
    \A b1, b2 \in Blocks, p1, p2 \in Pages :
        RowAddress(b1, p1) = RowAddress(b2, p2) => b1 = b2 /\ p1 = p2
<1>1. \A b \in Blocks, p \in Pages : RowAddress(b, p) = b * 64 + p
    BY AddressesFit, RowAddressIsExact
<1>2. ASSUME NEW b1 \in Blocks, NEW b2 \in Blocks, NEW p1 \in Pages, NEW p2 \in Pages,
             RowAddress(b1, p1) = RowAddress(b2, p2)
      PROVE  b1 = b2 /\ p1 = p2
    <2>1. b1 * 64 + p1 = b2 * 64 + p2
        BY <1>1, <1>2, Zenon
    <2>2. /\ b1 \in BlockNumbers /\ b2 \in BlockNumbers
          /\ p1 \in PageNumbers /\ p2 \in PageNumbers
        BY AddressesFit
    <2> QED
        BY <2>1, <2>2, SMT DEF BlockNumbers, PageNumbers
<1> QED
    BY <1>2

-----------------------------------------------------------------------------
(* The main array stays selected *)

Unprotects == Platforms \subseteq {"rp2040", "parent"}

\* While the device is opened: it is idle when the protection is taken off,
\* which is why the command is not lost.
Opening ==
    /\ platform = "rp2040" =>
        /\ pc \in {4, 5} => work = Idle
        /\ pc >= 6 => ~protect
    /\ platform = "parent" =>
        /\ pc = 2 => work \in {Idle, [kind |-> "reset"]}
        /\ pc \in {3, 4} => work = Idle
        /\ pc >= 5 => ~protect

\* The inductive invariant: OTP_E is off because the protect bits are off
\* whenever a read copies them, and they are off from mount to loss of power.
ArrayInv ==
    /\ platform \in Platforms
    /\ pc \in Nat \ {0} /\ protect \in BOOLEAN /\ (call.op = "none" => call = NoCall)
    /\ otp = FALSE /\ flg_protected = FALSE
    /\ mounted => ~protect
    /\ call.op \notin {"create", "none"} => mounted
    /\ call.op = "create" => Opening

LEMMA OpeningSequence ==
    ASSUME call.op = "create"
    PROVE  /\ platform = "rp2040" => Sequence(call) = Create_rp2040
           /\ platform = "parent" => Sequence(call) = Create_parent
    BY DEF Sequence, Sequences, Refused

LEMMA StepOfCreate ==
    ASSUME Unprotects, platform \in Platforms, pc \in Nat \ {0}, call.op = "create", NEW s, AtStep(s)
    PROVE  /\ platform = "rp2040" =>
                /\ s \in {"ready", "RESET", "JEDEC", "UNPROTECT", "WREN", "wel"}
                /\ s = "ready" => pc \in {1, 3, 6}
                /\ s = "RESET" => pc = 2
                /\ s = "JEDEC" => pc = 4
                /\ s = "UNPROTECT" => pc = 5
                /\ s \in {"WREN", "wel"} => pc \in {7, 8}
           /\ platform = "parent" =>
                /\ s \in {"RESET", "sleep", "JEDEC", "UNPROTECT", "WREN"}
                /\ s = "RESET" => pc = 1
                /\ s = "sleep" => pc = 2
                /\ s = "JEDEC" => pc = 3
                /\ s = "UNPROTECT" => pc = 4
                /\ s = "WREN" => pc = 5
<1>2. pc <= Len(Sequence(call)) /\ Sequence(call)[pc] = s
    BY DEF AtStep
<1>3. CASE platform = "rp2040"
    <2>1. Sequence(call) = <<"ready", "RESET", "ready", "JEDEC", "UNPROTECT", "ready",
                             "WREN", "wel">>
        BY <1>3, OpeningSequence DEF Create_rp2040
    <2>2. pc \in {1, 2, 3, 4, 5, 6, 7, 8}
        BY <1>2, <2>1
    <2> QED
        BY <1>2, <1>3, <2>1, <2>2
<1>4. CASE platform = "parent"
    <2>1. Sequence(call) = <<"RESET", "sleep", "JEDEC", "UNPROTECT", "WREN">>
        BY <1>4, OpeningSequence DEF Create_parent
    <2>2. pc \in {1, 2, 3, 4, 5}
        BY <1>2, <2>1
    <2> QED
        BY <1>2, <1>4, <2>1, <2>2
<1> QED
    BY <1>3, <1>4 DEF Unprotects

LEMMA ArrayStep ==
    ASSUME Unprotects
    PROVE  ArrayInv /\ [Next]_vars => ArrayInv'
<1> SUFFICES ASSUME ArrayInv, [Next]_vars PROVE ArrayInv'
    OBVIOUS
<1> USE DEF ArrayInv
<1>1. ASSUME NEW c \in Calls, Start(c) PROVE ArrayInv'
    BY <1>1 DEF Start, device, Opening, Calls
<1>2. CASE Poll
    BY <1>2, StepOfCreate DEF Poll, Advance, device, Opening, Unprotects, Busy
<1>3. CASE DeviceReset
    BY <1>3, StepOfCreate DEF DeviceReset, Advance, Opening, Unprotects
<1>4. CASE JedecId
    BY <1>4, StepOfCreate DEF JedecId, Advance, device, Opening, Unprotects
<1>5. CASE Unprotect
    <2>1. pc' = pc + 1 /\ UNCHANGED <<platform, mounted, call, work, otp, flg_protected>>
        BY <1>5 DEF Unprotect, Advance
    <2>2. protect' \in BOOLEAN /\ (~protect => ~protect')
        BY <1>5 DEF Unprotect
    <2>3. CASE call.op = "create"
        <3>1. /\ platform = "rp2040" => pc = 5
              /\ platform = "parent" => pc = 4
            BY <1>5, <2>3, StepOfCreate DEF Unprotect
        <3>2. ~Busy
            BY <2>3, <3>1 DEF Opening, Unprotects, Busy
        <3>3. ~protect'
            BY <1>5, <3>2 DEF Unprotect
        <3> QED
            BY <2>1, <2>2, <2>3, <3>1, <3>3 DEF Opening, Unprotects
    <2>4. CASE call.op # "create"
        BY <2>1, <2>2, <2>4
    <2> QED
        BY <2>3, <2>4
<1>6. CASE WriteEnable
    BY <1>6, StepOfCreate DEF WriteEnable, Advance, Opening, Unprotects
<1>7. CASE Load
    BY <1>7, StepOfCreate DEF Load, Advance, Opening, Unprotects
<1>8. CASE Refuse
    BY <1>8 DEF Refuse, device, NoCall
<1>9. CASE Execute
    BY <1>9, StepOfCreate DEF Execute, Advance, Opening, Unprotects
<1>10. CASE BlockErase
    BY <1>10, StepOfCreate DEF BlockErase, Advance, Opening, Unprotects
<1>11. CASE ReadProtected
    BY <1>11, StepOfCreate DEF ReadProtected, Advance, device, Opening, Unprotects, AtStep, NoCall
<1>12. CASE ReadMode
    BY <1>12, StepOfCreate DEF ReadMode, Advance, Opening, Unprotects
<1>13. CASE PageDataRead
    BY <1>13, StepOfCreate DEF PageDataRead, Advance, Opening, Unprotects
<1>14. CASE Read
    BY <1>14, StepOfCreate DEF Read, Advance, device, Opening, Unprotects
<1>15. CASE Finished
    <2>1. call.op = "create" => ~protect
        <3> SUFFICES ASSUME call.op = "create" PROVE ~protect
            OBVIOUS
        <3>1. platform = "rp2040" => pc > 8
            BY <1>15, OpeningSequence DEF Finished, Create_rp2040
        <3>2. platform = "parent" => pc > 5
            BY <1>15, OpeningSequence DEF Finished, Create_parent
        <3> QED
            BY <3>1, <3>2 DEF Opening, Unprotects
    <2> QED
        BY <1>15, <2>1 DEF Finished, device, NoCall, Opening
<1>16. CASE Finish
    BY <1>16 DEF Finish, host, Opening
<1>17. CASE Release
    BY <1>17 DEF Release, device, NoCall
<1>18. CASE Fail
    BY <1>18 DEF Fail, NoCall
<1>19. CASE UNCHANGED vars
    BY <1>19 DEF vars, host, device, Opening
<1> QED
    BY <1>1, <1>2, <1>3, <1>4, <1>5, <1>6, <1>7, <1>8, <1>9, <1>10, <1>11, <1>12, <1>13, <1>14,
       <1>15, <1>16, <1>17, <1>18, <1>19 DEF Next, Host

LEMMA ArrayInvariant == Unprotects => (Spec => []ArrayInv)
<1> SUFFICES ASSUME Unprotects PROVE Spec => []ArrayInv
    OBVIOUS
<1>1. Init => ArrayInv
    BY DriverAssumption DEF Init, ArrayInv, NoCall
<1>2. ArrayInv /\ [Next]_vars => ArrayInv'
    BY ArrayStep
<1> QED
    BY <1>1, <1>2, PTL DEF Spec

\* The RP2040 driver and the formatter never read, program or erase the OTP
\* area, whatever they are asked to do and wherever power fails: their
\* "read mode" copies the protect register only once it has been cleared.
THEOREM MainArrayOnly == Unprotects => (Spec => []MainArraySelected)
<1> SUFFICES ASSUME Unprotects PROVE Spec => []MainArraySelected
    OBVIOUS
<1>1. ArrayInv => MainArraySelected
    BY DEF ArrayInv, MainArraySelected
<1>2. Spec => []ArrayInv
    BY ArrayInvariant
<1> QED
    BY <1>1, <1>2, PTL
-----------------------------------------------------------------------------
(* The sequences *)

Starters == {"RESET", "EXECUTE", "ERASE", "PAGE_READ"}

\* What is common to the sequences of all the drivers: every command but a reset
\* follows a poll, or a command after which the device is not busy; it is reset
\* first or after a poll, and then left alone; a poll for the latch precedes
\* what needs it; and the array is unprotected before it is changed.
WellFormed(seq, steps) ==
    /\ Len(seq) \in Nat \ {0} /\ seq[1] \in {"ready", "RESET", "REFUSE"}
    /\ \A i \in 1 .. Len(seq) : seq[i] \in steps
    /\ \A i \in 1 .. Len(seq) - 1 :
          /\ seq[i + 1] \in Commands => seq[i] \in ({"ready", "wel", "sleep"} \cup Commands) \ Starters
          /\ seq[i + 1] = "RESET" => seq[i] = "ready"
          /\ seq[i + 1] = "sleep" => seq[i] = "RESET"
          /\ seq[i + 1] \in {"LOAD", "EXECUTE", "ERASE"} => seq[i] = "wel"
    /\ \A i \in 1 .. Len(seq) : seq[i] \in {"EXECUTE", "ERASE"} =>
          i > 4 /\ (seq[2] = "UNPROTECT" \/ seq[4] = "UNPROTECT")

CreateSteps == {"ready", "wel", "sleep", "RESET", "JEDEC", "UNPROTECT", "WREN"}
EraseSteps  == {"ready", "wel", "UNPROTECT", "WREN", "ERASE"}
WriteSteps  == {"ready", "wel", "UNPROTECT", "WREN", "LOAD", "EXECUTE"}
ReadSteps   == {"ready", "READ_SR1", "READ_MODE", "PAGE_READ", "READ"}
RefusedSteps == {"ready", "wel", "UNPROTECT", "WREN", "REFUSE"}

LEMMA CreateSequences ==
    /\ WellFormed(Create_rp2040, CreateSteps)
    /\ WellFormed(Create_bcm2711, CreateSteps)
    /\ WellFormed(Create_parent, CreateSteps)
<1> USE DEF WellFormed, CreateSteps, Commands, Starters
<1>1. WellFormed(Create_rp2040, CreateSteps)
    BY DEF Create_rp2040
<1>2. WellFormed(Create_bcm2711, CreateSteps)
    BY DEF Create_bcm2711
<1>3. WellFormed(Create_parent, CreateSteps)
    BY DEF Create_parent
<1> QED
    BY <1>1, <1>2, <1>3

LEMMA EraseSequences ==
    /\ WellFormed(Erase_rp2040, EraseSteps)
    /\ WellFormed(Erase_bcm2711, EraseSteps)
    /\ WellFormed(Erase_parent, EraseSteps)
<1> USE DEF WellFormed, EraseSteps, Commands, Starters
<1>1. WellFormed(Erase_rp2040, EraseSteps)
    BY DEF Erase_rp2040
<1>2. WellFormed(Erase_bcm2711, EraseSteps)
    BY DEF Erase_bcm2711
<1>3. WellFormed(Erase_parent, EraseSteps)
    BY DEF Erase_parent
<1> QED
    BY <1>1, <1>2, <1>3

LEMMA WriteSequences ==
    /\ WellFormed(Write_rp2040, WriteSteps)
    /\ WellFormed(Write_bcm2711, WriteSteps)
    /\ WellFormed(Write_parent, WriteSteps)
<1> USE DEF WellFormed, WriteSteps, Commands, Starters
<1>1. WellFormed(Write_rp2040, WriteSteps)
    BY DEF Write_rp2040
<1>2. WellFormed(Write_bcm2711, WriteSteps)
    BY DEF Write_bcm2711
<1>3. WellFormed(Write_parent, WriteSteps)
    BY DEF Write_parent
<1> QED
    BY <1>1, <1>2, <1>3

LEMMA ReadSequences ==
    /\ WellFormed(Read_rp2040, ReadSteps)
    /\ WellFormed(Read_bcm2711, ReadSteps)
    /\ WellFormed(Read_parent, ReadSteps)
<1> USE DEF WellFormed, ReadSteps, Commands, Starters
<1>1. WellFormed(Read_rp2040, ReadSteps)
    BY DEF Read_rp2040
<1>2. WellFormed(Read_bcm2711, ReadSteps)
    BY DEF Read_bcm2711
<1>3. WellFormed(Read_parent, ReadSteps)
    BY DEF Read_parent
<1> QED
    BY <1>1, <1>2, <1>3

LEMMA RefusedSequences ==
    /\ WellFormed(Refused_rp2040, RefusedSteps)
    /\ WellFormed(Refused_polled, RefusedSteps)
<1> USE DEF WellFormed, RefusedSteps, Commands, Starters
<1>1. WellFormed(Refused_rp2040, RefusedSteps)
    BY DEF Refused_rp2040
<1>2. WellFormed(Refused_polled, RefusedSteps)
    BY DEF Refused_polled
<1> QED
    BY <1>1, <1>2
SequenceOn(pl, c) == Sequences[pl][IF Refused(c) THEN "refused" ELSE c.op]

StepsOf(c) ==
    IF Refused(c) THEN RefusedSteps
    ELSE IF c.op = "create" THEN CreateSteps
    ELSE IF c.op = "erase" THEN EraseSteps
    ELSE IF c.op = "read" THEN ReadSteps ELSE WriteSteps

\* The sequence of an operation, on every platform.
LEMMA SequenceOf ==
    ASSUME NEW pl \in Platforms, NEW c \in Calls
    PROVE  /\ c.op \in {"create", "erase", "read", "write"}
           /\ Refused(c) => c.op = "write"
           /\ WellFormed(SequenceOn(pl, c), StepsOf(c))
<1>1. c.op \in {"create", "erase", "read", "write"} /\ (Refused(c) => c.op = "write")
    BY DEF Calls, Refused
<1>2. pl \in {"rp2040", "bcm2711", "parent"}
    BY DriverAssumption
<1>3. CASE Refused(c)
    <2>1. SequenceOn(pl, c) \in {Refused_rp2040, Refused_polled}
        BY <1>2, <1>3 DEF SequenceOn, Sequences
    <2>2. StepsOf(c) = RefusedSteps
        BY <1>3 DEF StepsOf
    <2> QED
        BY <1>1, <2>1, <2>2, RefusedSequences
<1>4. CASE ~ Refused(c) /\ c.op = "create"
    <2>1. SequenceOn(pl, c) \in {Create_rp2040, Create_bcm2711, Create_parent}
        BY <1>2, <1>4 DEF SequenceOn, Sequences
    <2>2. StepsOf(c) = CreateSteps
        BY <1>4 DEF StepsOf
    <2> QED
        BY <1>1, <2>1, <2>2, CreateSequences
<1>5. CASE ~ Refused(c) /\ c.op = "erase"
    <2>1. SequenceOn(pl, c) \in {Erase_rp2040, Erase_bcm2711, Erase_parent}
        BY <1>2, <1>5 DEF SequenceOn, Sequences
    <2>2. StepsOf(c) = EraseSteps
        BY <1>5 DEF StepsOf
    <2> QED
        BY <1>1, <2>1, <2>2, EraseSequences
<1>6. CASE ~ Refused(c) /\ c.op = "read"
    <2>1. SequenceOn(pl, c) \in {Read_rp2040, Read_bcm2711, Read_parent}
        BY <1>2, <1>6 DEF SequenceOn, Sequences
    <2>2. StepsOf(c) = ReadSteps
        BY <1>6 DEF StepsOf
    <2> QED
        BY <1>1, <2>1, <2>2, ReadSequences
<1>7. CASE ~ Refused(c) /\ c.op = "write"
    <2>1. SequenceOn(pl, c) \in {Write_rp2040, Write_bcm2711, Write_parent}
        BY <1>2, <1>7 DEF SequenceOn, Sequences
    <2>2. StepsOf(c) = WriteSteps
        BY <1>7 DEF StepsOf
    <2> QED
        BY <1>1, <2>1, <2>2, WriteSequences
<1> QED
    BY <1>1, <1>3, <1>4, <1>5, <1>6, <1>7

LEMMA SequenceOfCall ==
    /\ Sequence(call) = SequenceOn(platform, call)
    /\ Sequence(call)' = SequenceOn(platform', call')
    BY DEF Sequence, SequenceOn

LEMMA SequenceLength ==
    /\ platform \in Platforms /\ call \in Calls => Len(Sequence(call)) \in Nat
    /\ platform' \in Platforms /\ call' \in Calls => Len(Sequence(call)') \in Nat
<1>1. \A pl \in Platforms, c \in Calls : Len(SequenceOn(pl, c)) \in Nat
    BY SequenceOf DEF WellFormed
<1> QED
    BY <1>1, SequenceOfCall

-----------------------------------------------------------------------------
(* Types *)

Contents == Data \cup {"blank", "torn", "zero", "otp"}
PageSet  == [head : Contents, tail : Contents]

Works ==
    {Idle, [kind |-> "reset"]} \cup [kind : {"program", "fetch"}, row : Rows]
    \cup [kind : {"erase"}, row : RowNumbers]

\* The inductive form of TypeOK: what is programmed or fetched is one of the rows.
Types ==
    /\ platform \in Platforms
    /\ mounted \in BOOLEAN /\ mounts \in 0 .. MaxMounts
    /\ call \in Calls \cup {NoCall}
    /\ pc \in Nat \ {0}
    /\ call = NoCall => pc = 1
    /\ call # NoCall => pc <= Len(Sequence(call)) + 1
    /\ flg_protected \in BOOLEAN /\ wel \in BOOLEAN /\ protect \in BOOLEAN /\ otp \in BOOLEAN
    /\ ret \in {"OK", "ERR"}
    /\ work \in Works
    /\ cells \in [Rows -> PageSet]
    /\ got \in PageSet /\ cache \in PageSet

LEMMA RowFacts ==
    /\ \A b \in Blocks, p \in Pages : RowAddress(b, p) \in Rows
    /\ \A b \in Blocks : RowAddress(b, 0) \in RowNumbers
    /\ \A r \in Rows : r \in RowNumbers
<1>1. ASSUME NEW b \in BlockNumbers, NEW p \in PageNumbers PROVE RowAddress(b, p) \in RowNumbers
    <2>1. RowAddress(b, p) = b * 64 + p
        BY RowAddressIsExact, Zenon
    <2>2. b * 64 + p \in RowNumbers
        BY SMT DEF BlockNumbers, PageNumbers, RowNumbers
    <2> QED
        BY <2>1, <2>2, Zenon
<1>2. \A b \in Blocks, p \in Pages : RowAddress(b, p) \in Rows
    BY DEF Rows
<1>3. \A b \in Blocks : RowAddress(b, 0) \in RowNumbers
    BY <1>1, AddressesFit, Zenon
<1>4. ASSUME NEW r \in Rows PROVE r \in RowNumbers
    <2>1. PICK b \in Blocks, p \in Pages : r = RowAddress(b, p)
        BY DEF Rows
    <2> QED
        BY <1>1, <2>1, AddressesFit, Zenon
<1> QED
    BY <1>2, <1>3, <1>4, Zenon

\* What the device can be busy with.
LEMMA WorkFacts ==
    /\ Idle \in Works /\ [kind |-> "reset"] \in Works /\ Idle # [kind |-> "reset"]
    /\ \A r \in Rows : [kind |-> "program", row |-> r] \in Works
    /\ \A r \in Rows : [kind |-> "fetch", row |-> r] \in Works
    /\ \A r \in RowNumbers : [kind |-> "erase", row |-> r] \in Works
    /\ \A w \in Works : /\ w.kind \in {"idle", "reset", "program", "fetch", "erase"}
                        /\ w.kind \in {"program", "fetch"} => w.row \in Rows
                        /\ w.kind = "idle" => w = Idle
                        /\ w.kind = "reset" => w = [kind |-> "reset"]
    BY DEF Works, Idle

LEMMA PageFacts ==
    /\ Blank \in PageSet /\ Torn \in PageSet /\ Page("otp", "otp") \in PageSet
    /\ \A old, new \in PageSet : Burn(old, new) \in PageSet
    BY DEF Blank, Torn, Page, Burn, PageSet, Contents

LEMMA CallFacts ==
    ASSUME call \in Calls \cup {NoCall}
    PROVE  /\ NoCall \notin Calls
           /\ call.op = "none" <=> call = NoCall
           /\ call.op = "erase" => call.block \in Blocks
           /\ call.op \in {"read", "write"} => call.block \in Blocks /\ call.page \in Pages
           /\ call.op = "write" => call.data \in Data
    BY DEF Calls, NoCall

\* The step an operation is at tells which operation it is.
LEMMA StepFacts ==
    ASSUME Types, NEW s, AtStep(s)
    PROVE  /\ call \in Calls /\ call # NoCall /\ pc <= Len(Sequence(call))
           /\ Len(Sequence(call)) \in Nat
           /\ s \in {"LOAD", "EXECUTE"} => call.op = "write"
           /\ s = "ERASE" => call.op = "erase"
           /\ s \in {"READ_SR1", "READ_MODE", "PAGE_READ", "READ"} => call.op = "read"
           /\ s \in {"RESET", "sleep", "JEDEC"} => call.op = "create"
           /\ s = "REFUSE" => Refused(call)
<1>1. call \in Calls /\ call # NoCall /\ pc <= Len(Sequence(call)) /\ s = Sequence(call)[pc]
    BY DEF AtStep, Types
<1>2. /\ WellFormed(Sequence(call), StepsOf(call)) /\ (Refused(call) => call.op = "write")
      /\ call.op \in {"create", "erase", "read", "write"}
    BY <1>1, SequenceOf, SequenceOfCall DEF Types
<1>3. pc \in Nat \ {0}
    BY DEF Types
<1>4. Len(Sequence(call)) \in Nat /\ s \in StepsOf(call)
    BY <1>1, <1>2, <1>3 DEF WellFormed
<1> QED
    BY <1>1, <1>2, <1>4 DEF StepsOf, RefusedSteps, CreateSteps, EraseSteps, ReadSteps, WriteSteps

\* What the array holds when the device has done its work, or was cut short.
LEMMA SettledTypes ==
    ASSUME Types
    PROVE  Settled \in [Rows -> PageSet] /\ CutShort \in [Rows -> PageSet]
<1>1. CASE work.kind = "program"
    <2>1. work.row \in Rows
        BY <1>1, WorkFacts DEF Types
    <2> QED
        BY <1>1, <2>1, PageFacts DEF Settled, CutShort, Types
<1>2. CASE work.kind = "erase"
    BY <1>2, PageFacts DEF Settled, CutShort, Types
<1>3. CASE work.kind \notin {"program", "erase"}
    BY <1>3 DEF Settled, CutShort, Types
<1> QED
    BY <1>1, <1>2, <1>3

LEMMA TypesStep == Types /\ [Next]_vars => Types'
<1> SUFFICES ASSUME Types, [Next]_vars PROVE Types'
    OBVIOUS
<1>1. ASSUME NEW s, AtStep(s), Advance
      PROVE  /\ platform' \in Platforms /\ mounted' \in BOOLEAN /\ mounts' \in 0 .. MaxMounts
             /\ call' \in Calls \cup {NoCall} /\ pc' \in Nat \ {0}
             /\ call' = NoCall => pc' = 1
             /\ call' # NoCall => pc' <= Len(Sequence(call)') + 1
    <2>1. Sequence(call)' = Sequence(call)
        BY <1>1 DEF Advance, Sequence, Refused
    <2> QED
        BY <1>1, <2>1, StepFacts DEF Advance, Types
<1>2. ASSUME NEW c \in Calls, Start(c) PROVE Types'
    <2>1. platform' \in Platforms /\ mounts' \in 0 .. MaxMounts
        BY <1>2, DriverAssumption DEF Start, Types
    <2>2. call' \in Calls /\ pc' = 1
        BY <1>2 DEF Start
    <2>3. Len(Sequence(call)') \in Nat
        BY <2>1, <2>2, SequenceLength
    <2>4. 1 <= Len(Sequence(call)') + 1
        BY <2>3
    <2> QED
        BY <1>2, <2>1, <2>2, <2>4, CallFacts DEF Start, Types, device
<1>3. CASE Poll
    BY <1>1, <1>3 DEF Poll, device, Types
<1>4. CASE DeviceReset
    BY <1>1, <1>4, SettledTypes, WorkFacts DEF DeviceReset, Types
<1>5. CASE JedecId
    BY <1>1, <1>5 DEF JedecId, device, Types
<1>6. CASE Unprotect
    BY <1>1, <1>6 DEF Unprotect, Types
<1>7. CASE WriteEnable
    BY <1>1, <1>7 DEF WriteEnable, Types
<1>8. CASE Load
    <2>1. Loaded \in PageSet
        BY <1>8, StepFacts, CallFacts DEF Load, Loaded, Page, PageSet, Contents, Types
    <2> QED
        BY <1>1, <1>8, <2>1 DEF Load, Types
<1>9. CASE Refuse
    BY <1>9 DEF Refuse, device, Types
<1>10. CASE Execute
    <2>1. RowAddress(call.block, call.page) \in Rows
        <3>1. call \in Calls \cup {NoCall} /\ call.op = "write"
            BY <1>10, StepFacts DEF Execute, Types
        <3> QED
            BY <3>1, CallFacts, RowFacts
    <2>2. work' \in Works
        BY <1>10, <2>1, WorkFacts DEF Execute, Types
    <2> QED
        BY <1>1, <1>10, <2>2 DEF Execute, Types
<1>11. CASE BlockErase
    <2>1. RowAddress(call.block, 0) \in RowNumbers
        <3>1. call \in Calls \cup {NoCall} /\ call.op = "erase"
            BY <1>11, StepFacts DEF BlockErase, Types
        <3> QED
            BY <3>1, CallFacts, RowFacts
    <2>2. work' \in Works
        BY <1>11, <2>1, WorkFacts DEF BlockErase, Types
    <2> QED
        BY <1>1, <1>11, <2>2 DEF BlockErase, Types
<1>12. CASE ReadProtected
    BY <1>1, <1>12 DEF ReadProtected, device, Types
<1>13. CASE ReadMode
    BY <1>1, <1>13 DEF ReadMode, Types
<1>14. CASE PageDataRead
    <2>1. RowAddress(call.block, call.page) \in Rows
        <3>1. call \in Calls \cup {NoCall} /\ call.op = "read"
            BY <1>14, StepFacts DEF PageDataRead, Types
        <3> QED
            BY <3>1, CallFacts, RowFacts
    <2>2. work' \in Works
        BY <1>14, <2>1, WorkFacts DEF PageDataRead, Types
    <2> QED
        BY <1>1, <1>14, <2>2 DEF PageDataRead, Types
<1>15. CASE Read
    BY <1>1, <1>15, PageFacts DEF Read, device, Types
<1>16. CASE Finished
    BY <1>16 DEF Finished, device, Types
<1>17. CASE Finish
    <2>1. UNCHANGED <<platform, mounted, mounts, call, pc, flg_protected, got, ret, protect, otp>>
        BY <1>17 DEF Finish, host
    <2>2. Sequence(call)' = Sequence(call)
        BY <2>1 DEF Sequence, Refused
    <2>3. work' \in Works /\ cells' \in [Rows -> PageSet] /\ wel' \in BOOLEAN
        BY <1>17, SettledTypes, WorkFacts DEF Finish, Types
    <2>4. cache' \in PageSet
        <3>1. work.kind = "fetch" => work.row \in Rows
            BY WorkFacts DEF Types
        <3> QED
            BY <1>17, <3>1, PageFacts DEF Finish, Types
    <2> QED
        BY <2>1, <2>2, <2>3, <2>4 DEF Types
<1>18. CASE Release
    BY <1>18 DEF Release, device, Types
<1>19. CASE Fail
    <2>1. cells' \in {cells, CutShort, Settled}
        BY <1>19 DEF Fail
    <2>2. cells' \in [Rows -> PageSet]
        BY <2>1, SettledTypes DEF Types
    <2>3. /\ mounted' = FALSE /\ call' = NoCall /\ pc' = 1 /\ flg_protected' = FALSE
          /\ got' = Blank /\ ret' = "OK" /\ work' = Idle /\ wel' = FALSE /\ protect' = TRUE
          /\ otp' = FALSE /\ cache' = Blank /\ UNCHANGED <<platform, mounts>>
        BY <1>19 DEF Fail
    <2>4. /\ mounted' \in BOOLEAN /\ flg_protected' \in BOOLEAN /\ wel' \in BOOLEAN
          /\ protect' \in BOOLEAN /\ otp' \in BOOLEAN /\ ret' \in {"OK", "ERR"}
        BY <2>3
    <2>5. /\ platform' \in Platforms /\ mounts' \in 0 .. MaxMounts
          /\ call' \in Calls \cup {NoCall} /\ pc' \in Nat \ {0}
        BY <2>3 DEF Types
    <2>6. work' \in Works /\ got' \in PageSet /\ cache' \in PageSet
        BY <2>3, PageFacts, WorkFacts
    <2> QED
        BY <2>2, <2>3, <2>4, <2>5, <2>6 DEF Types
<1>20. CASE UNCHANGED vars
    <2>1. Sequence(call)' = Sequence(call)
        BY <1>20 DEF vars, host, Sequence, Refused
    <2> QED
        BY <1>20, <2>1 DEF vars, host, device, Types
<1> QED
    BY <1>2, <1>3, <1>4, <1>5, <1>6, <1>7, <1>8, <1>9, <1>10, <1>11, <1>12, <1>13, <1>14, <1>15,
       <1>16, <1>17, <1>18, <1>19, <1>20 DEF Next, Host

LEMMA TypesInvariant == Spec => []Types
<1>1. Init => Types
    <2> SUFFICES ASSUME Init PROVE Types
        OBVIOUS
    <2>1. platform \in Platforms /\ mounts \in 0 .. MaxMounts /\ protect \in BOOLEAN
        BY DriverAssumption DEF Init
    <2>2. cells \in [Rows -> PageSet] /\ got \in PageSet /\ cache \in PageSet
        BY PageFacts DEF Init
    <2>3. mounted \in BOOLEAN /\ flg_protected \in BOOLEAN /\ wel \in BOOLEAN /\ otp \in BOOLEAN
        BY DEF Init
    <2>4. call = NoCall /\ pc = 1 /\ pc \in Nat \ {0} /\ ret \in {"OK", "ERR"}
        BY DEF Init
    <2>5. work \in Works
        BY WorkFacts DEF Init
    <2> QED
        BY <2>1, <2>2, <2>3, <2>4, <2>5 DEF Types
<1> QED
    BY <1>1, TypesStep, PTL DEF Spec

\* Every variable of driver and device keeps its type, for all platforms, blocks
\* and pages: pc never runs past the end of the operation's sequence, and no row
\* address leaves 16 bits.
THEOREM DriverKeepsTypes == Spec => []TypeOK
<1>1. Types => TypeOK
    <2> SUFFICES ASSUME Types PROVE TypeOK
        OBVIOUS
    <2>1. pc \in 1 .. (IF call = NoCall THEN 1 ELSE Len(Sequence(call)) + 1)
        <3>1. call # NoCall => Len(Sequence(call)) \in Nat
            BY SequenceLength DEF Types
        <3> QED
            BY <3>1 DEF Types
    <2>2. work \in {Idle, [kind |-> "reset"]} \cup [kind : {"program", "erase", "fetch"},
                       row : RowNumbers]
        <3>1. work \in Works
            BY DEF Types
        <3> QED
            BY <3>1, RowFacts DEF Works
    <2>3. \A page \in {got, cache} \cup {cells[r] : r \in Rows} : DOMAIN page = {"head", "tail"}
        BY DEF Types, PageSet
    <2> QED
        BY <2>1, <2>2, <2>3 DEF Types, TypeOK
<1> QED
    BY <1>1, TypesInvariant, PTL
-----------------------------------------------------------------------------
(* No command is lost *)

\* The RP2040 driver waits for the end of what it starts; the others leave the
\* device at work, and reset it unasked when they open it again.
WaitsOrOpensOnce == (\A pl \in Platforms : pl = "rp2040") \/ MaxMounts <= 1

\* What the device is known to do at each step of an operation.
HeedInv ==
    /\ \A s \in Commands : AtStep(s) => work = Idle
    /\ AtStep("sleep") => work \in {Idle, [kind |-> "reset"]}
    /\ \A s \in {"LOAD", "EXECUTE", "ERASE"} : AtStep(s) => wel
    /\ call # NoCall =>
          \A j \in Nat \ {0} : (j < pc /\ Sequence(call)[j] = "UNPROTECT") => ~ protect
    /\ mounts = 0 => work = Idle /\ call = NoCall /\ ~ mounted

\* One step of a sequence to the next, given what the step did to the device.
LEMMA HeedAdvance ==
    ASSUME Types, HeedInv, NEW s, AtStep(s), Advance,
           s \in ({"ready", "wel", "sleep"} \cup Commands) \ Starters => work' = Idle,
           s = "ready" => work' = Idle,
           s = "RESET" => work' = [kind |-> "reset"],
           s = "wel" => wel',
           s = "UNPROTECT" => ~ protect',
           ~ protect => ~ protect'
    PROVE  HeedInv'
<1>1. /\ call \in Calls /\ call # NoCall /\ platform \in Platforms /\ pc \in Nat \ {0}
      /\ s = Sequence(call)[pc] /\ Len(Sequence(call)) \in Nat
    BY StepFacts DEF AtStep, Types
<1>2. /\ Sequence(call)' = Sequence(call) /\ pc' = pc + 1
      /\ UNCHANGED <<call, mounts, mounted, platform>>
    BY DEF Advance, Sequence, Refused
<1>3. WellFormed(Sequence(call), StepsOf(call))
    BY <1>1, SequenceOf, SequenceOfCall
<1>4. ASSUME NEW t, AtStep(t)'
      PROVE  /\ t \in Commands => s \in ({"ready", "wel", "sleep"} \cup Commands) \ Starters
             /\ t = "sleep" => s = "RESET"
             /\ t \in {"LOAD", "EXECUTE", "ERASE"} => s = "wel"
    <2>1. pc + 1 <= Len(Sequence(call)) /\ t = Sequence(call)[pc + 1]
        BY <1>2, <1>4 DEF AtStep
    <2>2. pc \in 1 .. Len(Sequence(call)) - 1
        BY <1>1, <2>1
    <2> QED
        BY <1>1, <1>3, <2>1, <2>2 DEF WellFormed
<1>5. ASSUME NEW j \in Nat \ {0}, j < pc', Sequence(call)'[j] = "UNPROTECT" PROVE ~ protect'
    <2>1. CASE j = pc
        BY <1>1, <1>2, <1>5, <2>1
    <2>2. CASE j < pc
        BY <1>1, <1>2, <1>5, <2>2 DEF HeedInv
    <2> QED
        BY <1>1, <1>2, <1>5, <2>1, <2>2
<1>6. mounts' # 0
    BY <1>1, <1>2 DEF HeedInv
<1> QED
    BY <1>4, <1>5, <1>6 DEF HeedInv

\* An operation starts with a poll, unless it opens the device for the first time.
LEMMA HeedStart ==
    ASSUME WaitsOrOpensOnce, Types, HeedInv, NEW c \in Calls, Start(c)
    PROVE  HeedInv'
<1>1. /\ call' = c /\ pc' = 1 /\ platform' \in Platforms
      /\ UNCHANGED <<work, wel, protect, mounted>>
    BY DEF Start, device, Types
<1>2. Sequence(call)' = SequenceOn(platform', c)
    BY <1>1, SequenceOfCall
<1>3. WellFormed(SequenceOn(platform', c), StepsOf(c))
    BY <1>1, SequenceOf
<1>4. SequenceOn(platform', c)[1] \in {"ready", "RESET", "REFUSE"}
    BY <1>3 DEF WellFormed
<1>5. SequenceOn(platform', c)[1] = "RESET" => work = Idle
    <2> SUFFICES ASSUME SequenceOn(platform', c)[1] = "RESET" PROVE work = Idle
        OBVIOUS
    <2>1. c.op = "create"
        BY <1>3, SequenceOf
        DEF WellFormed, StepsOf, RefusedSteps, CreateSteps, EraseSteps, ReadSteps, WriteSteps
    <2>2. platform' # "rp2040"
        <3>1. SequenceOn("rp2040", c) = Create_rp2040
            BY <2>1 DEF SequenceOn, Sequences, Refused
        <3> QED
            BY <3>1 DEF Create_rp2040
    <2>3. MaxMounts <= 1 /\ mounts < MaxMounts
        BY <1>1, <2>1, <2>2 DEF WaitsOrOpensOnce, Start
    <2>4. mounts = 0
        BY <2>3, DriverAssumption DEF Types
    <2> QED
        BY <2>4 DEF HeedInv
<1>6. \A t : AtStep(t)' => t = SequenceOn(platform', c)[1]
    BY <1>1, <1>2 DEF AtStep
<1>7. ~ \E j \in Nat \ {0} : j < 1
    OBVIOUS
<1>8. mounts' # 0
    BY DEF Start, Types, HeedInv
<1> QED
    BY <1>1, <1>4, <1>5, <1>6, <1>7, <1>8 DEF HeedInv, Commands

LEMMA HeedStep ==
    ASSUME WaitsOrOpensOnce
    PROVE  Types /\ HeedInv /\ [Next]_vars => HeedInv'
<1> SUFFICES ASSUME Types, HeedInv, [Next]_vars PROVE HeedInv'
    OBVIOUS
<1>1. ASSUME NEW c \in Calls, Start(c) PROVE HeedInv'
    BY <1>1, HeedStart
<1>2. \A s \in Commands : AtStep(s) => work = Idle
    BY DEF HeedInv
<1>3. CASE Poll
    <2>1. Advance /\ UNCHANGED <<work, wel, protect>>
        BY <1>3 DEF Poll, device
    <2>2. CASE AtStep("ready") /\ ~ Busy
        BY <2>1, <2>2, HeedAdvance DEF Busy
    <2>3. CASE AtStep("wel") /\ ~ Busy /\ wel
        BY <2>1, <2>3, HeedAdvance DEF Busy
    <2>4. CASE AtStep("sleep") /\ work.kind # "reset"
        <3>1. work = Idle
            BY <2>4 DEF HeedInv
        <3> QED
            BY <2>1, <2>4, <3>1, HeedAdvance
    <2> QED
        BY <1>3, <2>2, <2>3, <2>4 DEF Poll
<1>4. CASE DeviceReset
    <2>1. AtStep("RESET") /\ Advance /\ work' = [kind |-> "reset"] /\ UNCHANGED protect
        BY <1>4 DEF DeviceReset
    <2> QED
        BY <2>1, HeedAdvance DEF Starters
<1>5. ASSUME NEW s \in {"JEDEC", "WREN", "LOAD", "READ_SR1", "READ_MODE", "READ"},
             AtStep(s), Advance, UNCHANGED <<work, protect>>
      PROVE  HeedInv'
    <2>1. work' = Idle
        BY <1>2, <1>5 DEF Commands
    <2> QED
        BY <1>5, <2>1, HeedAdvance
<1>6. CASE Unprotect
    <2>1. AtStep("UNPROTECT") /\ Advance /\ UNCHANGED work /\ protect' = (protect /\ Busy)
        BY <1>6 DEF Unprotect
    <2>2. work = Idle
        BY <1>2, <2>1 DEF Commands
    <2> QED
        BY <2>1, <2>2, HeedAdvance DEF Busy
<1>7. CASE JedecId \/ WriteEnable \/ Load \/ ReadProtected \/ ReadMode \/ Read
    BY <1>5, <1>7 DEF JedecId, WriteEnable, Load, ReadProtected, ReadMode, Read, device
<1>8. ASSUME NEW s \in {"EXECUTE", "ERASE", "PAGE_READ"}, AtStep(s), Advance, UNCHANGED protect
      PROVE  HeedInv'
    BY <1>8, HeedAdvance DEF Starters
<1>9. CASE Execute \/ BlockErase \/ PageDataRead
    BY <1>8, <1>9 DEF Execute, BlockErase, PageDataRead
<1>10. ASSUME call' = NoCall, mounts' # 0 PROVE HeedInv'
    BY <1>10 DEF HeedInv, AtStep
<1>11. CASE Refuse \/ Finished
    <2>1. call' = NoCall /\ call # NoCall /\ mounts' = mounts
        BY <1>11 DEF Refuse, Finished, AtStep
    <2> QED
        BY <1>10, <2>1 DEF HeedInv
<1>12. CASE Finish
    <2>1. /\ work # Idle /\ work' = Idle
          /\ UNCHANGED <<platform, mounted, mounts, call, pc, protect>>
        BY <1>12 DEF Finish, host, Busy
    <2>2. Sequence(call)' = Sequence(call)
        BY <2>1 DEF Sequence, Refused
    <2>3. \A s : AtStep(s)' <=> AtStep(s)
        BY <2>1, <2>2 DEF AtStep
    <2>4. \A s \in Commands : ~ AtStep(s)
        BY <1>2, <2>1
    <2> QED
        BY <2>1, <2>2, <2>3, <2>4 DEF HeedInv, Commands
<1>13. CASE Release
    <2>1. call' = NoCall /\ mounted /\ mounts' = mounts
        BY <1>13 DEF Release
    <2> QED
        BY <1>10, <2>1 DEF HeedInv
<1>14. CASE Fail
    <2>1. call' = NoCall /\ mounts' = mounts /\ mounts > 0
        BY <1>14 DEF Fail
    <2>2. mounts' # 0
        BY <2>1 DEF Types
    <2> QED
        BY <1>10, <2>1, <2>2
<1>15. CASE UNCHANGED vars
    <2>1. UNCHANGED <<platform, mounted, mounts, call, pc, work, wel, protect>>
        BY <1>15 DEF vars, host, device
    <2>2. Sequence(call)' = Sequence(call)
        BY <2>1 DEF Sequence, Refused
    <2>3. \A s : AtStep(s)' <=> AtStep(s)
        BY <2>1, <2>2 DEF AtStep
    <2> QED
        BY <2>1, <2>2, <2>3 DEF HeedInv
<1> QED
    BY <1>1, <1>3, <1>4, <1>6, <1>7, <1>9, <1>11, <1>12, <1>13, <1>14, <1>15 DEF Next, Host

LEMMA HeedInvariant == WaitsOrOpensOnce => (Spec => []HeedInv)
<1> SUFFICES ASSUME WaitsOrOpensOnce PROVE Spec => []HeedInv
    OBVIOUS
<1>1. Init => HeedInv
    BY DEF Init, HeedInv, AtStep
<1>2. Types /\ HeedInv /\ [Next]_vars => HeedInv'
    BY HeedStep
<1> QED
    BY <1>1, <1>2, TypesInvariant, PTL DEF Spec

\* The array is unprotected, and the latch set, when a page is programmed or a
\* block erased.
LEMMA ChangesAreAccepted ==
    ASSUME Types, HeedInv, NEW s \in {"EXECUTE", "ERASE"}, AtStep(s)
    PROVE  Accepts
<1>1. /\ call \in Calls /\ call # NoCall /\ platform \in Platforms /\ pc \in Nat \ {0}
      /\ pc <= Len(Sequence(call)) /\ s = Sequence(call)[pc] /\ Len(Sequence(call)) \in Nat
    BY StepFacts DEF AtStep, Types
<1>2. WellFormed(Sequence(call), StepsOf(call))
    BY <1>1, SequenceOf, SequenceOfCall
<1>3. pc > 4 /\ (Sequence(call)[2] = "UNPROTECT" \/ Sequence(call)[4] = "UNPROTECT")
    BY <1>1, <1>2 DEF WellFormed
<1>4. ~ protect
    BY <1>1, <1>3 DEF HeedInv
<1> QED
    BY <1>4 DEF HeedInv, Accepts, Busy, Commands

\* The device heeds every command of mxfs_driver_write, mxfs_driver_erase and
\* mxfs_driver_read, and of erase_block, write_block_page and read_by_block_page:
\* none is sent while it is busy, and PG_EXECUTE and BLOCK_ERASE find the latch
\* set and the array unprotected; whatever the order of the calls, and on the
\* RP2040 also after losses of power and when the device is opened again.
THEOREM NoCommandIsLost == WaitsOrOpensOnce => (Spec => CommandsAreHeeded)
<1> SUFFICES ASSUME WaitsOrOpensOnce PROVE Spec => CommandsAreHeeded
    OBVIOUS
<1>1. Types /\ HeedInv /\ [Next]_vars =>
        [\A s \in Commands : AtStep(s) /\ pc' = pc + 1 =>
            /\ ~Busy
            /\ s = "LOAD" => wel
            /\ s \in {"EXECUTE", "ERASE"} => Accepts]_vars
    <2> SUFFICES ASSUME Types, HeedInv, NEW s \in Commands, AtStep(s)
                 PROVE  ~Busy /\ (s = "LOAD" => wel) /\ (s \in {"EXECUTE", "ERASE"} => Accepts)
        OBVIOUS
    <2> QED
        BY ChangesAreAccepted DEF HeedInv, Busy
<1>2. Spec => []HeedInv
    BY HeedInvariant
<1> QED
    BY <1>1, <1>2, TypesInvariant, PTL DEF Spec, CommandsAreHeeded

-----------------------------------------------------------------------------
(* What a page holds *)

\* A page is the bytes of one write, and padding.
Clean(page) == page.tail \in {page.head, "zero", "blank"}

CleanInv == Clean(cache) /\ \A r \in Rows : Clean(cells[r])

LEMMA CleanPages ==
    /\ Clean(Blank) /\ Clean(Torn) /\ Clean(Page("otp", "otp"))
    /\ \A old, new : Clean(new) => Clean(Burn(old, new))
    BY DEF Clean, Blank, Torn, Page, Burn

LEMMA CleanSettled ==
    ASSUME Types, CleanInv, NEW r \in Rows
    PROVE  Clean(Settled[r]) /\ Clean(CutShort[r])
<1>1. cells \in [Rows -> PageSet]
    BY DEF Types
<1>2. CASE work.kind = "program"
    BY <1>1, <1>2, CleanPages DEF Settled, CutShort, CleanInv
<1>3. CASE work.kind = "erase"
    BY <1>1, <1>3, CleanPages DEF Settled, CutShort, CleanInv
<1>4. CASE work.kind \notin {"program", "erase"}
    BY <1>4 DEF Settled, CutShort, CleanInv
<1> QED
    BY <1>2, <1>3, <1>4

\* A page holds the bytes of the write that programmed it and padding: the RP2040
\* driver sends a whole page, so that no rest of another page which the device
\* still has in its buffer is programmed with it.
THEOREM PagesAreNotMixed == (\A pl \in Platforms : pl = "rp2040") => (Spec => []PageIsCallers)
<1> SUFFICES ASSUME \A pl \in Platforms : pl = "rp2040" PROVE Spec => []PageIsCallers
    OBVIOUS
<1>1. Init => CleanInv
    BY CleanPages DEF Init, CleanInv
<1>2. Types /\ CleanInv /\ [Next]_vars => CleanInv'
    <2> SUFFICES ASSUME Types, CleanInv, [Next]_vars PROVE CleanInv'
        OBVIOUS
    <2>1. CASE UNCHANGED <<cache, cells>>
        BY <2>1 DEF CleanInv
    <2>2. CASE DeviceReset
        BY <2>2, CleanSettled DEF DeviceReset, CleanInv
    <2>3. CASE Load
        <3>1. platform = "rp2040"
            BY DEF Types
        <3>2. Clean(Loaded)
            BY <3>1 DEF Loaded, Clean, Page
        <3> QED
            BY <2>3, <3>2 DEF Load, CleanInv
    <2>4. CASE Finish
        <3>1. work.kind = "fetch" => work.row \in Rows
            BY WorkFacts DEF Types
        <3>2. Clean(cache')
            BY <2>4, <3>1, CleanPages DEF Finish, CleanInv
        <3>3. \A r \in Rows : Clean(cells'[r])
            BY <2>4, CleanSettled DEF Finish, CleanInv
        <3> QED
            BY <3>2, <3>3 DEF CleanInv
    <2>5. CASE Fail
        <3>1. cache' = Blank /\ cells' \in {cells, CutShort, Settled}
            BY <2>5 DEF Fail
        <3> QED
            BY <3>1, CleanPages, CleanSettled DEF CleanInv
    <2>6. CASE \/ \E c \in Calls : Start(c)
               \/ Poll \/ JedecId \/ Unprotect \/ WriteEnable \/ Refuse \/ Execute \/ BlockErase
               \/ ReadProtected \/ ReadMode \/ PageDataRead \/ Read \/ Finished \/ Release
               \/ UNCHANGED vars
        <3>1. UNCHANGED <<cache, cells>>
            BY <2>6 DEF Start, Poll, JedecId, Unprotect, WriteEnable, Refuse, Execute, BlockErase,
                        ReadProtected, ReadMode, PageDataRead, Read, Finished, Release, vars, device
        <3> QED
            BY <2>1, <3>1
    <2> QED
        BY <2>2, <2>3, <2>4, <2>5, <2>6 DEF Next, Host
<1>3. CleanInv => PageIsCallers
    BY DEF CleanInv, Clean, PageIsCallers
<1> QED
    BY <1>1, <1>2, <1>3, TypesInvariant, PTL DEF Spec

-----------------------------------------------------------------------------
(***************************************************************************)
(* The drivers implement NandFlash, what the file system expects of them:  *)
(* the RP2040 driver always, the other two as long as the device is opened *)
(* once, unprotected, and power does not fail.                             *)
(***************************************************************************)

OnlyRp2040 == \A pl \in Platforms : pl = "rp2040"

DriverHolds ==
    \/ OnlyRp2040
    \/ MaxMounts <= 1 /\ ~ PowerMayFail /\ ~ ProtectedAtStart

-----------------------------------------------------------------------------
(* Where an operation does its work *)

WorkSteps ==
    [rp2040  |-> [create |-> 8, erase |-> 8, write |-> 10, read |-> 8, refused |-> 1],
     bcm2711 |-> [create |-> 3, erase |-> 6, write |-> 9, read |-> 7, refused |-> 6],
     parent  |-> [create |-> 5, erase |-> 6, write |-> 10, read |-> 7, refused |-> 6]]

WorkAt(pl, c) == WorkSteps[pl][IF Refused(c) THEN "refused" ELSE c.op]

Working == {"EXECUTE", "ERASE", "READ"}

\* The page buffer is loaded once before the page is programmed, and nothing but
\* polls and write enables comes in between;
WriteShape(seq, w) ==
    /\ DOMAIN seq = 1 .. Len(seq)
    /\ w \in 7 .. Len(seq) /\ seq[w] = "EXECUTE"
    /\ \A i \in 1 .. Len(seq) : seq[i] \in Working => i = w
    /\ \A i \in 1 .. Len(seq) : seq[i] = "LOAD" <=> i = 6
    /\ \A i \in 7 .. w - 1 : seq[i] \in {"ready", "wel", "WREN"}

\* it is read right after the page is in it.
ReadShape(seq, w) ==
    /\ DOMAIN seq = 1 .. Len(seq)
    /\ w \in 3 .. Len(seq) /\ seq[w] = "READ" /\ seq[w - 1] = "ready"
    /\ \A i \in 1 .. Len(seq) : seq[i] \in Working => i = w
    /\ \A i \in 1 .. Len(seq) : seq[i] = "PAGE_READ" <=> i = w - 2

EraseShape(seq, w) ==
    /\ DOMAIN seq = 1 .. Len(seq)
    /\ w \in 1 .. Len(seq) /\ seq[w] = "ERASE"
    /\ \A i \in 1 .. Len(seq) : seq[i] \in Working => i = w

\* Opening the device and refusing a write are done at their last step.
OtherShape(seq, w) ==
    /\ DOMAIN seq = 1 .. Len(seq)
    /\ w = Len(seq) /\ w \in Nat \ {0}
    /\ \A i \in 1 .. Len(seq) : seq[i] \notin Working

\* The RP2040 driver ends an operation with a poll, or a command that needs none.
Waits(seq) ==
    /\ seq[Len(seq)] \in {"ready", "wel", "READ", "REFUSE"}
    /\ \A i \in 1 .. Len(seq) : seq[i] # "sleep" /\ (seq[i] = "REFUSE" => i = 1)

LEMMA WriteShapes ==
    /\ WriteShape(Write_rp2040, 10) /\ WriteShape(Write_bcm2711, 9) /\ WriteShape(Write_parent, 10)
<1> USE DEF WriteShape, Working
<1>1. WriteShape(Write_rp2040, 10)
    BY DEF Write_rp2040
<1>2. WriteShape(Write_bcm2711, 9)
    BY DEF Write_bcm2711
<1>3. WriteShape(Write_parent, 10)
    BY DEF Write_parent
<1> QED
    BY <1>1, <1>2, <1>3

LEMMA ReadShapes ==
    /\ ReadShape(Read_rp2040, 8) /\ ReadShape(Read_bcm2711, 7) /\ ReadShape(Read_parent, 7)
<1> USE DEF ReadShape, Working
<1>1. ReadShape(Read_rp2040, 8)
    BY DEF Read_rp2040
<1>2. ReadShape(Read_bcm2711, 7)
    BY DEF Read_bcm2711
<1>3. ReadShape(Read_parent, 7)
    BY DEF Read_parent
<1> QED
    BY <1>1, <1>2, <1>3

LEMMA EraseShapes ==
    /\ EraseShape(Erase_rp2040, 8) /\ EraseShape(Erase_bcm2711, 6) /\ EraseShape(Erase_parent, 6)
<1> USE DEF EraseShape, Working
<1>1. EraseShape(Erase_rp2040, 8)
    BY DEF Erase_rp2040
<1>2. EraseShape(Erase_bcm2711, 6)
    BY DEF Erase_bcm2711
<1>3. EraseShape(Erase_parent, 6)
    BY DEF Erase_parent
<1> QED
    BY <1>1, <1>2, <1>3

LEMMA OtherShapes ==
    /\ OtherShape(Create_rp2040, 8) /\ OtherShape(Create_bcm2711, 3) /\ OtherShape(Create_parent, 5)
    /\ OtherShape(Refused_rp2040, 1) /\ OtherShape(Refused_polled, 6)
<1> USE DEF OtherShape, Working
<1>1. OtherShape(Create_rp2040, 8)
    BY DEF Create_rp2040
<1>2. OtherShape(Create_bcm2711, 3)
    BY DEF Create_bcm2711
<1>3. OtherShape(Create_parent, 5)
    BY DEF Create_parent
<1>4. OtherShape(Refused_rp2040, 1)
    BY DEF Refused_rp2040
<1>5. OtherShape(Refused_polled, 6)
    BY DEF Refused_polled
<1> QED
    BY <1>1, <1>2, <1>3, <1>4, <1>5

LEMMA WaitingShapes ==
    /\ Waits(Create_rp2040) /\ Waits(Erase_rp2040) /\ Waits(Write_rp2040) /\ Waits(Read_rp2040)
    /\ Waits(Refused_rp2040)
<1> USE DEF Waits
<1>1. Waits(Create_rp2040)
    BY DEF Create_rp2040
<1>2. Waits(Erase_rp2040)
    BY DEF Erase_rp2040
<1>3. Waits(Write_rp2040)
    BY DEF Write_rp2040
<1>4. Waits(Read_rp2040)
    BY DEF Read_rp2040
<1>5. Waits(Refused_rp2040)
    BY DEF Refused_rp2040
<1> QED
    BY <1>1, <1>2, <1>3, <1>4, <1>5

LEMMA ShapeOf ==
    ASSUME NEW pl \in Platforms, NEW c \in Calls
    PROVE  /\ WorkAt(pl, c) \in 1 .. Len(SequenceOn(pl, c))
           /\ Refused(c) \/ c.op = "create" => OtherShape(SequenceOn(pl, c), WorkAt(pl, c))
           /\ c.op = "erase" => EraseShape(SequenceOn(pl, c), WorkAt(pl, c))
           /\ c.op = "read" => ReadShape(SequenceOn(pl, c), WorkAt(pl, c))
           /\ c.op = "write" /\ ~ Refused(c) => WriteShape(SequenceOn(pl, c), WorkAt(pl, c))
           /\ pl = "rp2040" => Waits(SequenceOn(pl, c))
<1>1. /\ c.op \in {"create", "erase", "read", "write"} /\ (Refused(c) => c.op = "write")
      /\ Len(SequenceOn(pl, c)) \in Nat
    BY SequenceOf DEF WellFormed
<1>2. pl \in {"rp2040", "bcm2711", "parent"}
    BY DriverAssumption
<1>3. CASE Refused(c)
    <2>1. \/ pl = "rp2040" /\ SequenceOn(pl, c) = Refused_rp2040 /\ WorkAt(pl, c) = 1
          \/ pl # "rp2040" /\ SequenceOn(pl, c) = Refused_polled /\ WorkAt(pl, c) = 6
        BY <1>2, <1>3 DEF SequenceOn, Sequences, WorkAt, WorkSteps
    <2>2. OtherShape(SequenceOn(pl, c), WorkAt(pl, c)) /\ (pl = "rp2040" => Waits(SequenceOn(pl, c)))
        BY <2>1, OtherShapes, WaitingShapes
    <2>3. WorkAt(pl, c) \in 1 .. Len(SequenceOn(pl, c))
        BY <2>2 DEF OtherShape
    <2> QED
        BY <1>1, <1>3, <2>2, <2>3
<1>4. CASE ~ Refused(c) /\ c.op = "create"
    <2>1. \/ pl = "rp2040" /\ SequenceOn(pl, c) = Create_rp2040 /\ WorkAt(pl, c) = 8
          \/ pl # "rp2040" /\ SequenceOn(pl, c) = Create_bcm2711 /\ WorkAt(pl, c) = 3
          \/ pl # "rp2040" /\ SequenceOn(pl, c) = Create_parent /\ WorkAt(pl, c) = 5
        BY <1>2, <1>4 DEF SequenceOn, Sequences, WorkAt, WorkSteps
    <2>2. OtherShape(SequenceOn(pl, c), WorkAt(pl, c)) /\ (pl = "rp2040" => Waits(SequenceOn(pl, c)))
        BY <2>1, OtherShapes, WaitingShapes
    <2>3. WorkAt(pl, c) \in 1 .. Len(SequenceOn(pl, c))
        BY <2>2 DEF OtherShape
    <2> QED
        BY <1>1, <1>4, <2>2, <2>3
<1>5. CASE ~ Refused(c) /\ c.op = "erase"
    <2>1. \/ pl = "rp2040" /\ SequenceOn(pl, c) = Erase_rp2040 /\ WorkAt(pl, c) = 8
          \/ pl # "rp2040" /\ SequenceOn(pl, c) = Erase_bcm2711 /\ WorkAt(pl, c) = 6
          \/ pl # "rp2040" /\ SequenceOn(pl, c) = Erase_parent /\ WorkAt(pl, c) = 6
        BY <1>2, <1>5 DEF SequenceOn, Sequences, WorkAt, WorkSteps
    <2>2. EraseShape(SequenceOn(pl, c), WorkAt(pl, c)) /\ (pl = "rp2040" => Waits(SequenceOn(pl, c)))
        BY <2>1, EraseShapes, WaitingShapes
    <2>3. WorkAt(pl, c) \in 1 .. Len(SequenceOn(pl, c))
        BY <2>2 DEF EraseShape
    <2> QED
        BY <1>1, <1>5, <2>2, <2>3
<1>6. CASE ~ Refused(c) /\ c.op = "read"
    <2>1. \/ pl = "rp2040" /\ SequenceOn(pl, c) = Read_rp2040 /\ WorkAt(pl, c) = 8
          \/ pl # "rp2040" /\ SequenceOn(pl, c) = Read_bcm2711 /\ WorkAt(pl, c) = 7
          \/ pl # "rp2040" /\ SequenceOn(pl, c) = Read_parent /\ WorkAt(pl, c) = 7
        BY <1>2, <1>6 DEF SequenceOn, Sequences, WorkAt, WorkSteps
    <2>2. ReadShape(SequenceOn(pl, c), WorkAt(pl, c)) /\ (pl = "rp2040" => Waits(SequenceOn(pl, c)))
        BY <2>1, ReadShapes, WaitingShapes
    <2>3. WorkAt(pl, c) \in 1 .. Len(SequenceOn(pl, c))
        BY <1>1, <2>2 DEF ReadShape
    <2> QED
        BY <1>1, <1>6, <2>2, <2>3
<1>7. CASE ~ Refused(c) /\ c.op = "write"
    <2>1. \/ pl = "rp2040" /\ SequenceOn(pl, c) = Write_rp2040 /\ WorkAt(pl, c) = 10
          \/ pl # "rp2040" /\ SequenceOn(pl, c) = Write_bcm2711 /\ WorkAt(pl, c) = 9
          \/ pl # "rp2040" /\ SequenceOn(pl, c) = Write_parent /\ WorkAt(pl, c) = 10
        BY <1>2, <1>7 DEF SequenceOn, Sequences, WorkAt, WorkSteps
    <2>2. WriteShape(SequenceOn(pl, c), WorkAt(pl, c)) /\ (pl = "rp2040" => Waits(SequenceOn(pl, c)))
        BY <2>1, WriteShapes, WaitingShapes
    <2>3. WorkAt(pl, c) \in 1 .. Len(SequenceOn(pl, c))
        BY <1>1, <2>2 DEF WriteShape
    <2> QED
        BY <1>1, <1>7, <2>2, <2>3
<1> QED
    BY <1>1, <1>3, <1>4, <1>5, <1>6, <1>7

\* Served, in numbers.
LEMMA ServedMeans ==
    ASSUME NEW pl \in Platforms, NEW c \in Calls, NEW n \in Nat \ {0}
    PROVE  LET seq == SequenceOn(pl, c)
               at  == {i \in DOMAIN seq : seq[i] \in {"EXECUTE", "ERASE", "READ"}}
           IN  (IF at = {} THEN n > Len(seq) ELSE \A i \in at : n > i) <=> n > WorkAt(pl, c)
<1> DEFINE seq == SequenceOn(pl, c)
           w == WorkAt(pl, c)
           at == {i \in DOMAIN seq : seq[i] \in {"EXECUTE", "ERASE", "READ"}}
<1>1. /\ c.op \in {"create", "erase", "read", "write"}
      /\ WellFormed(seq, StepsOf(c)) /\ w \in 1 .. Len(seq)
    BY SequenceOf, ShapeOf
<1>2. Len(seq) \in Nat
    BY <1>1 DEF WellFormed
<1>3. DOMAIN seq = 1 .. Len(seq)
    BY <1>1, ShapeOf DEF OtherShape, EraseShape, ReadShape, WriteShape
<1>4. CASE Refused(c) \/ c.op = "create"
    <2>1. w = Len(seq) /\ \A i \in 1 .. Len(seq) : seq[i] \notin {"EXECUTE", "ERASE", "READ"}
        BY <1>4, ShapeOf DEF OtherShape, Working
    <2>2. at = {}
        BY <1>3, <2>1
    <2> QED
        BY <2>1, <2>2
<1>5. CASE ~ (Refused(c) \/ c.op = "create")
    <2>1. /\ seq[w] \in {"EXECUTE", "ERASE", "READ"}
          /\ \A i \in 1 .. Len(seq) : seq[i] \in {"EXECUTE", "ERASE", "READ"} => i = w
        BY <1>1, <1>5, ShapeOf DEF EraseShape, ReadShape, WriteShape, Working
    <2>2. at = {w}
        BY <1>1, <1>3, <2>1
    <2> QED
        BY <2>2
<1> QED
    BY <1>4, <1>5

-----------------------------------------------------------------------------
(* The main array stays selected, and no page comes out of the OTP area *)

\* Without protection at the start there is none to be copied to OTP_E.
LEMMA MainArray == DriverHolds => (Spec => [](otp = FALSE))
<1> SUFFICES ASSUME DriverHolds PROVE Spec => [](otp = FALSE)
    OBVIOUS
<1>1. CASE OnlyRp2040
    <2>1. Unprotects
        BY <1>1 DEF Unprotects, OnlyRp2040
    <2>2. Spec => []ArrayInv
        BY <2>1, ArrayInvariant
    <2>3. ArrayInv => otp = FALSE
        BY DEF ArrayInv
    <2> QED
        BY <2>2, <2>3, PTL
<1>2. CASE ~ PowerMayFail /\ ~ ProtectedAtStart
    <2> DEFINE Open == protect = FALSE /\ flg_protected = FALSE /\ otp = FALSE
    <2>1. Init => Open
        BY <1>2, DriverAssumption DEF Init
    <2>2. Open /\ [Next]_vars => Open'
        <3> SUFFICES ASSUME Open, [Next]_vars PROVE Open'
            OBVIOUS
        <3>1. CASE Fail
            BY <1>2, <3>1 DEF Fail
        <3>2. CASE \/ \E c \in Calls : Start(c)
                   \/ Poll \/ DeviceReset \/ JedecId \/ WriteEnable \/ Load \/ Refuse \/ Execute
                   \/ BlockErase \/ PageDataRead \/ Read \/ Finished \/ Release \/ UNCHANGED vars
            BY <3>2 DEF Start, Poll, DeviceReset, JedecId, WriteEnable, Load, Refuse, Execute,
                        BlockErase, PageDataRead, Read, Finished, Release, vars, host, device
        <3>3. CASE Unprotect
            BY <3>3 DEF Unprotect
        <3>4. CASE ReadProtected
            BY <3>4 DEF ReadProtected, device
        <3>5. CASE ReadMode
            BY <3>5 DEF ReadMode
        <3>6. CASE Finish
            BY <3>6 DEF Finish, host
        <3> QED
            BY <3>1, <3>2, <3>3, <3>4, <3>5, <3>6 DEF Next, Host
    <2>3. Open => otp = FALSE
        OBVIOUS
    <2> QED
        BY <2>1, <2>2, <2>3, PTL DEF Spec
<1> QED
    BY <1>1, <1>2 DEF DriverHolds

\* What may lie behind the bytes of a short write.
Rests == Data \cup {"zero", "blank", "torn"}

RestInv == cache.tail \in Rests /\ \A r \in Rows : cells[r].tail \in Rests

LEMMA RestOfPages ==
    /\ Blank.tail \in Rests /\ Torn.tail \in Rests
    /\ \A old, new : new.tail \in Rests => Burn(old, new).tail \in Rests
    BY DEF Rests, Blank, Torn, Page, Burn

LEMMA RestSettled ==
    ASSUME Types, RestInv, NEW r \in Rows
    PROVE  Settled[r].tail \in Rests /\ CutShort[r].tail \in Rests
<1>1. cells \in [Rows -> PageSet]
    BY DEF Types
<1>2. CASE work.kind = "program"
    BY <1>1, <1>2, RestOfPages DEF Settled, CutShort, RestInv
<1>3. CASE work.kind = "erase"
    BY <1>1, <1>3, RestOfPages DEF Settled, CutShort, RestInv
<1>4. CASE work.kind \notin {"program", "erase"}
    BY <1>4 DEF Settled, CutShort, RestInv
<1> QED
    BY <1>2, <1>3, <1>4

LEMMA RestStep == Types /\ otp = FALSE /\ RestInv /\ [Next]_vars => RestInv'
<1> SUFFICES ASSUME Types, otp = FALSE, RestInv, [Next]_vars PROVE RestInv'
    OBVIOUS
<1>1. CASE DeviceReset
    BY <1>1, RestSettled DEF DeviceReset, RestInv
<1>2. CASE Load
    <2>1. call \in Calls \cup {NoCall} /\ call.op = "write"
        BY <1>2, StepFacts DEF Load, Types
    <2>2. Loaded.tail \in Rests
        BY <2>1, CallFacts DEF Loaded, Page, Rests, RestInv
    <2> QED
        BY <1>2, <2>2 DEF Load, RestInv
<1>3. CASE Finish
    <2>1. work.kind = "fetch" => work.row \in Rows
        BY WorkFacts DEF Types
    <2>2. cache'.tail \in Rests
        BY <1>3, <2>1 DEF Finish, RestInv
    <2>3. \A r \in Rows : cells'[r].tail \in Rests
        BY <1>3, RestSettled DEF Finish, RestInv
    <2> QED
        BY <2>2, <2>3 DEF RestInv
<1>4. CASE Fail
    <2>1. cache' = Blank /\ cells' \in {cells, CutShort, Settled}
        BY <1>4 DEF Fail
    <2> QED
        BY <2>1, RestOfPages, RestSettled DEF RestInv
<1>5. CASE \/ \E c \in Calls : Start(c)
           \/ Poll \/ JedecId \/ Unprotect \/ WriteEnable \/ Refuse \/ Execute \/ BlockErase
           \/ ReadProtected \/ ReadMode \/ PageDataRead \/ Read \/ Finished \/ Release
           \/ UNCHANGED vars
    <2>1. UNCHANGED <<cache, cells>>
        BY <1>5 DEF Start, Poll, JedecId, Unprotect, WriteEnable, Refuse, Execute, BlockErase,
                    ReadProtected, ReadMode, PageDataRead, Read, Finished, Release, vars, device
    <2> QED
        BY <2>1 DEF RestInv
<1> QED
    BY <1>1, <1>2, <1>3, <1>4, <1>5 DEF Next, Host

-----------------------------------------------------------------------------
(* What is in the page buffer when it counts *)

CallRow  == RowAddress(call.block, call.page)
CallWork == WorkAt(platform, call)

Writable(c) ==
    IF c.len = "page" THEN {Page(c.data, c.data)} ELSE {Page(c.data, rest) : rest \in Rests}

\* From the load to the program the page buffer holds the caller's page; when
\* the page buffer is read, it holds the page that was asked for.
CacheInv ==
    /\ (call.op = "write" /\ ~ Refused(call) /\ 6 < pc /\ pc <= CallWork) =>
            cache \in Writable(call) /\ work = Idle
    /\ (call.op = "read" /\ pc = CallWork - 1) =>
            \/ work = [kind |-> "fetch", row |-> CallRow]
            \/ work = Idle /\ cache = cells[CallRow]
    /\ (call.op = "read" /\ pc = CallWork) => work = Idle /\ cache = cells[CallRow]

\* The shape of the operation in progress.
LEMMA CallShape ==
    ASSUME Types, call # NoCall
    PROVE  /\ call \in Calls /\ call.op \in {"create", "erase", "read", "write"}
           /\ Len(Sequence(call)) \in Nat /\ CallWork \in 1 .. Len(Sequence(call))
           /\ Refused(call) \/ call.op = "create" => OtherShape(Sequence(call), CallWork)
           /\ call.op = "erase" => EraseShape(Sequence(call), CallWork)
           /\ call.op = "read" => ReadShape(Sequence(call), CallWork)
           /\ call.op = "write" /\ ~ Refused(call) => WriteShape(Sequence(call), CallWork)
           /\ platform = "rp2040" => Waits(Sequence(call))
<1>1. call \in Calls /\ platform \in Platforms
    BY DEF Types
<1>2. Sequence(call) = SequenceOn(platform, call)
    BY SequenceOfCall
<1> QED
    BY <1>1, <1>2, SequenceOf, ShapeOf, SequenceLength DEF CallWork

LEMMA CacheAdvance ==
    ASSUME Types, CacheInv, NEW s, AtStep(s), Advance,
           s \in {"ready", "wel", "WREN"} => UNCHANGED <<work, cache, cells>>,
           s \in {"ready", "wel"} => work = Idle,
           s = "LOAD" => work' = Idle /\ cache' \in Writable(call),
           s = "PAGE_READ" => work' = [kind |-> "fetch", row |-> CallRow]
    PROVE  CacheInv'
<1>1. /\ call \in Calls /\ call # NoCall /\ pc \in Nat \ {0} /\ pc <= Len(Sequence(call))
      /\ s = Sequence(call)[pc] /\ Len(Sequence(call)) \in Nat /\ CallWork \in Nat
      /\ call.op \in {"create", "erase", "read", "write"}
    BY CallShape DEF AtStep, Types
<1>2. /\ pc' = pc + 1 /\ UNCHANGED call /\ (Refused(call)' <=> Refused(call))
      /\ CallWork' = CallWork /\ CallRow' = CallRow /\ Writable(call)' = Writable(call)
    BY DEF Advance, CallWork, CallRow, WorkAt, Refused, Writable
<1>3. ASSUME call.op = "write", ~ Refused(call), 6 < pc + 1, pc + 1 <= CallWork
      PROVE  cache' \in Writable(call) /\ work' = Idle
    <2>1. WriteShape(Sequence(call), CallWork)
        BY <1>1, <1>3, CallShape
    <2>2. CASE pc = 6
        BY <1>1, <2>1, <2>2 DEF WriteShape
    <2>3. CASE pc \in 7 .. CallWork - 1
        <3>1. s \in {"ready", "wel", "WREN"}
            BY <1>1, <2>1, <2>3 DEF WriteShape
        <3>2. cache \in Writable(call) /\ work = Idle
            BY <1>1, <1>3, <2>3 DEF CacheInv
        <3> QED
            BY <3>1, <3>2
    <2> QED
        BY <1>1, <1>3, <2>2, <2>3
<1>4. ASSUME call.op = "read", pc + 1 = CallWork - 1
      PROVE  work' = [kind |-> "fetch", row |-> CallRow]
    <2>1. ReadShape(Sequence(call), CallWork)
        BY <1>1, <1>4, CallShape
    <2> QED
        BY <1>1, <1>4, <2>1 DEF ReadShape
<1>5. ASSUME call.op = "read", pc + 1 = CallWork
      PROVE  work' = Idle /\ cache' = cells'[CallRow]
    <2>1. ReadShape(Sequence(call), CallWork)
        BY <1>1, <1>5, CallShape
    <2>2. s = "ready" /\ pc = CallWork - 1
        BY <1>1, <1>5, <2>1 DEF ReadShape
    <2>3. work = Idle /\ UNCHANGED <<work, cache, cells>>
        BY <2>2
    <2>4. cache = cells[CallRow]
        BY <1>5, <2>2, <2>3 DEF CacheInv, Idle
    <2> QED
        BY <2>3, <2>4
<1> QED
    BY <1>2, <1>3, <1>4, <1>5 DEF CacheInv

\* What is loaded is the caller's bytes, and the driver's zeros or a rest.
LEMMA LoadedIsWritable ==
    ASSUME Types, RestInv, call.op = "write"
    PROVE  Loaded \in Writable(call)
    BY DEF Loaded, Writable, RestInv, Rests

LEMMA CacheStep == Types /\ HeedInv /\ otp = FALSE /\ RestInv /\ CacheInv /\ [Next]_vars => CacheInv'
<1> SUFFICES ASSUME Types, HeedInv, otp = FALSE, RestInv, CacheInv, [Next]_vars PROVE CacheInv'
    OBVIOUS
<1>1. ASSUME call' = NoCall PROVE CacheInv'
    BY <1>1 DEF CacheInv, NoCall
<1>2. CASE Refuse \/ Finished \/ Release \/ Fail
    BY <1>1, <1>2 DEF Refuse, Finished, Release, Fail
<1>3. ASSUME NEW c \in Calls, Start(c) PROVE CacheInv'
    <2>1. call' = c /\ pc' = 1 /\ platform' \in Platforms
        BY <1>3 DEF Start, Types
    <2>2. (Refused(call)' <=> Refused(c)) /\ CallWork' = WorkAt(platform', c)
        BY <2>1 DEF Refused, CallWork
    <2>3. c.op = "read" => ReadShape(SequenceOn(platform', c), WorkAt(platform', c))
        BY <2>1, ShapeOf
    <2>4. c.op = "read" => WorkAt(platform', c) \in Nat /\ WorkAt(platform', c) >= 3
        BY <2>1, <2>3, SequenceOf DEF ReadShape, WellFormed
    <2> QED
        BY <2>1, <2>2, <2>4 DEF CacheInv
<1>4. CASE Poll
    <2>1. Advance /\ UNCHANGED <<work, cache, cells>>
        BY <1>4 DEF Poll, device
    <2>2. PICK s \in {"ready", "wel", "sleep"} : AtStep(s) /\ (s \in {"ready", "wel"} => work = Idle)
        BY <1>4 DEF Poll, Busy
    <2> QED
        BY <2>1, <2>2, CacheAdvance
<1>5. CASE Load
    <2>1. AtStep("LOAD") /\ Advance /\ work = Idle /\ UNCHANGED work /\ wel /\ call.op = "write"
        BY <1>5, StepFacts DEF Load, HeedInv, Commands
    <2>2. cache' = Loaded
        BY <1>5, <2>1 DEF Load, Busy
    <2>3. cache' \in Writable(call)
        BY <2>1, <2>2, LoadedIsWritable
    <2> QED
        BY <2>1, <2>3, CacheAdvance
<1>6. CASE PageDataRead
    <2>1. AtStep("PAGE_READ") /\ Advance /\ work = Idle
        BY <1>6 DEF PageDataRead, HeedInv, Commands
    <2>2. work' = [kind |-> "fetch", row |-> CallRow]
        BY <1>6, <2>1 DEF PageDataRead, Busy, CallRow
    <2> QED
        BY <2>1, <2>2, CacheAdvance
<1>7. CASE WriteEnable
    <2>1. AtStep("WREN") /\ Advance /\ UNCHANGED <<work, cache, cells>>
        BY <1>7 DEF WriteEnable
    <2> QED
        BY <2>1, CacheAdvance
<1>8. ASSUME NEW s \in {"RESET", "JEDEC", "UNPROTECT", "EXECUTE", "ERASE", "READ_SR1", "READ_MODE",
                        "READ"},
             AtStep(s), Advance
      PROVE  CacheInv'
    BY <1>8, CacheAdvance
<1>9. CASE \/ DeviceReset \/ JedecId \/ Unprotect \/ Execute \/ BlockErase \/ ReadProtected
           \/ ReadMode \/ Read
    BY <1>8, <1>9
    DEF DeviceReset, JedecId, Unprotect, Execute, BlockErase, ReadProtected, ReadMode, Read
<1>10. CASE Finish
    <2>1. UNCHANGED <<call, pc, platform>> /\ work # Idle /\ work' = Idle
        BY <1>10 DEF Finish, host, Busy
    <2>2. /\ CallWork' = CallWork /\ CallRow' = CallRow /\ (Refused(call)' <=> Refused(call))
        BY <2>1 DEF CallWork, CallRow, WorkAt, Refused
    <2>3. ASSUME work = [kind |-> "fetch", row |-> CallRow] PROVE cache' = cells'[CallRow]
        <3>1. work.kind = "fetch" /\ work.row = CallRow
            BY <2>3
        <3>2. Settled = cells
            BY <3>1 DEF Settled
        <3> QED
            BY <1>10, <3>1, <3>2 DEF Finish
    <2> QED
        BY <2>1, <2>2, <2>3 DEF CacheInv
<1>11. CASE UNCHANGED vars
    <2>1. UNCHANGED <<call, pc, platform, work, cache, cells>>
        BY <1>11 DEF vars, host, device
    <2> QED
        BY <2>1 DEF CacheInv, CallWork, CallRow, WorkAt, Refused, Writable
<1> QED
    BY <1>2, <1>3, <1>4, <1>5, <1>6, <1>7, <1>9, <1>10, <1>11 DEF Next, Host

-----------------------------------------------------------------------------
(* What the device works on, under the RP2040 driver *)

Changing == {"program", "erase"}

\* The device programs or erases nothing but what the call in progress names,
\* and has done so when the call is about to return.
JobInv ==
    /\ work.kind = "program" => call.op = "write" /\ ~ Refused(call) /\ work.row = CallRow
    /\ work.kind = "erase" => call.op = "erase" /\ work.row = RowAddress(call.block, 0)
    /\ call # NoCall /\ pc > Len(Sequence(call)) => work.kind \notin Changing

LEMMA JobAdvance ==
    ASSUME OnlyRp2040, Types, JobInv, NEW s, AtStep(s), Advance,
           \/ work' = work /\ (s \in {"ready", "wel", "READ"} => work = Idle)
           \/ s \notin {"ready", "wel", "READ"} /\ work'.kind \notin Changing
           \/ s = "EXECUTE" /\ work' = [kind |-> "program", row |-> CallRow]
           \/ s = "ERASE" /\ work' = [kind |-> "erase", row |-> RowAddress(call.block, 0)],
           s # "REFUSE"
    PROVE  JobInv'
<1>1. /\ call # NoCall /\ pc \in Nat \ {0} /\ pc <= Len(Sequence(call))
      /\ s = Sequence(call)[pc] /\ Len(Sequence(call)) \in Nat
    BY StepFacts DEF AtStep, Types
<1>2. /\ pc' = pc + 1 /\ UNCHANGED <<call, platform>> /\ (Refused(call)' <=> Refused(call))
      /\ CallRow' = CallRow /\ RowAddress(call.block, 0)' = RowAddress(call.block, 0)
      /\ Sequence(call)' = Sequence(call)
    BY DEF Advance, CallRow, RowAddress, Refused, Sequence
<1>3. Waits(Sequence(call))
    BY <1>1, CallShape DEF Types, OnlyRp2040
<1>4. pc + 1 > Len(Sequence(call)) => s \in {"ready", "wel", "READ"}
    BY <1>1, <1>3 DEF Waits
<1>5. Idle.kind \notin Changing
    BY DEF Idle, Changing
<1>6. CASE work' = work /\ (s \in {"ready", "wel", "READ"} => work = Idle)
    BY <1>2, <1>4, <1>5, <1>6 DEF JobInv
<1>7. CASE s \notin {"ready", "wel", "READ"} /\ work'.kind \notin Changing
    BY <1>2, <1>7 DEF JobInv, Changing
<1>8. CASE s = "EXECUTE" /\ work' = [kind |-> "program", row |-> CallRow]
    <2>1. call.op = "write" /\ ~ Refused(call)
        <3>1. call.op = "write"
            BY <1>8, StepFacts
        <3>2. Refused(call) => OtherShape(Sequence(call), CallWork)
            BY <1>1, CallShape
        <3>3. pc \in 1 .. Len(Sequence(call)) /\ Sequence(call)[pc] = "EXECUTE"
            BY <1>1, <1>8
        <3> QED
            BY <3>1, <3>2, <3>3 DEF OtherShape, Working
    <2> QED
        BY <1>2, <1>4, <1>8, <2>1 DEF JobInv
<1>9. CASE s = "ERASE" /\ work' = [kind |-> "erase", row |-> RowAddress(call.block, 0)]
    <2>1. call.op = "erase"
        BY <1>9, StepFacts
    <2> QED
        BY <1>2, <1>4, <1>9, <2>1 DEF JobInv
<1> QED
    BY <1>6, <1>7, <1>8, <1>9

LEMMA JobStep ==
    ASSUME OnlyRp2040
    PROVE  Types /\ HeedInv /\ JobInv /\ [Next]_vars => JobInv'
<1> SUFFICES ASSUME Types, HeedInv, JobInv, [Next]_vars PROVE JobInv'
    OBVIOUS
<1>1. \A s \in Commands : AtStep(s) => work = Idle
    BY DEF HeedInv
<1>2. ASSUME work'.kind \notin Changing, call' = NoCall PROVE JobInv'
    BY <1>2 DEF JobInv, Changing
<1>3. Idle.kind = "idle" /\ (call = NoCall => call.op = "none")
    BY DEF Idle, NoCall
<1>4. CASE Refuse
    <2>1. Refused(call) /\ call' = NoCall /\ work' = work
        BY <1>4, StepFacts DEF Refuse, device
    <2>2. work.kind \notin Changing
        BY <2>1 DEF JobInv, Changing, Refused
    <2> QED
        BY <1>2, <2>1, <2>2
<1>5. CASE Finished
    <2>1. call' = NoCall /\ work' = work /\ work.kind \notin Changing
        BY <1>5 DEF Finished, device, JobInv
    <2> QED
        BY <1>2, <2>1
<1>6. CASE Release
    <2>1. call = NoCall /\ call' = NoCall /\ work' = work
        BY <1>6 DEF Release, device
    <2>2. work.kind \notin Changing
        BY <1>3, <2>1 DEF JobInv, Changing
    <2> QED
        BY <1>2, <2>1, <2>2
<1>7. CASE Fail
    BY <1>2, <1>3, <1>7 DEF Fail, Changing
<1>8. ASSUME NEW c \in Calls, Start(c) PROVE JobInv'
    <2>1. call = NoCall /\ work' = work
        BY <1>8 DEF Start, device
    <2>2. work'.kind \notin Changing
        BY <1>3, <2>1 DEF JobInv, Changing
    <2> QED
        BY <2>2 DEF JobInv, Changing
<1>9. CASE Finish
    <2>1. work' = Idle
        BY <1>9 DEF Finish
    <2> QED
        BY <1>3, <2>1 DEF JobInv, Changing
<1>10. CASE Poll
    <2>1. Advance /\ work' = work
        BY <1>10 DEF Poll, device
    <2>2. PICK s \in {"ready", "wel", "sleep"} : AtStep(s) /\ (s \in {"ready", "wel"} => work = Idle)
        BY <1>10 DEF Poll, Busy
    <2> QED
        BY <2>1, <2>2, JobAdvance
<1>11. ASSUME NEW s \in {"JEDEC", "UNPROTECT", "WREN", "LOAD", "READ_SR1", "READ_MODE", "READ"},
              AtStep(s), Advance, work' = work
       PROVE  JobInv'
    <2>1. work = Idle
        BY <1>1, <1>11 DEF Commands
    <2> QED
        BY <1>11, <2>1, JobAdvance
<1>12. CASE JedecId \/ Unprotect \/ WriteEnable \/ Load \/ ReadProtected \/ ReadMode \/ Read
    BY <1>11, <1>12
    DEF JedecId, Unprotect, WriteEnable, Load, ReadProtected, ReadMode, Read, device
<1>13. CASE DeviceReset
    <2>1. AtStep("RESET") /\ Advance /\ work'.kind \notin Changing
        BY <1>13 DEF DeviceReset, Changing
    <2> QED
        BY <2>1, JobAdvance
<1>14. CASE PageDataRead
    <2>1. AtStep("PAGE_READ") /\ Advance /\ work = Idle
        BY <1>1, <1>14 DEF PageDataRead, Commands
    <2>2. work'.kind \notin Changing
        BY <1>14, <2>1 DEF PageDataRead, Changing, Busy
    <2> QED
        BY <2>1, <2>2, JobAdvance
<1>15. CASE Execute
    <2>1. AtStep("EXECUTE") /\ Advance /\ Accepts
        BY <1>15, ChangesAreAccepted DEF Execute
    <2>2. work' = [kind |-> "program", row |-> CallRow]
        BY <1>15, <2>1 DEF Execute, CallRow
    <2> QED
        BY <2>1, <2>2, JobAdvance
<1>16. CASE BlockErase
    <2>1. AtStep("ERASE") /\ Advance /\ Accepts
        BY <1>16, ChangesAreAccepted DEF BlockErase
    <2>2. work' = [kind |-> "erase", row |-> RowAddress(call.block, 0)]
        BY <1>16, <2>1 DEF BlockErase
    <2> QED
        BY <2>1, <2>2, JobAdvance
<1>17. CASE UNCHANGED vars
    <2>1. UNCHANGED <<call, pc, platform, work>>
        BY <1>17 DEF vars, host, device
    <2> QED
        BY <2>1 DEF JobInv, CallRow, RowAddress, Refused, Sequence
<1> QED
    BY <1>4, <1>5, <1>6, <1>7, <1>8, <1>9, <1>10, <1>12, <1>13, <1>14, <1>15, <1>16, <1>17
    DEF Next, Host

-----------------------------------------------------------------------------
(* The array by block and page *)

At(f) == [b \in Blocks |-> [p \in Pages |-> f[RowAddress(b, p)]]]

\* A block and page read back, and the block of a row.
LEMMA BlockOfRow ==
    /\ \A b \in Blocks, p \in Pages : RowAddress(b, p) \div 64 = b
    /\ \A b \in Blocks : RowAddress(b, 0) \div 64 = b
<1>1. ASSUME NEW b \in BlockNumbers, NEW p \in PageNumbers PROVE RowAddress(b, p) \div 64 = b
    <2>1. RowAddress(b, p) = b * 64 + p
        BY RowAddressIsExact, Zenon
    <2>2. (b * 64 + p) \div 64 = b
        BY SMT DEF BlockNumbers, PageNumbers
    <2> QED
        BY <2>1, <2>2
<1> QED
    BY <1>1, AddressesFit, Zenon

\* A page that is programmed, by its row or by its block and page.
LEMMA OnePage ==
    ASSUME DOMAIN cells = Rows, NEW b \in Blocks, NEW p \in Pages, NEW v
    PROVE  At([cells EXCEPT ![RowAddress(b, p)] = v]) = [At(cells) EXCEPT ![b][p] = v]
<1> DEFINE g == [cells EXCEPT ![RowAddress(b, p)] = v]
<1>1. ASSUME NEW x \in Blocks, NEW y \in Pages
      PROVE  g[RowAddress(x, y)] = IF x = b /\ y = p THEN v ELSE cells[RowAddress(x, y)]
    <2>1. RowAddress(x, y) \in Rows
        BY RowFacts
    <2>2. RowAddress(x, y) = RowAddress(b, p) <=> x = b /\ y = p
        BY RowsAreDistinct
    <2> QED
        BY <2>1, <2>2
<1> HIDE DEF g
<1>2. At(g) = [x \in Blocks |-> [y \in Pages |-> IF x = b /\ y = p THEN v ELSE cells[RowAddress(x, y)]]]
    BY <1>1 DEF At
<1>3. [At(cells) EXCEPT ![b][p] = v]
        = [x \in Blocks |-> [y \in Pages |-> IF x = b /\ y = p THEN v ELSE cells[RowAddress(x, y)]]]
    BY DEF At
<1> QED
    BY <1>2, <1>3 DEF g

\* A block that is erased.
LEMMA OneBlock ==
    ASSUME NEW b \in Blocks, NEW v
    PROVE  At([r \in Rows |-> IF r \in RowsWith(RowAddress(b, 0)) THEN v ELSE cells[r]])
                = [At(cells) EXCEPT ![b] = [p \in Pages |-> v]]
<1> DEFINE g == [r \in Rows |-> IF r \in RowsWith(RowAddress(b, 0)) THEN v ELSE cells[r]]
<1>1. ASSUME NEW x \in Blocks, NEW y \in Pages
      PROVE  g[RowAddress(x, y)] = IF x = b THEN v ELSE cells[RowAddress(x, y)]
    <2>1. RowAddress(x, y) \in Rows
        BY RowFacts
    <2>2. RowAddress(x, y) \in RowsWith(RowAddress(b, 0)) <=> x = b
        BY <2>1, BlockOfRow DEF RowsWith
    <2> QED
        BY <2>1, <2>2
<1> HIDE DEF g
<1>2. At(g) = [x \in Blocks |-> [y \in Pages |-> IF x = b THEN v ELSE cells[RowAddress(x, y)]]]
    BY <1>1 DEF At
<1>3. [At(cells) EXCEPT ![b] = [p \in Pages |-> v]]
        = [x \in Blocks |-> [y \in Pages |-> IF x = b THEN v ELSE cells[RowAddress(x, y)]]]
    BY DEF At
<1> QED
    BY <1>2, <1>3 DEF g

-----------------------------------------------------------------------------
(* Every step of the driver is a step of the flash, or changes nothing there *)

LEMMA SameDefinitions ==
    /\ Flash!Calls = Calls /\ Flash!NoCall = NoCall
    /\ Flash!Blank = Blank /\ Flash!Torn = Torn
    /\ \A c : (Flash!Refused(c) <=> Refused(c)) /\ Flash!Written(c) = Writable(c)
    /\ \A old, new : Flash!Burn(old, new) = Burn(old, new)
    BY DEF Flash!Calls, Calls, Flash!NoCall, NoCall, Flash!Blank, Blank, Flash!Torn, Torn,
           Flash!Page, Page, Flash!Refused, Refused, Flash!Written, Writable, Rests,
           Flash!Burn, Burn

\* What Flash stands for flash.
FlashNow ==
    [b \in Blocks |-> [p \in Pages |->
        IF otp THEN cells[RowAddress(b, p)] ELSE Settled[RowAddress(b, p)]]]

LEMMA FlashIsSettled ==
    /\ otp = FALSE => FlashNow = At(Settled)
    /\ otp' = FALSE => FlashNow' = At(Settled')
    BY DEF FlashNow, At, RowAddress

LEMMA ServedNow ==
    /\ Types => (Served <=> call # NoCall /\ pc > CallWork)
    /\ Types' => (Served' <=> call' # NoCall /\ pc' > CallWork')
<1>1. \A pl \in Platforms, c \in Calls, n \in Nat \ {0} :
        LET seq == SequenceOn(pl, c)
            at  == {i \in DOMAIN seq : seq[i] \in {"EXECUTE", "ERASE", "READ"}}
        IN  (IF at = {} THEN n > Len(seq) ELSE \A i \in at : n > i) <=> n > WorkAt(pl, c)
    BY ServedMeans
<1>2. ASSUME Types PROVE Served <=> call # NoCall /\ pc > CallWork
    <2>1. call # NoCall => call \in Calls /\ platform \in Platforms /\ pc \in Nat \ {0}
        BY <1>2 DEF Types
    <2> QED
        BY <1>1, <2>1, SequenceOfCall DEF Served, CallWork
<1>3. ASSUME Types' PROVE Served' <=> call' # NoCall /\ pc' > CallWork'
    <2>1. call' # NoCall => call' \in Calls /\ platform' \in Platforms /\ pc' \in Nat \ {0}
        BY <1>3 DEF Types
    <2> QED
        BY <1>1, <2>1, SequenceOfCall DEF Served, CallWork
<1> QED
    BY <1>2, <1>3

LEMMA Stutters ==
    ASSUME FlashNow' = FlashNow, Served' <=> Served, UNCHANGED <<call, got, ret>>
    PROVE  [Flash!Next]_(Flash!vars)
<1>1. Served' = Served
    BY DEF Served
<1> QED
    BY <1>1 DEF Flash!vars, FlashNow

\* A write that is refused ends there.
LEMMA RefusedEnds ==
    ASSUME NEW pl \in Platforms, NEW c \in Calls, Refused(c)
    PROVE  SequenceOn(pl, c)[Len(SequenceOn(pl, c))] = "REFUSE"
<1>1. SequenceOn(pl, c) \in {Refused_rp2040, Refused_polled}
    <2>1. pl \in {"rp2040", "bcm2711", "parent"}
        BY DriverAssumption
    <2> QED
        BY <2>1 DEF SequenceOn, Sequences
<1>2. Refused_rp2040[Len(Refused_rp2040)] = "REFUSE"
    BY DEF Refused_rp2040
<1>3. Refused_polled[Len(Refused_polled)] = "REFUSE"
    BY DEF Refused_polled
<1> QED
    BY <1>1, <1>2, <1>3

\* A step on the way through a sequence.
LEMMA OnTheWay ==
    ASSUME Types, Types', NEW s, AtStep(s), Advance
    PROVE  /\ call \in Calls /\ call # NoCall /\ call' = call
           /\ pc = CallWork => ~ Served /\ Served'
           /\ pc # CallWork => (Served' <=> Served)
           /\ pc = CallWork /\ s \notin Working \cup {"REFUSE"} => call.op = "create"
           /\ s \in Working => pc = CallWork /\ ~ Refused(call)
<1>1. /\ call \in Calls /\ call # NoCall /\ pc \in Nat \ {0} /\ pc <= Len(Sequence(call))
      /\ s = Sequence(call)[pc] /\ Len(Sequence(call)) \in Nat /\ platform \in Platforms
      /\ CallWork \in Nat /\ call.op \in {"create", "erase", "read", "write"}
    BY CallShape DEF AtStep, Types
<1>2. pc' = pc + 1 /\ UNCHANGED <<call, platform>> /\ CallWork' = CallWork
    BY DEF Advance, CallWork, WorkAt, Refused
<1>3. /\ pc = CallWork => ~ Served /\ Served'
      /\ pc # CallWork => (Served' <=> Served)
    BY <1>1, <1>2, ServedNow
<1>4. pc \in 1 .. Len(Sequence(call))
    BY <1>1
<1>5. CASE Refused(call) \/ call.op = "create"
    <2>1. OtherShape(Sequence(call), CallWork)
        BY <1>1, <1>5, CallShape
    <2>2. s \notin Working /\ CallWork = Len(Sequence(call))
        BY <1>1, <1>4, <2>1 DEF OtherShape
    <2>3. Refused(call) /\ pc = CallWork => s = "REFUSE"
        BY <1>1, <2>2, RefusedEnds, SequenceOfCall
    <2> QED
        BY <1>1, <1>2, <1>3, <1>5, <2>2, <2>3
<1>6. CASE ~ (Refused(call) \/ call.op = "create")
    <2>1. /\ Sequence(call)[CallWork] \in Working
          /\ \A i \in 1 .. Len(Sequence(call)) : Sequence(call)[i] \in Working => i = CallWork
        BY <1>1, <1>6, CallShape DEF EraseShape, ReadShape, WriteShape, Working
    <2>2. s \in Working <=> pc = CallWork
        BY <1>1, <1>4, <2>1
    <2> QED
        BY <1>1, <1>2, <1>3, <1>6, <2>2
<1> QED
    BY <1>5, <1>6

\* A step that leaves the flash alone is invisible, unless it is the last step of
\* opening the device.
LEMMA QuietStep ==
    ASSUME Types, Types', NEW s, AtStep(s), Advance, s \notin Working \cup {"REFUSE"},
           FlashNow' = FlashNow, UNCHANGED <<got, ret>>
    PROVE  [Flash!Next]_(Flash!vars)
<1>1. CASE pc # CallWork
    BY <1>1, OnTheWay, Stutters
<1>2. CASE pc = CallWork
    <2>1. call # NoCall /\ call' = call /\ ~ Served /\ Served' /\ call.op = "create"
        BY <1>2, OnTheWay
    <2>2. Flash!Work
        BY <2>1 DEF Flash!Work, FlashNow
    <2>3. Served' = TRUE
        BY <2>1 DEF Served
    <2>4. Flash!Serve
        BY <2>1, <2>2, <2>3, SameDefinitions DEF Flash!Serve
    <2> QED
        BY <2>4 DEF Flash!Next
<1> QED
    BY <1>1, <1>2

\* A step at which an operation does its work.
LEMMA WorkStep ==
    ASSUME Types, Types', NEW s \in Working, AtStep(s), Advance, UNCHANGED ret,
           \/ /\ call.op = "erase" /\ UNCHANGED got
              /\ FlashNow' = [FlashNow EXCEPT ![call.block] = [p \in Pages |-> Blank]]
           \/ call.op = "read" /\ FlashNow' = FlashNow /\ got' = FlashNow[call.block][call.page]
           \/ /\ call.op = "write" /\ UNCHANGED got
              /\ \E new \in Writable(call) :
                    FlashNow' = [FlashNow EXCEPT ![call.block][call.page] = Burn(@, new)]
    PROVE  Flash!Next
<1>1. call # NoCall /\ call' = call /\ ~ Served /\ Served' /\ ~ Refused(call)
    BY OnTheWay
<1>2. CASE /\ call.op = "erase" /\ UNCHANGED got
           /\ FlashNow' = [FlashNow EXCEPT ![call.block] = [p \in Pages |-> Blank]]
    BY <1>1, <1>2, SameDefinitions DEF Flash!Next, Flash!Serve, Flash!Work, FlashNow, Served
<1>3. CASE call.op = "read" /\ FlashNow' = FlashNow /\ got' = FlashNow[call.block][call.page]
    BY <1>1, <1>3, SameDefinitions DEF Flash!Next, Flash!Serve, Flash!Work, FlashNow, Served
<1>4. CASE /\ call.op = "write" /\ UNCHANGED got
           /\ \E new \in Writable(call) :
                    FlashNow' = [FlashNow EXCEPT ![call.block][call.page] = Burn(@, new)]
    BY <1>1, <1>4, SameDefinitions DEF Flash!Next, Flash!Serve, Flash!Work, FlashNow, Served
<1> QED
    BY <1>2, <1>3, <1>4

LEMMA SettledIs ==
    /\ work.kind \notin Changing => Settled = cells /\ CutShort = cells
    /\ work'.kind \notin Changing => Settled' = cells'
    /\ Idle.kind \notin Changing
    BY DEF Settled, CutShort, Changing, Idle

LEMMA FlashKept ==
    ASSUME \/ UNCHANGED <<work, cells, cache, otp>>
           \/ /\ otp = FALSE /\ otp' = FALSE /\ UNCHANGED cells
              /\ work.kind \notin Changing /\ work'.kind \notin Changing
    PROVE  FlashNow' = FlashNow
<1>1. CASE UNCHANGED <<work, cells, cache, otp>>
    BY <1>1 DEF FlashNow, Settled, Burn, Blank, RowsWith, Rows, RowAddress
<1>2. CASE /\ otp = FALSE /\ otp' = FALSE /\ UNCHANGED cells
           /\ work.kind \notin Changing /\ work'.kind \notin Changing
    <2>1. Settled = cells /\ Settled' = cells
        BY <1>2, SettledIs
    <2> QED
        BY <1>2, <2>1, FlashIsSettled
<1> QED
    BY <1>1, <1>2

\* The row of the call in progress is its page, and its block that one's rows.
LEMMA CallPage ==
    ASSUME Types, call.op = "write", NEW v
    PROVE  At([cells EXCEPT ![CallRow] = v]) = [At(cells) EXCEPT ![call.block][call.page] = v]
<1>1. call.block \in Blocks /\ call.page \in Pages /\ DOMAIN cells = Rows
    BY CallFacts DEF Types
<1>2. \A b \in Blocks, p \in Pages :
        At([cells EXCEPT ![RowAddress(b, p)] = v]) = [At(cells) EXCEPT ![b][p] = v]
    BY <1>1, OnePage, Zenon
<1>3. At([cells EXCEPT ![RowAddress(call.block, call.page)] = v])
        = [At(cells) EXCEPT ![call.block][call.page] = v]
    BY <1>1, <1>2, Zenon
<1> QED
    BY <1>3, Zenon DEF CallRow

LEMMA CallBlock ==
    ASSUME Types, call.op = "erase", NEW v
    PROVE  At([r \in Rows |-> IF r \in RowsWith(RowAddress(call.block, 0)) THEN v ELSE cells[r]])
                = [At(cells) EXCEPT ![call.block] = [p \in Pages |-> v]]
<1>1. call.block \in Blocks
    BY CallFacts DEF Types
<1>2. \A b \in Blocks :
        At([r \in Rows |-> IF r \in RowsWith(RowAddress(b, 0)) THEN v ELSE cells[r]])
            = [At(cells) EXCEPT ![b] = [p \in Pages |-> v]]
    BY OneBlock, Zenon
<1> QED
    BY <1>1, <1>2, Zenon

\* A program and an erase, as the flash sees them: from when they start.
LEMMA ExecuteStep ==
    ASSUME Types, Types', HeedInv, otp = FALSE, otp' = FALSE, CacheInv, Execute
    PROVE  Flash!Next
<1>1. AtStep("EXECUTE") /\ Advance /\ Accepts /\ UNCHANGED <<cache, cells, got, ret>>
    BY ChangesAreAccepted DEF Execute
<1>2. /\ call \in Calls \cup {NoCall} /\ call.op = "write" /\ pc = CallWork /\ ~ Refused(call)
      /\ call # NoCall
    BY <1>1, StepFacts, OnTheWay DEF Working
<1>3. call.block \in Blocks /\ call.page \in Pages
    BY <1>2, CallFacts
<1>4. cache \in Writable(call)
    <2>1. WriteShape(Sequence(call), CallWork)
        BY <1>2, CallShape
    <2>2. 6 < pc /\ pc <= CallWork
        BY <1>2, <2>1, CallShape DEF WriteShape
    <2> QED
        BY <1>2, <2>2 DEF CacheInv
<1>5. work = Idle /\ work' = [kind |-> "program", row |-> CallRow]
    BY <1>1 DEF Execute, Accepts, Busy, CallRow
<1>6. Settled = cells /\ FlashNow = At(cells)
    BY <1>5, SettledIs, FlashIsSettled
<1>7. Settled' = [cells EXCEPT ![CallRow] = Burn(cells[CallRow], cache)]
    <2>1. work'.kind = "program" /\ work'.row = CallRow
        BY <1>5
    <2> QED
        BY <1>1, <2>1 DEF Settled, Burn, Blank, Page
<1>8. FlashNow' = [At(cells) EXCEPT ![call.block][call.page] = Burn(cells[CallRow], cache)]
    <2>1. At([cells EXCEPT ![CallRow] = Burn(cells[CallRow], cache)])
            = [At(cells) EXCEPT ![call.block][call.page] = Burn(cells[CallRow], cache)]
        BY <1>2, CallPage
    <2> QED
        BY <1>7, <2>1, FlashIsSettled
<1>9. cells[CallRow] = At(cells)[call.block][call.page]
    BY <1>3 DEF At, CallRow
<1>10. FlashNow' = [FlashNow EXCEPT ![call.block][call.page] = Burn(@, cache)]
    BY <1>6, <1>8, <1>9
<1> QED
    BY <1>1, <1>2, <1>4, <1>10, WorkStep DEF Working

LEMMA EraseStep ==
    ASSUME Types, Types', HeedInv, otp = FALSE, otp' = FALSE, BlockErase
    PROVE  Flash!Next
<1>1. AtStep("ERASE") /\ Advance /\ Accepts /\ UNCHANGED <<cache, cells, got, ret>>
    BY ChangesAreAccepted DEF BlockErase
<1>2. call \in Calls \cup {NoCall} /\ call.op = "erase"
    BY <1>1, StepFacts DEF Types
<1>3. call.block \in Blocks
    BY <1>2, CallFacts
<1>4. work = Idle /\ work' = [kind |-> "erase", row |-> RowAddress(call.block, 0)]
    BY <1>1 DEF BlockErase, Accepts, Busy
<1>5. Settled = cells /\ FlashNow = At(cells)
    BY <1>4, SettledIs, FlashIsSettled
<1>6. Settled' = [r \in Rows |-> IF r \in RowsWith(RowAddress(call.block, 0)) THEN Blank ELSE cells[r]]
    <2>1. work'.kind = "erase" /\ work'.row = RowAddress(call.block, 0)
        BY <1>4
    <2> QED
        BY <1>1, <2>1 DEF Settled
<1>7. FlashNow' = [FlashNow EXCEPT ![call.block] = [p \in Pages |-> Blank]]
    <2>1. At([r \in Rows |-> IF r \in RowsWith(RowAddress(call.block, 0)) THEN Blank ELSE cells[r]])
            = [At(cells) EXCEPT ![call.block] = [p \in Pages |-> Blank]]
        BY <1>2, CallBlock
    <2> QED
        BY <1>5, <1>6, <2>1, FlashIsSettled
<1> QED
    BY <1>1, <1>2, <1>7, WorkStep DEF Working

LEMMA ReadStep ==
    ASSUME Types, Types', HeedInv, otp = FALSE, otp' = FALSE, CacheInv, Read
    PROVE  Flash!Next
<1>1. AtStep("READ") /\ Advance /\ UNCHANGED <<work, otp, cache, cells, ret>> /\ work = Idle
    BY DEF Read, device, HeedInv, Commands
<1>2. call \in Calls \cup {NoCall} /\ call.op = "read" /\ pc = CallWork
    BY <1>1, StepFacts, OnTheWay DEF Working, Types
<1>3. call.block \in Blocks /\ call.page \in Pages
    BY <1>2, CallFacts
<1>4. got' = cells[CallRow]
    BY <1>1, <1>2 DEF Read, Busy, CacheInv
<1>5. FlashNow = At(cells) /\ FlashNow' = FlashNow
    BY <1>1, SettledIs, FlashIsSettled, FlashKept
<1>6. got' = FlashNow[call.block][call.page]
    BY <1>3, <1>4, <1>5 DEF At, CallRow
<1> QED
    BY <1>1, <1>2, <1>5, <1>6, WorkStep DEF Working

\* Power fails under the RP2040 driver: what the call in progress works on is
\* kept, done or torn.
LEMMA PowerStep ==
    ASSUME Types, Types', JobInv, otp = FALSE, otp' = FALSE, Fail
    PROVE  Flash!Next
<1>1. /\ call' = NoCall /\ got' = Blank /\ ret' = "OK" /\ work' = Idle
      /\ cells' \in {CutShort, Settled}
    BY DEF Fail
<1>2. FlashNow = At(Settled) /\ FlashNow' = At(cells')
    BY <1>1, SettledIs, FlashIsSettled
<1>3. Served' = FALSE
    BY <1>1 DEF Served
<1>4. \/ FlashNow' = FlashNow
      \/ /\ call.op = "write"
         /\ FlashNow' = [FlashNow EXCEPT ![call.block][call.page] = Torn]
      \/ /\ call.op = "erase"
         /\ FlashNow' = [FlashNow EXCEPT ![call.block] = [p \in Pages |-> Torn]]
    <2>1. CASE cells' = Settled
        BY <1>2, <2>1
    <2>2. CASE cells' = CutShort /\ work.kind \notin Changing
        BY <1>2, <2>2, SettledIs
    <2>3. CASE cells' = CutShort /\ work.kind = "program"
        <3>1. call.op = "write" /\ work.row = CallRow /\ call \in Calls \cup {NoCall}
            BY <2>3 DEF JobInv, Types
        <3>2. call.block \in Blocks /\ call.page \in Pages /\ DOMAIN cells = Rows
            BY <3>1, CallFacts DEF Types
        <3>3. /\ Settled = [cells EXCEPT ![CallRow] = Burn(cells[CallRow], cache)]
              /\ CutShort = [cells EXCEPT ![CallRow] = Torn]
            BY <2>3, <3>1 DEF Settled, CutShort
        <3>4. FlashNow = [At(cells) EXCEPT ![call.block][call.page] = Burn(cells[CallRow], cache)]
            BY <1>2, <3>1, <3>3, CallPage
        <3>5. FlashNow' = [At(cells) EXCEPT ![call.block][call.page] = Torn]
            BY <1>2, <2>3, <3>1, <3>3, CallPage
        <3>6. FlashNow' = [FlashNow EXCEPT ![call.block][call.page] = Torn]
            BY <3>2, <3>4, <3>5 DEF At
        <3> QED
            BY <3>1, <3>6
    <2>4. CASE cells' = CutShort /\ work.kind = "erase"
        <3>1. /\ call.op = "erase" /\ work.row = RowAddress(call.block, 0)
              /\ call \in Calls \cup {NoCall}
            BY <2>4 DEF JobInv, Types
        <3>2. call.block \in Blocks
            BY <3>1, CallFacts
        <3>3. /\ Settled = [r \in Rows |-> IF r \in RowsWith(RowAddress(call.block, 0)) THEN Blank
                                           ELSE cells[r]]
              /\ CutShort = [r \in Rows |-> IF r \in RowsWith(RowAddress(call.block, 0)) THEN Torn
                                            ELSE cells[r]]
            BY <2>4, <3>1 DEF Settled, CutShort
        <3>4. FlashNow = [At(cells) EXCEPT ![call.block] = [p \in Pages |-> Blank]]
            BY <1>2, <3>1, <3>3, CallBlock
        <3>5. FlashNow' = [At(cells) EXCEPT ![call.block] = [p \in Pages |-> Torn]]
            BY <1>2, <2>4, <3>1, <3>3, CallBlock
        <3>6. FlashNow' = [FlashNow EXCEPT ![call.block] = [p \in Pages |-> Torn]]
            BY <3>2, <3>4, <3>5 DEF At
        <3> QED
            BY <3>1, <3>6
    <2> QED
        BY <1>1, <2>1, <2>2, <2>3, <2>4 DEF Changing
<1>5. Flash!PowerLoss
    <2>1. \/ UNCHANGED FlashNow
          \/ /\ call.op = "write"
             /\ FlashNow' = [FlashNow EXCEPT ![call.block][call.page] = Flash!Torn]
          \/ /\ call.op = "erase"
             /\ FlashNow' = [FlashNow EXCEPT ![call.block] = [p \in Pages |-> Flash!Torn]]
        BY <1>4, SameDefinitions
    <2> QED
        BY <1>1, <1>3, <2>1, SameDefinitions DEF Flash!PowerLoss, FlashNow
<1> QED
    BY <1>5 DEF Flash!Next

LEMMA FlashStep ==
    ASSUME DriverHolds, Types, Types', HeedInv, otp = FALSE, otp' = FALSE, CacheInv,
           OnlyRp2040 => JobInv, [Next]_vars
    PROVE  [Flash!Next]_(Flash!vars)
<1>1. \A s \in Commands : AtStep(s) => work = Idle
    BY DEF HeedInv
<1>2. ASSUME NEW c \in Calls, Start(c) PROVE Flash!Next
    <2>1. call = NoCall /\ call' = c /\ pc' = 1 /\ UNCHANGED <<got, ret, work, cells, cache, otp>>
        BY <1>2 DEF Start, device
    <2>2. FlashNow' = FlashNow
        BY <2>1, FlashKept
    <2>3. Served' = FALSE
        <3>1. CallWork' \in Nat /\ CallWork' >= 1
            <4>1. call' \in Calls /\ platform' \in Platforms
                BY <2>1 DEF Types
            <4>2. WorkAt(platform', call') \in 1 .. Len(SequenceOn(platform', call'))
                BY <4>1, ShapeOf
            <4>3. Len(SequenceOn(platform', call')) \in Nat
                BY <4>1, SequenceOf DEF WellFormed
            <4> QED
                BY <4>2, <4>3 DEF CallWork
        <3>2. ~ Served'
            BY <2>1, <3>1, ServedNow
        <3> QED
            BY <3>2 DEF Served
    <2>4. Flash!Call(c)
        BY <2>1, <2>2, <2>3, SameDefinitions DEF Flash!Call, FlashNow
    <2> QED
        BY <1>2, <2>4, SameDefinitions DEF Flash!Next
<1>3. CASE Poll
    <2>1. Advance /\ UNCHANGED <<got, ret, work, cells, cache, otp>>
        BY <1>3 DEF Poll, device
    <2>2. PICK s \in {"ready", "wel", "sleep"} : AtStep(s)
        BY <1>3 DEF Poll
    <2> QED
        BY <2>1, <2>2, FlashKept, QuietStep DEF Working
<1>4. ASSUME NEW s \in {"RESET", "JEDEC", "UNPROTECT", "WREN", "LOAD", "READ_SR1", "READ_MODE",
                        "PAGE_READ"},
             AtStep(s), Advance, UNCHANGED <<got, ret, cells>>, work'.kind \notin Changing
      PROVE  [Flash!Next]_(Flash!vars)
    <2>1. work.kind \notin Changing
        BY <1>1, <1>4, SettledIs DEF Commands
    <2>2. FlashNow' = FlashNow
        BY <1>4, <2>1, FlashKept
    <2> QED
        BY <1>4, <2>2, QuietStep DEF Working
<1>5. ASSUME NEW s \in {"JEDEC", "UNPROTECT", "WREN", "LOAD", "READ_SR1", "READ_MODE"},
             AtStep(s), Advance, UNCHANGED <<got, ret, cells, work>>
      PROVE  [Flash!Next]_(Flash!vars)
    BY <1>1, <1>4, <1>5, SettledIs DEF Commands
<1>6. CASE JedecId \/ Unprotect \/ WriteEnable \/ Load \/ ReadProtected \/ ReadMode
    BY <1>5, <1>6 DEF JedecId, Unprotect, WriteEnable, Load, ReadProtected, ReadMode, device
<1>7. CASE DeviceReset
    <2>1. AtStep("RESET") /\ Advance /\ work = Idle /\ UNCHANGED <<got, ret>>
        BY <1>1, <1>7 DEF DeviceReset, Commands
    <2>2. UNCHANGED cells /\ work'.kind \notin Changing
        BY <1>7, <2>1, SettledIs DEF DeviceReset, Changing
    <2> QED
        BY <1>4, <2>1, <2>2
<1>8. CASE PageDataRead
    <2>1. AtStep("PAGE_READ") /\ Advance /\ work = Idle /\ UNCHANGED <<got, ret, cells>>
        BY <1>1, <1>8 DEF PageDataRead, Commands
    <2>2. work'.kind \notin Changing
        BY <1>8, <2>1 DEF PageDataRead, Changing, Busy
    <2> QED
        BY <1>4, <2>1, <2>2
<1>9. CASE Refuse
    <2>1. /\ call # NoCall /\ Refused(call) /\ call' = NoCall /\ ret' = "ERR"
          /\ UNCHANGED <<got, work, cells, cache, otp>>
        BY <1>9, StepFacts DEF Refuse, device
    <2>2. FlashNow' = FlashNow /\ Served' = FALSE
        BY <2>1, FlashKept DEF Served
    <2>3. Flash!Reject
        BY <2>1, <2>2, SameDefinitions DEF Flash!Reject, FlashNow
    <2> QED
        BY <2>3 DEF Flash!Next
<1>10. CASE Finished
    <2>1. /\ call # NoCall /\ pc > Len(Sequence(call)) /\ call' = NoCall /\ ret' = "OK"
          /\ UNCHANGED <<got, work, cells, cache, otp>>
        BY <1>10 DEF Finished, device
    <2>2. FlashNow' = FlashNow /\ Served' = FALSE
        BY <2>1, FlashKept DEF Served
    <2>3. Served
        BY <2>1, CallShape, ServedNow DEF Types
    <2>4. Flash!Return
        BY <2>1, <2>2, <2>3, SameDefinitions DEF Flash!Return, FlashNow
    <2> QED
        BY <2>4 DEF Flash!Next
<1>11. CASE Finish
    <2>1. UNCHANGED <<platform, call, pc, got, ret>> /\ work' = Idle /\ cells' = Settled
        BY <1>11 DEF Finish, host
    <2>2. FlashNow' = FlashNow
        BY <2>1, SettledIs, FlashIsSettled
    <2>3. CallWork' = CallWork
        BY <2>1 DEF CallWork, WorkAt, Refused
    <2>4. Served' <=> Served
        BY <2>1, <2>3, ServedNow
    <2> QED
        BY <2>1, <2>2, <2>4, Stutters
<1>12. CASE Release \/ UNCHANGED vars
    <2>1. UNCHANGED <<platform, call, pc, got, ret, work, cells, cache, otp>>
        BY <1>12 DEF Release, vars, host, device
    <2>2. CallWork' = CallWork
        BY <2>1 DEF CallWork, WorkAt, Refused
    <2>3. Served' <=> Served
        BY <2>1, <2>2, ServedNow
    <2> QED
        BY <2>1, <2>3, FlashKept, Stutters
<1>13. CASE Fail
    <2>1. OnlyRp2040
        BY <1>13 DEF Fail, DriverHolds
    <2> QED
        BY <1>13, <2>1, PowerStep
<1> QED
    BY <1>2, <1>3, <1>6, <1>7, <1>8, <1>9, <1>10, <1>11, <1>12, <1>13, ExecuteStep, EraseStep,
       ReadStep
    DEF Next, Host

\* The drivers give the file system the flash it expects: mxfs_driver_read,
\* mxfs_driver_write and mxfs_driver_erase do their work once, on the page or
\* block they are given, and what a call that has returned wrote or erased stays
\* so.  The RP2040 driver does through losses of power and remounts, since it
\* waits for the end of a program or erase before it returns; the others, which
\* do not wait, as long as the device is opened once, starts unprotected, and
\* power lasts.
THEOREM DriversImplementFlash == DriverHolds => (Spec => ImplementsFlash)
<1> SUFFICES ASSUME DriverHolds PROVE Spec => ImplementsFlash
    OBVIOUS
<1> DEFINE Jobs == OnlyRp2040 => JobInv
<1>1. Init => RestInv /\ CacheInv /\ Jobs
    <2> SUFFICES ASSUME Init PROVE RestInv /\ CacheInv /\ Jobs
        OBVIOUS
    <2>1. RestInv
        BY RestOfPages DEF Init, RestInv
    <2>2. CacheInv /\ JobInv
        BY SettledIs DEF Init, CacheInv, JobInv, NoCall, Changing
    <2> QED
        BY <2>1, <2>2
<1>2. Init => Flash!Init
    <2> SUFFICES ASSUME Init PROVE Flash!Init
        OBVIOUS
    <2>1. FlashNow = At(cells)
        BY SettledIs, FlashIsSettled DEF Init
    <2>2. At(cells) = [b \in Blocks |-> [p \in Pages |-> Blank]]
        BY RowFacts DEF At, Init
    <2>3. Served = FALSE
        BY DEF Init, Served
    <2> QED
        BY <2>1, <2>2, <2>3, SameDefinitions DEF Init, Flash!Init, FlashNow
<1>3. Types /\ HeedInv /\ otp = FALSE /\ RestInv /\ CacheInv /\ Jobs /\ [Next]_vars
        => RestInv' /\ CacheInv' /\ Jobs'
    BY RestStep, CacheStep, JobStep DEF OnlyRp2040
<1>4. /\ Types /\ Types' /\ HeedInv /\ otp = FALSE /\ (otp = FALSE)' /\ CacheInv /\ Jobs /\ [Next]_vars
      => [Flash!Next]_(Flash!vars)
    BY FlashStep
<1>5. WaitsOrOpensOnce
    BY DEF DriverHolds, OnlyRp2040, WaitsOrOpensOnce
<1>6. Spec => []HeedInv
    BY <1>5, HeedInvariant
<1>7. Spec => [](otp = FALSE)
    BY MainArray
<1> HIDE DEF Jobs
<1> QED
    BY <1>1, <1>2, <1>3, <1>4, <1>6, <1>7, TypesInvariant, PTL DEF Spec, ImplementsFlash, Flash!Spec
=============================================================================
