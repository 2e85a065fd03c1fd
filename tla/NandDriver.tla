------------------------------ MODULE NandDriver ------------------------------
(***************************************************************************)
(* The SPI drivers of the W25N01G NAND device: those of the child          *)
(* (drivers/rp2040 and drivers/bcm2711) and the polled operations of the   *)
(* parent's formatter (sw/parent/src).  An operation is the sequence of    *)
(* commands it puts on the bus and of conditions it polls the status       *)
(* register for in between; the device, which is not part of the           *)
(* repository, is modelled from how the drivers use it: it works on its    *)
(* own after a program, an erase, a page read or a reset and ignores       *)
(* commands until it is done, it takes a program or an erase only with the *)
(* write enable latch set and the array unprotected, and the latch falls   *)
(* when the work is done.                                                  *)
(***************************************************************************)
EXTENDS NandDef, Sequences

CONSTANTS
    Platforms,          \* whose drivers open the device: "rp2040", "bcm2711", "parent"
    ProtectedAtStart,   \* whether the block protect bits are set when the model starts
    PowerMayFail,
    MaxMounts           \* bound: number of times the device is opened

ASSUME DriverAssumption ==
    /\ Platforms \subseteq {"rp2040", "bcm2711", "parent"} /\ Platforms # {}
    /\ ProtectedAtStart \in BOOLEAN /\ PowerMayFail \in BOOLEAN
    /\ MaxMounts \in Nat

VARIABLES
    platform,       \* whose driver has the device open, or had it last
    mounted, mounts,
    call,           \* the operation in progress
    pc,             \* position in the operation's sequence
    flg_protected,  \* status register 1 as mxfs_driver_read read it: BP3 set or not
    got, ret,       \* what the last read delivered, what the last operation returned
    work,           \* device: what it is busy with
    wel,            \* device: write enable latch, in status register 3
    protect,        \* device: block protect bits, status register 1
    otp,            \* device: OTP_E in status register 2, BP3's position in register 1
    cache,          \* device: the page buffer
    cells           \* device: the main array, by row address

host   == <<platform, mounted, mounts, call, pc, flg_protected, got, ret>>
device == <<work, wel, protect, otp, cache, cells>>
vars == <<host, device>>

-----------------------------------------------------------------------------
(* Addresses *)

\* cmd[2] and cmd[3] of PG_EXECUTE and PG_DATA_READ: (block >> 2) & 0xFF, and
\* (block << 6) & 0xC0 with page & 0x3F below it.
RowAddress(block, page) ==
    ((block \div 4) % 256) * 256 + ((block * 64) % 256) + (page % 64)

\* The rows of the device: 1024 blocks of 64 pages.
RowNumbers == {row \in Nat : row < 1024 * 64}

Rows == {RowAddress(b, p) : b \in Blocks, p \in Pages}

\* The rows the device erases together with a row.
RowsWith(row) == {r \in Rows : r \div 64 = row \div 64}

-----------------------------------------------------------------------------
(* The sequences: "ready", "wel" and "sleep" wait, the others are commands *)

Create_rp2040 ==
    <<"ready", "RESET", "ready", "JEDEC", "UNPROTECT", "ready", "WREN", "wel">>

Create_bcm2711 == <<"RESET", "sleep", "JEDEC">>

Create_parent == <<"RESET", "sleep", "JEDEC", "UNPROTECT", "WREN">>

\* Mutant of Erase_rp2040: the latch is polled for again after the erase.
Erase_rp2040_PollsLatch ==
    <<"ready", "WREN", "wel", "UNPROTECT", "ready", "WREN", "wel", "ERASE", "wel">>

Erase_rp2040 ==
    <<"ready", "WREN", "wel", "UNPROTECT", "ready", "WREN", "wel", "ERASE", "ready">>

Erase_bcm2711 == <<"ready", "UNPROTECT", "ready", "WREN", "wel", "ERASE">>

Erase_parent == <<"ready", "UNPROTECT", "ready", "WREN", "wel", "ERASE">>

\* Mutant of Write_rp2040: the call does not wait for the program to end.
Write_rp2040_NoPoll ==
    <<"ready", "UNPROTECT", "ready", "WREN", "wel", "LOAD", "ready", "WREN", "wel", "EXECUTE">>

Write_rp2040 ==
    <<"ready", "UNPROTECT", "ready", "WREN", "wel", "LOAD", "ready", "WREN", "wel",
      "EXECUTE", "ready">>

\* Mutant of Write_bcm2711: the status is not polled before the first command.
Write_bcm2711_NoPoll ==
    <<"UNPROTECT", "WREN", "wel", "LOAD", "WREN", "wel", "EXECUTE">>

Write_bcm2711 ==
    <<"ready", "UNPROTECT", "ready", "WREN", "wel", "LOAD", "WREN", "wel", "EXECUTE">>

Write_parent ==
    <<"ready", "UNPROTECT", "ready", "WREN", "wel", "LOAD", "ready", "WREN", "wel", "EXECUTE">>

Read_rp2040 ==
    <<"ready", "READ_SR1", "ready", "READ_MODE", "ready", "PAGE_READ", "ready", "READ">>

Read_bcm2711 ==
    <<"ready", "READ_SR1", "READ_MODE", "ready", "PAGE_READ", "ready", "READ">>

\* Mutant of Read_parent: the page buffer is read before the page is in it.
Read_parent_NoPoll == <<"ready", "READ_SR1", "READ_MODE", "ready", "PAGE_READ", "READ">>

\* read_by_block_page, and read_initialize, which is the same for page 0.
Read_parent ==
    <<"ready", "READ_SR1", "READ_MODE", "ready", "PAGE_READ", "ready", "READ">>

\* A write that does not fit the command buffer is refused: on the RP2040 at
\* once, elsewhere where the page would be loaded.
Refused_rp2040 == <<"REFUSE">>

Refused_polled == <<"ready", "UNPROTECT", "ready", "WREN", "wel", "REFUSE">>

Sequences ==
    [rp2040  |-> [create |-> Create_rp2040, erase |-> Erase_rp2040, write |-> Write_rp2040,
                  read |-> Read_rp2040, refused |-> Refused_rp2040],
     bcm2711 |-> [create |-> Create_bcm2711, erase |-> Erase_bcm2711, write |-> Write_bcm2711,
                  read |-> Read_bcm2711, refused |-> Refused_polled],
     parent  |-> [create |-> Create_parent, erase |-> Erase_parent, write |-> Write_parent,
                  read |-> Read_parent, refused |-> Refused_polled]]

Sequence(c) == Sequences[platform][IF Refused(c) THEN "refused" ELSE c.op]

AtStep(s) == call # NoCall /\ pc <= Len(Sequence(call)) /\ Sequence(call)[pc] = s

Advance == pc' = pc + 1 /\ UNCHANGED <<platform, mounted, mounts, call>>

-----------------------------------------------------------------------------
(* The device *)

Idle == [kind |-> "idle"]
Busy == work # Idle

\* What the main array holds once the device is done with its work.
Settled ==
    CASE work.kind = "program" -> [cells EXCEPT ![work.row] = Burn(@, cache)]
      [] work.kind = "erase"   -> [r \in Rows |-> IF r \in RowsWith(work.row) THEN Blank
                                                  ELSE cells[r]]
      [] OTHER                 -> cells

\* What a program or an erase cut short leaves of it.
CutShort ==
    CASE work.kind = "program" -> [cells EXCEPT ![work.row] = Torn]
      [] work.kind = "erase"   -> [r \in Rows |-> IF r \in RowsWith(work.row) THEN Torn
                                                  ELSE cells[r]]
      [] OTHER                 -> cells

\* The device finishes; with OTP_E set the array it worked on is not the main one.
Finish ==
    /\ Busy
    /\ work' = Idle
    /\ cells' = IF otp THEN cells ELSE Settled
    /\ cache' = IF work.kind # "fetch" THEN cache
                ELSE IF otp THEN Page("otp", "otp") ELSE cells[work.row]
    /\ wel' = (wel /\ work.kind = "fetch")
    /\ UNCHANGED <<protect, otp, host>>

Accepts == ~Busy /\ wel /\ ~protect

\* Mutant of Loaded: only the caller's bytes are sent.
Loaded_Short ==
    Page(call.data, IF call.len = "page" THEN call.data ELSE cache.tail)

\* The page buffer after RANDOM_PG_DATA_LOAD, which keeps the bytes it is not
\* sent: the RP2040 driver always sends a whole page, zeros behind the caller's
\* bytes, the others send the caller's bytes only.
Loaded ==
    Page(call.data,
         IF call.len = "page" THEN call.data
         ELSE IF platform = "rp2040" THEN "zero" ELSE cache.tail)

-----------------------------------------------------------------------------
(* The host *)

Start(c) ==
    /\ call = NoCall
    /\ IF c.op = "create"
       THEN /\ ~mounted /\ mounts < MaxMounts
            /\ platform' \in Platforms /\ mounts' = mounts + 1
       ELSE mounted /\ UNCHANGED <<platform, mounts>>
    /\ call' = c /\ pc' = 1
    /\ UNCHANGED <<mounted, flg_protected, got, ret, device>>

\* The polling loops over spi_read_registers, and usleep(1000) after a reset,
\* which outlasts the reset.
Poll ==
    /\ \/ AtStep("ready") /\ ~Busy
       \/ AtStep("wel") /\ ~Busy /\ wel
       \/ AtStep("sleep") /\ work.kind # "reset"
    /\ Advance
    /\ UNCHANGED <<flg_protected, got, ret, device>>

\* Reset aborts what the device is doing; the protect bits survive it.
DeviceReset ==
    /\ AtStep("RESET") /\ Advance
    /\ work' = [kind |-> "reset"]
    /\ cells' = IF otp THEN cells ELSE CutShort
    /\ wel' = FALSE /\ otp' = FALSE
    /\ UNCHANGED <<protect, cache, flg_protected, got, ret>>

JedecId == AtStep("JEDEC") /\ Advance /\ UNCHANGED <<flg_protected, got, ret, device>>

Unprotect ==
    /\ AtStep("UNPROTECT") /\ Advance
    /\ protect' = (protect /\ Busy)
    /\ UNCHANGED <<work, wel, otp, cache, cells, flg_protected, got, ret>>

WriteEnable ==
    /\ AtStep("WREN") /\ Advance
    /\ wel' = (wel \/ ~Busy)
    /\ UNCHANGED <<work, protect, otp, cache, cells, flg_protected, got, ret>>

Load ==
    /\ AtStep("LOAD") /\ Advance
    /\ cache' = IF ~Busy /\ wel THEN Loaded ELSE cache
    /\ UNCHANGED <<work, wel, protect, otp, cells, flg_protected, got, ret>>

Refuse ==
    /\ AtStep("REFUSE")
    /\ call' = NoCall /\ pc' = 1 /\ ret' = "ERR"
    /\ UNCHANGED <<platform, mounted, mounts, flg_protected, got, device>>

Execute ==
    /\ AtStep("EXECUTE") /\ Advance
    /\ work' = IF Accepts THEN [kind |-> "program", row |-> RowAddress(call.block, call.page)]
                          ELSE work
    /\ UNCHANGED <<wel, protect, otp, cache, cells, flg_protected, got, ret>>

BlockErase ==
    /\ AtStep("ERASE") /\ Advance
    /\ work' = IF Accepts THEN [kind |-> "erase", row |-> RowAddress(call.block, 0)] ELSE work
    /\ UNCHANGED <<wel, protect, otp, cache, cells, flg_protected, got, ret>>

ReadProtected ==
    /\ AtStep("READ_SR1") /\ Advance
    /\ flg_protected' = protect
    /\ UNCHANGED <<got, ret, device>>

\* Mutant of ReadMode: OTP_E is set along with BUF.
ReadMode_Otp ==
    /\ AtStep("READ_MODE") /\ Advance
    /\ otp' = ~Busy
    /\ UNCHANGED <<work, wel, protect, cache, cells, flg_protected, got, ret>>

\* Status register 2 is written with what was read of register 1, ECC_E off
\* and BUF on: BP3 of the one becomes OTP_E of the other.
ReadMode ==
    /\ AtStep("READ_MODE") /\ Advance
    /\ otp' = IF Busy THEN otp ELSE flg_protected
    /\ UNCHANGED <<work, wel, protect, cache, cells, flg_protected, got, ret>>

PageDataRead ==
    /\ AtStep("PAGE_READ") /\ Advance
    /\ work' = IF Busy THEN work
               ELSE [kind |-> "fetch", row |-> RowAddress(call.block, call.page)]
    /\ UNCHANGED <<wel, protect, otp, cache, cells, flg_protected, got, ret>>

Read ==
    /\ AtStep("READ") /\ Advance
    /\ got' = IF Busy THEN Torn ELSE cache
    /\ UNCHANGED <<flg_protected, ret, device>>

\* Mutant of Finished: *status is not set back to DEVICE_RESET.
Finished_NoReset ==
    /\ call # NoCall /\ pc > Len(Sequence(call))
    /\ call' = NoCall /\ pc' = pc
    /\ mounted' = TRUE /\ ret' = "OK"
    /\ UNCHANGED <<platform, mounts, flg_protected, got, device>>

\* The operation returns; the next one starts at the top (in the formatter,
\* where *status = DEVICE_RESET).
Finished ==
    /\ call # NoCall /\ pc > Len(Sequence(call))
    /\ call' = NoCall /\ pc' = 1
    /\ mounted' = TRUE /\ ret' = "OK"
    /\ UNCHANGED <<platform, mounts, flg_protected, got, device>>

\* mxfs_driver_release_spi, or the end of the formatter: the device is left alone.
Release ==
    /\ call = NoCall /\ mounted
    /\ mounted' = FALSE
    /\ UNCHANGED <<platform, mounts, call, pc, flg_protected, got, ret, device>>

Fail ==
    /\ PowerMayFail
    /\ mounts > 0
    /\ mounted' = FALSE /\ call' = NoCall /\ pc' = 1 /\ flg_protected' = FALSE
    /\ got' = Blank /\ ret' = "OK"
    /\ work' = Idle /\ wel' = FALSE /\ protect' = TRUE /\ otp' = FALSE /\ cache' = Blank
    /\ cells' \in IF otp THEN {cells} ELSE {CutShort, Settled}
    /\ UNCHANGED <<platform, mounts>>

-----------------------------------------------------------------------------
Init ==
    /\ platform \in Platforms
    /\ mounted = FALSE /\ mounts = 0 /\ call = NoCall /\ pc = 1 /\ flg_protected = FALSE
    /\ got = Blank /\ ret = "OK"
    /\ work = Idle /\ wel = FALSE /\ protect = ProtectedAtStart /\ otp = FALSE
    /\ cache = Blank /\ cells = [r \in Rows |-> Blank]

Host ==
    \/ Poll \/ DeviceReset \/ JedecId \/ Unprotect \/ WriteEnable \/ Load \/ Refuse
    \/ Execute \/ BlockErase \/ ReadProtected \/ ReadMode \/ PageDataRead \/ Read
    \/ Finished

Next == (\E c \in Calls : Start(c)) \/ Host \/ Finish \/ Release \/ Fail

Spec == Init /\ [][Next]_vars

\* A driver call that has started runs on, and the device finishes its work.
FairSpec == Spec /\ WF_vars(Host) /\ WF_vars(Finish)

-----------------------------------------------------------------------------
(* Properties *)

\* The variables keep their types.
TypeOK ==
    /\ platform \in Platforms
    /\ mounted \in BOOLEAN /\ mounts \in 0 .. MaxMounts
    /\ call \in Calls \cup {NoCall}
    /\ pc \in 1 .. (IF call = NoCall THEN 1 ELSE Len(Sequence(call)) + 1)
    /\ \A bit \in {flg_protected, wel, protect, otp} : bit \in BOOLEAN
    /\ ret \in {"OK", "ERR"}
    /\ work \in {Idle, [kind |-> "reset"]} \cup [kind : {"program", "erase", "fetch"},
                   row : RowNumbers]
    /\ DOMAIN cells = Rows
    /\ \A page \in {got, cache} \cup {cells[r] : r \in Rows} :
            DOMAIN page = {"head", "tail"}

Commands ==
    {"RESET", "JEDEC", "UNPROTECT", "WREN", "LOAD", "EXECUTE", "ERASE", "READ_SR1",
     "READ_MODE", "PAGE_READ", "READ"}

\* The device heeds every command: none is sent while it is busy, a page is
\* loaded only with the write enable latch set, and PG_EXECUTE and BLOCK_ERASE
\* find the latch set and the array unprotected (the polls of
\* mxfs_driver_write, mxfs_driver_erase and mxfs_driver_read, and of
\* erase_block, write_block_page and read_by_block_page).
CommandsAreHeeded ==
    [][\A s \in Commands : AtStep(s) /\ pc' = pc + 1 =>
            /\ ~Busy
            /\ s = "LOAD" => wel
            /\ s \in {"EXECUTE", "ERASE"} => Accepts]_vars

\* Reads, programs and erases go to the main array: OTP_E, which "read mode"
\* of mxfs_driver_read writes along with ECC_E and BUF, is off by then.
MainArraySelected ==
    \A s \in {"PAGE_READ", "EXECUTE", "ERASE"} : AtStep(s) => ~otp

\* A page holds the bytes of the write that programmed it and padding, never
\* a rest of another page that the device still had in its buffer.
PageIsCallers ==
    \A r \in Rows : cells[r].tail \in {cells[r].head, "zero", "blank"}

\* The command at which the operation in progress does its work.
Served ==
    /\ call # NoCall
    /\ LET at == {i \in DOMAIN Sequence(call) :
                    Sequence(call)[i] \in {"EXECUTE", "ERASE", "READ"}}
       IN  IF at = {} THEN pc > Len(Sequence(call)) ELSE \A i \in at : pc > i

Flash ==
    INSTANCE NandFlash WITH
        flash  <- [b \in Blocks |-> [p \in Pages |->
                        IF otp THEN cells[RowAddress(b, p)] ELSE Settled[RowAddress(b, p)]]],
        served <- Served

\* The driver gives the file system the flash it expects: each call does its
\* work once, on the page or block it names, and what a call that has returned
\* wrote or erased stays so through loss of power and a remount.
ImplementsFlash == Flash!Spec

\* A driver call returns: no poll waits for a bit that will not come.
CallReturns == call # NoCall ~> call = NoCall
=============================================================================
