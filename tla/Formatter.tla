------------------------------ MODULE Formatter ------------------------------
(***************************************************************************)
(* The commands of the parent's formatter (sw/parent/src/format.cc) as     *)
(* loops over blocks and pages, one step per page or block operation.  The *)
(* operations themselves are in NandDriver; here the device is idle or     *)
(* busy with one erase or one program.  An operation waits until the       *)
(* device is idle and then starts its command: erase and write return      *)
(* while the device works.  A command can be ended by SIGINT at any time,  *)
(* and the next start of the formatter resets the device without waiting   *)
(* for it.  Between commands the child records its log.                    *)
(*                                                                         *)
(* The options of a command are any uint16_t: nothing compares them with   *)
(* the size of the device, and the address bytes of an operation keep the  *)
(* low bits of a block or page only.                                       *)
(*                                                                         *)
(* Of a page the model keeps the first 16 bytes, as the formatter tests    *)
(* them, and what the whole of it is.  What csv and search print of a page *)
(* is in MxfsCodec.                                                        *)
(***************************************************************************)
EXTENDS Integers

CONSTANTS
    UINT16_MAX,                 \* 65535
    BLOCK_COUNT, PAGE_COUNT,    \* 1024 and 64
    CMD_SIZE,                   \* sizeof(cmd) (2112)
    HEADER_SIZE,                \* sizeof(compress_t) (16)
    SPARE_SIZE,                 \* the end of cmd that is not programmed (64)
    ANT_FIELD,                  \* 2^9, the width of ant.length
    BlockRanges, PageRanges,    \* the pairs given to -s, -e and to -S, -E
    ConfigSizes,                \* the lengths of the strings given to -c
    EraseFails                  \* whether an erase may fail (status bit E_FAIL)

Blocks == 0 .. BLOCK_COUNT - 1
Pages  == 0 .. PAGE_COUNT - 1

\* The values of the options after their cast, and of the arguments of the
\* block and page operations.
Uint16 == 0 .. UINT16_MAX

ASSUME FormatterAssumption ==
    /\ UINT16_MAX \in Nat
    /\ BLOCK_COUNT \in Uint16 \ {0} /\ PAGE_COUNT \in Uint16 \ {0}
    /\ CMD_SIZE \in Nat /\ HEADER_SIZE \in Nat /\ SPARE_SIZE \in Nat
    /\ ANT_FIELD \in Nat \ {0} /\ ANT_FIELD + HEADER_SIZE + SPARE_SIZE <= CMD_SIZE
    /\ BlockRanges \subseteq Uint16 \X Uint16 /\ PageRanges \subseteq Uint16 \X Uint16
    /\ ConfigSizes \subseteq Nat /\ EraseFails \in BOOLEAN

VARIABLES
    flash,          \* the pages of the device
    device,         \* what the device is busy with
    cmd,            \* the running command, or else the last one
    phase,          \* where it is: idle (not running), scan, work, verify or hung
    block, page,    \* its loop variables
    shown,          \* the pages it has reported
    end,            \* how the last process ended
    prepared        \* history: whether page 0 of block 0 was erased when it started

process == <<cmd, phase, block, page, shown, end, prepared>>
vars    == <<flash, device, process>>

-----------------------------------------------------------------------------
(* Pages and the device *)

Heads == {"blank", "magic", "other"}

\* A page: its first bytes, what it is, and of a config page the length it says
\* and the bytes of the string that are on it.
Blank == [head |-> "blank", what |-> "blank", len |-> 0, kept |-> 0]

Data == [head |-> "magic", what |-> "data", len |-> 0, kept |-> 0]

Junk(head) == [head |-> head, what |-> "junk", len |-> 0, kept |-> 0]

\* Programming clears bits only: two MAGICs give MAGIC, the rest is merged.
Burn(old, new) ==
    CASE old = Blank -> new
      [] old # Blank /\ old.head = "blank" -> Junk(new.head)
      [] old.head = "magic" -> Junk("magic")
      [] OTHER -> Junk("other")

Idle == [op |-> "none"]

Erasing(b) == [op |-> "erase", block |-> b]

Programming(b, p, image) == [op |-> "program", block |-> b, page |-> p, image |-> image]

\* The flash when the device has done what it was busy with.
Done ==
    CASE device.op = "none" -> flash
      [] device.op = "erase" -> [flash EXCEPT ![device.block] = [p \in Pages |-> Blank]]
      [] device.op = "program" ->
            [flash EXCEPT ![device.block][device.page] = Burn(@, device.image)]

\* The flash when that was cut short, or failed: what the first bytes of the
\* pages are then is a matter of chance.
CutShort(head) ==
    CASE device.op = "none" -> flash
      [] device.op = "erase" ->
            [flash EXCEPT ![device.block] =
                [p \in Pages |-> IF @[p] = Blank THEN Blank ELSE Junk(head[p])]]
      [] device.op = "program" ->
            [flash EXCEPT ![device.block][device.page] = Junk(head[device.page])]

\* A reset or a loss of power: the work of the device is done or cut short.
Interrupted ==
    /\ flash' \in {Done} \cup {CutShort(h) : h \in [Pages -> Heads]}
    /\ device' = Idle

\* The device finishes; an erase that failed leaves the block as it was, or
\* half erased, and nobody looks at E_FAIL.
DeviceDone ==
    /\ device # Idle
    /\ \/ flash' = Done
       \/ /\ EraseFails /\ device.op = "erase"
          /\ flash' \in {flash} \cup {CutShort(h) : h \in [Pages -> Heads]}
    /\ device' = Idle
    /\ UNCHANGED process

-----------------------------------------------------------------------------
(* Commands *)

\* Types that take their blocks and pages from the options (csv has the loops
\* of read), and that do not.
Ranged      == {"read", "write"}
WholeDevice == {"format", "check", "search"}

Command(type, blocks, pages, size) ==
    [type |-> type, block_s |-> blocks[1], block_e |-> blocks[2],
     page_s |-> pages[1], page_e |-> pages[2], size |-> size]

\* The command lines: erase has no use for pages, config only for a string.
Commands ==
    {Command(t, bs, ps, 0) : t \in Ranged, bs \in BlockRanges, ps \in PageRanges}
    \cup {Command("erase", bs, <<0, 0>>, 0) : bs \in BlockRanges}
    \cup {Command("config", <<0, 0>>, <<0, 0>>, n) : n \in ConfigSizes}
    \cup {Command(t, <<0, 0>>, <<0, 0>>, 0) : t \in WholeDevice \cup {"unknown"}}

FirstBlock(c) == IF c.type \in WholeDevice THEN 0 ELSE c.block_s
FirstPage(c)  == IF c.type \in WholeDevice THEN 0 ELSE c.page_s

\* Mutant of EndBlock: the last block is included.
EndBlock_Inclusive(c) == IF c.type \in WholeDevice THEN BLOCK_COUNT ELSE c.block_e + 1

EndBlock(c) == IF c.type \in WholeDevice THEN BLOCK_COUNT ELSE c.block_e
EndPage(c)  == IF c.type \in WholeDevice THEN PAGE_COUNT ELSE c.page_e

\* The address bytes: ten bits of the block and six of the page.
AddressedBlock(b) == b % BLOCK_COUNT
AddressedPage(p)  == p % PAGE_COUNT

NoCommand == Command("none", <<0, 0>>, <<0, 0>>, 0)

Init ==
    /\ flash = [b \in Blocks |-> [p \in Pages |-> Blank]]
    /\ device = Idle
    /\ cmd = NoCommand
    /\ phase = "idle" /\ block = 0 /\ page = 0
    /\ shown = {} /\ end = "none"
    /\ prepared = FALSE

\* The process starts with a reset of the device, whatever it is doing, and
\* then, for every command but erase, reads the first page of each block.
Start(c) ==
    /\ phase = "idle"
    /\ Interrupted
    /\ cmd' = c
    /\ phase' = IF c.type = "erase" THEN "work" ELSE "scan"
    /\ block' = IF c.type = "erase" THEN FirstBlock(c) ELSE 0
    /\ page' = FirstPage(c)
    /\ shown' = {} /\ end' = "none"
    /\ prepared' = (flash'[0][0] = Blank)

\* A wrong option, a device that cannot be opened (before the reset), or a wrong
\* JEDEC id (after it).
StartFails ==
    /\ phase = "idle"
    /\ Interrupted \/ UNCHANGED <<flash, device>>
    /\ end' = "exit"
    /\ UNCHANGED <<cmd, phase, block, page, shown, prepared>>

\* Mutant of Scan: one block too many.
Scan_OneMore ==
    /\ phase = "scan" /\ device = Idle
    /\ IF block <= BLOCK_COUNT
       THEN block' = block + 1 /\ UNCHANGED phase
       ELSE phase' = "work" /\ block' = FirstBlock(cmd)
    /\ UNCHANGED <<flash, device, cmd, page, shown, end, prepared>>

\* Mutant of Scan: a block that starts neither with MAGIC nor erased is read again.
Scan_Retries ==
    /\ phase = "scan" /\ device = Idle
    /\ IF block < BLOCK_COUNT
       THEN /\ block' = IF flash[block][0].head = "other" THEN block ELSE block + 1
            /\ UNCHANGED phase
       ELSE phase' = "work" /\ block' = FirstBlock(cmd)
    /\ UNCHANGED <<flash, device, cmd, page, shown, end, prepared>>

\* read_initialize of one block: it waits for the device, looks at the first
\* page, and goes on whatever it finds.
Scan ==
    /\ phase = "scan" /\ device = Idle
    /\ IF block < BLOCK_COUNT
       THEN block' = block + 1 /\ UNCHANGED phase
       ELSE phase' = "work" /\ block' = FirstBlock(cmd)
    /\ UNCHANGED <<flash, device, cmd, page, shown, end, prepared>>

Exit(how) == phase' = "idle" /\ end' = how /\ UNCHANGED <<block, page>>

NextBlock ==
    /\ block' = block + 1
    /\ page' = FirstPage(cmd)
    /\ phase' = "work"
    /\ UNCHANGED end

NextPage ==
    IF page + 1 < EndPage(cmd)
    THEN page' = page + 1 /\ UNCHANGED <<block, phase, end>>
    ELSE NextBlock

\* The loop over the blocks is done, or there is none for the command.
Finish ==
    /\ phase = "work"
    /\ cmd.type = "unknown" \/ (cmd.type # "config" /\ block >= EndBlock(cmd))
    /\ Exit("fin")
    /\ UNCHANGED <<flash, device, cmd, shown, prepared>>

\* The body of a loop over the blocks is entered with the device idle.
AtBlock(types) ==
    /\ phase = "work" /\ cmd.type \in types /\ block < EndBlock(cmd)
    /\ device = Idle
    /\ UNCHANGED <<cmd, prepared>>

\* The same for a loop over pages, and the loop has a page left.
AtPage(types) == AtBlock(types) /\ page < EndPage(cmd)

\* The range of pages is empty.
NoPages ==
    /\ AtBlock(Ranged) /\ page >= EndPage(cmd)
    /\ NextBlock
    /\ UNCHANGED <<flash, device, shown>>

\* erase: erase_block for each block
EraseBlock ==
    /\ AtBlock({"erase"})
    /\ device' = Erasing(AddressedBlock(block))
    /\ NextBlock
    /\ UNCHANGED <<flash, shown>>

\* format: erase_block, then the pages of the block one by one
FormatErase ==
    /\ AtBlock({"format"})
    /\ device' = Erasing(AddressedBlock(block))
    /\ phase' = "verify"
    /\ UNCHANGED <<flash, block, page, shown, end>>

\* Mutant of FormatVerify: one page stands for the block.
FormatVerify_FirstPage ==
    /\ phase = "verify" /\ device = Idle
    /\ IF flash[block][page].head = "blank" THEN NextBlock ELSE Exit("failed")
    /\ UNCHANGED <<flash, device, cmd, shown, prepared>>

FormatVerify ==
    /\ phase = "verify" /\ device = Idle
    /\ IF flash[block][page].head = "blank" THEN NextPage ELSE Exit("failed")
    /\ UNCHANGED <<flash, device, cmd, shown, prepared>>

\* Mutant of CheckPage: a page that is not erased passes.
CheckPage_Lenient ==
    /\ AtPage({"check"})
    /\ IF page > 0 \/ flash[block][page].head \in {"magic", "blank"} THEN NextPage ELSE Exit("failed")
    /\ UNCHANGED <<flash, device, shown>>

\* check: every page starts with MAGIC or with 16 bytes 0xff
CheckPage ==
    /\ AtPage({"check"})
    /\ IF flash[block][page].head \in {"magic", "blank"} THEN NextPage ELSE Exit("failed")
    /\ UNCHANGED <<flash, device, shown>>

Accepted(size) == size > 0 /\ size < CMD_SIZE - 4

\* The string is copied behind the header without regard for its size: an
\* accepted one can reach beyond cmd.
Overruns(size) == Accepted(size) /\ size > CMD_SIZE - HEADER_SIZE

\* The bytes of the string that are programmed: those in front of the spare end.
Kept(size) ==
    IF size < CMD_SIZE - SPARE_SIZE - HEADER_SIZE THEN size ELSE CMD_SIZE - SPARE_SIZE - HEADER_SIZE

\* Mutant of ConfigPage: the length counts its terminator.
ConfigPage_Terminator(size) ==
    [head |-> "magic", what |-> "config", len |-> (size + 1) % ANT_FIELD, kept |-> Kept(size)]

\* The page of config: the length is stored in ant.length.
ConfigPage(size) ==
    [head |-> "magic", what |-> "config", len |-> size % ANT_FIELD, kept |-> Kept(size)]

\* config: write_block_page of block 0, page 0, if the string is accepted
Config ==
    /\ phase = "work" /\ cmd.type = "config" /\ device = Idle
    /\ device' = IF Accepted(cmd.size) THEN Programming(0, 0, ConfigPage(cmd.size)) ELSE Idle
    /\ Exit("fin")
    /\ UNCHANGED <<flash, cmd, shown, prepared>>

\* A string that reaches beyond cmd overwrites the variables of main: config can
\* also crash before or behind the write, and with a status that
\* write_block_page does not know it never returns.
ConfigOverrun ==
    /\ phase = "work" /\ cmd.type = "config" /\ device = Idle
    /\ Overruns(cmd.size)
    /\ \/ device' \in {Idle, Programming(0, 0, ConfigPage(cmd.size))} /\ Exit("killed")
       \/ phase' = "hung" /\ UNCHANGED <<device, block, page, end>>
    /\ UNCHANGED <<flash, cmd, shown, prepared>>

\* write: a test pattern behind a MAGIC
WritePage ==
    /\ AtPage({"write"})
    /\ device' = Programming(AddressedBlock(block), AddressedPage(page), Data)
    /\ NextPage
    /\ UNCHANGED <<flash, shown>>

\* read, csv: read_by_block_page and print, under the block and page of the
\* options
ReadPage ==
    /\ AtPage({"read"})
    /\ shown' = shown \cup {<<block, page>>}
    /\ NextPage
    /\ UNCHANGED <<flash, device>>

\* Mutant of SearchPage: a page without MAGIC ends the search.
SearchPage_EndsAll ==
    /\ AtPage({"search"})
    /\ IF flash[block][page].head = "magic"
       THEN shown' = shown \cup {<<block, page>>} /\ NextPage
       ELSE UNCHANGED shown /\ Exit("fin")
    /\ UNCHANGED <<flash, device>>

\* search: the first page without MAGIC ends the block
SearchPage ==
    /\ AtPage({"search"})
    /\ IF flash[block][page].head = "magic"
       THEN shown' = shown \cup {<<block, page>>} /\ NextPage
       ELSE UNCHANGED shown /\ NextBlock
    /\ UNCHANGED <<flash, device>>

\* SIGINT: the process exits, the device goes on.
Kill ==
    /\ phase # "idle"
    /\ Exit("killed")
    /\ UNCHANGED <<flash, device, cmd, shown, prepared>>

\* Power fails.
PowerLoss ==
    /\ Interrupted
    /\ phase' = "idle" /\ end' = "killed"
    /\ UNCHANGED <<cmd, block, page, shown, prepared>>

\* The child, between two commands, writes the page behind its log in a block,
\* or is cut off while it does.
ChildRecords(b, p) ==
    /\ phase = "idle" /\ device = Idle
    /\ flash[b][p].head = "blank" /\ \A q \in 0 .. p - 1 : flash[b][q].head = "magic"
    /\ \/ flash' = [flash EXCEPT ![b][p] = Burn(@, Data)]
       \/ \E h \in Heads : flash' = [flash EXCEPT ![b][p] = Junk(h)]
    /\ cmd' = NoCommand /\ end' = "none" /\ shown' = {}
    /\ UNCHANGED <<device, phase, block, page, prepared>>

\* A step of the running process.
Step ==
    \/ Scan \/ Finish \/ NoPages
    \/ EraseBlock \/ FormatErase \/ FormatVerify \/ CheckPage
    \/ Config \/ ConfigOverrun \/ WritePage \/ ReadPage \/ SearchPage

Next ==
    \/ \E c \in Commands : Start(c)
    \/ StartFails
    \/ Step
    \/ DeviceDone
    \/ Kill
    \/ PowerLoss
    \/ \E b \in Blocks \ {0}, p \in Pages : ChildRecords(b, p)

\* A process that has started goes on, unless it hangs, and the device finishes what it does.
Spec == Init /\ [][Next]_vars /\ WF_vars(Step) /\ WF_vars(DeviceDone)

-----------------------------------------------------------------------------
(* Properties *)

\* The variables keep their types: whatever the options, the loop variables fit
\* the uint16_t arguments of the operations, the device works on a block and a
\* page it has, and the scan and the loops of format, check and search stay
\* inside the device without the help of the address bytes.
TypeOK ==
    /\ flash \in [Blocks -> [Pages -> [head : Heads, what : {"blank", "data", "config", "junk"},
                                       len : 0 .. ANT_FIELD - 1, kept : 0 .. CMD_SIZE]]]
    /\ device.op \in {"none", "erase", "program"}
    /\ device # Idle => device.block \in Blocks
    /\ device.op = "program" => device.page \in Pages
    /\ cmd \in Commands \cup {NoCommand}
    /\ phase \in {"idle", "scan", "work", "verify", "hung"}
    /\ block \in Uint16 /\ page \in Uint16
    /\ phase = "scan" => block \in 0 .. BLOCK_COUNT
    /\ cmd.type \in WholeDevice => block \in 0 .. BLOCK_COUNT /\ page \in Pages
    /\ shown \subseteq Uint16 \X Uint16
    /\ end \in {"none", "fin", "failed", "killed", "exit"} /\ prepared \in BOOLEAN

\* A format that ends with "fin" leaves a device on which a mount finds no used
\* block, whatever interrupted commands, cut off writes and failed erases were
\* before or during it; and if erases do not fail, every page is erased.
FormatClears ==
    (cmd.type = "format" /\ end = "fin") =>
        /\ device = Idle
        /\ \A b \in Blocks, p \in Pages :
                flash[b][p].head = "blank" /\ (~ EraseFails => flash[b][p] = Blank)

\* The verdict of check is right both ways: "fin" only if every page starts with
\* MAGIC or erased, "failed" only if some page does not.
CheckVerdict ==
    cmd.type = "check" =>
        /\ end = "fin" => \A b \in Blocks, p \in Pages : flash[b][p].head # "other"
        /\ end = "failed" => \E b \in Blocks, p \in Pages : flash[b][p].head = "other"

\* The pages the options name.
InRange(c) == (c.block_s .. c.block_e - 1) \X (c.page_s .. c.page_e - 1)

\* A report that ends with "fin" is complete: read and csv have shown the pages
\* of their options (beyond the device, pages of it under other numbers), search in each block the pages before the first one
\* without MAGIC, although another one has none.
ReportComplete ==
    end = "fin" =>
        /\ cmd.type = "read" => shown = InRange(cmd)
        /\ cmd.type = "search" =>
                shown = {bp \in Blocks \X Pages :
                            \A q \in 0 .. bp[2] : flash[bp[1]][q].head = "magic"}

\* What mxfs_read of the child returns for LAYER_CONFIG: the bytes the length
\* field says, which it takes for tmp.base.
read_config(pg, bufferlen) ==
    IF pg.what # "config" THEN 0 ELSE IF pg.len < bufferlen THEN pg.len ELSE bufferlen

\* The procedure of the parent's README: when page 0 of block 0 is erased, config
\* stores a string the child reads in its whole length, or refuses it and
\* stores nothing.  A string that is too long for ant.length is read in part:
\* the child still gets no byte that is not of the string.
ConfigReadsBack ==
    (cmd.type = "config" /\ end = "fin" /\ prepared /\ device = Idle) =>
        \A bufferlen \in 1 .. CMD_SIZE :
            LET size == IF Accepted(cmd.size) THEN cmd.size ELSE 0
                got  == read_config(flash[0][0], bufferlen)
            IN  /\ size < ANT_FIELD => got = IF size < bufferlen THEN size ELSE bufferlen
                /\ got <= size /\ got <= flash[0][0].kept

\* The pages a command names for a change, by the numbers of its options.
Meant(c) ==
    CASE c.type = "format" -> Blocks \X Pages
      [] c.type = "erase"  -> (c.block_s .. c.block_e - 1) \X Pages
      [] c.type = "write"  -> InRange(c)
      [] c.type = "config" -> {<<0, 0>>}
      [] OTHER -> {}

\* The pages of the device that the address bytes make of them.
Reached(c) == {<<AddressedBlock(bp[1]), AddressedPage(bp[2])>> : bp \in Meant(c)}

\* The options name blocks and pages of the device.
Within(c) == c.block_e <= BLOCK_COUNT /\ c.page_e <= PAGE_COUNT

\* Recorded pages are lost only to a command that reaches them, also when the
\* command was killed and the device finishes, or is reset, later; and with
\* options inside the device, only to one that names them.
DataOutsideSurvives ==
    [][\A b \in Blocks, p \in Pages :
          (flash[b][p] = Data /\ flash'[b][p] # Data) =>
              /\ <<b, p>> \in Reached(cmd)
              /\ Within(cmd) => <<b, p>> \in Meant(cmd)]_vars

\* Every command ends: the loops wait only for the device, which finishes.  A
\* config that overruns its buffer need not.
CommandEnds ==
    (phase # "idle" /\ ~ (cmd.type = "config" /\ Overruns(cmd.size))) ~> phase = "idle"
=============================================================================
