--------------------------- MODULE FormatterProofs ---------------------------
(***************************************************************************)
(* The commands of the formatter for every number of blocks and pages, any *)
(* uint16_t as an option, inside the device or not, strings of any length  *)
(* and any history of killed commands, losses of power and failing erases. *)
(***************************************************************************)
EXTENDS Formatter, TLAPS

PageTypes == [head : Heads, what : {"blank", "data", "config", "junk"}, len : 0 .. ANT_FIELD - 1,
              kept : 0 .. CMD_SIZE]

FlashTypes == [Blocks -> [Pages -> PageTypes]]

\* The device is idle, erases a block or programs a page.
DeviceTypes ==
    \/ device = Idle
    \/ \E b \in Blocks : device = Erasing(b)
    \/ \E b \in Blocks, p \in Pages, image \in PageTypes : device = Programming(b, p, image)

\* The inductive form of TypeOK: where a loop stands while the command runs.
Types ==
    /\ flash \in FlashTypes
    /\ DeviceTypes
    /\ cmd \in Commands \cup {NoCommand}
    /\ phase \in {"idle", "scan", "work", "verify", "hung"}
    /\ block \in Uint16 /\ page \in Uint16
    /\ phase = "scan" => block \in 0 .. BLOCK_COUNT
    /\ cmd.type \in WholeDevice => block \in 0 .. BLOCK_COUNT /\ page \in Pages
    /\ shown \subseteq Uint16 \X Uint16
    /\ end \in {"none", "fin", "failed", "killed", "exit"} /\ prepared \in BOOLEAN
    /\ phase # "idle" => end = "none" /\ cmd \in Commands
    /\ phase = "verify" => cmd.type = "format" /\ block \in Blocks
    /\ phase = "hung" => cmd.type = "config"

-----------------------------------------------------------------------------
(* Facts about the operators *)

LEMMA TypesAreTypeOK == Types => TypeOK
    BY DEF Types, TypeOK, FlashTypes, PageTypes, DeviceTypes, Idle, Erasing, Programming

LEMMA SizeFacts ==
    /\ BLOCK_COUNT \in Nat \ {0} /\ PAGE_COUNT \in Nat \ {0}
    /\ BLOCK_COUNT \in Uint16 /\ PAGE_COUNT \in Uint16
    /\ CMD_SIZE \in Nat /\ HEADER_SIZE \in Nat /\ SPARE_SIZE \in Nat
    /\ ANT_FIELD \in Nat \ {0} /\ ANT_FIELD + HEADER_SIZE + SPARE_SIZE <= CMD_SIZE
    /\ \A n \in Uint16 : n \in Nat
    /\ \A n \in Uint16, m \in Nat : m <= n => m \in Uint16
<1>0. UINT16_MAX \in Nat
    BY FormatterAssumption
<1>1. /\ BLOCK_COUNT \in Uint16 \ {0} /\ PAGE_COUNT \in Uint16 \ {0}
      /\ CMD_SIZE \in Nat /\ HEADER_SIZE \in Nat /\ SPARE_SIZE \in Nat
      /\ ANT_FIELD \in Nat \ {0} /\ ANT_FIELD + HEADER_SIZE + SPARE_SIZE <= CMD_SIZE
    BY FormatterAssumption
<1>2. ASSUME NEW n \in Uint16 PROVE n \in Nat
    BY <1>0 DEF Uint16
<1>3. ASSUME NEW n \in Uint16, NEW m \in Nat, m <= n PROVE m \in Uint16
    BY <1>0, <1>3 DEF Uint16
<1> QED
    BY <1>1, <1>2, <1>3

LEMMA CommandFacts ==
    ASSUME NEW c \in Commands \cup {NoCommand}
    PROVE  /\ FirstBlock(c) \in Uint16 /\ EndBlock(c) \in Uint16
           /\ FirstPage(c) \in Uint16 /\ EndPage(c) \in Uint16
           /\ c.type \in WholeDevice =>
                /\ FirstBlock(c) = 0 /\ EndBlock(c) = BLOCK_COUNT
                /\ FirstPage(c) = 0 /\ EndPage(c) = PAGE_COUNT
           /\ c.type \notin WholeDevice =>
                /\ FirstBlock(c) = c.block_s /\ EndBlock(c) = c.block_e
                /\ FirstPage(c) = c.page_s /\ EndPage(c) = c.page_e
           /\ c.block_s \in Nat /\ c.block_e \in Nat /\ c.page_s \in Nat /\ c.page_e \in Nat
           /\ c.size \in Nat
           /\ c.type = "config" => c.size \in ConfigSizes
<1>0. /\ \A bs \in BlockRanges : bs[1] \in Uint16 /\ bs[2] \in Uint16
      /\ \A ps \in PageRanges : ps[1] \in Uint16 /\ ps[2] \in Uint16
      /\ \A n \in ConfigSizes : n \in Nat
    BY FormatterAssumption
<1>2. 0 \in Uint16
    BY FormatterAssumption DEF Uint16
<1>1. /\ c.block_s \in Uint16 /\ c.block_e \in Uint16
      /\ c.page_s \in Uint16 /\ c.page_e \in Uint16
      /\ c.size \in Nat /\ (c.type = "config" => c.size \in ConfigSizes)
    <2>1. CASE c = NoCommand
        BY <1>2, <2>1 DEF NoCommand, Command
    <2>2. ASSUME NEW t \in Ranged, NEW bs \in BlockRanges, NEW ps \in PageRanges,
                 c = Command(t, bs, ps, 0)
          PROVE  <1>1!1 /\ <1>1!2 /\ <1>1!3
        BY <1>0, <1>2, <2>2 DEF Command, Ranged
    <2>3. ASSUME NEW bs \in BlockRanges, c = Command("erase", bs, <<0, 0>>, 0)
          PROVE  <1>1!1 /\ <1>1!2 /\ <1>1!3
        BY <1>0, <1>2, <2>3 DEF Command
    <2>4. ASSUME NEW n \in ConfigSizes, c = Command("config", <<0, 0>>, <<0, 0>>, n)
          PROVE  <1>1!1 /\ <1>1!2 /\ <1>1!3
        BY <1>0, <1>2, <2>4 DEF Command
    <2>5. ASSUME NEW t \in WholeDevice \cup {"unknown"}, c = Command(t, <<0, 0>>, <<0, 0>>, 0)
          PROVE  <1>1!1 /\ <1>1!2 /\ <1>1!3
        BY <1>0, <1>2, <2>5 DEF Command, WholeDevice
    <2> QED
        BY <2>1, <2>2, <2>3, <2>4, <2>5 DEF Commands
<1> QED
    BY <1>1, <1>2, SizeFacts DEF FirstBlock, EndBlock, FirstPage, EndPage

\* The address bytes name a block and a page of the device: those of the options,
\* if the device has them.
LEMMA AddressFacts ==
    ASSUME NEW n \in Uint16
    PROVE  /\ AddressedBlock(n) \in Blocks /\ (n < BLOCK_COUNT => AddressedBlock(n) = n)
           /\ AddressedPage(n) \in Pages /\ (n < PAGE_COUNT => AddressedPage(n) = n)
<1>1. n \in Nat /\ BLOCK_COUNT \in Nat \ {0} /\ PAGE_COUNT \in Nat \ {0}
    BY SizeFacts
<1>2. ASSUME NEW m \in Nat \ {0} PROVE n % m \in 0 .. m - 1 /\ (n < m => n % m = n)
    BY <1>1
<1> QED
    BY <1>1, <1>2 DEF AddressedBlock, AddressedPage, Blocks, Pages

LEMMA PagesHaveTypes ==
    /\ Blank \in PageTypes /\ Data \in PageTypes
    /\ \A h \in Heads : Junk(h) \in PageTypes
    /\ \A size \in Nat : ConfigPage(size) \in PageTypes
    /\ \A old, new \in PageTypes : Burn(old, new) \in PageTypes
<1>1. Blank \in PageTypes /\ Data \in PageTypes /\ \A h \in Heads : Junk(h) \in PageTypes
    BY SizeFacts DEF Blank, Data, Junk, PageTypes, Heads
<1>2. ASSUME NEW size \in Nat PROVE ConfigPage(size) \in PageTypes
    <2>1. size % ANT_FIELD \in 0 .. ANT_FIELD - 1
        BY SizeFacts
    <2>2. Kept(size) \in 0 .. CMD_SIZE
        BY SizeFacts DEF Kept
    <2> QED
        BY <2>1, <2>2 DEF ConfigPage, PageTypes, Heads
<1>3. ASSUME NEW old \in PageTypes, NEW new \in PageTypes PROVE Burn(old, new) \in PageTypes
    <2>1. new.head \in Heads /\ "magic" \in Heads /\ "other" \in Heads
        BY DEF PageTypes, Heads
    <2> QED
        BY <1>1, <2>1 DEF Burn
<1> QED
    BY <1>1, <1>2, <1>3

\* The page the device is working on.
Target(b, p) ==
    /\ device # Idle
    /\ device.block = b /\ (device.op = "program" => device.page = p)

\* What the flash can be once the device has stopped: as it was, done or cut short.
Outcomes == {flash, Done} \cup {CutShort(h) : h \in [Pages -> Heads]}

\* However the work of the device ends, it has changed the pages it worked on only.
LEMMA WorkIsLocal ==
    ASSUME Types, NEW f \in Outcomes
    PROVE  /\ f \in FlashTypes
           /\ \A b \in Blocks, p \in Pages : ~ Target(b, p) => f[b][p] = flash[b][p]
           /\ device = Idle => f = flash
<1> USE DEF FlashTypes
<1>1. CASE f = flash
    BY <1>1 DEF Types
<1>2. CASE f = Done
    <2>1. CASE device = Idle
        BY <1>2, <2>1 DEF Types, Done, Idle
    <2>2. ASSUME NEW b \in Blocks, device = Erasing(b) PROVE Done = [flash EXCEPT ![b] = [p \in Pages |-> Blank]]
        BY <2>2 DEF Done, Erasing
    <2>3. ASSUME NEW b \in Blocks, NEW p \in Pages, NEW image \in PageTypes,
                 device = Programming(b, p, image)
          PROVE  Done = [flash EXCEPT ![b][p] = Burn(@, image)]
        BY <2>3 DEF Done, Programming
    <2>4. ASSUME NEW b \in Blocks, device = Erasing(b)
          PROVE  /\ f \in [Blocks -> [Pages -> PageTypes]]
                 /\ \A c \in Blocks, p \in Pages : ~ Target(c, p) => f[c][p] = flash[c][p]
                 /\ device # Idle
        BY <1>2, <2>2, <2>4, PagesHaveTypes DEF Types, Target, Erasing, Idle
    <2>5. ASSUME NEW b \in Blocks, NEW p \in Pages, NEW image \in PageTypes,
                 device = Programming(b, p, image)
          PROVE  /\ f \in [Blocks -> [Pages -> PageTypes]]
                 /\ \A c \in Blocks, q \in Pages : ~ Target(c, q) => f[c][q] = flash[c][q]
                 /\ device # Idle
        BY <1>2, <2>3, <2>5, PagesHaveTypes DEF Types, Target, Programming, Idle
    <2> QED
        BY <2>1, <2>4, <2>5 DEF Types, DeviceTypes
<1>3. ASSUME NEW h \in [Pages -> Heads], f = CutShort(h)
      PROVE  /\ f \in [Blocks -> [Pages -> PageTypes]]
             /\ \A b \in Blocks, p \in Pages : ~ Target(b, p) => f[b][p] = flash[b][p]
             /\ device = Idle => f = flash
    <2>1. CASE device = Idle
        BY <1>3, <2>1 DEF Types, CutShort, Idle
    <2>2. ASSUME NEW b \in Blocks, device = Erasing(b)
          PROVE  CutShort(h) = [flash EXCEPT ![b] =
                    [p \in Pages |-> IF @[p] = Blank THEN Blank ELSE Junk(h[p])]]
        BY <2>2 DEF CutShort, Erasing
    <2>3. ASSUME NEW b \in Blocks, NEW p \in Pages, NEW image \in PageTypes,
                 device = Programming(b, p, image)
          PROVE  CutShort(h) = [flash EXCEPT ![b][p] = Junk(h[p])]
        BY <2>3 DEF CutShort, Programming
    <2>4. ASSUME NEW b \in Blocks, device = Erasing(b)
          PROVE  /\ f \in [Blocks -> [Pages -> PageTypes]]
                 /\ \A c \in Blocks, p \in Pages : ~ Target(c, p) => f[c][p] = flash[c][p]
                 /\ device # Idle
        <3> DEFINE row == [p \in Pages |-> IF flash[b][p] = Blank THEN Blank ELSE Junk(h[p])]
        <3>1. flash \in [Blocks -> [Pages -> PageTypes]]
            BY DEF Types
        <3>2. \A p \in Pages : Junk(h[p]) \in PageTypes
            BY PagesHaveTypes
        <3>3. row \in [Pages -> PageTypes]
            BY <3>2, PagesHaveTypes
        <3>4. f = [flash EXCEPT ![b] = row]
            BY <1>3, <2>2, <2>4, <3>1
        <3>5. f \in [Blocks -> [Pages -> PageTypes]] /\ \A c \in Blocks : c # b => f[c] = flash[c]
            BY <3>1, <3>3, <3>4
        <3>6. device # Idle /\ \A c \in Blocks, p \in Pages : ~ Target(c, p) => c # b
            BY <2>4 DEF Target, Erasing, Idle
        <3> QED
            BY <3>5, <3>6
    <2>5. ASSUME NEW b \in Blocks, NEW p \in Pages, NEW image \in PageTypes,
                 device = Programming(b, p, image)
          PROVE  /\ f \in [Blocks -> [Pages -> PageTypes]]
                 /\ \A c \in Blocks, q \in Pages : ~ Target(c, q) => f[c][q] = flash[c][q]
                 /\ device # Idle
        <3>1. Junk(h[p]) \in PageTypes
            BY PagesHaveTypes
        <3> QED
            BY <1>3, <2>3, <2>5, <3>1 DEF Types, Target, Programming, Idle
    <2> QED
        BY <2>1, <2>4, <2>5 DEF Types, DeviceTypes
<1> QED
    BY <1>1, <1>2, <1>3 DEF Outcomes

LEMMA ResetIsLocal ==
    ASSUME Types, Interrupted
    PROVE  /\ flash' \in Outcomes /\ flash' \in FlashTypes
           /\ device' = Idle /\ DeviceTypes'
<1>1. flash' \in Outcomes /\ device' = Idle
    BY DEF Interrupted, Outcomes
<1> QED
    BY <1>1, WorkIsLocal DEF DeviceTypes

-----------------------------------------------------------------------------
(* Types *)

LEMMA InitialTypes == Init => Types
<1> SUFFICES ASSUME Init PROVE Types
    OBVIOUS
<1>1. flash \in FlashTypes
    BY PagesHaveTypes DEF Init, FlashTypes
<1>2. DeviceTypes /\ cmd \in Commands \cup {NoCommand}
    BY DEF Init, DeviceTypes
<1>3. block \in Uint16 /\ page \in Uint16 /\ block \in 0 .. BLOCK_COUNT /\ page \in Pages
    BY SizeFacts DEF Init, Pages
<1> QED
    BY <1>1, <1>2, <1>3 DEF Init, Types

\* The loops over blocks and pages stay inside the range of the options, and
\* those of the commands for the whole device inside the device.
LEMMA LoopsStayInside ==
    ASSUME Types, phase \in {"work", "verify"}, block < EndBlock(cmd),
           NextPage \/ NextBlock
    PROVE  /\ block' \in Uint16 /\ page' \in Uint16
           /\ end' = end /\ phase' \in {"work", "verify"}
           /\ phase' = "verify" => phase = "verify" /\ block' = block
           /\ cmd.type \in WholeDevice => block' \in 0 .. BLOCK_COUNT /\ page' \in Pages
<1>1. cmd \in Commands /\ block \in Nat /\ page \in Nat
    BY SizeFacts DEF Types
<1>2. /\ FirstPage(cmd) \in Uint16 /\ EndPage(cmd) \in Uint16 /\ EndBlock(cmd) \in Uint16
      /\ EndPage(cmd) \in Nat /\ EndBlock(cmd) \in Nat
    BY <1>1, CommandFacts, SizeFacts
<1>3. block + 1 \in Uint16 /\ (page + 1 < EndPage(cmd) => page + 1 \in Uint16)
    <2>1. block + 1 \in Nat /\ block + 1 <= EndBlock(cmd) /\ page + 1 \in Nat
        BY <1>1, <1>2
    <2> QED
        BY <1>2, <2>1, SizeFacts
<1>4. /\ block' \in Uint16 /\ page' \in Uint16
      /\ end' = end /\ phase' \in {"work", "verify"}
      /\ phase' = "verify" => phase = "verify" /\ block' = block
    BY <1>2, <1>3 DEF NextPage, NextBlock, Types
<1>5. ASSUME cmd.type \in WholeDevice PROVE block' \in 0 .. BLOCK_COUNT /\ page' \in Pages
    BY <1>1, <1>5, CommandFacts, SizeFacts DEF NextPage, NextBlock, Types, Pages
<1> QED
    BY <1>4, <1>5

LEMMA InsideDevice ==
    ASSUME Types, phase # "idle", cmd.type \in WholeDevice, block < EndBlock(cmd)
    PROVE  block \in Blocks /\ page \in Pages
<1>1. cmd \in Commands
    BY DEF Types
<1> QED
    BY <1>1, CommandFacts, SizeFacts DEF Types, Blocks

LEMMA TypesStep == Types /\ [Next]_vars => Types'
<1> SUFFICES ASSUME Types, [Next]_vars PROVE Types'
    OBVIOUS
<1> USE SizeFacts
<1>1. ASSUME NEW c \in Commands, Start(c) PROVE Types'
    <2>1. flash' \in FlashTypes /\ DeviceTypes'
        BY <1>1, ResetIsLocal DEF Start
    <2>2. c.type \in WholeDevice => FirstPage(c) \in Pages
        BY CommandFacts DEF Pages
    <2> QED
        BY <1>1, <2>1, <2>2, CommandFacts DEF Start, Types
<1>2. CASE StartFails
    <2>1. flash' \in FlashTypes /\ DeviceTypes'
        BY <1>2, ResetIsLocal DEF StartFails, Types, DeviceTypes
    <2> QED
        BY <1>2, <2>1 DEF StartFails, Types
<1>3. CASE Scan
    <2>1. cmd \in Commands /\ block \in 0 .. BLOCK_COUNT
        BY <1>3 DEF Scan, Types
    <2>2. CASE block < BLOCK_COUNT
        <3>1. block' = block + 1 /\ block + 1 \in 0 .. BLOCK_COUNT
            BY <1>3, <2>1, <2>2 DEF Scan
        <3>2. block + 1 \in Uint16
            BY <2>1, <3>1, SizeFacts
        <3> QED
            BY <1>3, <2>2, <3>1, <3>2 DEF Scan, Types, DeviceTypes
    <2>3. CASE ~ (block < BLOCK_COUNT)
        BY <1>3, <2>1, <2>3, CommandFacts DEF Scan, Types, DeviceTypes
    <2> QED
        BY <2>2, <2>3
<1>4. CASE Finish
    BY <1>4 DEF Finish, Exit, Types, DeviceTypes
<1>5. CASE NoPages
    BY <1>5, LoopsStayInside DEF NoPages, AtBlock, Types, DeviceTypes
<1>6. CASE EraseBlock
    <2>1. DeviceTypes'
        BY <1>6, AddressFacts DEF EraseBlock, DeviceTypes, Types
    <2> QED
        BY <1>6, <2>1, LoopsStayInside DEF EraseBlock, AtBlock, Types
<1>7. CASE FormatErase
    <2>1. block \in Blocks
        BY <1>7, InsideDevice DEF FormatErase, AtBlock, WholeDevice
    <2>2. DeviceTypes'
        BY <1>7, AddressFacts DEF FormatErase, DeviceTypes, Types
    <2> QED
        BY <1>7, <2>1, <2>2 DEF FormatErase, AtBlock, Types
<1>8. CASE FormatVerify
    <2>1. block \in Blocks /\ cmd \in Commands /\ cmd.type \in WholeDevice
        BY <1>8 DEF FormatVerify, Types, WholeDevice
    <2>2. block < EndBlock(cmd)
        BY <2>1, CommandFacts DEF Blocks
    <2> QED
        BY <1>8, <2>1, <2>2, LoopsStayInside DEF FormatVerify, Exit, Types, DeviceTypes
<1>9. CASE CheckPage
    BY <1>9, LoopsStayInside DEF CheckPage, AtPage, AtBlock, Exit, Types, DeviceTypes
<1>10. CASE Config \/ ConfigOverrun
    <2>1. ConfigPage(cmd.size) \in PageTypes
        BY CommandFacts, PagesHaveTypes DEF Types
    <2>2. 0 \in Blocks /\ 0 \in Pages
        BY DEF Blocks, Pages
    <2>3. DeviceTypes'
        BY <1>10, <2>1, <2>2 DEF Config, ConfigOverrun, DeviceTypes
    <2> QED
        BY <1>10, <2>3 DEF Config, ConfigOverrun, Exit, Types
<1>11. CASE WritePage
    <2>1. DeviceTypes'
        BY <1>11, AddressFacts, PagesHaveTypes DEF WritePage, DeviceTypes, Types
    <2> QED
        BY <1>11, <2>1, LoopsStayInside DEF WritePage, AtPage, AtBlock, Types
<1>12. CASE ReadPage
    BY <1>12, LoopsStayInside DEF ReadPage, AtPage, AtBlock, Types, DeviceTypes
<1>13. CASE SearchPage
    BY <1>13, LoopsStayInside DEF SearchPage, AtPage, AtBlock, Types, DeviceTypes
<1>14. CASE DeviceDone
    <2>1. flash' \in Outcomes /\ DeviceTypes'
        BY <1>14 DEF DeviceDone, Outcomes, DeviceTypes
    <2> QED
        BY <1>14, <2>1, WorkIsLocal DEF DeviceDone, process, Types
<1>15. CASE Kill
    BY <1>15 DEF Kill, Exit, Types, DeviceTypes
<1>16. CASE PowerLoss
    <2>1. flash' \in FlashTypes /\ DeviceTypes'
        BY <1>16, ResetIsLocal DEF PowerLoss
    <2> QED
        BY <1>16, <2>1 DEF PowerLoss, Types
<1>17. ASSUME NEW b \in Blocks \ {0}, NEW p \in Pages, ChildRecords(b, p) PROVE Types'
    <2>1. flash' \in FlashTypes
        BY <1>17, PagesHaveTypes DEF ChildRecords, Types, FlashTypes
    <2> QED
        BY <1>17, <2>1 DEF ChildRecords, Types, DeviceTypes, NoCommand, Command, WholeDevice
<1>18. CASE UNCHANGED vars
    BY <1>18 DEF vars, process, Types, DeviceTypes
<1> QED
    BY <1>1, <1>2, <1>3, <1>4, <1>5, <1>6, <1>7, <1>8, <1>9, <1>10, <1>11, <1>12, <1>13,
       <1>14, <1>15, <1>16, <1>17, <1>18
    DEF Next, Step

LEMMA TypesInvariant == Spec => []Types
    BY InitialTypes, TypesStep, PTL DEF Spec

\* The formatter keeps its types, whatever uint16_t its options are: its loop
\* variables fit the arguments of the operations, the device works on a block and
\* a page it has, and the commands for the whole device do not leave it.
THEOREM FormatterStaysInside == Spec => []TypeOK
    BY TypesInvariant, TypesAreTypeOK, PTL

-----------------------------------------------------------------------------
(* check *)

\* The pages the loops have passed.
Before(b, p) == b < block \/ (b = block /\ p < page)

\* While check runs the device is at rest, and the pages it has passed start with
\* MAGIC or erased; when it has ended, its verdict stands until the next command.
CheckInv ==
    cmd.type = "check" =>
        /\ device = Idle
        /\ phase = "scan" => page = 0
        /\ phase = "work" =>
              \A b \in Blocks, p \in Pages : Before(b, p) => flash[b][p].head # "other"
        /\ end = "fin" => \A b \in Blocks, p \in Pages : flash[b][p].head # "other"
        /\ end = "failed" => \E b \in Blocks, p \in Pages : flash[b][p].head = "other"

LEMMA CheckStep == Types /\ CheckInv /\ [Next]_vars => CheckInv'
<1> SUFFICES ASSUME Types, CheckInv, [Next]_vars, cmd'.type = "check"
             PROVE  CheckInv'
    BY DEF CheckInv
<1>1. ASSUME NEW c \in Commands, Start(c) PROVE CheckInv'
    <2>1. c.type \in WholeDevice /\ c.type # "erase"
        BY <1>1 DEF Start, WholeDevice
    <2> QED
        BY <1>1, <2>1, CommandFacts DEF Start, Interrupted, CheckInv
<1>2. ASSUME UNCHANGED cmd PROVE device = Idle /\ \A f \in Outcomes : f = flash
    BY <1>2, WorkIsLocal DEF CheckInv
<1>3. CASE StartFails
    <2>1. UNCHANGED <<flash, device>>
        BY <1>2, <1>3, ResetIsLocal DEF StartFails
    <2> QED
        BY <1>3, <2>1 DEF StartFails, CheckInv
<1>4. CASE Scan
    <2>1. cmd \in Commands /\ cmd.type \in WholeDevice
        BY <1>4 DEF Scan, Types, WholeDevice
    <2>2. phase' = "work" => block' = 0 /\ page' = 0
        BY <1>4, <2>1, CommandFacts DEF Scan, CheckInv
    <2>3. phase' = "work" => ~ \E b \in Blocks, p \in Pages : Before(b, p)'
        BY <2>2, SizeFacts DEF Before, Blocks, Pages
    <2>4. phase' = "scan" => page' = 0
        BY <1>4 DEF Scan, CheckInv
    <2> QED
        BY <1>4, <2>3, <2>4 DEF Scan, CheckInv, Types
<1>5. CASE Finish
    <2>1. cmd \in Commands /\ cmd.type \in WholeDevice /\ cmd.type = "check"
        BY <1>5 DEF Finish, Types, WholeDevice
    <2>2. block >= BLOCK_COUNT
        BY <1>5, <2>1, CommandFacts DEF Finish
    <2>3. \A b \in Blocks, p \in Pages : Before(b, p)
        BY <2>2, SizeFacts DEF Before, Blocks, Types
    <2> QED
        BY <1>5, <2>1, <2>3 DEF Finish, Exit, CheckInv
<1>6. CASE CheckPage
    <2>1. cmd \in Commands /\ cmd.type \in WholeDevice /\ cmd.type = "check"
        BY <1>6 DEF CheckPage, AtPage, AtBlock, Types, WholeDevice
    <2>2. block \in Blocks /\ page \in Pages
        BY <1>6, <2>1, InsideDevice DEF CheckPage, AtPage, AtBlock
    <2>3. flash[block][page].head \in Heads
        BY <2>2 DEF Types, FlashTypes, PageTypes
    <2>4. CASE flash[block][page].head \in {"magic", "blank"}
        <3>1. NextPage /\ UNCHANGED <<flash, device, cmd>>
            BY <1>6, <2>4 DEF CheckPage, AtPage, AtBlock
        <3>2. \A b \in Blocks, p \in Pages :
                Before(b, p)' => Before(b, p) \/ (b = block /\ p = page)
            BY <2>1, <2>2, <3>1, CommandFacts, SizeFacts
            DEF NextPage, NextBlock, Before, Blocks, Pages
        <3>3. phase' = "work" /\ end' = "none"
            BY <1>6, <3>1 DEF NextPage, NextBlock, CheckPage, AtPage, AtBlock, Types
        <3> QED
            BY <1>6, <2>2, <2>4, <3>1, <3>2, <3>3 DEF CheckInv, CheckPage, AtPage, AtBlock
    <2>5. CASE flash[block][page].head \notin {"magic", "blank"}
        <3>1. flash[block][page].head = "other"
            BY <2>3, <2>5 DEF Heads
        <3> QED
            BY <1>6, <2>1, <2>2, <2>5, <3>1 DEF CheckPage, AtPage, AtBlock, Exit, CheckInv
    <2> QED
        BY <2>4, <2>5
<1>7. CASE NoPages \/ EraseBlock \/ FormatErase \/ FormatVerify \/ Config \/ ConfigOverrun \/ WritePage
           \/ ReadPage \/ SearchPage
    BY <1>7
    DEF NoPages, EraseBlock, FormatErase, FormatVerify, Config, ConfigOverrun, WritePage, ReadPage, SearchPage,
        AtPage, AtBlock, Ranged, Types
<1>8. CASE DeviceDone
    BY <1>2, <1>8 DEF DeviceDone, process
<1>9. CASE Kill
    BY <1>9 DEF Kill, Exit, CheckInv
<1>10. CASE PowerLoss
    <2>1. UNCHANGED <<flash, device>>
        BY <1>2, <1>10, ResetIsLocal DEF PowerLoss
    <2> QED
        BY <1>10, <2>1 DEF PowerLoss, CheckInv
<1>11. ASSUME NEW b \in Blocks \ {0}, NEW p \in Pages, ChildRecords(b, p) PROVE CheckInv'
    BY <1>11 DEF ChildRecords, NoCommand, Command
<1>12. CASE UNCHANGED vars
    BY <1>12 DEF vars, process, CheckInv, Before
<1> QED
    BY <1>1, <1>3, <1>4, <1>5, <1>6, <1>7, <1>8, <1>9, <1>10, <1>11, <1>12 DEF Next, Step

\* The verdict of check is right both ways, on a device of any size and after
\* whatever killed commands, cut off writes and failed erases.
THEOREM CheckIsRight == Spec => []CheckVerdict
<1>1. Init => CheckInv
    BY DEF Init, NoCommand, Command, CheckInv
<1>2. CheckInv => CheckVerdict
    BY DEF CheckInv, CheckVerdict
<1> QED
    BY <1>1, <1>2, CheckStep, TypesInvariant, PTL DEF Spec

-----------------------------------------------------------------------------
(* format *)

\* A page as format promises it.
Clear(b, p) == flash[b][p].head = "blank" /\ (~ EraseFails => flash[b][p] = Blank)

\* format has cleared the blocks it has passed.  The one it works on may still be
\* in erasure, with nothing read of it; once the device rests, the pages read
\* were blank and, unless erases fail, the others are too.
FormatInv ==
    cmd.type = "format" =>
        /\ phase \in {"scan", "work"} => device = Idle /\ page = 0
        /\ phase \in {"work", "verify"} => \A b \in Blocks, p \in Pages : b < block => Clear(b, p)
        /\ phase = "verify" =>
              /\ device = Idle \/ (device = Erasing(block) /\ page = 0)
              /\ \A p \in Pages : p < page => flash[block][p].head = "blank"
              /\ (~ EraseFails /\ device = Idle) => \A p \in Pages : flash[block][p] = Blank
        /\ end = "fin" => device = Idle /\ \A b \in Blocks, p \in Pages : Clear(b, p)

LEMMA FormatStep == Types /\ FormatInv /\ [Next]_vars => FormatInv'
<1> SUFFICES ASSUME Types, FormatInv, [Next]_vars, cmd'.type = "format"
             PROVE  FormatInv'
    BY DEF FormatInv
<1>1. ASSUME NEW c \in Commands, Start(c) PROVE FormatInv'
    <2>1. c.type \in WholeDevice /\ c.type # "erase"
        BY <1>1 DEF Start, WholeDevice
    <2> QED
        BY <1>1, <2>1, CommandFacts DEF Start, Interrupted, FormatInv
<1>2. CASE StartFails \/ Kill \/ PowerLoss
    BY <1>2 DEF StartFails, Kill, Exit, PowerLoss, FormatInv
<1>3. ASSUME cmd = cmd', cmd \in Commands
      PROVE  /\ FirstBlock(cmd) = 0 /\ EndBlock(cmd) = BLOCK_COUNT
             /\ FirstPage(cmd) = 0 /\ EndPage(cmd) = PAGE_COUNT
    BY <1>3, CommandFacts DEF WholeDevice
<1>4. CASE Scan
    <2>1. cmd = cmd' /\ cmd \in Commands
        BY <1>4 DEF Scan, Types
    <2>2. phase' = "work" => block' = 0
        BY <1>3, <1>4, <2>1 DEF Scan
    <2>3. phase' = "work" => ~ \E b \in Blocks : b < block'
        BY <2>2, SizeFacts DEF Blocks
    <2>4. phase' \in {"scan", "work"} /\ end' = "none" /\ UNCHANGED <<flash, device, page>>
        BY <1>4 DEF Scan, Types
    <2> QED
        BY <1>4, <2>1, <2>3, <2>4 DEF Scan, FormatInv
<1>5. CASE Finish
    <2>1. cmd = cmd' /\ cmd \in Commands
        BY <1>5 DEF Finish, Types
    <2>2. block >= BLOCK_COUNT
        BY <1>3, <1>5, <2>1 DEF Finish
    <2>3. \A b \in Blocks : b < block
        BY <2>2, SizeFacts DEF Blocks, Types
    <2> QED
        BY <1>5, <2>1, <2>3 DEF Finish, Exit, FormatInv, Clear
<1>6. CASE FormatErase
    <2>1. block \in Blocks
        BY <1>6, InsideDevice DEF FormatErase, AtBlock, WholeDevice
    <2>2. \A p \in Pages : ~ (p < page')
        BY <1>6, SizeFacts DEF FormatErase, AtBlock, FormatInv, Pages
    <2>3. device' = Erasing(block) /\ device' # Idle
        <3>1. AddressedBlock(block) = block
            BY <2>1, AddressFacts, SizeFacts DEF Types, Blocks
        <3> QED
            BY <1>6, <3>1 DEF FormatErase, Erasing, Idle
    <2> QED
        BY <1>6, <2>2, <2>3 DEF FormatErase, AtBlock, FormatInv, Clear, Types
<1>7. CASE FormatVerify
    <2>1. cmd = cmd' /\ cmd \in Commands /\ block \in Blocks /\ page \in Pages
        BY <1>7 DEF FormatVerify, Types, WholeDevice
    <2>2. CASE flash[block][page].head # "blank"
        BY <1>7, <2>2 DEF FormatVerify, Exit, FormatInv
    <2>3. CASE flash[block][page].head = "blank"
        <3>1. NextPage /\ UNCHANGED <<flash, device, cmd>> /\ end = "none"
            BY <1>7, <2>3 DEF FormatVerify, Types
        <3>2. CASE page + 1 < PAGE_COUNT
            <4>1. page' = page + 1 /\ UNCHANGED <<block, phase, end>>
                BY <1>3, <2>1, <3>1, <3>2 DEF NextPage
            <4>2. \A p \in Pages : p < page' => p < page \/ p = page
                BY <2>1, <4>1, SizeFacts DEF Pages
            <4> QED
                BY <1>7, <2>1, <2>3, <3>1, <4>1, <4>2 DEF FormatVerify, FormatInv, Clear
        <3>3. CASE ~ (page + 1 < PAGE_COUNT)
            <4>1. block' = block + 1 /\ page' = 0 /\ phase' = "work" /\ end' = end
                BY <1>3, <2>1, <3>1, <3>3 DEF NextPage, NextBlock
            <4>2. \A p \in Pages : p < page \/ p = page
                BY <2>1, <3>3, SizeFacts DEF Pages
            <4>3. \A b \in Blocks : b < block' => b < block \/ b = block
                BY <2>1, <4>1, SizeFacts DEF Blocks
            <4>4. \A p \in Pages : Clear(block, p)
                BY <1>7, <2>1, <2>3, <4>2 DEF FormatVerify, FormatInv, Clear
            <4> QED
                BY <1>7, <2>1, <3>1, <4>1, <4>3, <4>4 DEF FormatVerify, FormatInv, Clear
        <3> QED
            BY <3>2, <3>3
    <2> QED
        BY <2>2, <2>3
<1>8. CASE NoPages \/ EraseBlock \/ CheckPage \/ Config \/ ConfigOverrun \/ WritePage \/ ReadPage \/ SearchPage
    BY <1>8
    DEF NoPages, EraseBlock, CheckPage, Config, ConfigOverrun, WritePage, ReadPage, SearchPage,
        AtPage, AtBlock, Ranged
<1>9. CASE DeviceDone
    <2>1. device # Idle /\ device' = Idle /\ UNCHANGED <<cmd, phase, block, page, end>>
        BY <1>9 DEF DeviceDone, process
    <2>2. flash' \in Outcomes
        BY <1>9 DEF DeviceDone, Outcomes
    <2>3. CASE phase = "verify"
        <3>1. device = Erasing(block) /\ page = 0 /\ block \in Blocks
            BY <2>1, <2>3 DEF FormatInv, Types
        <3>2. \A b \in Blocks, p \in Pages : b < block => ~ Target(b, p)
            BY <3>1, SizeFacts DEF Target, Erasing, Blocks
        <3>3. \A b \in Blocks, p \in Pages : b < block => flash'[b][p] = flash[b][p]
            BY <2>2, <3>2, WorkIsLocal
        <3>4. \A p \in Pages : ~ (p < page)
            BY <3>1, SizeFacts DEF Pages
        <3>5. ~ EraseFails => \A p \in Pages : flash'[block][p] = Blank
            <4> SUFFICES ASSUME ~ EraseFails, NEW p \in Pages PROVE flash'[block][p] = Blank
                OBVIOUS
            <4>1. flash' = [flash EXCEPT ![block] = [q \in Pages |-> Blank]]
                BY <1>9, <3>1 DEF DeviceDone, Done, Erasing
            <4> QED
                BY <3>1, <4>1 DEF Types, FlashTypes
        <3> QED
            BY <2>1, <2>3, <3>3, <3>4, <3>5 DEF FormatInv, Clear, Types
    <2>4. CASE phase # "verify"
        BY <2>1, <2>4 DEF FormatInv, Types
    <2> QED
        BY <2>3, <2>4
<1>10. ASSUME NEW b \in Blocks \ {0}, NEW p \in Pages, ChildRecords(b, p) PROVE FormatInv'
    BY <1>10 DEF ChildRecords, NoCommand, Command
<1>11. CASE UNCHANGED vars
    BY <1>11 DEF vars, process, FormatInv, Clear
<1> QED
    BY <1>1, <1>2, <1>4, <1>5, <1>6, <1>7, <1>8, <1>9, <1>10, <1>11 DEF Next, Step

\* A format that ends with "fin" leaves a device on which a mount finds no used
\* block, and with erases that do not fail every page erased: for a device of
\* any size, after any history of killed commands and losses of power.
THEOREM FormatIsComplete == Spec => []FormatClears
<1>1. Init => FormatInv
    BY DEF Init, NoCommand, Command, FormatInv
<1>2. FormatInv => FormatClears
    BY DEF FormatInv, FormatClears, Clear
<1> QED
    BY <1>1, <1>2, FormatStep, TypesInvariant, PTL DEF Spec

-----------------------------------------------------------------------------
(* read, csv and search *)

\* The pages search is to report.
Found == {bp \in Blocks \X Pages : \A q \in 0 .. bp[2] : flash[bp[1]][q].head = "magic"}

\* A report has shown what its loops have passed of what it is to show; search is
\* still in the MAGIC pages of its block.
ReportInv ==
    /\ cmd.type = "read" =>
        /\ phase \in {"scan", "work"} => page >= cmd.page_s
        /\ phase = "scan" => page = cmd.page_s /\ shown = {}
        /\ phase = "work" =>
              /\ block >= cmd.block_s
              /\ shown = {bp \in InRange(cmd) : Before(bp[1], bp[2])}
        /\ end = "fin" => shown = InRange(cmd)
    /\ cmd.type = "search" =>
        /\ device = Idle
        /\ phase = "scan" => page = 0 /\ shown = {}
        /\ phase = "work" =>
              /\ shown = {bp \in Found : Before(bp[1], bp[2])}
              /\ block \in Blocks => \A q \in Pages : q < page => flash[block][q].head = "magic"
        /\ end = "fin" => shown = Found

LEMMA ReportStep == Types /\ ReportInv /\ [Next]_vars => ReportInv'
<1> SUFFICES ASSUME Types, ReportInv, [Next]_vars, cmd'.type \in {"read", "search"}
             PROVE  ReportInv'
    BY DEF ReportInv
<1>1. ASSUME NEW c \in Commands, Start(c) PROVE ReportInv'
    <2>1. c.type # "erase" /\ (c.type = "search" => FirstPage(c) = 0)
                           /\ (c.type = "read" => FirstPage(c) = c.page_s) /\ c.page_s \in Nat
        BY <1>1, CommandFacts DEF Start, WholeDevice
    <2> QED
        BY <1>1, <2>1 DEF Start, Interrupted, ReportInv
<1>2. ASSUME UNCHANGED cmd, cmd.type = "search" PROVE device = Idle /\ \A f \in Outcomes : f = flash
    BY <1>2, WorkIsLocal DEF ReportInv
<1>3. CASE StartFails \/ PowerLoss
    <2>1. cmd.type = "search" => UNCHANGED <<flash, device>>
        BY <1>2, <1>3, ResetIsLocal DEF StartFails, PowerLoss
    <2> QED
        BY <1>3, <2>1 DEF StartFails, PowerLoss, ReportInv
<1>4. CASE Kill
    BY <1>4 DEF Kill, Exit, ReportInv
<1>5. CASE Scan
    <2>1. cmd \in Commands
        BY <1>5 DEF Scan, Types
    <2>2. CASE phase' = "scan"
        BY <1>5, <2>2 DEF Scan, ReportInv, Types
    <2>3. CASE phase' = "work"
        <3>1. block' = FirstBlock(cmd) /\ UNCHANGED <<flash, device, cmd, page, shown, end>>
            BY <1>5, <2>3 DEF Scan
        <3>2. CASE cmd.type = "read"
            <4>1. block' = cmd.block_s /\ page' = cmd.page_s /\ shown' = {}
                BY <1>5, <2>1, <3>1, <3>2, CommandFacts DEF Scan, ReportInv, WholeDevice
            <4>2. \A bp \in InRange(cmd) : ~ Before(bp[1], bp[2])'
                BY <2>1, <4>1, CommandFacts DEF InRange, Before
            <4> QED
                BY <1>5, <2>1, <2>3, <3>1, <3>2, <4>1, <4>2, CommandFacts DEF Scan, ReportInv, Types, InRange
        <3>3. CASE cmd.type = "search"
            <4>1. block' = 0 /\ page' = 0 /\ shown' = {}
                BY <1>5, <2>1, <3>1, <3>3, CommandFacts DEF Scan, ReportInv, WholeDevice
            <4>2. \A bp \in Found' : ~ Before(bp[1], bp[2])'
                BY <4>1, SizeFacts DEF Found, Before, Blocks, Pages
            <4>3. \A q \in Pages : ~ (q < page')
                BY <4>1, SizeFacts DEF Pages
            <4> QED
                BY <1>5, <2>3, <3>1, <3>3, <4>1, <4>2, <4>3 DEF Scan, ReportInv, Types
        <3> QED
            BY <1>5, <3>2, <3>3 DEF Scan
    <2> QED
        BY <1>5, <2>2, <2>3 DEF Scan
<1>6. CASE Finish
    <2>1. cmd \in Commands /\ UNCHANGED <<flash, device, cmd, shown>> /\ phase' = "idle"
        BY <1>6 DEF Finish, Exit, Types
    <2>2. block >= EndBlock(cmd) /\ block \in Nat /\ phase = "work"
        BY <1>6, <2>1, SizeFacts DEF Finish, Types
    <2>3. CASE cmd.type = "read"
        <3>1. \A bp \in InRange(cmd) : Before(bp[1], bp[2])
            BY <2>1, <2>2, <2>3, CommandFacts DEF InRange, Before, WholeDevice
        <3>2. shown = InRange(cmd)
            BY <2>2, <2>3, <3>1 DEF ReportInv
        <3> QED
            BY <2>1, <2>3, <3>2 DEF ReportInv, InRange
    <2>4. CASE cmd.type = "search"
        <3>1. block >= BLOCK_COUNT
            BY <2>1, <2>2, <2>4, CommandFacts DEF WholeDevice
        <3>2. \A bp \in Found : Before(bp[1], bp[2])
            BY <2>2, <3>1, SizeFacts DEF Found, Before, Blocks
        <3>3. shown = Found
            BY <2>2, <2>4, <3>2 DEF ReportInv, Found
        <3> QED
            BY <2>1, <2>4, <3>3 DEF ReportInv, Found
    <2> QED
        BY <2>1, <2>3, <2>4
<1>7. CASE NoPages
    <2>1. /\ cmd \in Commands /\ cmd.type = "read" /\ cmd.type \notin WholeDevice
          /\ UNCHANGED <<cmd, shown>> /\ page >= EndPage(cmd) /\ NextBlock
          /\ phase = "work" /\ block \in Nat /\ end = "none"
        BY <1>7, SizeFacts DEF NoPages, AtBlock, Ranged, WholeDevice, Types
    <2>2. \A bp \in InRange(cmd) : Before(bp[1], bp[2])' <=> Before(bp[1], bp[2])
        BY <2>1, CommandFacts, SizeFacts DEF InRange, Before, NextBlock, Types
    <2> QED
        BY <2>1, <2>2, CommandFacts DEF NextBlock, ReportInv, InRange
<1>8. CASE ReadPage
    <2>1. /\ cmd \in Commands /\ cmd.type = "read" /\ cmd.type \notin WholeDevice
          /\ UNCHANGED cmd /\ shown' = shown \cup {<<block, page>>} /\ NextPage
          /\ phase = "work" /\ block \in Nat /\ page \in Nat /\ end = "none"
          /\ block < EndBlock(cmd) /\ page < EndPage(cmd)
        BY <1>8, SizeFacts DEF ReadPage, AtPage, AtBlock, WholeDevice, Types
    <2>2. <<block, page>> \in InRange(cmd)
        BY <2>1, CommandFacts DEF InRange, ReportInv
    <2>3. \A bp \in InRange(cmd) :
            Before(bp[1], bp[2])' <=> (Before(bp[1], bp[2]) \/ bp = <<block, page>>)
        BY <2>1, CommandFacts DEF InRange, Before, NextPage, NextBlock
    <2>4. shown' = {bp \in InRange(cmd) : Before(bp[1], bp[2])'}
        BY <2>1, <2>2, <2>3 DEF ReportInv
    <2>5. phase' = "work" /\ end' = "none" /\ page' >= cmd.page_s /\ block' >= cmd.block_s
        BY <2>1, CommandFacts DEF NextPage, NextBlock, ReportInv
    <2> QED
        BY <2>1, <2>4, <2>5 DEF ReportInv, InRange
<1>9. CASE SearchPage
    <2>1. /\ cmd \in Commands /\ cmd.type = "search" /\ cmd.type \in WholeDevice
          /\ UNCHANGED <<flash, device, cmd>> /\ phase = "work" /\ end = "none"
          /\ block < EndBlock(cmd) /\ page < EndPage(cmd)
        BY <1>9 DEF SearchPage, AtPage, AtBlock, WholeDevice, Types
    <2>2. block \in Blocks /\ page \in Pages
        BY <2>1, InsideDevice
    <2>3. \A q \in Pages : q < page => flash[block][q].head = "magic"
        BY <2>1, <2>2 DEF ReportInv
    <2>4. Found' = Found
        BY <2>1 DEF Found
    <2>5. FirstPage(cmd) = 0 /\ EndPage(cmd) = PAGE_COUNT
        BY <2>1, CommandFacts
    <2>6. CASE flash[block][page].head = "magic"
        <3>1. shown' = shown \cup {<<block, page>>} /\ NextPage
            BY <1>9, <2>6 DEF SearchPage
        <3>2. <<block, page>> \in Found
            BY <2>2, <2>3, <2>6, SizeFacts DEF Found, Pages
        <3>3. \A bp \in Found :
                Before(bp[1], bp[2])' <=> (Before(bp[1], bp[2]) \/ bp = <<block, page>>)
            BY <2>2, <2>5, <3>1, SizeFacts
            DEF Found, Before, NextPage, NextBlock, Blocks, Pages
        <3>4. shown' = {bp \in Found : Before(bp[1], bp[2])'}
            BY <2>1, <3>1, <3>2, <3>3 DEF ReportInv
        <3>5. phase' = "work" /\ end' = "none"
            BY <2>1, <3>1 DEF NextPage, NextBlock
        <3>6. \A q \in Pages : q < page' => flash[block'][q].head = "magic"
            BY <2>2, <2>3, <2>5, <2>6, <3>1, SizeFacts DEF NextPage, NextBlock, Pages
        <3> QED
            BY <2>1, <2>4, <3>4, <3>5, <3>6 DEF ReportInv
    <2>7. CASE flash[block][page].head # "magic"
        <3>1. shown' = shown /\ NextBlock
            BY <1>9, <2>7 DEF SearchPage
        <3>2. block' = block + 1 /\ page' = 0 /\ phase' = "work" /\ end' = "none"
            BY <2>1, <2>5, <3>1 DEF NextBlock
        <3>3. \A bp \in Found : bp[1] = block => bp[2] < page
            BY <2>2, <2>7, SizeFacts DEF Found, Blocks, Pages
        <3>4. \A bp \in Found : Before(bp[1], bp[2])' <=> Before(bp[1], bp[2])
            BY <2>2, <3>2, <3>3, SizeFacts DEF Found, Before, Blocks, Pages
        <3>5. \A q \in Pages : ~ (q < page')
            BY <3>2, SizeFacts DEF Pages
        <3> QED
            BY <2>1, <2>4, <3>1, <3>2, <3>4, <3>5 DEF ReportInv
    <2> QED
        BY <2>6, <2>7
<1>10. CASE EraseBlock \/ FormatErase \/ FormatVerify \/ CheckPage \/ Config \/ ConfigOverrun \/ WritePage
    BY <1>10
    DEF EraseBlock, FormatErase, FormatVerify, CheckPage, Config, ConfigOverrun, WritePage,
        AtPage, AtBlock, Types
<1>11. CASE DeviceDone
    BY <1>2, <1>11 DEF DeviceDone, process, ReportInv, Before
<1>12. ASSUME NEW b \in Blocks \ {0}, NEW p \in Pages, ChildRecords(b, p) PROVE ReportInv'
    BY <1>12 DEF ChildRecords, NoCommand, Command
<1>13. CASE UNCHANGED vars
    BY <1>13 DEF vars, process, ReportInv, Before, Found
<1> QED
    BY <1>1, <1>3, <1>4, <1>5, <1>6, <1>7, <1>8, <1>9, <1>10, <1>11, <1>12, <1>13 DEF Next, Step

\* A report that ends with "fin" is complete, for a device of any size and all
\* options: read and csv have shown the pages named, search in each block the
\* pages before the first one without MAGIC.
THEOREM ReportsAreComplete == Spec => []ReportComplete
<1>1. Init => ReportInv
    BY DEF Init, NoCommand, Command, ReportInv
<1>2. ReportInv => ReportComplete
    BY DEF ReportInv, ReportComplete, Found
<1> QED
    BY <1>1, <1>2, ReportStep, TypesInvariant, PTL DEF Spec

-----------------------------------------------------------------------------
(* Data outside the range of a command *)

\* A loop has not left its range to the left, and the device works on pages of
\* the command that is running or was the last.
MeantInv ==
    /\ phase # "idle" => page >= FirstPage(cmd)
    /\ phase \in {"work", "verify"} => block >= FirstBlock(cmd)
    /\ \A b \in Blocks, p \in Pages : Target(b, p) => <<b, p>> \in Reached(cmd)

\* What a command for the whole device, or with options inside it, names is what
\* it reaches.
LEMMA WithinIsMeant ==
    ASSUME NEW c \in Commands \cup {NoCommand}, Within(c)
    PROVE  Reached(c) \subseteq Meant(c)
<1>1. Meant(c) \subseteq Blocks \X Pages
    <2>1. CASE c.type = "format"
        BY <2>1 DEF Meant
    <2>2. CASE c.type = "erase"
        <3>1. Meant(c) = (c.block_s .. c.block_e - 1) \X Pages
            BY <2>2 DEF Meant
        <3> QED
            BY <3>1, CommandFacts, SizeFacts DEF Within, Blocks
    <2>3. CASE c.type = "write"
        <3>1. Meant(c) = InRange(c)
            BY <2>3 DEF Meant
        <3> QED
            BY <3>1, CommandFacts, SizeFacts DEF Within, InRange, Blocks, Pages
    <2>4. CASE c.type = "config"
        <3>1. Meant(c) = {<<0, 0>>}
            BY <2>4 DEF Meant
        <3> QED
            BY <3>1, SizeFacts DEF Blocks, Pages
    <2>5. CASE c.type \notin {"format", "erase", "write", "config"}
        <3>1. Meant(c) = {}
            BY <2>5 DEF Meant
        <3> QED
            BY <3>1
    <2> QED
        BY <2>1, <2>2, <2>3, <2>4, <2>5
<1>2. ASSUME NEW bp \in Blocks \X Pages
      PROVE  <<AddressedBlock(bp[1]), AddressedPage(bp[2])>> = bp
    <2>1. bp[1] \in Blocks /\ bp[2] \in Pages /\ bp = <<bp[1], bp[2]>>
        OBVIOUS
    <2>2. bp[1] \in Uint16 /\ bp[1] < BLOCK_COUNT /\ bp[2] \in Uint16 /\ bp[2] < PAGE_COUNT
        BY <2>1, SizeFacts DEF Blocks, Pages
    <2>3. AddressedBlock(bp[1]) = bp[1] /\ AddressedPage(bp[2]) = bp[2]
        BY <2>2, AddressFacts
    <2> QED
        BY <2>1, <2>3
<1> QED
    BY <1>1, <1>2 DEF Reached

\* A page of the device that a command reaches.
LEMMA NamedIsReached ==
    ASSUME NEW c, NEW b, NEW p, <<b, p>> \in Meant(c)
    PROVE  <<AddressedBlock(b), AddressedPage(p)>> \in Reached(c)
    BY DEF Reached

LEMMA MeantStep == Types /\ MeantInv /\ [Next]_vars => MeantInv'
<1> SUFFICES ASSUME Types, MeantInv, [Next]_vars PROVE MeantInv'
    OBVIOUS
<1> USE SizeFacts
<1>1. ASSUME NEW c \in Commands, Start(c) PROVE MeantInv'
    <2>1. device' = Idle /\ cmd' = c /\ page' = FirstPage(c)
          /\ (phase' \in {"work", "verify"} => block' = FirstBlock(c))
        BY <1>1 DEF Start, Interrupted
    <2>2. FirstPage(c) \in Nat /\ FirstBlock(c) \in Nat
        BY CommandFacts
    <2> QED
        BY <2>1, <2>2 DEF MeantInv, Target
<1>2. CASE StartFails \/ Kill \/ PowerLoss
    <2>1. /\ device' = Idle \/ UNCHANGED device
          /\ cmd' = cmd /\ phase' = "idle"
        BY <1>2 DEF StartFails, Kill, Exit, PowerLoss, Interrupted
    <2> QED
        BY <2>1 DEF MeantInv, Target
<1>3. CASE Scan
    <2>1. cmd \in Commands /\ cmd' = cmd /\ UNCHANGED <<device, page>>
        BY <1>3 DEF Scan, Types
    <2>2. FirstBlock(cmd) \in Nat
        BY <2>1, CommandFacts
    <2>3. phase' \in {"work", "verify"} => block' = FirstBlock(cmd)
        BY <1>3 DEF Scan
    <2> QED
        BY <1>3, <2>1, <2>2, <2>3 DEF Scan, MeantInv, Target
<1>4. CASE Finish
    BY <1>4 DEF Finish, Exit, MeantInv, Target
\* The loops move forward from where the range begins.
<1>5. ASSUME NextPage \/ NextBlock, phase \in {"work", "verify"}, cmd' = cmd
      PROVE  page' >= FirstPage(cmd) /\ block' >= FirstBlock(cmd)
    <2>1. cmd \in Commands
        BY <1>5 DEF Types
    <2> QED
        BY <1>5, <2>1, CommandFacts DEF NextPage, NextBlock, MeantInv, Types
<1>6. CASE NoPages \/ CheckPage \/ ReadPage \/ SearchPage \/ FormatVerify
    <2>1. cmd' = cmd /\ device' = device /\ phase \in {"work", "verify"}
          /\ (NextPage \/ NextBlock \/ phase' = "idle")
        BY <1>6 DEF NoPages, CheckPage, ReadPage, SearchPage, FormatVerify, AtPage, AtBlock, Exit
    <2> QED
        BY <1>5, <2>1 DEF MeantInv, Target
<1>7. CASE EraseBlock
    <2>1. /\ cmd' = cmd /\ cmd.type = "erase" /\ phase = "work" /\ block < EndBlock(cmd)
          /\ device' = Erasing(AddressedBlock(block)) /\ NextBlock
        BY <1>7 DEF EraseBlock, AtBlock
    <2>2. block \in cmd.block_s .. cmd.block_e - 1
        <3>1. cmd \in Commands /\ cmd.type \notin WholeDevice
            BY <2>1 DEF Types, WholeDevice
        <3> QED
            BY <2>1, <3>1, CommandFacts DEF MeantInv, Types
    <2>3. Meant(cmd) = (cmd.block_s .. cmd.block_e - 1) \X Pages
        BY <2>1 DEF Meant
    <2>4. ASSUME NEW b \in Blocks, NEW p \in Pages, Target(b, p)' PROVE <<b, p>> \in Reached(cmd)
        <3>1. b = AddressedBlock(block)
            BY <2>1, <2>4 DEF Target, Erasing
        <3>2. p = AddressedPage(p)
            BY AddressFacts DEF Pages
        <3>3. <<AddressedBlock(block), AddressedPage(p)>> \in Reached(cmd)
            BY <2>2, <2>3, NamedIsReached
        <3> QED
            BY <3>1, <3>2, <3>3
    <2> QED
        BY <1>5, <2>1, <2>4 DEF MeantInv
<1>8. CASE FormatErase
    <2>1. /\ cmd' = cmd /\ cmd.type = "format" /\ phase = "work" /\ UNCHANGED <<block, page>>
        BY <1>8 DEF FormatErase, AtBlock
    <2>2. Meant(cmd) = Blocks \X Pages
        BY <2>1 DEF Meant
    <2>3. ASSUME NEW b \in Blocks, NEW p \in Pages PROVE <<b, p>> \in Reached(cmd)
        <3>1. b = AddressedBlock(b) /\ p = AddressedPage(p)
            BY AddressFacts DEF Blocks, Pages
        <3>2. <<AddressedBlock(b), AddressedPage(p)>> \in Reached(cmd)
            BY <2>2, NamedIsReached
        <3> QED
            BY <3>1, <3>2
    <2> QED
        BY <2>1, <2>3 DEF MeantInv
<1>9. CASE Config \/ ConfigOverrun
    <2>1. /\ cmd' = cmd /\ cmd.type = "config" /\ phase' \in {"idle", "hung"}
          /\ phase # "idle" /\ page' = page
          /\ device' = Idle \/ device' = Programming(0, 0, ConfigPage(cmd.size))
        BY <1>9 DEF Config, ConfigOverrun, Exit
    <2>2. Meant(cmd) = {<<0, 0>>}
        BY <2>1 DEF Meant
    <2>3. \A b \in Blocks, p \in Pages : Target(b, p)' => b = 0 /\ p = 0
        BY <2>1 DEF Target, Programming
    <2>4. <<0, 0>> \in Reached(cmd)
        <3>1. AddressedBlock(0) = 0 /\ AddressedPage(0) = 0
            BY AddressFacts
        <3>2. <<AddressedBlock(0), AddressedPage(0)>> \in Reached(cmd)
            BY <2>2, NamedIsReached
        <3> QED
            BY <3>1, <3>2
    <2> QED
        BY <2>1, <2>3, <2>4 DEF MeantInv
<1>10. CASE WritePage
    <2>1. /\ cmd' = cmd /\ cmd.type = "write" /\ phase = "work"
          /\ block < EndBlock(cmd) /\ page < EndPage(cmd)
          /\ device' = Programming(AddressedBlock(block), AddressedPage(page), Data) /\ NextPage
        BY <1>10 DEF WritePage, AtPage, AtBlock
    <2>2. block \in cmd.block_s .. cmd.block_e - 1 /\ page \in cmd.page_s .. cmd.page_e - 1
        <3>1. cmd \in Commands /\ cmd.type \notin WholeDevice
            BY <2>1 DEF Types, WholeDevice
        <3> QED
            BY <2>1, <3>1, CommandFacts DEF MeantInv, Types
    <2>3. Meant(cmd) = InRange(cmd)
        BY <2>1 DEF Meant
    <2>4. <<AddressedBlock(block), AddressedPage(page)>> \in Reached(cmd)
        BY <2>2, <2>3, NamedIsReached DEF InRange
    <2>5. \A b \in Blocks, p \in Pages :
            Target(b, p)' => b = AddressedBlock(block) /\ p = AddressedPage(page)
        BY <2>1 DEF Target, Programming
    <2> QED
        BY <1>5, <2>1, <2>4, <2>5 DEF MeantInv
<1>11. CASE DeviceDone
    BY <1>11 DEF DeviceDone, process, MeantInv, Target
<1>12. ASSUME NEW b \in Blocks \ {0}, NEW p \in Pages, ChildRecords(b, p) PROVE MeantInv'
    BY <1>12 DEF ChildRecords, MeantInv, Target
<1>13. CASE UNCHANGED vars
    BY <1>13 DEF vars, process, MeantInv, Target
<1> QED
    BY <1>1, <1>2, <1>3, <1>4, <1>6, <1>7, <1>8, <1>9, <1>10, <1>11, <1>12, <1>13 DEF Next, Step

\* A page with data that a step changes is one the device works on.
LEMMA OnlyTargetsChange ==
    ASSUME Types, [Next]_vars, NEW b \in Blocks, NEW p \in Pages,
           flash[b][p] = Data, flash'[b][p] # Data
    PROVE  Target(b, p)
<1>1. CASE flash' \in Outcomes
    BY <1>1, WorkIsLocal
<1>2. ASSUME NEW c \in Blocks \ {0}, NEW q \in Pages, ChildRecords(c, q) PROVE FALSE
    <2>1. flash[c][q].head = "blank" /\ flash[b][p].head = "magic"
        BY <1>2 DEF ChildRecords, Data
    <2>2. c # b \/ q # p
        BY <2>1
    <2> QED
        BY <1>2, <2>2 DEF ChildRecords, Types, FlashTypes
<1>3. UNCHANGED flash => flash' \in Outcomes
    BY DEF Outcomes
<1>4. CASE \E c \in Commands : Start(c)
    BY <1>1, <1>4, ResetIsLocal DEF Start
<1>5. CASE StartFails \/ PowerLoss
    BY <1>1, <1>3, <1>5, ResetIsLocal DEF StartFails, PowerLoss
<1>6. CASE Step \/ Kill
    BY <1>1, <1>3, <1>6
    DEF Step, Scan, Finish, NoPages, EraseBlock, FormatErase, FormatVerify, CheckPage, Config, ConfigOverrun,
        WritePage, ReadPage, SearchPage, Kill
<1>7. CASE DeviceDone
    BY <1>1, <1>7 DEF DeviceDone, Outcomes
<1>8. CASE UNCHANGED vars
    BY <1>8 DEF vars
<1> QED
    BY <1>2, <1>4, <1>5, <1>6, <1>7, <1>8 DEF Next

\* Recorded pages are lost only to a command that reaches them by the address
\* bytes of the blocks and pages it names, and with options inside the device to
\* one that names them: for a device of any size and any uint16_t as an option,
\* also when the command was killed and the device finishes, or is reset, later.
THEOREM CommandsStayInRange == Spec => DataOutsideSurvives
<1>1. Init => MeantInv
    BY DEF Init, MeantInv, Target
<1>2. Types /\ MeantInv /\ [Next]_vars =>
        [\A b \in Blocks, p \in Pages :
            (flash[b][p] = Data /\ flash'[b][p] # Data) =>
                /\ <<b, p>> \in Reached(cmd)
                /\ Within(cmd) => <<b, p>> \in Meant(cmd)]_vars
    <2> SUFFICES ASSUME Types, MeantInv, [Next]_vars, NEW b \in Blocks, NEW p \in Pages,
                        flash[b][p] = Data, flash'[b][p] # Data
                 PROVE  /\ <<b, p>> \in Reached(cmd)
                        /\ Within(cmd) => <<b, p>> \in Meant(cmd)
        OBVIOUS
    <2>1. <<b, p>> \in Reached(cmd)
        BY OnlyTargetsChange DEF MeantInv
    <2>2. Within(cmd) => Reached(cmd) \subseteq Meant(cmd)
        BY WithinIsMeant DEF Types
    <2> QED
        BY <2>1, <2>2
<1>3. Spec => []MeantInv
    BY <1>1, MeantStep, TypesInvariant, PTL DEF Spec
<1> QED
    BY <1>2, <1>3, TypesInvariant, PTL DEF Spec, DataOutsideSurvives

-----------------------------------------------------------------------------
(* config *)

\* On an erased page config stores its string once: the page is erased until the
\* device has programmed it.
ConfigInv ==
    (cmd.type = "config" /\ prepared) =>
        /\ phase # "idle" => device = Idle /\ flash[0][0] = Blank
        /\ end = "fin" =>
              \/ /\ device = Idle
                 /\ flash[0][0] = IF Accepted(cmd.size) THEN ConfigPage(cmd.size) ELSE Blank
              \/ /\ Accepted(cmd.size) /\ device = Programming(0, 0, ConfigPage(cmd.size))
                 /\ flash[0][0] = Blank

LEMMA ConfigStep == Types /\ ConfigInv /\ [Next]_vars => ConfigInv'
<1> SUFFICES ASSUME Types, ConfigInv, [Next]_vars, cmd'.type = "config", prepared'
             PROVE  ConfigInv'
    BY DEF ConfigInv
<1>1. ASSUME NEW c \in Commands, Start(c) PROVE ConfigInv'
    BY <1>1 DEF Start, Interrupted, ConfigInv
<1>2. CASE StartFails \/ Kill \/ PowerLoss
    BY <1>2 DEF StartFails, Kill, Exit, PowerLoss, ConfigInv
<1>3. CASE Scan
    BY <1>3 DEF Scan, ConfigInv, Types
<1>4. CASE Config \/ ConfigOverrun
    BY <1>4 DEF Config, ConfigOverrun, Exit, ConfigInv, Types
<1>5. CASE Finish \/ NoPages \/ EraseBlock \/ FormatErase \/ FormatVerify \/ CheckPage
           \/ WritePage \/ ReadPage \/ SearchPage
    BY <1>5
    DEF Finish, NoPages, EraseBlock, FormatErase, FormatVerify, CheckPage, WritePage, ReadPage,
        SearchPage, AtPage, AtBlock, Ranged, Types
<1>6. CASE DeviceDone
    <2>1. device # Idle /\ device' = Idle /\ UNCHANGED <<cmd, phase, end, prepared>>
        BY <1>6 DEF DeviceDone, process
    <2>2. CASE end = "fin"
        <3>1. /\ Accepted(cmd.size) /\ device = Programming(0, 0, ConfigPage(cmd.size))
              /\ flash[0][0] = Blank
            BY <2>1, <2>2 DEF ConfigInv
        <3>2. flash' = [flash EXCEPT ![0][0] = Burn(@, ConfigPage(cmd.size))]
            BY <1>6, <3>1 DEF DeviceDone, Done, Programming
        <3>3. 0 \in Blocks /\ 0 \in Pages
            BY SizeFacts DEF Blocks, Pages
        <3>4. flash'[0][0] = Burn(flash[0][0], ConfigPage(cmd.size))
            BY <3>2, <3>3 DEF Types, FlashTypes
        <3>5. flash'[0][0] = ConfigPage(cmd.size)
            BY <3>1, <3>4 DEF Burn, Blank
        <3> QED
            BY <2>1, <2>2, <3>1, <3>5 DEF ConfigInv, Types
    <2>3. CASE end # "fin"
        BY <2>1, <2>3 DEF ConfigInv
    <2> QED
        BY <2>2, <2>3
<1>7. ASSUME NEW b \in Blocks \ {0}, NEW p \in Pages, ChildRecords(b, p) PROVE ConfigInv'
    BY <1>7 DEF ChildRecords, NoCommand, Command
<1>8. CASE UNCHANGED vars
    BY <1>8 DEF vars, process, ConfigInv
<1> QED
    BY <1>1, <1>2, <1>3, <1>4, <1>5, <1>6, <1>7, <1>8 DEF Next, Step

\* When page 0 of block 0 is erased, config stores a string the child reads in
\* its whole length, whatever buffer it reads into, or refuses it and stores
\* nothing, if ant.length can hold the length; of a longer string the child reads
\* a part that is on the page.  For strings of any length.
THEOREM ConfigIsReadBack == Spec => []ConfigReadsBack
<1>1. Init => ConfigInv
    BY DEF Init, NoCommand, Command, ConfigInv
<1>2. Types /\ ConfigInv => ConfigReadsBack
    <2> SUFFICES ASSUME Types, ConfigInv,
                        cmd.type = "config", end = "fin", prepared, device = Idle,
                        NEW bufferlen \in 1 .. CMD_SIZE
                 PROVE  LET size == IF Accepted(cmd.size) THEN cmd.size ELSE 0
                            got  == read_config(flash[0][0], bufferlen)
                        IN  /\ size < ANT_FIELD => got = IF size < bufferlen THEN size ELSE bufferlen
                            /\ got <= size /\ got <= flash[0][0].kept
        BY DEF ConfigReadsBack
    <2>1. flash[0][0] = IF Accepted(cmd.size) THEN ConfigPage(cmd.size) ELSE Blank
        BY DEF ConfigInv, Programming, Idle
    <2>2. cmd.size \in Nat
        BY CommandFacts DEF Types
    <2>3. PICK len \in 0 .. ANT_FIELD - 1 :
            len = cmd.size % ANT_FIELD /\ len <= cmd.size /\ (cmd.size < ANT_FIELD => len = cmd.size)
        <3>1. ASSUME NEW n \in Nat, NEW m \in Nat \ {0}
              PROVE  n % m \in 0 .. m - 1 /\ n % m <= n /\ (n < m => n % m = n)
            OBVIOUS
        <3> QED
            BY <2>2, <3>1, SizeFacts
    <2>4. len <= Kept(cmd.size)
        BY <2>2, <2>3, SizeFacts DEF Kept
    <2>5. CASE Accepted(cmd.size)
        <3>1. flash[0][0].what = "config" /\ flash[0][0].len = len /\ flash[0][0].kept = Kept(cmd.size)
            BY <2>1, <2>3, <2>5 DEF ConfigPage
        <3>2. read_config(flash[0][0], bufferlen) = IF len < bufferlen THEN len ELSE bufferlen
            BY <3>1 DEF read_config
        <3>3. Kept(cmd.size) \in Int
            BY <2>2, SizeFacts DEF Kept
        <3> QED
            BY <2>2, <2>3, <2>4, <2>5, <3>1, <3>2, <3>3, SizeFacts
    <2>6. CASE ~ Accepted(cmd.size)
        <3>1. flash[0][0].what = "blank" /\ flash[0][0].kept = 0
            BY <2>1, <2>6 DEF Blank
        <3>2. read_config(flash[0][0], bufferlen) = 0
            BY <3>1 DEF read_config
        <3> QED
            BY <2>6, <3>1, <3>2, SizeFacts
    <2> QED
        BY <2>5, <2>6
<1>3. Spec => []ConfigInv
    BY <1>1, ConfigStep, TypesInvariant, PTL DEF Spec
<1> QED
    BY <1>2, <1>3, TypesInvariant, PTL

=============================================================================
