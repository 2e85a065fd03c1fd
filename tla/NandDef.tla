------------------------------- MODULE NandDef -------------------------------
(***************************************************************************)
(* Pages of a NAND device and the calls of the driver interface            *)
(* (drivers_def.h), shared by what the file system expects of a driver     *)
(* (NandFlash) and the drivers (NandDriver).                               *)
(***************************************************************************)
EXTENDS Naturals

CONSTANTS
    Blocks, Pages,  \* the blocks and pages the program names
    Data,           \* contents a caller writes
    Lengths         \* lengths it writes them with: "short" of a page, a whole
                    \* "page", or too "long" for the driver's command buffer

ASSUME LengthsAssumption == Lengths \subseteq {"short", "page", "long"}

ASSUME AddressAssumption == Blocks \subseteq 0 .. 1023 /\ Pages \subseteq 0 .. 63

\* A page is what a short write reaches and the rest of it.
Page(head, tail) == [head |-> head, tail |-> tail]
Blank == Page("blank", "blank")
Torn  == Page("torn", "torn")

Calls ==
    [op : {"create"}]
    \cup [op : {"erase"}, block : Blocks]
    \cup [op : {"read"}, block : Blocks, page : Pages]
    \cup [op : {"write"}, block : Blocks, page : Pages, data : Data, len : Lengths]

NoCall == [op |-> "none"]

Refused(c) == c.op = "write" /\ c.len = "long"

\* Programming clears bits only: what is on a page that is not blank is spoilt.
Burn(old, new) == IF old = Blank THEN new ELSE Torn
=============================================================================
