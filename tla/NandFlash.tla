------------------------------ MODULE NandFlash ------------------------------
(***************************************************************************)
(* What the file system expects of a NAND driver (drivers_def.h): one call *)
(* at a time, and a call of mxfs_driver_read, mxfs_driver_write or         *)
(* mxfs_driver_erase does its work exactly once, on the page or block it   *)
(* names, before it returns.  Loss of power may spoil what the call in     *)
(* progress is working on, and nothing else.  MxfsLog is written against   *)
(* this specification; NandDriver shows which drivers implement it.        *)
(***************************************************************************)
EXTENDS NandDef

VARIABLES
    flash,      \* the page stored at a block and page
    call,       \* the call in progress
    served,     \* whether it has done its work
    got,        \* what the last read delivered
    ret         \* what the last call returned

vars == <<flash, call, served, got, ret>>

\* The pages a write may leave on a blank page: its data, and behind a short
\* write anything, the interface says nothing of the bytes it is not given.
Written(c) ==
    IF c.len = "page" THEN {Page(c.data, c.data)}
                      ELSE {Page(c.data, rest) : rest \in Data \cup {"zero", "blank", "torn"}}

Init ==
    /\ flash = [b \in Blocks |-> [p \in Pages |-> Blank]]
    /\ call = NoCall /\ served = FALSE /\ got = Blank /\ ret = "OK"

Call(c) ==
    /\ call = NoCall
    /\ call' = c /\ served' = FALSE
    /\ UNCHANGED <<flash, got, ret>>

Work ==
    \/ /\ call.op = "create" /\ UNCHANGED <<flash, got>>
    \/ /\ call.op = "erase"
       /\ flash' = [flash EXCEPT ![call.block] = [p \in Pages |-> Blank]]
       /\ UNCHANGED got
    \/ /\ call.op = "read"
       /\ got' = flash[call.block][call.page]
       /\ UNCHANGED flash
    \/ /\ call.op = "write" /\ ~Refused(call)
       /\ \E new \in Written(call) :
            flash' = [flash EXCEPT ![call.block][call.page] = Burn(@, new)]
       /\ UNCHANGED got

Serve ==
    /\ call # NoCall /\ ~served
    /\ Work
    /\ served' = TRUE
    /\ UNCHANGED <<call, ret>>

Return ==
    /\ served
    /\ call' = NoCall /\ served' = FALSE /\ ret' = "OK"
    /\ UNCHANGED <<flash, got>>

\* A write the driver refuses does nothing.
Reject ==
    /\ call # NoCall /\ Refused(call)
    /\ call' = NoCall /\ served' = FALSE /\ ret' = "ERR"
    /\ UNCHANGED <<flash, got>>

\* Power fails: the page or block being written or erased is kept, done or torn.
PowerLoss ==
    /\ \/ UNCHANGED flash
       \/ /\ call.op = "write"
          /\ flash' = [flash EXCEPT ![call.block][call.page] = Torn]
       \/ /\ call.op = "erase"
          /\ flash' = [flash EXCEPT ![call.block] = [p \in Pages |-> Torn]]
    /\ call' = NoCall /\ served' = FALSE /\ got' = Blank /\ ret' = "OK"

Next == (\E c \in Calls : Call(c)) \/ Serve \/ Return \/ Reject \/ PowerLoss

Spec == Init /\ [][Next]_vars
=============================================================================
