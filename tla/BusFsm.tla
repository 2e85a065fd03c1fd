------------------------------- MODULE BusFsm -------------------------------
(***************************************************************************)
(* The bus arbitration hardware (hw/fsm_fast.v, hw/fsm_slow.v and          *)
(* hw/fsm_selector.v) wired as in hw/fsm_tb.v: the fast domain of the      *)
(* Mother and the slow domain of the Child each run the same start-up      *)
(* machine on a clock of their own, out_ctrl0 of one is in_ctrl of the     *)
(* other, and the selector, on the fast clock, decides from both out_ctrl1 *)
(* who owns the SPI bus.                                                   *)
(*                                                                         *)
(* A clock edge of a domain is one action: every register of the domain    *)
(* takes its next value from the values before the edge.  The edges of the *)
(* two clocks come in any order and at any ratio.  __internal_status and   *)
(* debug_status_egress are read by nothing and are left out.               *)
(***************************************************************************)
EXTENDS Naturals

CONSTANTS
    FastThreshold,  \* counter value that ends a start-up state (100)
    SlowThreshold,  \* the same in the slow domain (200)
    PowerUp,        \* values out_ctrl0 and out_ctrl1, which have no reset, may power up with
    ResetDomains    \* domains whose reset may be asserted again after power-up

Domains == {"fast", "slow"}

Threshold == [d \in Domains |-> IF d = "fast" THEN FastThreshold ELSE SlowThreshold]

ASSUME ThresholdAssumption == FastThreshold \in Nat /\ SlowThreshold \in Nat

ASSUME PowerUpAssumption ==
    /\ PowerUp \subseteq BOOLEAN /\ PowerUp # {}
    /\ ResetDomains \subseteq Domains

VARIABLES
    rst_n,      \* reset line of each domain, FALSE while it is asserted
    ingress,    \* debug_status_ingress[0], the bit the domain's software sets
    status,     \* __internal_status_next
    counter,    \* __counter
    in_ctrl,    \* __in_ctrl, the registered in_ctrl
    sw,         \* __out_ctrl0_sw, the registered software bit
    out_ctrl0, out_ctrl1,
    sync1, sync2,   \* the selector's two synchroniser stages, per out_ctrl1
    state,      \* the selector's state: which of its inputs are high
    q           \* the bus select line: TRUE is H, the Mother owns the bus

domainVars   == <<status, counter, in_ctrl, sw>>
selectorVars == <<sync1, sync2, state, q>>
vars == <<rst_n, ingress, domainVars, out_ctrl0, out_ctrl1, selectorVars>>

\* Mutant of Other: a domain is wired to itself.
Other_Itself(d) == d

Other(d) == IF d = "fast" THEN "slow" ELSE "fast"

Statuses == {"INIT", "READY_0", "READY_1", "VALID"}

Low == [d \in Domains |-> FALSE]

\* The registers of fsm_fast, fsm_slow and fsm_selector keep their types.
TypeOK ==
    /\ \A line \in {rst_n, ingress, in_ctrl, sw, out_ctrl0, out_ctrl1, sync1, sync2, state} :
            line \in [Domains -> BOOLEAN]
    /\ status \in [Domains -> Statuses]
    /\ counter \in [Domains -> Nat]
    /\ q \in BOOLEAN

\* Power-up with both resets asserted.
Init ==
    /\ rst_n = Low
    /\ ingress \in [Domains -> BOOLEAN]
    /\ status = [d \in Domains |-> "INIT"]
    /\ counter = [d \in Domains |-> 0]
    /\ in_ctrl = Low /\ sw = Low
    /\ out_ctrl0 \in [Domains -> PowerUp]
    /\ out_ctrl1 \in [Domains -> PowerUp]
    /\ sync1 = Low /\ sync2 = Low /\ state = Low
    /\ q = TRUE

-----------------------------------------------------------------------------
(* One clock edge *)

Following ==
    [INIT |-> "READY_0", READY_0 |-> "READY_1", READY_1 |-> "VALID", VALID |-> "VALID"]

\* Mutant of StartUp: the counter runs backwards.
StartUp_Down(d) == counter' = [counter EXCEPT ![d] = @ - 1] /\ UNCHANGED status

\* Count to the threshold in each start-up state; VALID is the last one.
StartUp(d) ==
    IF status[d] = "VALID"
    THEN /\ UNCHANGED status
         /\ counter' = [counter EXCEPT ![d] = 0]
    ELSE IF counter[d] >= Threshold[d]
    THEN /\ status' = [status EXCEPT ![d] = Following[@]]
         /\ counter' = [counter EXCEPT ![d] = 0]
    ELSE /\ UNCHANGED status
         /\ counter' = [counter EXCEPT ![d] = @ + 1]

\* Mutant of DomainEdge: the other domain's line is latched, not followed.
DomainEdge_Latched(d) ==
    IF rst_n[d]
    THEN /\ StartUp(d)
         /\ in_ctrl' = [in_ctrl EXCEPT ![d] = @ \/ out_ctrl0[Other(d)]]
         /\ sw' = [sw EXCEPT ![d] = ingress[d]]
    ELSE UNCHANGED domainVars

\* The registers with a reset move only while it is released.
DomainEdge(d) ==
    IF rst_n[d]
    THEN /\ StartUp(d)
         /\ in_ctrl' = [in_ctrl EXCEPT ![d] = out_ctrl0[Other(d)]]
         /\ sw' = [sw EXCEPT ![d] = ingress[d]]
    ELSE UNCHANGED domainVars

\* Mutant of OutCtrl1: high already in READY_0.
OutCtrl1_Early(d) ==
    \/ status[d] \in {"READY_0", "READY_1"}
    \/ status[d] = "VALID" /\ in_ctrl[d]

\* Low in INIT and READY_0, high in READY_1, the other domain's line in VALID.
OutCtrl1(d) ==
    \/ status[d] = "READY_1"
    \/ status[d] = "VALID" /\ in_ctrl[d]

\* The outputs follow at every edge, in reset too.
OutputEdge(d) ==
    /\ out_ctrl0' = [out_ctrl0 EXCEPT ![d] = sw[d]]
    /\ out_ctrl1' = [out_ctrl1 EXCEPT ![d] = OutCtrl1(d)]

\* Mutant of S2: contention gives the bus to the Child.
S2_Contention == [d \in Domains |-> TRUE]

\* The selector: two synchroniser stages, the state register, and q from the
\* state.  S2, fast low and slow high, is the only state of the Child.
S2 == [d \in Domains |-> d = "slow"]

SelectorEdge ==
    IF rst_n["fast"]
    THEN /\ sync1' = out_ctrl1
         /\ sync2' = sync1
         /\ state' = sync2
         /\ q' = (state # S2)
    ELSE UNCHANGED selectorVars

FastClock ==
    /\ DomainEdge("fast") /\ OutputEdge("fast") /\ SelectorEdge
    /\ UNCHANGED <<rst_n, ingress>>

SlowClock ==
    /\ DomainEdge("slow") /\ OutputEdge("slow")
    /\ UNCHANGED <<rst_n, ingress, selectorVars>>

-----------------------------------------------------------------------------
(* Software and resets *)

Software(d) ==
    /\ ingress' = [ingress EXCEPT ![d] = ~ @]
    /\ UNCHANGED <<rst_n, domainVars, out_ctrl0, out_ctrl1, selectorVars>>

\* Assert the asynchronous reset of a domain; the selector shares the fast one.
\* out_ctrl0 and out_ctrl1 are in an always block without reset.
Reset(d) ==
    /\ rst_n[d]
    /\ rst_n' = [rst_n EXCEPT ![d] = FALSE]
    /\ status' = [status EXCEPT ![d] = "INIT"]
    /\ counter' = [counter EXCEPT ![d] = 0]
    /\ in_ctrl' = [in_ctrl EXCEPT ![d] = FALSE]
    /\ sw' = [sw EXCEPT ![d] = FALSE]
    /\ IF d = "fast"
       THEN sync1' = Low /\ sync2' = Low /\ state' = Low /\ q' = TRUE
       ELSE UNCHANGED selectorVars
    /\ UNCHANGED <<ingress, out_ctrl0, out_ctrl1>>

ReleaseReset(d) ==
    /\ ~ rst_n[d]
    /\ rst_n' = [rst_n EXCEPT ![d] = TRUE]
    /\ UNCHANGED <<ingress, domainVars, out_ctrl0, out_ctrl1, selectorVars>>

Next ==
    \/ FastClock
    \/ SlowClock
    \/ \E d \in Domains : Software(d)
    \/ \E d \in ResetDomains : Reset(d)
    \/ \E d \in Domains : ReleaseReset(d)

\* Both clocks run.
Fairness == WF_vars(FastClock) /\ WF_vars(SlowClock)

Spec == Init /\ [][Next]_vars /\ Fairness

-----------------------------------------------------------------------------
Running == rst_n["fast"] /\ rst_n["slow"]

\* The Child gets the bus only after its domain has counted through INIT and
\* READY_0: nothing in the selector's pipeline lets it in before, however the
\* clocks run and however often the fast domain is reset.
StartUpOwner == ~ q => status["slow"] \in {"READY_1", "VALID"}

\* The Mother can take the bus back: once her software bit stays low, she owns
\* the bus for good, whatever the Child's software does.
MotherRevokes == <>[](Running /\ ~ ingress["fast"]) => <>[]q

\* An offer is taken up: while the Mother's bit stays high and the Child's low,
\* the Child comes to own the bus.
ChildIsGranted == <>[](Running /\ ingress["fast"] /\ ~ ingress["slow"]) => <>[](~ q)

\* With both bits high (H, H) the Mother ends up with the bus.
ContentionIsMothers == <>[](Running /\ ingress["fast"] /\ ingress["slow"]) => <>[]q
=============================================================================
