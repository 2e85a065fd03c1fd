---------------------------- MODULE BusFsmProofs ----------------------------
(***************************************************************************)
(* The bus arbiter for every value of the two start-up thresholds (the     *)
(* hardware has 100 and 200, the runs far smaller ones).                   *)
(***************************************************************************)
EXTENDS BusFsm, TLAPS

Lines == [Domains -> BOOLEAN]

\* TypeOK, one conjunct per register.
Types ==
    /\ rst_n \in Lines /\ ingress \in Lines /\ in_ctrl \in Lines /\ sw \in Lines
    /\ out_ctrl0 \in Lines /\ out_ctrl1 \in Lines
    /\ sync1 \in Lines /\ sync2 \in Lines /\ state \in Lines
    /\ status \in [Domains -> Statuses]
    /\ counter \in [Domains -> Nat]
    /\ q \in BOOLEAN

LEMMA TypesAreTypeOK == Types <=> TypeOK
    BY DEF Types, TypeOK, Lines

LEMMA OutCtrl1Type == \A d \in Domains : OutCtrl1(d) \in BOOLEAN
    BY DEF OutCtrl1

LEMMA DomainEdgeTypes ==
    ASSUME Types, NEW d \in Domains, DomainEdge(d), OutputEdge(d)
    PROVE  /\ in_ctrl' \in Lines /\ sw' \in Lines
           /\ out_ctrl0' \in Lines /\ out_ctrl1' \in Lines
           /\ status' \in [Domains -> Statuses]
           /\ counter' \in [Domains -> Nat]
<1> USE DEF Types, Lines
<1>1. out_ctrl0' \in Lines /\ out_ctrl1' \in Lines
    BY OutCtrl1Type DEF OutputEdge
<1>2. CASE ~ rst_n[d]
    BY <1>1, <1>2 DEF DomainEdge, domainVars
<1>3. CASE rst_n[d]
    <2>1. Other(d) \in Domains
        BY DEF Other, Domains
    <2>2. in_ctrl' \in Lines /\ sw' \in Lines
        BY <1>3, <2>1 DEF DomainEdge
    <2>3. \A s \in Statuses : Following[s] \in Statuses
        BY DEF Following, Statuses
    <2>4. status' \in [Domains -> Statuses] /\ counter' \in [Domains -> Nat]
        BY <1>3, <2>3 DEF DomainEdge, StartUp
    <2> QED
        BY <1>1, <2>2, <2>4
<1> QED
    BY <1>2, <1>3

LEMMA TypesStep == Types /\ [Next]_vars => Types'
<1> SUFFICES ASSUME Types, [Next]_vars PROVE Types'
    OBVIOUS
<1>1. CASE FastClock
    <2>1. "fast" \in Domains
        BY DEF Domains
    <2>2. sync1' \in Lines /\ sync2' \in Lines /\ state' \in Lines /\ q' \in BOOLEAN
        BY <1>1 DEF FastClock, SelectorEdge, selectorVars, Types
    <2> QED
        BY <1>1, <2>1, <2>2, DomainEdgeTypes DEF FastClock, Types
<1>2. CASE SlowClock
    <2>1. "slow" \in Domains
        BY DEF Domains
    <2> QED
        BY <1>2, <2>1, DomainEdgeTypes DEF SlowClock, Types, selectorVars
<1>3. ASSUME NEW d \in Domains, Software(d) PROVE Types'
    BY <1>3 DEF Software, Types, Lines, domainVars, selectorVars
<1>4. ASSUME NEW d \in ResetDomains, Reset(d) PROVE Types'
    <2>1. d \in Domains
        BY PowerUpAssumption
    <2> QED
        BY <1>4, <2>1 DEF Reset, Types, Lines, selectorVars, Low, Statuses
<1>5. ASSUME NEW d \in Domains, ReleaseReset(d) PROVE Types'
    BY <1>5 DEF ReleaseReset, Types, Lines, domainVars, selectorVars
<1>6. CASE UNCHANGED vars
    BY <1>6 DEF vars, domainVars, selectorVars, Types
<1> QED
    BY <1>1, <1>2, <1>3, <1>4, <1>5, <1>6 DEF Next

LEMMA InitialTypes == Init => Types
    BY PowerUpAssumption DEF Init, Types, Lines, Low, Statuses

\* Every register of the arbiter keeps its type: in particular the start-up
\* machines never leave their four states.
THEOREM RegistersKeepTypes == Spec => []TypeOK
    BY InitialTypes, TypesStep, TypesAreTypeOK, PTL DEF Spec

-----------------------------------------------------------------------------
(* The Child does not get the bus before it is up *)

\* out_ctrl1 comes up low, and the slow domain is not reset again.
CleanPowerUp == PowerUp = {FALSE} /\ ResetDomains \subseteq {"fast"}

Up == status["slow"] \in {"READY_1", "VALID"}

\* The inductive invariant: the slow line is high nowhere between out_ctrl1
\* and q before the slow domain is up.
PipelineInv ==
    /\ Types
    /\ out_ctrl1["slow"] \/ sync1["slow"] \/ sync2["slow"] \/ state["slow"] \/ ~ q => Up

LEMMA UpIsStable ==
    ASSUME Types, NEW d \in Domains, DomainEdge(d), Up
    PROVE  Up'
    BY DEF DomainEdge, StartUp, Up, Following, domainVars, Types, Domains

LEMMA PipelineStep ==
    ASSUME CleanPowerUp
    PROVE  PipelineInv /\ [Next]_vars => PipelineInv'
<1> SUFFICES ASSUME PipelineInv, [Next]_vars PROVE PipelineInv'
    OBVIOUS
<1>0. Types' /\ "fast" \in Domains /\ "slow" \in Domains
    BY TypesStep DEF PipelineInv, Domains
<1>1. CASE FastClock
    <2>1. out_ctrl1'["slow"] = out_ctrl1["slow"]
        BY <1>0, <1>1 DEF FastClock, OutputEdge, PipelineInv, Types, Lines
    <2>2. ~ rst_n["fast"] => UNCHANGED selectorVars
        BY <1>1 DEF FastClock, SelectorEdge
    <2>3. rst_n["fast"] => /\ sync1' = out_ctrl1 /\ sync2' = sync1 /\ state' = sync2
                           /\ ~ q' => state["slow"]
        BY <1>0, <1>1 DEF FastClock, SelectorEdge, S2
    <2>4. Up => Up'
        BY <1>0, <1>1, UpIsStable DEF FastClock, PipelineInv
    <2> QED
        BY <1>0, <2>1, <2>2, <2>3, <2>4 DEF PipelineInv, selectorVars
<1>2. CASE SlowClock
    <2>1. out_ctrl1'["slow"] => Up
        BY <1>0, <1>2 DEF SlowClock, OutputEdge, OutCtrl1, PipelineInv, Types, Lines, Up
    <2>2. Up => Up'
        BY <1>0, <1>2, UpIsStable DEF SlowClock, PipelineInv
    <2> QED
        BY <1>0, <1>2, <2>1, <2>2 DEF SlowClock, PipelineInv, selectorVars
<1>3. ASSUME NEW d \in Domains, Software(d) PROVE PipelineInv'
    BY <1>0, <1>3 DEF Software, PipelineInv, Up, domainVars, selectorVars
<1>4. ASSUME NEW d \in ResetDomains, Reset(d) PROVE PipelineInv'
    <2>1. d = "fast"
        BY DEF CleanPowerUp
    <2>2. sync1' = Low /\ sync2' = Low /\ state' = Low /\ q' = TRUE /\ out_ctrl1' = out_ctrl1
        BY <1>4, <2>1 DEF Reset
    <2>3. status'["slow"] = status["slow"]
        BY <1>0, <1>4, <2>1 DEF Reset, PipelineInv, Types
    <2> QED
        BY <1>0, <2>2, <2>3 DEF PipelineInv, Up, Low
<1>5. ASSUME NEW d \in Domains, ReleaseReset(d) PROVE PipelineInv'
    BY <1>0, <1>5 DEF ReleaseReset, PipelineInv, Up, domainVars, selectorVars
<1>6. CASE UNCHANGED vars
    BY <1>0, <1>6 DEF vars, domainVars, selectorVars, PipelineInv, Up
<1> QED
    BY <1>1, <1>2, <1>3, <1>4, <1>5, <1>6 DEF Next

\* From a power-up with the outputs low the Child never owns the bus before
\* its start-up machine has passed INIT and READY_0, for every threshold,
\* every order of the clock edges and however often the Mother is reset.
THEOREM ChildWaitsForStartUp == CleanPowerUp => (Spec => []StartUpOwner)
<1> SUFFICES ASSUME CleanPowerUp PROVE Spec => []StartUpOwner
    OBVIOUS
<1>1. Init => PipelineInv
    <2> SUFFICES ASSUME Init PROVE PipelineInv
        OBVIOUS
    <2>1. out_ctrl1["slow"] = FALSE
        BY DEF CleanPowerUp, Init, Domains
    <2>2. sync1["slow"] = FALSE /\ sync2["slow"] = FALSE /\ state["slow"] = FALSE /\ q = TRUE
        BY DEF Init, Low, Domains
    <2> QED
        BY <2>1, <2>2, InitialTypes DEF PipelineInv
<1>2. PipelineInv /\ [Next]_vars => PipelineInv'
    BY PipelineStep
<1>3. PipelineInv => StartUpOwner
    BY DEF PipelineInv, StartUpOwner, Up
<1> QED
    BY <1>1, <1>2, <1>3, PTL DEF Spec
=============================================================================
