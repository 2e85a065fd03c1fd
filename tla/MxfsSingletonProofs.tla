------------------------- MODULE MxfsSingletonProofs -------------------------
(***************************************************************************)
(* The instance counter for every set of threads, of any size: there is    *)
(* one instance at a time, and a release finds its instance counted.       *)
(***************************************************************************)
EXTENDS MxfsSingleton, FiniteSetTheorems, TLAPS

\* The labels at which a thread is inside the mutex.
Inside == {"create_check", "create_count", "create_unlock", "release_check", "release_unlock"}

\* The labels of mxfs_release_instance.
Releasing == {"release_lock", "release_check", "release_unlock", "teardown"}

\* The counter stands for thread t: it has counted, and not uncounted, its
\* instance, which it may still have to set up.
Counted(t) ==
    \/ pc[t] \in {"create_unlock", "setup"}
    \/ t \in inst /\ pc[t] \notin {"release_unlock", "teardown"}

\* The inductive invariant.  OneInstance alone says nothing of the counter, and
\* the counter alone nothing of a thread between check and increment.
CounterInv ==
    /\ TypeOK
    /\ \A t \in Threads : pc[t] \in Inside => singleton_lock = t
    /\ \A t \in Threads : pc[t] \in Releasing => t \in inst
    /\ \A t \in Threads : pc[t] = "create_count" => singleton = 0
    /\ \A t \in Threads : Counted(t) => singleton = 1
    /\ \A t, u \in Threads : Counted(t) /\ Counted(u) => t = u
    /\ singleton \in {0, 1}

LEMMA InitialCounter == Init => CounterInv
    BY DEF Init, CounterInv, TypeOK, Labels, Inside, Releasing, Counted

LEMMA CounterStep == CounterInv /\ [Next]_vars => CounterInv'
<1> SUFFICES ASSUME CounterInv, [Next]_vars PROVE CounterInv'
    OBVIOUS
<1> USE SingletonAssumption DEF CounterInv, TypeOK, Labels, Inside, Releasing, Counted, Goto
<1>1. ASSUME NEW t \in Threads, CallCreate(t) PROVE CounterInv'
    BY <1>1 DEF CallCreate
<1>2. ASSUME NEW t \in Threads, CallRelease(t) PROVE CounterInv'
    BY <1>2 DEF CallRelease
<1>3. ASSUME NEW t \in Threads, CreateLock(t) PROVE CounterInv'
    BY <1>3 DEF CreateLock, Lock
<1>4. ASSUME NEW t \in Threads, CreateRefused(t) PROVE CounterInv'
    BY <1>4 DEF CreateRefused
<1>5. ASSUME NEW t \in Threads, CreatePasses(t) PROVE CounterInv'
    BY <1>5 DEF CreatePasses
<1>6. ASSUME NEW t \in Threads, CreateCounts(t) PROVE CounterInv'
    BY <1>6 DEF CreateCounts
<1>7. ASSUME NEW t \in Threads, CreateUnlock(t) PROVE CounterInv'
    BY <1>7 DEF CreateUnlock, Unlock
<1>8. ASSUME NEW t \in Threads, Setup(t) PROVE CounterInv'
    BY <1>8 DEF Setup
<1>9. ASSUME NEW t \in Threads, ReleaseLock(t) PROVE CounterInv'
    BY <1>9 DEF ReleaseLock, Lock
<1>10. ASSUME NEW t \in Threads, ReleaseUncounts(t) PROVE CounterInv'
    BY <1>10 DEF ReleaseUncounts
<1>11. ASSUME NEW t \in Threads, ReleaseUnlock(t) PROVE CounterInv'
    BY <1>11 DEF ReleaseUnlock, Unlock
<1>12. ASSUME NEW t \in Threads, Teardown(t) PROVE CounterInv'
    BY <1>12 DEF Teardown
<1>13. CASE UNCHANGED vars
    BY <1>13 DEF vars
<1> QED
    BY <1>1, <1>2, <1>3, <1>4, <1>5, <1>6, <1>7, <1>8, <1>9, <1>10, <1>11, <1>12, <1>13
    DEF Next, Step

LEMMA CounterInvariant == Spec => []CounterInv
    BY InitialCounter, CounterStep, PTL DEF Spec

\* The counter of mxfs_instance.cc keeps its type for any number of threads.
THEOREM CounterKeepsType == Spec => []TypeOK
<1>1. CounterInv => TypeOK
    BY DEF CounterInv
<1> QED
    BY <1>1, CounterInvariant, PTL

\* However many threads create and release, in whatever order, and whenever
\* malloc fails: mxfs_create_instance never hands out a second instance before
\* the first one has been given up under the lock.
THEOREM NeverTwoInstances == Spec => []OneInstance
<1>1. CounterInv => OneInstance
    <2> SUFFICES ASSUME CounterInv PROVE OneInstance
        OBVIOUS
    <2> DEFINE S == {t \in Threads : pc[t] = "setup"
                        \/ (t \in inst /\ pc[t] \notin {"release_unlock", "teardown"})}
    <2>1. \A t, u \in S : t = u
        BY DEF CounterInv, Counted
    <2>2. CASE S = {}
        BY <2>2, FS_EmptySet DEF OneInstance
    <2>3. ASSUME NEW t \in S PROVE OneInstance
        <3>1. S = {t}
            BY <2>1, <2>3
        <3>2. Cardinality({t}) = 1
            BY FS_Singleton
        <3> QED
            BY <3>1, <3>2 DEF OneInstance
    <2> QED
        BY <2>2, <2>3
<1> QED
    BY <1>1, CounterInvariant, PTL

\* mxfs_release_instance of an instance that was created never meets the PANIC
\* of a counter that is 0.
THEOREM ReleaseNeverPanics == Spec => []ReleaseIsCounted
<1>1. CounterInv => ReleaseIsCounted
    BY DEF CounterInv, ReleaseIsCounted, Counted, Releasing
<1> QED
    BY <1>1, CounterInvariant, PTL
=============================================================================
