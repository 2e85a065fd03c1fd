---------------------------- MODULE MxfsSingleton ----------------------------
(***************************************************************************)
(* The instance counter of mxfs_instance.cc in the builds with threads     *)
(* (bcm2711, macOS): mxfs_create_instance and mxfs_release_instance take   *)
(* singleton_lock around the counter `singleton`, so that there is one     *)
(* instance at a time.  What they do outside the lock (buffers, drivers,   *)
(* scan of the flash: module MxfsLog) is one step here.                    *)
(***************************************************************************)
EXTENDS Naturals, FiniteSets

CONSTANTS
    Threads,        \* the threads of the program that use the file system
    NoThread,       \* the lock's owner when it is free
    MallocMayFail   \* whether memory for the instance may run out

ASSUME SingletonAssumption ==
    /\ NoThread \notin Threads
    /\ MallocMayFail \in BOOLEAN

VARIABLES
    singleton,      \* the counter
    singleton_lock, \* the thread that holds the mutex
    pc,             \* where each thread is
    inst            \* the threads that hold an instance

vars == <<singleton, singleton_lock, pc, inst>>

Labels == {"idle", "create_lock", "create_check", "create_count", "create_unlock", "setup",
           "release_lock", "release_check", "release_unlock", "teardown"}

\* The variables keep their types: the counter `singleton` never goes below 0.
TypeOK ==
    /\ singleton \in Nat
    /\ singleton_lock \in Threads \cup {NoThread}
    /\ pc \in [Threads -> Labels]
    /\ inst \subseteq Threads

Init ==
    /\ singleton = 0
    /\ singleton_lock = NoThread
    /\ pc = [t \in Threads |-> "idle"]
    /\ inst = {}

Goto(t, label) == pc' = [pc EXCEPT ![t] = label]

-----------------------------------------------------------------------------
\* A thread asks for an instance, whether or not one exists.
CallCreate(t) ==
    /\ pc[t] = "idle"
    /\ Goto(t, "create_lock")
    /\ UNCHANGED <<singleton, singleton_lock, inst>>

Lock(t, from, to) ==
    /\ pc[t] = from
    /\ singleton_lock = NoThread
    /\ singleton_lock' = t
    /\ Goto(t, to)
    /\ UNCHANGED <<singleton, inst>>

Unlock(t, from, to) ==
    /\ pc[t] = from
    /\ singleton_lock' = NoThread
    /\ Goto(t, to)
    /\ UNCHANGED <<singleton, inst>>

\* Mutant of CreateLock: the counter is checked without the mutex.
CreateLock_None(t) ==
    /\ pc[t] = "create_lock"
    /\ Goto(t, "create_check")
    /\ UNCHANGED <<singleton, singleton_lock, inst>>

CreateLock(t) == Lock(t, "create_lock", "create_check")

\* An instance exists: return ERR, and leave the mutex locked.
CreateRefused(t) ==
    /\ pc[t] = "create_check" /\ singleton # 0
    /\ Goto(t, "idle")
    /\ UNCHANGED <<singleton, singleton_lock, inst>>

CreatePasses(t) ==
    /\ pc[t] = "create_check" /\ singleton = 0
    /\ Goto(t, "create_count")
    /\ UNCHANGED <<singleton, singleton_lock, inst>>

CreateCounts(t) ==
    /\ pc[t] = "create_count"
    /\ singleton' = singleton + 1
    /\ Goto(t, "create_unlock")
    /\ UNCHANGED <<singleton_lock, inst>>

CreateUnlock(t) == Unlock(t, "create_unlock", "setup")

\* Allocate and mount, or return ERR without uncounting when malloc fails.
Setup(t) ==
    /\ pc[t] = "setup"
    /\ \/ inst' = inst \cup {t}
       \/ MallocMayFail /\ UNCHANGED inst
    /\ Goto(t, "idle")
    /\ UNCHANGED <<singleton, singleton_lock>>

CallRelease(t) ==
    /\ pc[t] = "idle" /\ t \in inst
    /\ Goto(t, "release_lock")
    /\ UNCHANGED <<singleton, singleton_lock, inst>>

ReleaseLock(t) == Lock(t, "release_lock", "release_check")

\* Mutant of ReleaseUncounts: the counter is decremented twice.
ReleaseUncounts_Twice(t) ==
    /\ pc[t] = "release_check" /\ singleton # 0
    /\ singleton' = singleton - 2
    /\ Goto(t, "release_unlock")
    /\ UNCHANGED <<singleton_lock, inst>>

\* With a counter of 0 the program ends in PANIC (property ReleaseIsCounted).
ReleaseUncounts(t) ==
    /\ pc[t] = "release_check" /\ singleton # 0
    /\ singleton' = singleton - 1
    /\ Goto(t, "release_unlock")
    /\ UNCHANGED <<singleton_lock, inst>>

ReleaseUnlock(t) == Unlock(t, "release_unlock", "teardown")

\* Mutant of Teardown: the counter is cleared once more, outside the lock.
Teardown_Clears(t) ==
    /\ pc[t] = "teardown"
    /\ inst' = inst \ {t}
    /\ singleton' = 0
    /\ Goto(t, "idle")
    /\ UNCHANGED singleton_lock

\* Close the drivers and free the memory, after the lock has been given back.
Teardown(t) ==
    /\ pc[t] = "teardown"
    /\ inst' = inst \ {t}
    /\ Goto(t, "idle")
    /\ UNCHANGED <<singleton, singleton_lock>>

\* What a thread inside a call does next.
Step(t) ==
    \/ CreateLock(t) \/ CreateRefused(t) \/ CreatePasses(t) \/ CreateCounts(t)
    \/ CreateUnlock(t) \/ Setup(t)
    \/ ReleaseLock(t) \/ ReleaseUncounts(t) \/ ReleaseUnlock(t) \/ Teardown(t)

Next == \E t \in Threads : CallCreate(t) \/ CallRelease(t) \/ Step(t)

\* A thread inside a call that can go on does so; nothing makes a program call.
Fairness == \A t \in Threads : WF_vars(Step(t))

Spec == Init /\ [][Next]_vars /\ Fairness

-----------------------------------------------------------------------------
\* One instance at a time: of the threads that hold or are setting up an
\* instance, all but one have given theirs up under the lock.
OneInstance ==
    Cardinality({t \in Threads : pc[t] = "setup"
                    \/ (t \in inst /\ pc[t] \notin {"release_unlock", "teardown"})}) <= 1

\* Who releases an instance finds it counted: the PANIC of
\* mxfs_release_instance is out of reach of a program that releases what it created.
ReleaseIsCounted == \A t \in Threads : pc[t] = "release_check" => singleton # 0

\* A program can unmount: mxfs_release_instance returns.
ReleaseReturns == \A t \in Threads : (pc[t] = "release_lock") ~> (pc[t] = "idle")
=============================================================================
