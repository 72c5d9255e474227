------------------------------ MODULE VplSync ------------------------------
(***************************************************************************)
(* The mutex, condition variable and semaphore of the portability layer,   *)
(* as vpl/posix_src/vpl__thread_synch.c makes them of pthread objects, and *)
(* threads that use one of each in any way vpl_th.h allows.                *)
(*                                                                         *)
(* VPLMutex_t is recursive: it remembers its owner in lockTid, which any   *)
(* thread compares with itself under no lock, and the times it was locked  *)
(* in lockCount.  VPLCond_TimedWait gives the mutex up at any depth.  A    *)
(* VPLSem_t is a counter with a mutex and a condition of its own, so that  *)
(* each of its operations is one step, but for the wait inside.            *)
(***************************************************************************)
EXTENDS Integers, FiniteSets

CONSTANTS
    Threads,
    NoThread,       \* lockTid of a mutex that is free
    MaxCount,       \* maxCount of VPLSem_Init
    MaxDepth        \* bound: how many times a thread locks the mutex

ASSUME SyncConstants ==
    /\ IsFiniteSet(Threads) /\ NoThread \notin Threads
    /\ MaxCount \in Nat \ {0} /\ MaxDepth \in Nat \ {0}

VARIABLES
    pc,             \* where each thread is
    pthMutex,       \* the thread that holds the pthread mutex of the VPLMutex_t
    lockTid,        \* VPLMutex_t::lockTid
    lockCount,      \* VPLMutex_t::lockCount
    held,           \* how often each thread has locked and not unlocked the mutex
    saved,          \* the local variable count of VPLCond_TimedWait
    semCount,       \* VPLSem_t::count
    nWaiters        \* VPLSem_t::nWaiters

mutexState == <<pthMutex, lockTid, lockCount, held, saved>>
semState == <<semCount, nWaiters>>
vars == <<pc, mutexState, semState>>

\* In VPLCond_TimedWait; in VPLSem_Wait; anywhere outside the calls of the mutex.
Waiting(t) == pc[t] \in {"condbegin", "cond", "condwoken", "condback"}
SemBlocked == {t \in Threads : pc[t] = "sem"}
SemWoken == {t \in Threads : pc[t] = "semwoken"}
Running(t) == pc[t] \in {"run", "sem", "semwoken"}

Goto(t, l) == pc' = [pc EXCEPT ![t] = l]

Init ==
    /\ pc = [t \in Threads |-> "run"]
    /\ pthMutex = NoThread /\ lockTid = NoThread /\ lockCount = 0
    /\ held = [t \in Threads |-> 0] /\ saved = [t \in Threads |-> 0]
    /\ semCount = 0 /\ nWaiters = 0

-----------------------------------------------------------------------------
(* The mutex *)

\* VPLMutex_LockedSelf: no lock protects this look at lockTid.
LockedSelf(t) == lockTid = t

\* VPLMutex_Lock and VPLMutex_TryLock by the thread that is the owner already.
LockAgain(t) ==
    /\ pc[t] = "run" /\ LockedSelf(t) /\ lockCount < MaxDepth
    /\ lockCount' = lockCount + 1
    /\ held' = [held EXCEPT ![t] = @ + 1]
    /\ UNCHANGED <<pc, pthMutex, lockTid, saved, semState>>

\* VPLMutex_Lock: the call of pthread_mutex_lock.
Lock(t) ==
    /\ pc[t] = "run" /\ ~LockedSelf(t)
    /\ Goto(t, "lock")
    /\ UNCHANGED <<mutexState, semState>>

\* The pthread mutex is free, and pthread_mutex_lock or pthread_mutex_trylock takes it.
Acquire(t) ==
    /\ pc[t] \in {"lock", "run"} /\ ~LockedSelf(t)
    /\ pthMutex = NoThread
    /\ pthMutex' = t
    /\ Goto(t, "own")
    /\ UNCHANGED <<lockTid, lockCount, held, saved, semState>>

\* "this assignment of lockTid must be atomic".
Own(t) ==
    /\ pc[t] = "own"
    /\ lockTid' = t /\ lockCount' = 1
    /\ held' = [held EXCEPT ![t] = 1]
    /\ Goto(t, "run")
    /\ UNCHANGED <<pthMutex, saved, semState>>

\* VPLMutex_Unlock of one of several locks.
UnlockOne(t) ==
    /\ pc[t] = "run" /\ LockedSelf(t) /\ lockCount - 1 # 0
    /\ lockCount' = lockCount - 1
    /\ held' = [held EXCEPT ![t] = @ - 1]
    /\ UNCHANGED <<pc, pthMutex, lockTid, saved, semState>>

\* Mutant: the owner is not reset.
UnlockLast_KeepOwner(t) ==
    /\ pc[t] = "run" /\ LockedSelf(t) /\ lockCount - 1 = 0
    /\ lockCount' = 0
    /\ held' = [held EXCEPT ![t] = 0]
    /\ Goto(t, "unlock")
    /\ UNCHANGED <<pthMutex, lockTid, saved, semState>>

\* VPLMutex_Unlock of the last one: lockTid is reset before the pthread mutex is unlocked.
UnlockLast(t) ==
    /\ pc[t] = "run" /\ LockedSelf(t) /\ lockCount - 1 = 0
    /\ lockCount' = 0 /\ lockTid' = NoThread
    /\ held' = [held EXCEPT ![t] = 0]
    /\ Goto(t, "unlock")
    /\ UNCHANGED <<pthMutex, saved, semState>>

Release(t) ==
    /\ pc[t] = "unlock"
    /\ pthMutex' = NoThread
    /\ Goto(t, "run")
    /\ UNCHANGED <<lockTid, lockCount, held, saved, semState>>

-----------------------------------------------------------------------------
(* The condition variable *)

\* VPLCond_TimedWait, of a thread that holds the mutex ("must be locked by the calling thread").
CondBegin(t) ==
    /\ pc[t] = "run" /\ held[t] > 0
    /\ saved' = [saved EXCEPT ![t] = lockCount]
    /\ lockCount' = 0 /\ lockTid' = NoThread
    /\ Goto(t, "condbegin")
    /\ UNCHANGED <<pthMutex, held, semState>>

\* pthread_cond_wait and pthread_cond_timedwait.
CondBlock(t) ==
    /\ pc[t] = "condbegin"
    /\ pthMutex' = NoThread
    /\ Goto(t, "cond")
    /\ UNCHANGED <<lockTid, lockCount, held, saved, semState>>

\* clock_gettime fails, and there is no wait.
CondNoClock(t) ==
    /\ pc[t] = "condbegin"
    /\ Goto(t, "condback")
    /\ UNCHANGED <<mutexState, semState>>

\* VPLCond_Signal and VPLCond_Broadcast by another thread, a timeout or a spurious wakeup.
CondWake(S) ==
    /\ \A t \in S : pc[t] = "cond"
    /\ pc' = [t \in Threads |-> IF t \in S THEN "condwoken" ELSE pc[t]]
    /\ UNCHANGED <<mutexState, semState>>

\* Mutant: the depth is not restored.
CondEnd_One(t) ==
    /\ pc[t] = "condback"
    /\ lockCount' = 1 /\ lockTid' = t
    /\ saved' = [saved EXCEPT ![t] = 0]
    /\ Goto(t, "run")
    /\ UNCHANGED <<pthMutex, held, semState>>

CondReacquire(t) ==
    /\ pc[t] = "condwoken" /\ pthMutex = NoThread
    /\ pthMutex' = t
    /\ Goto(t, "condback")
    /\ UNCHANGED <<lockTid, lockCount, held, saved, semState>>

CondEnd(t) ==
    /\ pc[t] = "condback"
    /\ lockCount' = saved[t] /\ lockTid' = t
    /\ saved' = [saved EXCEPT ![t] = 0]
    /\ Goto(t, "run")
    /\ UNCHANGED <<pthMutex, held, semState>>

-----------------------------------------------------------------------------
(* The semaphore *)

\* VPLSem_Wait, VPLSem_TimedWait and VPLSem_TryWait of a semaphore that is ready.
SemTake(t) ==
    /\ pc[t] = "run" /\ semCount > 0
    /\ semCount' = semCount - 1
    /\ UNCHANGED <<pc, nWaiters, mutexState>>

SemBlock(t) ==
    /\ pc[t] = "run" /\ semCount = 0
    /\ nWaiters' = nWaiters + 1
    /\ Goto(t, "sem")
    /\ UNCHANGED <<semCount, mutexState>>

\* The end of a wait by VPLSem_TimedWait: the count is not looked at again.
SemTimeout(t) ==
    /\ pc[t] = "sem"
    /\ nWaiters' = nWaiters - 1
    /\ Goto(t, "run")
    /\ UNCHANGED <<semCount, mutexState>>

\* Mutant: an if in place of the while.
SemRetake_Unchecked(t) ==
    /\ pc[t] = "semwoken"
    /\ semCount' = semCount - 1 /\ nWaiters' = nWaiters - 1
    /\ Goto(t, "run")
    /\ UNCHANGED mutexState

\* A waiter that was signalled has the mutex of the semaphore again.
SemRetake(t) ==
    /\ pc[t] = "semwoken" /\ semCount > 0
    /\ semCount' = semCount - 1 /\ nWaiters' = nWaiters - 1
    /\ Goto(t, "run")
    /\ UNCHANGED mutexState

SemWaitOn(t) ==
    /\ pc[t] = "semwoken" /\ semCount = 0
    /\ Goto(t, "sem")
    /\ UNCHANGED <<mutexState, semState>>

\* Mutant: off by one.
Signals_Several == semCount = 0 /\ nWaiters > 1

\* The condition under which VPLSem_Post signals.
Signals == semCount = 0 /\ nWaiters > 0

\* VPLSem_Post of a semaphore below its maximum; pthread_cond_signal wakes one of the blocked.
SemPost(t) ==
    /\ pc[t] = "run" /\ semCount < MaxCount
    /\ semCount' = semCount + 1
    /\ IF Signals /\ SemBlocked # {}
       THEN \E u \in SemBlocked : Goto(u, "semwoken")
       ELSE UNCHANGED pc
    /\ UNCHANGED <<nWaiters, mutexState>>

-----------------------------------------------------------------------------

Next ==
    \/ \E t \in Threads :
        \/ LockAgain(t) \/ Lock(t) \/ Acquire(t) \/ Own(t)
        \/ UnlockOne(t) \/ UnlockLast(t) \/ Release(t)
        \/ CondBegin(t) \/ CondBlock(t) \/ CondNoClock(t) \/ CondReacquire(t) \/ CondEnd(t)
        \/ SemTake(t) \/ SemBlock(t) \/ SemTimeout(t) \/ SemRetake(t) \/ SemWaitOn(t) \/ SemPost(t)
    \/ \E S \in SUBSET Threads : S # {} /\ CondWake(S)

Spec == Init /\ [][Next]_vars
=============================================================================
