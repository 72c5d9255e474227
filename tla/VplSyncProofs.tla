---------------------------- MODULE VplSyncProofs ----------------------------
(***************************************************************************)
(* Proofs about the mutex, condition and semaphore of the portability      *)
(* layer, for any number of threads.                                       *)
(*                                                                         *)
(* The mutex is right because of an order: lockTid is set after the        *)
(* pthread mutex is taken and reset before it is given back.  MutexInv     *)
(* says what that leaves: a thread that holds the mutex, or is between the *)
(* two assignments, holds the pthread mutex.                               *)
(***************************************************************************)
EXTENDS VplSyncProps, FiniteSetTheorems, TLAPS

\* The thread is between the pthread call and the assignment of lockTid, or the reverse.
Between(t) == pc[t] \in {"own", "unlock", "condbegin", "condback"}

MutexInv ==
    /\ \A t \in Threads : Between(t) => pthMutex = t
    /\ \A t \in Threads : held[t] > 0 /\ ~Waiting(t) =>
        pthMutex = t /\ lockTid = t /\ lockCount = held[t] /\ Running(t)
    /\ lockTid # NoThread => held[lockTid] > 0 /\ ~Waiting(lockTid)
    /\ lockTid = NoThread => lockCount = 0
    /\ \A t \in Threads : Waiting(t) => held[t] > 0 /\ saved[t] = held[t]
    /\ \A t \in Threads : ~Waiting(t) => saved[t] = 0

\* The threads that nWaiters counts.
Waiters == {t \in Threads : pc[t] \in {"sem", "semwoken"}}

SemInv == nWaiters = Cardinality(Waiters)

IInv == TypeOK /\ MutexInv /\ SemInv

-----------------------------------------------------------------------------
(* The waiters of the semaphore *)

\* Finitely many threads wait for the semaphore.
LEMMA WaitersFinite == IsFiniteSet(Waiters)
  BY SyncConstants, FS_Subset DEF Waiters

\* One thread begins to wait.
LEMMA OneMore ==
  ASSUME TypeOK, SemInv, NEW t \in Threads, pc[t] = "run", pc' = [pc EXCEPT ![t] = "sem"]
  PROVE  Cardinality(Waiters') = nWaiters + 1 /\ nWaiters \in Nat
  <1>1. t \notin Waiters /\ Waiters' = Waiters \cup {t}
    BY DEF Waiters, TypeOK
  <1>2. IsFiniteSet(Waiters)
    BY WaitersFinite
  <1> QED
    BY <1>1, <1>2, FS_AddElement, FS_CardinalityType DEF SemInv

\* One thread ends its wait.
LEMMA OneLess ==
  ASSUME TypeOK, SemInv, NEW t \in Threads, t \in Waiters, pc' = [pc EXCEPT ![t] = "run"]
  PROVE  Cardinality(Waiters') = nWaiters - 1 /\ nWaiters - 1 \in Nat
  <1>1. Waiters' = Waiters \ {t}
    BY DEF Waiters, TypeOK
  <1>2. IsFiniteSet(Waiters) /\ IsFiniteSet(Waiters \ {t})
    BY WaitersFinite, FS_RemoveElement
  <1>3. Cardinality(Waiters \ {t}) = Cardinality(Waiters) - 1
    BY <1>2, FS_RemoveElement
  <1>4. Cardinality(Waiters \ {t}) \in Nat
    BY <1>2, FS_CardinalityType
  <1> QED
    BY <1>1, <1>3, <1>4 DEF SemInv

\* A blocked thread is counted.
LEMMA BlockedCounted ==
  ASSUME SemInv, SemBlocked # {}
  PROVE  nWaiters > 0
  <1>1. Waiters # {}
    BY DEF Waiters, SemBlocked
  <1>2. Cardinality(Waiters) \in Nat /\ Cardinality(Waiters) # 0
    BY <1>1, WaitersFinite, FS_CardinalityType, FS_EmptySet
  <1> QED
    BY <1>2 DEF SemInv

-----------------------------------------------------------------------------
(* The invariant is inductive *)

\* The invariant holds in new objects.
LEMMA InitIInv == Init => IInv
  <1> SUFFICES ASSUME Init PROVE IInv
    OBVIOUS
  <1>1. TypeOK
    BY SyncConstants DEF Init, TypeOK
  <1>2. MutexInv
    BY SyncConstants DEF Init, MutexInv, Between, Waiting, Running
  <1>3. Waiters = {}
    BY DEF Init, Waiters
  <1>4. SemInv
    BY <1>3, FS_EmptySet DEF SemInv, Init
  <1> QED
    BY <1>1, <1>2, <1>4 DEF IInv

\* Each step of a thread keeps the types.
LEMMA StepTypes ==
  ASSUME IInv, [Next]_vars
  PROVE  TypeOK'
  <1> USE SyncConstants DEF IInv, TypeOK, Goto, mutexState, semState
  <1>1. ASSUME NEW t \in Threads, LockAgain(t) \/ Lock(t) \/ Acquire(t) \/ Own(t) \/ UnlockLast(t) \/ Release(t)
        PROVE TypeOK'
    BY <1>1 DEF LockAgain, Lock, Acquire, Own, UnlockLast, Release
  <1>2. ASSUME NEW t \in Threads, UnlockOne(t) PROVE TypeOK'
    <2>1. lockCount > 0 /\ held[t] > 0
      BY <1>2 DEF UnlockOne, MutexInv, LockedSelf
    <2>2. lockCount = held[t]
      BY <1>2, <2>1 DEF UnlockOne, MutexInv, LockedSelf, Waiting
    <2> QED
      BY <1>2, <2>1, <2>2 DEF UnlockOne
  <1>3. ASSUME NEW t \in Threads, CondBegin(t) \/ CondBlock(t) \/ CondNoClock(t) \/ CondReacquire(t) \/ CondEnd(t)
        PROVE TypeOK'
    BY <1>3 DEF CondBegin, CondBlock, CondNoClock, CondReacquire, CondEnd
  <1>4. ASSUME NEW t \in Threads, SemTake(t) \/ SemBlock(t) \/ SemWaitOn(t) PROVE TypeOK'
    BY <1>4 DEF SemTake, SemBlock, SemWaitOn
  <1>5. ASSUME NEW t \in Threads, SemTimeout(t) \/ SemRetake(t) PROVE TypeOK'
    <2>1. t \in Waiters /\ pc' = [pc EXCEPT ![t] = "run"]
      BY <1>5 DEF SemTimeout, SemRetake, Waiters
    <2>2. nWaiters - 1 \in Nat
      BY <2>1, OneLess
    <2> QED
      BY <1>5, <2>2 DEF SemTimeout, SemRetake
  <1>6. ASSUME NEW t \in Threads, SemPost(t) PROVE TypeOK'
    BY <1>6 DEF SemPost, SemBlocked
  <1>7. ASSUME NEW S \in SUBSET Threads, CondWake(S) PROVE TypeOK'
    BY <1>7 DEF CondWake
  <1>8. CASE UNCHANGED vars
    BY <1>8 DEF vars
  <1> QED
    BY <1>1, <1>2, <1>3, <1>4, <1>5, <1>6, <1>7, <1>8 DEF Next

\* The steps of the mutex and of the condition keep MutexInv, and those of the semaphore leave it alone.
LEMMA StepMutex ==
  ASSUME IInv, [Next]_vars
  PROVE  MutexInv'
  <1> USE SyncConstants DEF IInv, TypeOK, MutexInv, Between, Waiting, Running, LockedSelf, Goto, mutexState, semState
  <1>1. ASSUME NEW t \in Threads, LockAgain(t) PROVE MutexInv'
    BY <1>1 DEF LockAgain
  <1>2. ASSUME NEW t \in Threads, Lock(t) PROVE MutexInv'
    BY <1>2 DEF Lock
  <1>3. ASSUME NEW t \in Threads, Acquire(t) PROVE MutexInv'
    BY <1>3 DEF Acquire
  <1>4. ASSUME NEW t \in Threads, Own(t) PROVE MutexInv'
    BY <1>4 DEF Own
  <1>5. ASSUME NEW t \in Threads, UnlockOne(t) PROVE MutexInv'
    BY <1>5 DEF UnlockOne
  <1>6. ASSUME NEW t \in Threads, UnlockLast(t) PROVE MutexInv'
    BY <1>6 DEF UnlockLast
  <1>7. ASSUME NEW t \in Threads, Release(t) PROVE MutexInv'
    BY <1>7 DEF Release
  <1>8. ASSUME NEW t \in Threads, CondBegin(t) PROVE MutexInv'
    BY <1>8 DEF CondBegin
  <1>9. ASSUME NEW t \in Threads, CondBlock(t) PROVE MutexInv'
    BY <1>9 DEF CondBlock
  <1>10. ASSUME NEW t \in Threads, CondNoClock(t) PROVE MutexInv'
    BY <1>10 DEF CondNoClock
  <1>11. ASSUME NEW t \in Threads, CondReacquire(t) PROVE MutexInv'
    BY <1>11 DEF CondReacquire
  <1>12. ASSUME NEW t \in Threads, CondEnd(t) PROVE MutexInv'
    BY <1>12 DEF CondEnd
  <1>13. ASSUME NEW S \in SUBSET Threads, CondWake(S) PROVE MutexInv'
    BY <1>13 DEF CondWake
  <1>14. ASSUME NEW t \in Threads,
                SemTake(t) \/ SemBlock(t) \/ SemTimeout(t) \/ SemRetake(t) \/ SemWaitOn(t)
         PROVE MutexInv'
    BY <1>14 DEF SemTake, SemBlock, SemTimeout, SemRetake, SemWaitOn
  <1>15. ASSUME NEW t \in Threads, SemPost(t) PROVE MutexInv'
    BY <1>15 DEF SemPost, SemBlocked
  <1>16. CASE UNCHANGED vars
    BY <1>16 DEF vars
  <1> QED
    BY <1>1, <1>2, <1>3, <1>4, <1>5, <1>6, <1>7, <1>8, <1>9, <1>10, <1>11, <1>12, <1>13, <1>14,
       <1>15, <1>16 DEF Next

\* nWaiters follows the waits; the steps of the mutex and the condition leave the waiters alone.
LEMMA StepSem ==
  ASSUME IInv, [Next]_vars
  PROVE  SemInv'
  <1> USE DEF IInv, SemInv, Goto, semState
  <1>1. ASSUME Waiters' = Waiters, nWaiters' = nWaiters PROVE SemInv'
    BY <1>1
  <1>2. ASSUME NEW t \in Threads, LockAgain(t) \/ Lock(t) \/ Acquire(t) \/ Own(t) \/ UnlockOne(t)
                                  \/ UnlockLast(t) \/ Release(t)
        PROVE SemInv'
    BY <1>1, <1>2 DEF LockAgain, Lock, Acquire, Own, UnlockOne, UnlockLast, Release, Waiters, TypeOK
  <1>3. ASSUME NEW t \in Threads, CondBegin(t) \/ CondBlock(t) \/ CondNoClock(t) \/ CondReacquire(t) \/ CondEnd(t)
        PROVE SemInv'
    BY <1>1, <1>3 DEF CondBegin, CondBlock, CondNoClock, CondReacquire, CondEnd, Waiters, TypeOK
  <1>4. ASSUME NEW t \in Threads, SemTake(t) \/ SemWaitOn(t) \/ SemPost(t) PROVE SemInv'
    BY <1>1, <1>4 DEF SemTake, SemWaitOn, SemPost, SemBlocked, Waiters, TypeOK
  <1>5. ASSUME NEW t \in Threads, SemBlock(t) PROVE SemInv'
    BY <1>5, OneMore DEF SemBlock
  <1>6. ASSUME NEW t \in Threads, SemTimeout(t) \/ SemRetake(t) PROVE SemInv'
    <2>1. t \in Waiters /\ pc' = [pc EXCEPT ![t] = "run"] /\ nWaiters' = nWaiters - 1
      BY <1>6 DEF SemTimeout, SemRetake, Waiters
    <2> QED
      BY <2>1, OneLess
  <1>7. ASSUME NEW S \in SUBSET Threads, CondWake(S) PROVE SemInv'
    BY <1>1, <1>7 DEF CondWake, Waiters, TypeOK
  <1>8. CASE UNCHANGED vars
    BY <1>1, <1>8 DEF vars, Waiters
  <1> QED
    BY <1>2, <1>3, <1>4, <1>5, <1>6, <1>7, <1>8 DEF Next

\* The inductive invariant holds in every state.
THEOREM Invariance == Spec => []IInv
  <1>1. IInv /\ [Next]_vars => IInv'
    BY StepTypes, StepMutex, StepSem DEF IInv
  <1> QED
    BY InitIInv, <1>1, PTL DEF Spec

-----------------------------------------------------------------------------
(* The properties *)

\* Type correctness; neither count of the semaphore is ever negative.
THEOREM TypeCorrect == Spec => []TypeOK
  BY Invariance, PTL DEF IInv

\* No two threads hold the mutex (VPLMutex_Lock, VPLCond_TimedWait).
THEOREM Exclusive == Spec => []MutualExclusion
  <1>1. IInv => MutualExclusion
    BY DEF IInv, MutexInv, MutualExclusion
  <1> QED
    BY Invariance, <1>1, PTL

\* The unprotected look at lockTid is right (VPLMutex_LockedSelf).
THEOREM SelfKnown == Spec => []LockedSelfRight
  <1>1. IInv => LockedSelfRight
    BY SyncConstants DEF IInv, MutexInv, LockedSelfRight, LockedSelf, Running, Waiting
  <1> QED
    BY Invariance, <1>1, PTL

\* A semaphore of maximum 1 forgets no waiter (VPLSem_Post).
THEOREM NoLostPost == ASSUME MaxCount = 1 PROVE Spec => []PostUnblocks
  <1>1. Init => PostUnblocks
    BY DEF Init, PostUnblocks, SemBlocked
  <1>2. ASSUME IInv, PostUnblocks, [Next]_vars PROVE PostUnblocks'
    <2> USE <1>2 DEF IInv, PostUnblocks, SemBlocked, SemWoken, Goto, semState, TypeOK
    <2>1. ASSUME NEW t \in Threads, LockAgain(t) \/ Lock(t) \/ Acquire(t) \/ Own(t) \/ UnlockOne(t)
                                    \/ UnlockLast(t) \/ Release(t)
          PROVE PostUnblocks'
      BY <2>1 DEF LockAgain, Lock, Acquire, Own, UnlockOne, UnlockLast, Release
    <2>2. ASSUME NEW t \in Threads, CondBegin(t) \/ CondBlock(t) \/ CondNoClock(t) \/ CondReacquire(t) \/ CondEnd(t)
          PROVE PostUnblocks'
      BY <2>2 DEF CondBegin, CondBlock, CondNoClock, CondReacquire, CondEnd
    <2>3. ASSUME NEW t \in Threads, SemTake(t) \/ SemBlock(t) \/ SemRetake(t) \/ SemWaitOn(t) \/ SemTimeout(t)
          PROVE PostUnblocks'
      BY <2>3 DEF SemTake, SemBlock, SemRetake, SemWaitOn, SemTimeout
    <2>4. ASSUME NEW t \in Threads, SemPost(t) PROVE PostUnblocks'
      <3>1. semCount = 0
        BY <2>4 DEF SemPost
      <3>2. CASE SemBlocked = {}
        BY <2>4, <3>2 DEF SemPost
      <3>3. CASE SemBlocked # {}
        <4>1. Signals
          BY <3>1, <3>3, BlockedCounted DEF Signals
        <4>2. PICK u \in SemBlocked : pc' = [pc EXCEPT ![u] = "semwoken"]
          BY <2>4, <3>3, <4>1 DEF SemPost
        <4> QED
          BY <4>2
      <3> QED
        BY <3>2, <3>3
    <2>5. ASSUME NEW S \in SUBSET Threads, CondWake(S) PROVE PostUnblocks'
      BY <2>5 DEF CondWake
    <2>6. CASE UNCHANGED vars
      BY <2>6 DEF vars
    <2> QED
      BY <2>1, <2>2, <2>3, <2>4, <2>5, <2>6 DEF Next
  <1> QED
    BY Invariance, <1>1, <1>2, PTL DEF Spec

\* The mutex and the condition implement the recursive lock that vpl_th.h describes.
THEOREM Refines == Spec => ImplementsRecursiveMutex
  <1>1. Init => Abstract!Init
    BY DEF Init, Abstract!Init
  <1>2. ASSUME IInv, [Next]_vars PROVE [Abstract!Next]_(Abstract!mutexVars)
    <2> USE <1>2, SyncConstants DEF IInv, TypeOK, MutexInv, Between, Waiting, Running, LockedSelf, Goto,
            mutexState, semState, Abstract!mutexVars
    <2>1. ASSUME NEW t \in Threads, LockAgain(t) PROVE Abstract!Lock(t)
      BY <2>1 DEF LockAgain, Abstract!Lock
    <2>2. ASSUME NEW t \in Threads, Own(t) PROVE Abstract!Lock(t)
      BY <2>2 DEF Own, Abstract!Lock
    <2>3. ASSUME NEW t \in Threads, UnlockOne(t) \/ UnlockLast(t) PROVE Abstract!Unlock(t)
      BY <2>3 DEF UnlockOne, UnlockLast, Abstract!Unlock
    <2>4. ASSUME NEW t \in Threads, CondBegin(t) PROVE Abstract!WaitBegin(t)
      BY <2>4 DEF CondBegin, Abstract!WaitBegin
    <2>5. ASSUME NEW t \in Threads, CondEnd(t) PROVE Abstract!WaitEnd(t)
      BY <2>5 DEF CondEnd, Abstract!WaitEnd
    <2>6. ASSUME NEW t \in Threads, Lock(t) \/ Acquire(t) \/ Release(t) \/ CondBlock(t) \/ CondNoClock(t)
                                    \/ CondReacquire(t) \/ SemTake(t) \/ SemBlock(t) \/ SemTimeout(t)
                                    \/ SemRetake(t) \/ SemWaitOn(t) \/ SemPost(t)
          PROVE UNCHANGED Abstract!mutexVars
      BY <2>6 DEF Lock, Acquire, Release, CondBlock, CondNoClock, CondReacquire, SemTake, SemBlock,
                  SemTimeout, SemRetake, SemWaitOn, SemPost
    <2>7. ASSUME NEW S \in SUBSET Threads, CondWake(S) PROVE UNCHANGED Abstract!mutexVars
      BY <2>7 DEF CondWake
    <2>8. CASE UNCHANGED vars
      BY <2>8 DEF vars
    <2> QED
      BY <2>1, <2>2, <2>3, <2>4, <2>5, <2>6, <2>7, <2>8 DEF Next, Abstract!Next
  <1> QED
    BY Invariance, <1>1, <1>2, PTL DEF Spec, Abstract!Spec, ImplementsRecursiveMutex
=============================================================================
