---------------------------- MODULE VplSyncProps ----------------------------
(* What should hold of the mutex, the condition variable and the semaphore. *)
EXTENDS VplSync

\* Every variable has its type; in particular neither count of the semaphore is ever negative.
TypeOK ==
    /\ pc \in [Threads -> {"run", "lock", "own", "unlock", "condbegin", "cond", "condwoken",
                           "condback", "sem", "semwoken"}]
    /\ pthMutex \in Threads \cup {NoThread} /\ lockTid \in Threads \cup {NoThread}
    /\ lockCount \in Nat
    /\ held \in [Threads -> Nat] /\ saved \in [Threads -> Nat]
    /\ semCount \in 0 .. MaxCount
    /\ nWaiters \in Nat

\* VPLMutex_Lock: two threads are never both between their Lock and their Unlock, but for one
\* that waits on the condition.
MutualExclusion ==
    \A t, u \in Threads : held[t] > 0 /\ held[u] > 0 /\ ~Waiting(t) /\ ~Waiting(u) => t = u

\* VPLMutex_LockedSelf: though it is read with no lock, lockTid tells a thread whether it holds
\* the mutex, and lockCount how often, also after VPLCond_TimedWait.
LockedSelfRight ==
    \A t \in Threads : Running(t) =>
        /\ LockedSelf(t) <=> held[t] > 0
        /\ LockedSelf(t) => lockCount = held[t]

\* VPLSem_Post: "threads blocking on VPLSem_Wait() or VPLSem_TimedWait are unblocked": nobody
\* stays blocked on a semaphore that is ready, unless a thread that was woken is about to look.
PostUnblocks == semCount > 0 /\ SemBlocked # {} => SemWoken # {}

Abstract == INSTANCE RecursiveMutex WITH owner <- lockTid, depth <- lockCount, owed <- saved

\* The mutex with its unprotected fields is the recursive lock of vpl_th.h, and a wait on the
\* condition gives it up and takes it back at the depth it had.
ImplementsRecursiveMutex == Abstract!Spec
=============================================================================
