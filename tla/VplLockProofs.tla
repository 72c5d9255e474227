---------------------------- MODULE VplLockProofs ----------------------------
(***************************************************************************)
(* Proofs about the readers-writers lock, for any number of threads.       *)
(*                                                                         *)
(* The ASSERTs of the code (LockAsserts) are inductive with one addition:  *)
(* a thread that is still queued has not been posted.  Exclusion follows   *)
(* from them until the lock is destroyed, and after that nobody gets it.   *)
(***************************************************************************)
EXTENDS VplLockProps, TLAPS

QueuedNotPosted == queuedReaders \cap posted = {} /\ firstQueuedWriter \notin posted

IInv == TypeOK /\ LockAsserts /\ QueuedNotPosted /\ Exclusion

\* The invariant holds in a new lock.
LEMMA InitIInv == Init => IInv
  BY LockConstants DEF Init, IInv, TypeOK, LockAsserts, QueuedNotPosted, Exclusion, IsWriter,
     IsReader, WriterMustWait

\* A step of one thread in one branch of a call keeps the invariant.
LEMMA Step == IInv /\ [Next]_vars => IInv'
  <1> SUFFICES ASSUME IInv, [Next]_vars PROVE IInv'
    OBVIOUS
  <1> USE LockConstants DEF IInv, TypeOK, LockAsserts, QueuedNotPosted, Exclusion, IsWriter, IsReader,
        WriterMustWait, Goto
  <1>1. ASSUME NEW t \in Threads, LockWriteNow(t) PROVE IInv'
    BY <1>1 DEF LockWriteNow
  <1>2. ASSUME NEW t \in Threads, LockWriteQueue(t) PROVE IInv'
    BY <1>2 DEF LockWriteQueue
  <1>3. ASSUME NEW t \in Threads, LockReadNow(t) PROVE IInv'
    BY <1>3 DEF LockReadNow, ReaderMustWait
  <1>4. ASSUME NEW t \in Threads, LockReadQueue(t) PROVE IInv'
    BY <1>4 DEF LockReadQueue, ReaderMustWait
  <1>5. ASSUME NEW t \in Threads, Resume(t) PROVE IInv'
    <2>1. CASE destroyed
      BY <1>5, <2>1 DEF Resume
    <2>2. CASE ~destroyed /\ pc[t] = "waitwrite"
      BY <1>5, <2>2 DEF Resume
    <2>3. CASE ~destroyed /\ pc[t] = "waitread"
      BY <1>5, <2>3 DEF Resume
    <2> QED
      BY <1>5, <2>1, <2>2, <2>3 DEF Resume
  <1>6. ASSUME NEW t \in Threads, UnlockWrite(t) PROVE IInv'
    <2>1. writer = t /\ activeReaders = {} /\ pc[t] = "writing"
      BY <1>6 DEF UnlockWrite
    <2>2. CASE ReadersFirst /\ WakeReaders /\ writer' = NoThread /\ UNCHANGED firstQueuedWriter
      BY <1>6, <2>1, <2>2 DEF UnlockWrite, WakeReaders, ReadersFirst
    <2>3. CASE ~ReadersFirst /\ firstQueuedWriter # NoThread /\ WakeWriter
               /\ UNCHANGED <<activeReaders, queuedReaders>>
      BY <1>6, <2>1, <2>3 DEF UnlockWrite, WakeWriter, ReadersFirst
    <2>4. CASE ~ReadersFirst /\ firstQueuedWriter = NoThread /\ writer' = NoThread
               /\ UNCHANGED <<firstQueuedWriter, activeReaders, queuedReaders, posted>>
      BY <1>6, <2>1, <2>4 DEF UnlockWrite, ReadersFirst
    <2> QED
      BY <1>6, <2>2, <2>3, <2>4 DEF UnlockWrite
  <1>7. ASSUME NEW t \in Threads, UnlockRead(t) PROVE IInv'
    BY <1>7 DEF UnlockRead
  <1>8. ASSUME NEW t \in Threads, UnlockLastRead(t) PROVE IInv'
    BY <1>8 DEF UnlockLastRead, WakeWriter
  <1>9. ASSUME NEW t \in Threads, UnlockFails(t) PROVE IInv'
    BY <1>9 DEF UnlockFails
  <1>10. CASE Destroy
    BY <1>10 DEF Destroy
  <1>11. CASE UNCHANGED vars
    BY <1>11 DEF vars
  <1> QED
    BY <1>1, <1>2, <1>3, <1>4, <1>5, <1>6, <1>7, <1>8, <1>9, <1>10, <1>11 DEF Next, Unlock

\* The inductive invariant holds in every state.
THEOREM Invariance == Spec => []IInv
  BY InitIInv, Step, PTL DEF Spec

\* A thread that writes is alone (VPLLock_LockWrite, VPLLock_LockRead, VPLLock_Destroy).
THEOREM Exclusive == Spec => []Exclusion
  BY Invariance, PTL DEF IInv

\* No ASSERT of the lock fails: in particular readers never wait without a writer, the case
\* that "shouldn't actually happen" (VPLLock_Unlock).
THEOREM AssertsHold == Spec => []LockAsserts
  BY Invariance, PTL DEF IInv
=============================================================================
