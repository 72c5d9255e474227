------------------------------ MODULE VplLock ------------------------------
(***************************************************************************)
(* The readers-writers lock of vplex_rwlock.c.  All fields are protected   *)
(* by lockMutex; a thread that must wait queues a node with a semaphore    *)
(* of its own, waits for it with the mutex unlocked, and then locks the    *)
(* mutex again.  Whoever wakes a thread has made it active before.         *)
(*                                                                         *)
(* A step is what a call does between a lock and an unlock of lockMutex.   *)
(***************************************************************************)
CONSTANTS
    Threads,
    Writers,        \* the threads that call VPLLock_LockWrite; the others call VPLLock_LockRead
    NoThread        \* NULL

ASSUME LockConstants == Writers \subseteq Threads /\ NoThread \notin Threads

VARIABLES
    pc,                 \* where each thread is
    writer,             \* VPLLock_t::writer where isActiveWriter, else NoThread
    firstQueuedWriter,  \* VPLLock_t::firstQueuedWriter
    activeReaders,      \* VPLLock_t::activeReaders
    queuedReaders,      \* VPLLock_t::queuedReaders
    posted,             \* the queued threads whose semaphore was posted
    destroyed           \* lockMutex was destroyed: every attempt to lock it fails

vars == <<pc, writer, firstQueuedWriter, activeReaders, queuedReaders, posted, destroyed>>

Goto(t, l) == pc' = [pc EXCEPT ![t] = l]

Init ==
    /\ pc = [t \in Threads |-> "idle"]
    /\ writer = NoThread /\ firstQueuedWriter = NoThread
    /\ activeReaders = {} /\ queuedReaders = {}
    /\ posted = {} /\ destroyed = FALSE

-----------------------------------------------------------------------------
(* Locking *)

\* Mutant: readers are no reason to wait.
WriterMustWait_Writer == writer # NoThread

WriterMustWait == writer # NoThread \/ activeReaders # {}

LockWriteNow(t) ==
    /\ t \in Writers /\ pc[t] = "idle" /\ ~destroyed
    /\ ~WriterMustWait
    /\ writer' = t
    /\ Goto(t, "writing")
    /\ UNCHANGED <<firstQueuedWriter, activeReaders, queuedReaders, posted, destroyed>>

\* lastQueuedWriter is never set, so that no node is linked behind another; the node of t
\* becomes the first, with no next, whether or not there was one.
LockWriteQueue(t) ==
    /\ t \in Writers /\ pc[t] = "idle" /\ ~destroyed
    /\ WriterMustWait
    /\ firstQueuedWriter' = t
    /\ Goto(t, "waitwrite")
    /\ UNCHANGED <<writer, activeReaders, queuedReaders, posted, destroyed>>

\* Mutant: readers join readers, though a writer is queued.
ReaderMustWait_Active == writer # NoThread

\* Mutant: only the queue of the writers is looked at.
ReaderMustWait_Queue == firstQueuedWriter # NoThread

\* "this is to guarantee that starvation will not occur".
ReaderMustWait == writer # NoThread \/ firstQueuedWriter # NoThread

LockReadNow(t) ==
    /\ t \notin Writers /\ pc[t] = "idle" /\ ~destroyed
    /\ ~ReaderMustWait
    /\ activeReaders' = activeReaders \cup {t}
    /\ Goto(t, "reading")
    /\ UNCHANGED <<writer, firstQueuedWriter, queuedReaders, posted, destroyed>>

LockReadQueue(t) ==
    /\ t \notin Writers /\ pc[t] = "idle" /\ ~destroyed
    /\ ReaderMustWait
    /\ queuedReaders' = queuedReaders \cup {t}
    /\ Goto(t, "waitread")
    /\ UNCHANGED <<writer, firstQueuedWriter, activeReaders, posted, destroyed>>

\* The semaphore of t was posted; t locks lockMutex again, which fails when it is destroyed.
Resume(t) ==
    /\ t \in posted
    /\ posted' = posted \ {t}
    /\ Goto(t, IF destroyed THEN "idle" ELSE IF pc[t] = "waitwrite" THEN "writing" ELSE "reading")
    /\ UNCHANGED <<writer, firstQueuedWriter, activeReaders, queuedReaders, destroyed>>

-----------------------------------------------------------------------------
(* Unlocking *)

\* _wakeReaders: every queued reader becomes active.
WakeReaders ==
    /\ activeReaders' = activeReaders \cup queuedReaders
    /\ posted' = posted \cup queuedReaders
    /\ queuedReaders' = {}

\* Mutant: the writer stays in the queue.
WakeWriter_Queued ==
    /\ writer' = firstQueuedWriter
    /\ posted' = posted \cup {firstQueuedWriter}
    /\ UNCHANGED firstQueuedWriter

\* _wakeWriter.
WakeWriter ==
    /\ writer' = firstQueuedWriter
    /\ posted' = posted \cup {firstQueuedWriter}
    /\ firstQueuedWriter' = NoThread

\* Mutant: a writer makes way for the next one first.
ReadersFirst_Never == queuedReaders # {} /\ firstQueuedWriter = NoThread

ReadersFirst == queuedReaders # {}

\* VPLLock_Unlock, while a writer is active.
UnlockWrite(t) ==
    /\ pc[t] \in {"writing", "reading"} /\ ~destroyed /\ writer # NoThread
    /\ \/ /\ ReadersFirst
          /\ WakeReaders /\ writer' = NoThread
          /\ UNCHANGED firstQueuedWriter
       \/ /\ ~ReadersFirst /\ firstQueuedWriter # NoThread
          /\ WakeWriter
          /\ UNCHANGED <<activeReaders, queuedReaders>>
       \/ /\ ~ReadersFirst /\ firstQueuedWriter = NoThread
          /\ writer' = NoThread
          /\ UNCHANGED <<firstQueuedWriter, activeReaders, queuedReaders, posted>>
    /\ Goto(t, "idle")
    /\ UNCHANGED destroyed

\* VPLLock_Unlock, while readers are active, with another reader left.
UnlockRead(t) ==
    /\ pc[t] \in {"writing", "reading"} /\ ~destroyed /\ writer = NoThread /\ activeReaders # {}
    /\ activeReaders \ {t} # {}
    /\ activeReaders' = activeReaders \ {t}
    /\ Goto(t, "idle")
    /\ UNCHANGED <<writer, firstQueuedWriter, queuedReaders, posted, destroyed>>

\* VPLLock_Unlock by the last reader.  That readers wait and no writer does "shouldn't
\* actually happen"; LockAsserts says that it does not.
UnlockLastRead(t) ==
    /\ pc[t] \in {"writing", "reading"} /\ ~destroyed /\ writer = NoThread /\ activeReaders = {t}
    /\ \/ /\ firstQueuedWriter # NoThread
          /\ WakeWriter
          /\ activeReaders' = {}
          /\ UNCHANGED queuedReaders
       \/ /\ firstQueuedWriter = NoThread /\ queuedReaders = {}
          /\ activeReaders' = {}
          /\ UNCHANGED <<writer, firstQueuedWriter, queuedReaders, posted>>
    /\ Goto(t, "idle")
    /\ UNCHANGED destroyed

\* VPLLock_Unlock of a lock that is destroyed: the mutex cannot be locked.
UnlockFails(t) ==
    /\ pc[t] \in {"writing", "reading"} /\ destroyed
    /\ Goto(t, "idle")
    /\ UNCHANGED <<writer, firstQueuedWriter, activeReaders, queuedReaders, posted, destroyed>>

\* VPLLock_Destroy: "First wake up everyone (they should get a failure when they try to re-lock)".
Destroy ==
    /\ ~destroyed /\ destroyed' = TRUE
    /\ activeReaders' = activeReaders \cup queuedReaders
    /\ queuedReaders' = {}
    /\ firstQueuedWriter' = NoThread
    /\ writer' = IF firstQueuedWriter = NoThread THEN writer ELSE firstQueuedWriter
    /\ posted' = posted \cup queuedReaders \cup ({firstQueuedWriter} \ {NoThread})
    /\ UNCHANGED pc

-----------------------------------------------------------------------------

Unlock(t) == UnlockWrite(t) \/ UnlockRead(t) \/ UnlockLastRead(t) \/ UnlockFails(t)

Next ==
    \/ \E t \in Threads :
        \/ LockWriteNow(t) \/ LockWriteQueue(t) \/ LockReadNow(t) \/ LockReadQueue(t)
        \/ Resume(t) \/ Unlock(t)
    \/ Destroy

Spec == Init /\ [][Next]_vars

\* A thread that has the lock gives it back, and one that is woken runs; nobody need lock.
Fairness == \A t \in Threads : WF_vars(Resume(t)) /\ WF_vars(Unlock(t))

FairSpec == Spec /\ Fairness
=============================================================================
