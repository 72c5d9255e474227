---------------------------- MODULE VplLockProps ----------------------------
(* What should hold of the readers-writers lock. *)
EXTENDS VplLock

\* Every variable has its type, and only threads that wait are in a queue.
TypeOK ==
    /\ pc \in [Threads -> {"idle", "waitwrite", "waitread", "writing", "reading"}]
    /\ writer \in Threads \cup {NoThread}
    /\ firstQueuedWriter \in {t \in Threads : pc[t] = "waitwrite"} \cup {NoThread}
    /\ activeReaders \subseteq Threads
    /\ queuedReaders \subseteq {t \in Threads : pc[t] = "waitread"}
    /\ posted \subseteq {t \in Threads : pc[t] \in {"waitwrite", "waitread"}}
    /\ destroyed \in BOOLEAN

\* VPLLock_LockWrite, VPLLock_LockRead and VPLLock_Destroy: a thread that writes is alone.
Exclusion ==
    \A t, u \in Threads : pc[t] = "writing" /\ pc[u] \in {"writing", "reading"} => t = u

\* Thread t is, or is about to be told that it is, the writer, or a reader.
IsWriter(t) == pc[t] = "writing" \/ (t \in posted /\ pc[t] = "waitwrite")
IsReader(t) == pc[t] = "reading" \/ (t \in posted /\ pc[t] = "waitread")

\* The ASSERTs: what a thread is told it has, the lock knows; writer and readers exclude each
\* other; and nobody is queued at a lock that is free.
LockAsserts ==
    ~destroyed =>
        /\ \A t \in Threads : IsWriter(t) <=> writer = t
        /\ \A t \in Threads : IsReader(t) <=> t \in activeReaders
        /\ writer # NoThread => activeReaders = {}
        /\ ~WriterMustWait => firstQueuedWriter = NoThread /\ queuedReaders = {}
        /\ writer = NoThread /\ firstQueuedWriter = NoThread => queuedReaders = {}

\* A writer that waits, and that neither the lock nor its semaphore knows of.
Forgotten(t) == pc[t] = "waitwrite" /\ t # firstQueuedWriter /\ t \notin posted

\* "Add to the queued writers": a writer that waits is in the queue.
NoWriterForgotten == \A t \in Threads : ~Forgotten(t)

\* VPLLock_LockRead: a reader that waits gets the lock, or an error when it is destroyed.
ReaderServed == \A t \in Threads : pc[t] = "waitread" ~> pc[t] # "waitread"

\* VPLLock_LockWrite: so does a writer, however many readers come, unless the next writer to
\* queue has taken its place in the queue.
WriterServed == \A t \in Threads : pc[t] = "waitwrite" ~> (pc[t] # "waitwrite" \/ Forgotten(t))
=============================================================================
