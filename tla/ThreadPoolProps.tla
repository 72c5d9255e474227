--------------------------- MODULE ThreadPoolProps ---------------------------
(* What should hold of the pool of threads and of those who use it. *)
EXTENDS ThreadPool

ThreadType ==
    [pc : {"none", "new", "waiting", "running", "after", "last", "done"}, inUse : BOOLEAN,
     task : Configs \cup {None}, sem : 0 .. 1, exit : BOOLEAN, orphan : BOOLEAN]

ConfigType(o) ==
    [pc : {"off", "idle", "add", "free", "decide", "waiting", "woken", "handle", "end",
           "endWaiting", "ended", "unregistered"},
     stop : BOOLEAN, allowed : BOOLEAN, work : 0 .. MaxWork(o), tasks : 0 .. MaxWork(o),
     results : 0 .. MaxWork(o), free : BOOLEAN]

\* Every variable has its type; no more tasks and results are out than files were found.
TypeOK ==
    /\ th \in [Threads -> ThreadType]
    /\ reg \subseteq Configs
    /\ mgr \in {"up", "shutdown", "deleting", "deleted"}
    /\ refCount \in 0 .. Cardinality(Threads) /\ freed \in BOOLEAN
    /\ DOMAIN sc = Configs
    /\ \A o \in Configs : /\ sc[o] \in ConfigType(o)
                          /\ sc[o].work + sc[o].tasks + sc[o].results <= MaxWork(o)
    /\ notifier \in [Configs -> 0 .. 1]

\* threadRoutine: "Tasks, once accepted, can never be skipped": each task in enqueuedDlTasks of a
\* SyncConfig is with one thread, which will not leave before it has performed it.
AcceptedKept ==
    \A o \in Configs :
        LET mine == {t \in Threads : th[t].task = o /\ th[t].pc \in {"new", "waiting", "running"}}
        IN  /\ Cardinality(mine) = sc[o].tasks
            /\ \A t \in mine : th[t].pc = "running" \/ (th[t].sem = 1 /\ ~th[t].exit)

\* ApplyDownloadChangeLog: a task works on the stack of the worker and on the mutex of the
\* SyncConfig, so none is out when the worker has returned from there.
TasksInScope ==
    \A t \in Threads :
        th[t].pc = "running" => sc[th[t].task].pc \notin {"off", "idle", "ended", "unregistered"}

\* ~SyncConfigThreadPool: "A crash should never happen.": the lists and the mutex are deleted
\* when no thread is left that uses them.
FreedLast == freed => \A t \in Threads : th[t].pc = "none"

\* UnregisterForTaskCompleteNotification: "the semaphore must be unregistered before it is
\* destroyed" is enough for a SyncConfig without a dedicated thread.
PlainNotPosted == \A o \in Plain : sc[o].pc = "off" => notifier[o] = 0

\* VPLSem_Wait(&threadPoolNotifier): the posts of the threads and of Resume wake the worker
\* unless it is paused with nothing out.
SleeperWoken ==
    \A o \in Configs :
        sc[o].pc \in {"waiting", "endWaiting"}
            ~> \/ sc[o].pc \notin {"waiting", "endWaiting"}
               \/ ~sc[o].allowed /\ sc[o].tasks = 0

\* Join: a SyncConfig that is asked to close ends, unless it is paused.
CloseEnds ==
    \A o \in Configs : sc[o].stop ~> (sc[o].pc = "off" \/ ~sc[o].allowed)

\* RequestClose: "If we want to cancel like in RequestClose below, we want all waiting threads
\* to exit": every SyncConfig that is asked to close ends.
JoinReturns == \A o \in Configs : sc[o].stop ~> sc[o].pc = "off"

\* The owner of a dedicated thread that has unregistered and destroyed its semaphore is not
\* told of anything any more.
UnregisteredNotPosted == \A o \in Configs : sc[o].pc = "off" => notifier[o] = 0

\* threadRoutine, refCountFinalThreadCleanup: a pool that is deleted is freed, by its last thread.
PoolFreed == (mgr = "deleting") ~> freed
=============================================================================
