----------------------------- MODULE ThreadPool -----------------------------
(***************************************************************************)
(* The thread pool of the one-way syncs (SyncConfigThreadPool.cpp), the    *)
(* SyncConfigs that give it their downloads (SyncConfig.cpp,               *)
(* ApplyDownloadChangeLog in SyncConfigOneWayDownImpl.fragment.cpp), and   *)
(* the SyncFeatureMgr that starts and stops them all.                      *)
(*                                                                         *)
(* A step is a section under the mutex of the pool or of a SyncConfig, or  *)
(* a return from a semaphore.  A SyncConfig is the semaphore it registers, *)
(* which is also the handle of its dedicated thread; a new one may be made *)
(* at the address of one that was deleted.  All semaphores here count to 1.*)
(*                                                                         *)
(* Left out: failures of VPL and of memory; the uploads and deferred       *)
(* uploads, whose loops are alike; Pause(true), which waits for the pause; *)
(* a shutdown of the pool under a SyncConfig, which SyncFeatureMgr_Stop    *)
(* excludes.                                                               *)
(***************************************************************************)
EXTENDS Integers, FiniteSets

CONSTANTS
    General,    \* the general threads, made with the pool (AddGeneralThreads)
    Plain,      \* SyncConfigs with a notification only
    Dedicated,  \* SyncConfigs with a dedicated thread, which is named for them
    Pausing,    \* bound: SyncConfigs that are paused once they run
    PlainWork,  \* bounds: files found by one scan of a SyncConfig without and with
    DedicatedWork, \* a dedicated thread
    None        \* no task

ASSUME PoolConstants ==
    /\ General \cap (Plain \cup Dedicated) = {}
    /\ Plain \cap Dedicated = {}
    /\ None \notin Plain \cup Dedicated
    /\ IsFiniteSet(General) /\ IsFiniteSet(Dedicated)
    /\ PlainWork \in Nat /\ DedicatedWork \in Nat

Configs == Plain \cup Dedicated
Threads == General \cup Dedicated

MaxWork(o) == IF o \in Dedicated THEN DedicatedWork ELSE PlainWork

VARIABLES
    th,         \* PoolThreadCtx of each thread, its place in threadRoutine, and whether
                \* threadPool is NULL and refCountThreadPoolToDelete set (orphan)
    reg,        \* m_poolNotifications
    mgr,        \* SyncFeatureMgr: the pool is up, being stopped, deleted
    refCount,   \* RefCountToDelete::refCount
    freed,      \* the lists and the mutex of the pool are deleted
    sc,         \* each SyncConfig: the place of its worker, stop_thread, allowed_to_run, files to
                \* fetch, enqueuedDlTasks, enqueuedDlResults, findFreeThread
    notifier    \* threadPoolNotifier of each SyncConfig; a post after VPLSem_Destroy shows

vars == <<th, reg, mgr, refCount, freed, sc, notifier>>

NoThread == [pc |-> "none", inUse |-> FALSE, task |-> None, sem |-> 0, exit |-> FALSE,
             orphan |-> FALSE]
NewThread == [NoThread EXCEPT !.pc = "new"]
NoConfig == [pc |-> "off", stop |-> FALSE, allowed |-> FALSE, work |-> 0, tasks |-> 0,
             results |-> 0, free |-> FALSE]

Init ==
    /\ th = [t \in Threads |-> IF t \in General THEN NewThread ELSE NoThread]
    /\ reg = {} /\ mgr = "up" /\ refCount = 0 /\ freed = FALSE
    /\ sc = [o \in Configs |-> NoConfig]
    /\ notifier = [o \in Configs |-> 0]

\* In m_generalThreads or m_dedicatedThreads.
Listed(t) == th[t].pc # "none"

Free(t) == Listed(t) /\ ~th[t].inUse /\ ~th[t].exit

poolUnch == UNCHANGED <<mgr, refCount, freed>>

-----------------------------------------------------------------------------
(* threadRoutine *)

\* Mutant: a thread tells only the SyncConfigs without a dedicated thread.
Told_PlainOnly(t) == IF t \in Dedicated THEN {t} ELSE reg

\* The semaphores a thread posts when it becomes available: its own SyncConfig's, or those of
\* all dedicated threads in the list and all that are registered.
Told(t) == IF t \in Dedicated THEN {t} ELSE {d \in Dedicated : Listed(d)} \cup reg

Post(S) == notifier' = [o \in Configs |-> IF o \in S THEN 1 ELSE notifier[o]]

\* Mutant: the count is looked at before it is lowered.
IsLast_Before == refCount = 0

\* refCount--, and it is 0.
IsLast == refCount - 1 = 0

\* The end of threadRoutine: a thread of a deleted pool counts itself off, and the last one will
\* clean up; any other removes itself from its list.
Exit(t) ==
    IF th[t].orphan
    THEN /\ refCount' = refCount - 1
         /\ th' = [th EXCEPT ![t].pc = IF IsLast THEN "last" ELSE "done"]
    ELSE /\ th' = [th EXCEPT ![t] = NoThread]
         /\ UNCHANGED refCount

Leaving(t) == th[t].orphan \/ th[t].exit

\* The first test of the loop.
Begin(t) ==
    /\ th[t].pc = "new"
    /\ IF Leaving(t) THEN Exit(t)
                     ELSE th' = [th EXCEPT ![t].pc = "waiting"] /\ UNCHANGED refCount
    /\ UNCHANGED <<reg, mgr, freed, sc, notifier>>

\* VPLSem_Wait(&startTaskSem) returns; the task is read without the mutex, and performed if
\* there is one.
Start(t) ==
    /\ th[t].pc = "waiting" /\ th[t].sem = 1
    /\ th' = [th EXCEPT ![t].sem = 0, ![t].pc = IF th[t].task = None THEN "after" ELSE "running"]
    /\ UNCHANGED <<reg, sc, notifier>> /\ poolUnch

Completed(c) == [c EXCEPT !.tasks = c.tasks - 1, !.results = c.results + 1]

\* PerformDownloadTask ends: "Error or not, this must always be done."
Finish(t) ==
    /\ th[t].pc = "running"
    /\ th' = [th EXCEPT ![t].pc = "after"]
    /\ sc' = [sc EXCEPT ![th[t].task] = Completed(sc[th[t].task])]
    /\ UNCHANGED <<reg, notifier>> /\ poolUnch

\* Back under the mutex: the thread is free again and says so, or it goes down.
Relock(t) ==
    /\ th[t].pc = "after"
    /\ IF Leaving(t)
       THEN Exit(t) /\ UNCHANGED notifier
       ELSE /\ th' = [th EXCEPT ![t].pc = "waiting", ![t].inUse = FALSE, ![t].task = None]
            /\ Post(Told(t))
            /\ UNCHANGED refCount
    /\ UNCHANGED <<reg, mgr, freed, sc>>

\* The final thread, after it has released the mutex.
Cleanup(t) ==
    /\ th[t].pc = "last"
    /\ th' = [u \in Threads |-> NoThread]
    /\ freed' = TRUE
    /\ UNCHANGED <<reg, mgr, refCount, sc, notifier>>

Thread(t) == Begin(t) \/ Start(t) \/ Finish(t) \/ Relock(t) \/ Cleanup(t)

-----------------------------------------------------------------------------
(* A SyncConfig: Init, its worker in ApplyDownloadChangeLog, its end *)

\* Init registers the semaphore.  handleExists refuses it while a dedicated thread with this
\* handle has not ended: Init fails, and the SyncConfig is deleted again.
Open(o) ==
    /\ mgr = "up" /\ sc[o].pc = "off"
    /\ notifier' = [notifier EXCEPT ![o] = 0]
    /\ \/ /\ o \in Plain /\ reg' = reg \cup {o}
          /\ sc' = [sc EXCEPT ![o].pc = "idle"] /\ UNCHANGED th
       \/ /\ o \in Dedicated /\ ~Listed(o)
          /\ th' = [th EXCEPT ![o] = NewThread]
          /\ sc' = [sc EXCEPT ![o].pc = "idle"] /\ UNCHANGED reg
       \/ /\ o \in Dedicated /\ Listed(o)
          /\ sc' = [sc EXCEPT ![o].pc = "ended"] /\ UNCHANGED <<th, reg>>
    /\ poolUnch

\* Resume posts the notifier, since the worker may be waiting for it.
Resume(o) ==
    /\ sc[o].pc \notin {"off", "ended", "unregistered"} /\ ~sc[o].allowed /\ ~sc[o].stop
    /\ sc' = [sc EXCEPT ![o].allowed = TRUE]
    /\ Post({o})
    /\ UNCHANGED <<th, reg>> /\ poolUnch

Pause(o) ==
    /\ o \in Pausing
    /\ sc[o].pc \notin {"off", "ended", "unregistered"} /\ sc[o].allowed /\ ~sc[o].stop
    /\ sc' = [sc EXCEPT ![o].allowed = FALSE]
    /\ UNCHANGED <<th, reg, notifier>> /\ poolUnch

\* RequestClose wakes those who wait for work_to_do_cond_var only.
RequestClose(o) ==
    /\ sc[o].pc \notin {"off", "ended", "unregistered"} /\ ~sc[o].stop
    /\ sc' = [sc EXCEPT ![o].stop = TRUE]
    /\ UNCHANGED <<th, reg, notifier>> /\ poolUnch

Step(o, from, to) == sc[o].pc = from /\ sc' = [sc EXCEPT ![o].pc = to]

\* A scan has put files in the change log.
Scan(o) ==
    /\ sc[o].pc = "idle" /\ sc[o].allowed /\ ~sc[o].stop
    /\ \E n \in 1 .. MaxWork(o) : sc' = [sc EXCEPT ![o].pc = "add", ![o].work = n]
    /\ UNCHANGED <<th, reg, notifier>> /\ poolUnch

\* Mutant: a thread that has a task is taken as well.
Takes_Busy(o, t) ==
    IF o \in Dedicated /\ ~th[o].inUse THEN t = o
    ELSE t \in General /\ Listed(t) /\ ~th[t].exit

\* AddTask, AddTaskDedicatedThread: the dedicated thread if it is free, else a general one (the
\* first that is free: any, as nothing depends on which).
Takes(o, t) ==
    IF o \in Dedicated /\ Free(o) THEN t = o ELSE t \in General /\ Free(t)

\* The task is put in enqueuedDlTasks, and taken out again if no thread takes it.
Add(o) ==
    /\ sc[o].pc = "add"
    /\ \/ \E t \in Threads :
            /\ Takes(o, t)
            /\ th' = [th EXCEPT ![t].inUse = TRUE, ![t].task = o, ![t].sem = 1]
            /\ sc' = [sc EXCEPT ![o].pc = "free", ![o].work = @ - 1, ![o].tasks = @ + 1]
       \/ /\ \A t \in Threads : ~Takes(o, t)
          /\ sc' = [sc EXCEPT ![o].pc = "free"]
          /\ UNCHANGED th
    /\ UNCHANGED <<reg, notifier>> /\ poolUnch

\* hasFreeThread: GetInfo, or GetInfoIncludeDedicatedThread.
HasFreeThread(o) == \E t \in General \cup ({o} \cap Dedicated) : Free(t)

CheckFree(o) ==
    /\ sc[o].pc = "free"
    /\ sc' = [sc EXCEPT ![o].pc = "decide", ![o].free = HasFreeThread(o)]
    /\ UNCHANGED <<th, reg, notifier>> /\ poolUnch

\* What the worker waits for: capacity, the end of the pause, or its last tasks.
MustWait(o, free) ==
    /\ sc[o].results = 0 /\ ~sc[o].stop
    /\ \/ sc[o].work > 0 /\ ~free
       \/ ~sc[o].allowed
       \/ sc[o].tasks > 0 /\ sc[o].work = 0

\* The first look at the condition, with a findFreeThread read before the mutex was taken; and
\* after a wait, with one read under it.
Decide(o) ==
    /\ \/ /\ sc[o].pc = "decide"
          /\ IF MustWait(o, sc[o].free)
             THEN sc' = [sc EXCEPT ![o].pc = "waiting", ![o].free = FALSE]
             ELSE sc' = [sc EXCEPT ![o].pc = "handle"]
       \/ /\ sc[o].pc = "woken"
          /\ IF MustWait(o, HasFreeThread(o))
             THEN sc' = [sc EXCEPT ![o].pc = "waiting"]
             ELSE sc' = [sc EXCEPT ![o].pc = "handle", ![o].free = HasFreeThread(o)]
    /\ UNCHANGED <<th, reg, notifier>> /\ poolUnch

\* VPLSem_Wait(&threadPoolNotifier) returns.
Wake(o) ==
    /\ notifier[o] = 1
    /\ Step(o, "waiting", "woken") \/ Step(o, "endWaiting", "end")
    /\ notifier' = [notifier EXCEPT ![o] = 0]
    /\ UNCHANGED <<th, reg>> /\ poolUnch

\* Where the worker goes; findFreeThread and the files are forgotten where they are not read.
Go(o, place, results) ==
    sc' = [sc EXCEPT ![o].pc = place, ![o].results = results,
                     ![o].free = @ /\ place \in {"handle", "decide"},
                     ![o].work = IF place = "end" THEN 0 ELSE @]

\* The results are handled one by one, and one of them may end the function; then the worker
\* goes on to the next file, stays in the loop while it is paused, or is done.
Handle(o) ==
    /\ sc[o].pc = "handle"
    /\ \/ /\ sc[o].results > 0
          /\ \E place \in {"handle", "end"} : Go(o, place, sc[o].results - 1)
       \/ /\ sc[o].results = 0
          /\ Go(o, IF sc[o].stop \/ (sc[o].allowed /\ sc[o].work = 0) THEN "end"
                   ELSE IF sc[o].allowed THEN "add" ELSE "decide", 0)
    /\ UNCHANGED <<th, reg, notifier>> /\ poolUnch

\* Mutant: end_function leaves tasks behind.
AllHandled_Results(o) == sc[o].results = 0

AllHandled(o) == sc[o].tasks = 0 /\ sc[o].results = 0

\* end_function: the tasks that are out use the worker's stack, and are waited for.
EndFunction(o) ==
    /\ sc[o].pc = "end"
    /\ IF AllHandled(o) THEN sc' = [sc EXCEPT ![o].pc = "idle"]
       ELSE IF sc[o].results = 0 THEN sc' = [sc EXCEPT ![o].pc = "endWaiting"]
       ELSE sc' = [sc EXCEPT ![o].results = @ - 1]
    /\ UNCHANGED <<th, reg, notifier>> /\ poolUnch

\* The worker ends, and Join returns.
WorkerEnds(o) ==
    /\ sc[o].stop /\ Step(o, "idle", "ended")
    /\ UNCHANGED <<th, reg, notifier>> /\ poolUnch

\* Mutant: the notification stays in the list.
Forget_Post(o) == reg

\* m_poolNotifications.erase
Forget(o) == reg \ {o}

\* UnregisterForTaskCompleteNotification: the last post, or the dedicated thread told to exit.
Unregister(o) ==
    /\ Step(o, "ended", "unregistered")
    /\ IF o \in reg
       THEN Post({o}) /\ reg' = Forget(o) /\ UNCHANGED th
       ELSE /\ UNCHANGED <<notifier, reg>>
            /\ IF o \in Dedicated /\ Listed(o)
               THEN th' = [th EXCEPT ![o].exit = TRUE, ![o].sem = 1] ELSE UNCHANGED th
    /\ poolUnch

\* VPLSem_Destroy, and the SyncConfig is deleted.
Delete(o) ==
    /\ sc[o].pc = "unregistered"
    /\ sc' = [sc EXCEPT ![o] = NoConfig]
    /\ notifier' = [notifier EXCEPT ![o] = 0]
    /\ UNCHANGED <<th, reg>> /\ poolUnch

Config(o) ==
    \/ Add(o) \/ CheckFree(o) \/ Decide(o) \/ Wake(o) \/ Handle(o) \/ EndFunction(o)
    \/ WorkerEnds(o) \/ Unregister(o) \/ Delete(o)

-----------------------------------------------------------------------------
(* SyncFeatureMgr_Stop *)

\* CheckAndPrepareShutdown: called once all SyncConfigs are removed, and again by the destructor.
Shutdown ==
    /\ \/ mgr = "up" /\ (\A o \in Configs : sc[o].pc = "off") /\ mgr' = "shutdown"
       \/ mgr = "shutdown" /\ mgr' = "deleting"
    /\ th' = [t \in Threads |-> IF Listed(t) THEN [th[t] EXCEPT !.exit = TRUE, !.sem = 1] ELSE th[t]]
    /\ UNCHANGED <<reg, refCount, freed, sc, notifier>>

\* Mutant: the dedicated threads are not counted.
Left_General == {t \in General : Listed(t)}

\* The threads in the two lists.
Left == {t \in Threads : Listed(t)}

\* ~SyncConfigThreadPool: the threads that are left get the lists and the mutex to delete.
Destroy ==
    /\ mgr = "deleting" /\ mgr' = "deleted"
    /\ th' = [t \in Threads |-> IF Listed(t) THEN [th[t] EXCEPT !.orphan = TRUE] ELSE th[t]]
    /\ refCount' = Cardinality(Left)
    /\ freed' = (Left = {})
    /\ UNCHANGED <<reg, sc, notifier>>

Next ==
    \/ \E t \in Threads : Thread(t)
    \/ \E o \in Configs : Config(o) \/ Open(o) \/ Resume(o) \/ Pause(o) \/ RequestClose(o) \/ Scan(o)
    \/ Shutdown \/ Destroy

Spec == Init /\ [][Next]_vars

\* Threads run, tasks end, workers go on, and a stop that has begun is finished; nobody has to
\* open, pause, resume or close a SyncConfig.
Fairness ==
    /\ \A t \in Threads : WF_vars(Thread(t))
    /\ \A o \in Configs : WF_vars(Config(o))
    /\ WF_vars(mgr = "shutdown" /\ Shutdown) /\ WF_vars(Destroy)

FairSpec == Spec /\ Fairness
=============================================================================
