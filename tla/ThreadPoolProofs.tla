-------------------------- MODULE ThreadPoolProofs --------------------------
(***************************************************************************)
(* Proofs about the pool of threads, for any number of threads and of      *)
(* SyncConfigs and any amount of work.                                     *)
(*                                                                         *)
(* FreedLast follows from what the reference count stands for: once the    *)
(* pool is deleted, it is the number of threads that are still going, and  *)
(* the thread that is to clean up has seen the last of them go.            *)
(* PlainNotPosted follows from the list of notifications: whoever is in it *)
(* has not come to the end of its Unregister.                              *)
(***************************************************************************)
EXTENDS ThreadPoolProps, FiniteSetTheorems, TLAPS

\* The threads that still use what the pool has left behind.
Going == {t \in Threads : th[t].pc \in {"new", "waiting", "running", "after"}}

Places == {"off", "idle", "add", "free", "decide", "waiting", "woken", "handle", "end",
           "endWaiting", "ended", "unregistered"}

ConfigShape ==
    [pc : Places,
     stop : BOOLEAN, allowed : BOOLEAN, work : Int, tasks : Int, results : Int, free : BOOLEAN]

Shape ==
    /\ th \in [Threads -> ThreadType]
    /\ sc \in [Configs -> ConfigShape]
    /\ notifier \in [Configs -> 0 .. 1]
    /\ mgr \in {"up", "shutdown", "deleting", "deleted"}
    /\ refCount \in Int /\ freed \in BOOLEAN

\* A notification in the list is that of a SyncConfig before the end of its Unregister.
RegisteredAlive ==
    /\ reg \subseteq Plain
    /\ \A o \in reg : sc[o].pc \notin {"off", "unregistered"}

\* SyncFeatureMgr_Stop finds no SyncConfig, and none is made afterwards.
NoneLeft == mgr # "up" => \A o \in Configs : sc[o].pc = "off"

\* Before the destructor is through, no thread counts and nothing is deleted.
NotYet ==
    mgr # "deleted" =>
        /\ ~freed
        /\ \A t \in Threads : ~th[t].orphan /\ th[t].pc \notin {"last", "done"}

\* After it, the threads that are left are counted.
Counted ==
    mgr = "deleted" =>
        /\ refCount = Cardinality(Going)
        /\ \A t \in Threads : Listed(t) => th[t].orphan
        /\ (\E t \in Threads : th[t].pc = "last") => Going = {}

IInv == Shape /\ RegisteredAlive /\ NoneLeft /\ NotYet /\ Counted /\ FreedLast /\ PlainNotPosted

\* There are finitely many threads.
LEMMA ThreadsFinite == IsFiniteSet(Threads)
  BY PoolConstants, FS_Union DEF Threads

\* Finitely many of them have not exited.
LEMMA GoingFinite == IsFiniteSet(Going)
  BY ThreadsFinite, FS_Subset DEF Going

\* The record of a thread that is not there is typed.
LEMMA NoThreadShape ==
  /\ NoThread \in ThreadType /\ NoThread.pc = "none" /\ NoThread.orphan = FALSE
  /\ NewThread \in ThreadType /\ NewThread.pc = "new" /\ NewThread.orphan = FALSE
  <1>1. NoThread \in ThreadType /\ NoThread.pc = "none" /\ NoThread.orphan = FALSE
    BY DEF NoThread, ThreadType
  <1>2. NewThread \in ThreadType
    BY <1>1 DEF NewThread, ThreadType
  <1>3. NewThread.pc = "new" /\ NewThread.orphan = FALSE
    BY DEF NewThread, NoThread
  <1> QED
    BY <1>1, <1>2, <1>3

\* The invariant holds in a new pool.
LEMMA InitIInv == Init => IInv
  <1> SUFFICES ASSUME Init PROVE IInv
    OBVIOUS
  <1>1. \A t \in Threads : th[t] = NewThread \/ th[t] = NoThread
    BY DEF Init
  <1>2. Shape
    <2>1. th \in [Threads -> ThreadType]
      BY NoThreadShape DEF Init
    <2>2. sc \in [Configs -> ConfigShape]
      BY DEF Init, NoConfig, ConfigShape, Places
    <2>3. notifier \in [Configs -> 0 .. 1]
      BY DEF Init
    <2>4. mgr = "up" /\ refCount = 0
      BY DEF Init
    <2>5. freed \in BOOLEAN
      BY Zenon DEF Init
    <2> QED
      BY <2>1, <2>2, <2>3, <2>4, <2>5 DEF Shape
  <1>3. NotYet
    BY <1>1, NoThreadShape DEF Init, NotYet
  <1>4. Counted
    BY DEF Init, Counted
  <1> QED
    BY <1>2, <1>3, <1>4 DEF Init, IInv, RegisteredAlive, NoneLeft, FreedLast, PlainNotPosted, Configs

\* The record of a SyncConfig stays typed when a result is added.
LEMMA CompletedShape ==
  ASSUME NEW c \in ConfigShape
  PROVE  Completed(c) \in ConfigShape /\ Completed(c).pc = c.pc
  <1>1. c.tasks - 1 \in Int /\ c.results + 1 \in Int
    BY DEF ConfigShape
  <1> DEFINE i == c.tasks - 1
             j == c.results + 1
  <1> HIDE DEF i, j
  <1>2. [c EXCEPT !.tasks = i, !.results = j] \in ConfigShape
    BY <1>1 DEF ConfigShape, i, j
  <1>3. [c EXCEPT !.tasks = i, !.results = j].pc = c.pc
    BY DEF ConfigShape
  <1> QED
    BY <1>2, <1>3 DEF Completed, i, j

\* A thread that leaves a deleted pool is taken off the count.
LEMMA CountedOff ==
  ASSUME IInv, mgr = "deleted", UNCHANGED mgr, NEW t \in Going, NEW p \in {"last", "done"},
         th' = [th EXCEPT ![t].pc = p], refCount' = refCount - 1,
         p = "last" => refCount - 1 = 0
  PROVE  Counted'
  <1>1. t \in Threads /\ th[t].orphan /\ Listed(t)
    BY DEF IInv, Counted, Going, Listed
  <1>2. Going' = Going \ {t}
    BY <1>1 DEF IInv, Shape, ThreadType, Going
  <1>3. Cardinality(Going') = refCount' /\ IsFiniteSet(Going')
    BY <1>2, GoingFinite, FS_RemoveElement DEF IInv, Counted
  <1>4. \A u \in Threads : Listed(u)' => th'[u].orphan
    BY <1>1 DEF IInv, Shape, ThreadType, Counted, Listed
  <1>5. ASSUME NEW u \in Threads, th'[u].pc = "last" PROVE Going' = {}
    <2>1. CASE u = t
      <3>1. p = "last"
        BY <2>1, <1>5, <1>1 DEF IInv, Shape, ThreadType
      <3>2. Cardinality(Going') = 0
        BY <3>1, <1>3
      <3> QED
        BY <3>2, <1>3, FS_EmptySet
    <2>2. CASE u # t
      BY <2>2, <1>5, <1>2, <1>1 DEF IInv, Shape, Counted
    <2> QED
      BY <2>1, <2>2
  <1> QED
    BY <1>3, <1>4, <1>5 DEF Counted

\* A thread at the end of threadRoutine.
LEMMA ExitKeeps ==
  ASSUME IInv, NEW t \in Threads, th[t].pc \in {"new", "after"}, Exit(t), Leaving(t),
         UNCHANGED <<reg, mgr, freed, sc, notifier>>
  PROVE  IInv'
  <1>1. CASE mgr = "deleted"
    <2>1. th[t].orphan /\ t \in Going /\ ~freed
      BY <1>1 DEF IInv, Counted, Listed, Going, FreedLast
    <2>2. PICK p \in {"last", "done"} :
              th' = [th EXCEPT ![t].pc = p] /\ (p = "last" => refCount - 1 = 0)
      BY <2>1 DEF Exit, IsLast
    <2>3. refCount' = refCount - 1
      BY <2>1 DEF Exit
    <2>4. Counted'
      BY <2>1, <2>2, <2>3, <1>1, CountedOff
    <2>5. Shape'
      BY <2>2, <2>3 DEF IInv, Shape, ThreadType
    <2> QED
      BY <1>1, <2>1, <2>4, <2>5 DEF IInv, RegisteredAlive, NoneLeft, NotYet, FreedLast,
         PlainNotPosted
  <1>2. CASE mgr # "deleted"
    <2>1. ~th[t].orphan
      BY <1>2 DEF IInv, NotYet
    <2>2. th' = [th EXCEPT ![t] = NoThread] /\ UNCHANGED refCount
      BY <2>1 DEF Exit
    <2>3. Shape'
      BY <2>2 DEF IInv, Shape, ThreadType, NoThread
    <2>4. NotYet'
      BY <2>2, <1>2 DEF IInv, NotYet, Shape, NoThread
    <2> QED
      BY <1>2, <2>3, <2>4 DEF IInv, RegisteredAlive, NoneLeft, NotYet, Counted, FreedLast,
         PlainNotPosted
  <1> QED
    BY <1>1, <1>2

\* A thread that goes on keeps its place among those that are going.
LEMMA GoesOn ==
  ASSUME IInv, NEW t \in Threads, NEW r \in ThreadType, th' = [th EXCEPT ![t] = r],
         t \in Going, r.pc \in {"new", "waiting", "running", "after"}, r.orphan = th[t].orphan,
         UNCHANGED <<mgr, refCount, freed>>
  PROVE  th' \in [Threads -> ThreadType] /\ NotYet' /\ Counted' /\ FreedLast'
  <1>1. \A u \in Threads : th'[u] = IF u = t THEN r ELSE th[u]
    BY DEF IInv, Shape
  <1>2. Going' = Going
    BY <1>1 DEF Going
  <1>3. Listed(t) /\ ~freed
    BY DEF IInv, Going, Listed, FreedLast
  <1>4. NotYet'
    BY <1>1 DEF IInv, NotYet
  <1>5. Counted'
    BY <1>1, <1>2, <1>3 DEF IInv, Counted, Listed
  <1> QED
    BY <1>1, <1>3, <1>4, <1>5 DEF IInv, Shape, FreedLast

\* Every step of a pool thread keeps the invariant.
LEMMA ThreadKeeps ==
  ASSUME IInv, NEW t \in Threads, Thread(t)
  PROVE  IInv'
  <1>1. CASE Begin(t)
    <2>1. CASE Leaving(t)
      BY <1>1, <2>1, ExitKeeps DEF Begin
    <2>2. CASE ~Leaving(t)
      <3> DEFINE r == [th[t] EXCEPT !.pc = "waiting"]
      <3>1. r \in ThreadType /\ r.pc = "waiting" /\ r.orphan = th[t].orphan /\ t \in Going
            /\ th' = [th EXCEPT ![t] = r]
        BY <1>1, <2>2 DEF Begin, IInv, Shape, ThreadType, Going
      <3>2. th' \in [Threads -> ThreadType] /\ NotYet' /\ Counted' /\ FreedLast'
        BY <1>1, <2>2, <3>1, GoesOn DEF Begin
      <3> QED
        BY <1>1, <2>2, <3>2 DEF Begin, IInv, Shape, RegisteredAlive, NoneLeft, PlainNotPosted
    <2> QED
      BY <2>1, <2>2
  <1>2. CASE Start(t)
    <2> DEFINE r == [th[t] EXCEPT !.sem = 0, !.pc = IF th[t].task = None THEN "after" ELSE "running"]
    <2>1. r \in ThreadType /\ r.pc \in {"after", "running"} /\ r.orphan = th[t].orphan
          /\ t \in Going /\ th' = [th EXCEPT ![t] = r]
      BY <1>2 DEF Start, IInv, Shape, ThreadType, Going
    <2>2. th' \in [Threads -> ThreadType] /\ NotYet' /\ Counted' /\ FreedLast'
      BY <1>2, <2>1, GoesOn DEF Start, poolUnch
    <2> QED
      BY <1>2, <2>2 DEF Start, poolUnch, IInv, Shape, RegisteredAlive, NoneLeft, PlainNotPosted
  <1>3. CASE Finish(t)
    <2> DEFINE r == [th[t] EXCEPT !.pc = "after"]
    <2>1. r \in ThreadType /\ r.pc = "after" /\ r.orphan = th[t].orphan
          /\ t \in Going /\ th' = [th EXCEPT ![t] = r]
      BY <1>3 DEF Finish, IInv, Shape, ThreadType, Going
    <2>2. th' \in [Threads -> ThreadType] /\ NotYet' /\ Counted' /\ FreedLast'
      BY <1>3, <2>1, GoesOn DEF Finish, poolUnch
    <2>3. sc' \in [Configs -> ConfigShape] /\ \A o \in Configs : sc'[o].pc = sc[o].pc
      <3> DEFINE k == th[t].task
      <3>1. sc' = [sc EXCEPT ![k] = Completed(sc[k])]
        BY <1>3 DEF Finish
      <3>2. CASE k \in Configs
        <4>1. sc[k] \in ConfigShape
          BY <3>2 DEF IInv, Shape
        <4>2. Completed(sc[k]) \in ConfigShape /\ Completed(sc[k]).pc = sc[k].pc
          BY <4>1, CompletedShape
        <4> HIDE DEF k
        <4> QED
          BY <3>1, <3>2, <4>2 DEF IInv, Shape
      <3>3. CASE k \notin Configs
        <4> HIDE DEF k
        <4> QED
          BY <3>1, <3>3 DEF IInv, Shape
      <3> QED
        BY <3>2, <3>3
    <2> QED
      BY <1>3, <2>2, <2>3, PoolConstants DEF Finish, poolUnch, IInv, Shape, RegisteredAlive, NoneLeft,
         PlainNotPosted, Configs
  <1>4. CASE Relock(t)
    <2>1. CASE Leaving(t)
      BY <1>4, <2>1, ExitKeeps DEF Relock
    <2>2. CASE ~Leaving(t)
      <3> DEFINE r == [th[t] EXCEPT !.pc = "waiting", !.inUse = FALSE, !.task = None]
      <3>1. r \in ThreadType /\ r.pc = "waiting" /\ r.orphan = th[t].orphan /\ t \in Going
            /\ th' = [th EXCEPT ![t] = r]
        BY <1>4, <2>2 DEF Relock, IInv, Shape, ThreadType, Going
      <3>2. th' \in [Threads -> ThreadType] /\ NotYet' /\ Counted' /\ FreedLast'
        BY <1>4, <2>2, <3>1, GoesOn DEF Relock
      <3>3. PlainNotPosted' /\ notifier' \in [Configs -> 0 .. 1]
        BY <1>4, <2>2, PoolConstants DEF Relock, Post, Told, IInv, Shape, RegisteredAlive,
           PlainNotPosted, Configs
      <3> QED
        BY <1>4, <2>2, <3>2, <3>3 DEF Relock, IInv, Shape, RegisteredAlive, NoneLeft
    <2> QED
      BY <2>1, <2>2
  <1>5. CASE Cleanup(t)
    <2>1. mgr = "deleted" /\ Going = {}
      BY <1>5 DEF Cleanup, IInv, NotYet, Counted
    <2>2. Going' = {}
      BY <1>5 DEF Cleanup, Going, NoThread
    <2>3. Counted'
      BY <1>5, <2>1, <2>2 DEF Cleanup, Counted, IInv, Listed, NoThread
    <2>4. Shape' /\ FreedLast'
      BY <1>5 DEF Cleanup, Shape, FreedLast, IInv, NoThread, ThreadType
    <2> QED
      BY <1>5, <2>1, <2>3, <2>4 DEF Cleanup, IInv, RegisteredAlive, NoneLeft, NotYet, PlainNotPosted
  <1> QED
    BY <1>1, <1>2, <1>3, <1>4, <1>5 DEF Thread

\* A step of a SyncConfig that neither comes nor goes, and disturbs no thread's place.
LEMMA ConfigMoves ==
  ASSUME IInv, NEW o \in Configs, NEW r \in ConfigShape, sc' = [sc EXCEPT ![o] = r],
         sc[o].pc \notin {"off", "unregistered"}, r.pc \notin {"off", "unregistered"},
         UNCHANGED <<reg, mgr, refCount, freed>>,
         notifier' \in [Configs -> 0 .. 1],
         \A c \in Configs \ {o} : notifier'[c] = notifier[c],
         th' \in [Threads -> ThreadType] /\ NotYet' /\ Counted' /\ FreedLast'
  PROVE  IInv'
  <1>1. \A c \in Configs : sc'[c] = IF c = o THEN r ELSE sc[c]
    BY DEF IInv, Shape
  <1>2. Plain \subseteq Configs
    BY DEF Configs
  <1>3. Shape'
    BY DEF IInv, Shape
  <1>4. RegisteredAlive'
    BY <1>1, <1>2 DEF IInv, RegisteredAlive
  <1>5. NoneLeft'
    BY <1>1 DEF IInv, NoneLeft
  <1>6. PlainNotPosted'
    BY <1>1, <1>2 DEF IInv, PlainNotPosted
  <1> QED
    BY <1>3, <1>4, <1>5, <1>6 DEF IInv

\* The same, when the threads are left alone.
LEMMA ConfigOnly ==
  ASSUME IInv, NEW o \in Configs, NEW r \in ConfigShape, sc' = [sc EXCEPT ![o] = r],
         sc[o].pc \notin {"off", "unregistered"}, r.pc \notin {"off", "unregistered"},
         UNCHANGED <<th, reg, mgr, refCount, freed>>,
         notifier' \in [Configs -> 0 .. 1],
         \A c \in Configs \ {o} : notifier'[c] = notifier[c]
  PROVE  IInv'
  <1>1. th' \in [Threads -> ThreadType] /\ NotYet' /\ Counted' /\ FreedLast'
    BY DEF IInv, Shape, NotYet, Counted, FreedLast, Going, Listed
  <1> QED
    BY <1>1, ConfigMoves

\* A thread that is listed is changed without leaving its place.
LEMMA ListedStays ==
  ASSUME IInv, NEW t \in Threads, NEW r \in ThreadType, th' = [th EXCEPT ![t] = r],
         mgr # "deleted", r.pc \notin {"last", "done"}, r.orphan = FALSE,
         UNCHANGED <<mgr, refCount, freed>>
  PROVE  th' \in [Threads -> ThreadType] /\ NotYet' /\ Counted' /\ FreedLast'
  <1>1. \A u \in Threads : th'[u] = IF u = t THEN r ELSE th[u]
    BY DEF IInv, Shape
  <1>2. NotYet'
    BY <1>1 DEF IInv, NotYet
  <1>3. FreedLast'
    BY DEF IInv, NotYet, FreedLast
  <1> QED
    BY <1>2, <1>3 DEF IInv, Shape, Counted

\* A dedicated thread is named by its SyncConfig.
LEMMA DedicatedThread == Dedicated \subseteq Threads /\ Dedicated \subseteq Configs /\ Plain \subseteq Configs
  BY DEF Threads, Configs

\* The record of a thread that takes a task is typed.
LEMMA TakenShape ==
  ASSUME NEW c \in ThreadType, NEW o \in Configs, NEW b \in BOOLEAN, NEW n \in 0 .. 1
  PROVE  [c EXCEPT !.inUse = b, !.task = o, !.sem = n] \in ThreadType
  BY DEF ThreadType

\* The record of a thread that is told to exit is typed.
LEMMA ToldToExitShape ==
  ASSUME NEW c \in ThreadType
  PROVE  [c EXCEPT !.exit = TRUE, !.sem = 1] \in ThreadType
  <1>1. ASSUME NEW b \in BOOLEAN, NEW n \in 0 .. 1
        PROVE  [c EXCEPT !.exit = b, !.sem = n] \in ThreadType
    BY DEF ThreadType
  <1>2. TRUE \in BOOLEAN /\ 1 \in 0 .. 1
    OBVIOUS
  <1> QED
    BY <1>1, <1>2

\* Handing a task to the pool keeps the invariant.
LEMMA AddKeeps ==
  ASSUME IInv, NEW o \in Configs, Add(o)
  PROVE  IInv'
  <1>1. mgr # "deleted" /\ sc[o] \in ConfigShape /\ sc[o].pc = "add" /\ sc[o].pc # "off"
    BY DEF Add, IInv, NoneLeft, Shape
  <1>2. CASE \E t \in Threads :
            /\ Takes(o, t)
            /\ th' = [th EXCEPT ![t].inUse = TRUE, ![t].task = o, ![t].sem = 1]
            /\ sc' = [sc EXCEPT ![o].pc = "free", ![o].work = @ - 1, ![o].tasks = @ + 1]
    <2>1. PICK t \in Threads :
            /\ th' = [th EXCEPT ![t].inUse = TRUE, ![t].task = o, ![t].sem = 1]
            /\ sc' = [sc EXCEPT ![o].pc = "free", ![o].work = @ - 1, ![o].tasks = @ + 1]
      BY <1>2
    <2> DEFINE q == [th[t] EXCEPT !.inUse = TRUE, !.task = o, !.sem = 1]
               w == sc[o].work - 1
               n == sc[o].tasks + 1
               r == [sc[o] EXCEPT !.pc = "free", !.work = w, !.tasks = n]
    <2>11. th[t] \in ThreadType
      BY DEF IInv, Shape
    <2>12. q \in ThreadType
      <3>1. TRUE \in BOOLEAN /\ 1 \in 0 .. 1
        OBVIOUS
      <3> QED
        BY <3>1, <2>11, TakenShape
    <2>2. q \in ThreadType /\ q.pc = th[t].pc /\ q.orphan = th[t].orphan /\ th' = [th EXCEPT ![t] = q]
      BY <2>1, <2>11, <2>12 DEF ThreadType
    <2>13. w \in Int /\ n \in Int
      BY <1>1 DEF ConfigShape
    <2>14. sc' = [sc EXCEPT ![o].pc = "free", ![o].work = w, ![o].tasks = n]
      BY <2>1
    <2> HIDE DEF w, n
    <2>15. r \in ConfigShape
      BY <1>1, <2>13 DEF ConfigShape, Places
    <2>16. r.pc = "free"
      BY <1>1 DEF ConfigShape
    <2>3. r \in ConfigShape /\ r.pc = "free" /\ sc' = [sc EXCEPT ![o] = r]
      BY <2>14, <2>15, <2>16
    <2>4. q.orphan = FALSE /\ q.pc \notin {"last", "done"}
      BY <1>1, <2>2 DEF IInv, NotYet, Shape, ThreadType
    <2> HIDE DEF q, r
    <2>5. th' \in [Threads -> ThreadType] /\ NotYet' /\ Counted' /\ FreedLast'
      BY <1>1, <2>2, <2>4, ListedStays DEF Add, poolUnch
    <2>6. UNCHANGED <<reg, mgr, notifier>>
      BY DEF Add, poolUnch
    <2>7. notifier' \in [Configs -> 0 .. 1] /\ \A c \in Configs \ {o} : notifier'[c] = notifier[c]
      BY <2>6 DEF IInv, Shape
    <2>8. UNCHANGED <<refCount, freed>>
      BY DEF Add, poolUnch
    <2> QED
      BY <1>1, <2>3, <2>5, <2>6, <2>7, <2>8, ConfigMoves
  <1>3. CASE sc' = [sc EXCEPT ![o].pc = "free"] /\ UNCHANGED th
    <2> DEFINE r == [sc[o] EXCEPT !.pc = "free"]
    <2>1. r \in ConfigShape /\ r.pc = "free" /\ sc' = [sc EXCEPT ![o] = r]
      BY <1>1, <1>3 DEF ConfigShape, Places
    <2>2. UNCHANGED <<th, reg, mgr, refCount, freed, notifier>>
      BY <1>3 DEF Add, poolUnch
    <2>3. notifier' \in [Configs -> 0 .. 1] /\ \A c \in Configs \ {o} : notifier'[c] = notifier[c]
      BY <2>2 DEF IInv, Shape
    <2> HIDE DEF r
    <2> QED
      BY <1>1, <2>1, <2>2, <2>3, ConfigOnly
  <1> QED
    BY <1>2, <1>3 DEF Add

\* The steps of the worker between its start and its end, and those of the other threads that
\* pause, resume or close the SyncConfig.
LEMMA WorkerKeeps ==
  ASSUME IInv, NEW o \in Configs,
         \/ CheckFree(o) \/ Decide(o) \/ Wake(o) \/ Handle(o) \/ EndFunction(o) \/ WorkerEnds(o)
         \/ Resume(o) \/ Pause(o) \/ RequestClose(o) \/ Scan(o)
  PROVE  IInv'
  <1> DEFINE Moved == \E r \in ConfigShape : sc' = [sc EXCEPT ![o] = r]
                          /\ r.pc \notin {"off", "unregistered"}
             Noted == /\ notifier' \in [Configs -> 0 .. 1]
                      /\ \A c \in Configs \ {o} : notifier'[c] = notifier[c]
             Here == sc[o].pc \notin {"off", "unregistered"}
             Rest == UNCHANGED <<th, reg, mgr, refCount, freed>>
  <1>1. sc[o] \in ConfigShape /\ sc \in [Configs -> ConfigShape] /\ notifier \in [Configs -> 0 .. 1]
    BY DEF IInv, Shape
  <1>2. CASE CheckFree(o)
    <2> DEFINE r == [sc[o] EXCEPT !.pc = "decide", !.free = HasFreeThread(o)]
    <2>1. HasFreeThread(o) \in BOOLEAN
      BY DEF HasFreeThread
    <2>2. r \in ConfigShape /\ r.pc = "decide" /\ sc' = [sc EXCEPT ![o] = r]
      BY <1>1, <1>2, <2>1 DEF CheckFree, ConfigShape, Places
    <2> QED
      BY <1>1, <1>2, <2>2, ConfigOnly DEF CheckFree, poolUnch
  <1>3. CASE Decide(o)
    <2>1. HasFreeThread(o) \in BOOLEAN
      BY DEF HasFreeThread
    <2>2. Moved
      <3>1. CASE sc' = [sc EXCEPT ![o].pc = "waiting", ![o].free = FALSE]
        <4> DEFINE r == [sc[o] EXCEPT !.pc = "waiting", !.free = FALSE]
        <4>1. r \in ConfigShape /\ r.pc = "waiting" /\ sc' = [sc EXCEPT ![o] = r]
          BY <1>1, <3>1 DEF ConfigShape, Places
        <4> QED
          BY <4>1
      <3>2. CASE sc' = [sc EXCEPT ![o].pc = "handle"]
        <4> DEFINE r == [sc[o] EXCEPT !.pc = "handle"]
        <4>1. r \in ConfigShape /\ r.pc = "handle" /\ sc' = [sc EXCEPT ![o] = r]
          BY <1>1, <3>2 DEF ConfigShape, Places
        <4> QED
          BY <4>1
      <3>3. CASE sc' = [sc EXCEPT ![o].pc = "waiting"]
        <4> DEFINE r == [sc[o] EXCEPT !.pc = "waiting"]
        <4>1. r \in ConfigShape /\ r.pc = "waiting" /\ sc' = [sc EXCEPT ![o] = r]
          BY <1>1, <3>3 DEF ConfigShape, Places
        <4> QED
          BY <4>1
      <3>4. CASE sc' = [sc EXCEPT ![o].pc = "handle", ![o].free = HasFreeThread(o)]
        <4> DEFINE r == [sc[o] EXCEPT !.pc = "handle", !.free = HasFreeThread(o)]
        <4>1. r \in ConfigShape /\ r.pc = "handle" /\ sc' = [sc EXCEPT ![o] = r]
          BY <1>1, <2>1, <3>4 DEF ConfigShape, Places
        <4> QED
          BY <4>1
      <3> QED
        BY <1>3, <3>1, <3>2, <3>3, <3>4 DEF Decide
    <2>3. Here /\ Rest /\ Noted
      BY <1>1, <1>3 DEF Decide, poolUnch
    <2> QED
      BY <2>2, <2>3, ConfigOnly
  <1>4. CASE Wake(o)
    <2>1. Moved /\ Here
      BY <1>1, <1>4 DEF Wake, Step, ConfigShape, Places
    <2>2. Rest /\ Noted
      BY <1>1, <1>4 DEF Wake, poolUnch
    <2> QED
      BY <2>1, <2>2, ConfigOnly
  <1>5. CASE Handle(o)
    <2>1. ASSUME NEW place \in {"handle", "end", "add", "decide"}, NEW n \in Int, Go(o, place, n)
          PROVE  Moved
      <3> DEFINE r == [sc[o] EXCEPT !.pc = place, !.results = n,
                                    !.free = @ /\ place \in {"handle", "decide"},
                                    !.work = IF place = "end" THEN 0 ELSE @]
      <3>1. (sc[o].free /\ place \in {"handle", "decide"}) \in BOOLEAN
        OBVIOUS
      <3>2. (IF place = "end" THEN 0 ELSE sc[o].work) \in Int
        BY <1>1 DEF ConfigShape
      <3>3. r \in ConfigShape /\ r.pc = place
        BY <1>1, <3>1, <3>2 DEF ConfigShape, Places
      <3>4. sc' = [sc EXCEPT ![o] = r]
        BY <1>1, <2>1 DEF Go
      <3> QED
        BY <3>3, <3>4
    <2>2. Moved
      <3>1. CASE sc[o].results > 0
        <4>1. sc[o].results - 1 \in Int
          BY <1>1 DEF ConfigShape
        <4> QED
          BY <1>5, <2>1, <3>1, <4>1 DEF Handle
      <3>2. CASE sc[o].results = 0
        BY <1>5, <2>1, <3>2 DEF Handle
      <3> QED
        BY <1>5, <3>1, <3>2 DEF Handle
    <2>3. Here /\ Rest /\ Noted
      BY <1>1, <1>5 DEF Handle, poolUnch
    <2> QED
      BY <2>2, <2>3, ConfigOnly
  <1>6. CASE EndFunction(o)
    <2>1. Moved
      BY <1>1, <1>6 DEF EndFunction, ConfigShape, Places
    <2>2. Here /\ Rest /\ Noted
      BY <1>1, <1>6 DEF EndFunction, poolUnch
    <2> QED
      BY <2>1, <2>2, ConfigOnly
  <1>7. CASE WorkerEnds(o)
    <2>1. Moved
      <3> DEFINE r == [sc[o] EXCEPT !.pc = "ended"]
      <3>1. r \in ConfigShape /\ r.pc = "ended" /\ sc' = [sc EXCEPT ![o] = r]
        BY <1>1, <1>7 DEF WorkerEnds, Step, ConfigShape, Places
      <3> QED
        BY <3>1
    <2>2. Here /\ Rest /\ Noted
      BY <1>1, <1>7 DEF WorkerEnds, Step, poolUnch
    <2> QED
      BY <2>1, <2>2, ConfigOnly
  <1>8. CASE Resume(o)
    <2>1. Moved
      <3> DEFINE r == [sc[o] EXCEPT !.allowed = TRUE]
      <3>1. r \in ConfigShape /\ r.pc = sc[o].pc /\ sc' = [sc EXCEPT ![o] = r]
        BY <1>1, <1>8 DEF Resume, ConfigShape, Places
      <3> QED
        BY <3>1, <1>8 DEF Resume
    <2>2. Here /\ Rest /\ Noted
      BY <1>1, <1>8 DEF Resume, Post, poolUnch
    <2> QED
      BY <2>1, <2>2, ConfigOnly
  <1>9. CASE Pause(o)
    <2>1. Moved
      <3> DEFINE r == [sc[o] EXCEPT !.allowed = FALSE]
      <3>1. r \in ConfigShape /\ r.pc = sc[o].pc /\ sc' = [sc EXCEPT ![o] = r]
        BY <1>1, <1>9 DEF Pause, ConfigShape, Places
      <3> QED
        BY <3>1, <1>9 DEF Pause
    <2>2. Here /\ Rest /\ Noted
      BY <1>1, <1>9 DEF Pause, poolUnch
    <2> QED
      BY <2>1, <2>2, ConfigOnly
  <1>10. CASE RequestClose(o)
    <2>1. Moved
      <3> DEFINE r == [sc[o] EXCEPT !.stop = TRUE]
      <3>1. r \in ConfigShape /\ r.pc = sc[o].pc /\ sc' = [sc EXCEPT ![o] = r]
        BY <1>1, <1>10 DEF RequestClose, ConfigShape, Places
      <3> QED
        BY <3>1, <1>10 DEF RequestClose
    <2>2. Here /\ Rest /\ Noted
      BY <1>1, <1>10 DEF RequestClose, poolUnch
    <2> QED
      BY <2>1, <2>2, ConfigOnly
  <1>11. CASE Scan(o)
    <2>1. Moved
      <3>1. PICK n \in 1 .. MaxWork(o) : sc' = [sc EXCEPT ![o].pc = "add", ![o].work = n]
        BY <1>11 DEF Scan
      <3>2. n \in Int
        BY PoolConstants DEF MaxWork
      <3> DEFINE r == [sc[o] EXCEPT !.pc = "add", !.work = n]
      <3>3. r \in ConfigShape /\ r.pc = "add" /\ sc' = [sc EXCEPT ![o] = r]
        BY <1>1, <3>1, <3>2 DEF ConfigShape, Places
      <3> QED
        BY <3>3
    <2>2. Here /\ Rest /\ Noted
      BY <1>1, <1>11 DEF Scan, poolUnch
    <2> QED
      BY <2>1, <2>2, ConfigOnly
  <1> QED
    BY <1>2, <1>3, <1>4, <1>5, <1>6, <1>7, <1>8, <1>9, <1>10, <1>11

\* Init of a SyncConfig puts it in the list only as one that lives.
LEMMA OpenKeeps ==
  ASSUME IInv, NEW o \in Configs, Open(o)
  PROVE  IInv'
  <1> DEFINE Into(p) == \E r \in ConfigShape : r.pc = p /\ sc' = [sc EXCEPT ![o] = r]
  <1>1. mgr = "up" /\ UNCHANGED <<mgr, refCount, freed>> /\ notifier' = [notifier EXCEPT ![o] = 0]
    BY DEF Open, poolUnch
  <1>2. notifier' \in [Configs -> 0 .. 1] /\ notifier'[o] = 0
        /\ \A c \in Configs \ {o} : notifier'[c] = notifier[c]
    BY <1>1 DEF IInv, Shape
  <1>3. th' \in [Threads -> ThreadType] /\ NotYet' /\ Counted' /\ FreedLast'
    <2>1. CASE UNCHANGED th
      BY <1>1, <2>1 DEF IInv, Shape, NotYet, Counted, FreedLast
    <2>2. CASE o \in Dedicated /\ th' = [th EXCEPT ![o] = NewThread]
      <3>1. NewThread.pc \notin {"last", "done"} /\ NewThread \in ThreadType /\ NewThread.orphan = FALSE
        BY NoThreadShape
      <3> QED
        BY <1>1, <2>2, <3>1, DedicatedThread, ListedStays
    <2> QED
      BY <2>1, <2>2 DEF Open
  <1>4. Into("idle") \/ Into("ended")
    <2>1. sc[o] \in ConfigShape
      BY DEF IInv, Shape
    <2>2. CASE sc' = [sc EXCEPT ![o].pc = "idle"]
      <3> DEFINE r == [sc[o] EXCEPT !.pc = "idle"]
      <3>1. r \in ConfigShape /\ r.pc = "idle" /\ sc' = [sc EXCEPT ![o] = r]
        BY <2>1, <2>2 DEF ConfigShape, Places
      <3> QED
        BY <3>1
    <2>3. CASE sc' = [sc EXCEPT ![o].pc = "ended"]
      <3> DEFINE r == [sc[o] EXCEPT !.pc = "ended"]
      <3>1. r \in ConfigShape /\ r.pc = "ended" /\ sc' = [sc EXCEPT ![o] = r]
        BY <2>1, <2>3 DEF ConfigShape, Places
      <3> QED
        BY <3>1
    <2> QED
      BY <2>2, <2>3 DEF Open
  <1>5. PICK r \in ConfigShape : r.pc \in {"idle", "ended"} /\ sc' = [sc EXCEPT ![o] = r]
    BY <1>4
  <1>6. \A c \in Configs : sc'[c] = IF c = o THEN r ELSE sc[c]
    BY <1>5 DEF IInv, Shape
  <1>7. Shape'
    BY <1>1, <1>2, <1>3, <1>5 DEF IInv, Shape
  <1>8. reg' = reg \/ (o \in Plain /\ reg' = reg \cup {o})
    BY DEF Open
  <1>9. RegisteredAlive' /\ PlainNotPosted'
    BY <1>2, <1>5, <1>6, <1>8, DedicatedThread DEF IInv, RegisteredAlive, PlainNotPosted
  <1> QED
    BY <1>1, <1>3, <1>7, <1>9 DEF IInv, NoneLeft

\* UnregisterForTaskCompleteNotification takes the notification out of the list before the
\* SyncConfig can be deleted; the last post comes before that, under the same mutex.
LEMMA UnregisterKeeps ==
  ASSUME IInv, NEW o \in Configs, Unregister(o)
  PROVE  IInv'
  <1>1. sc[o] \in ConfigShape /\ sc[o].pc = "ended" /\ sc' = [sc EXCEPT ![o].pc = "unregistered"]
    BY DEF Unregister, Step, IInv, Shape
  <1>2. mgr = "up" /\ UNCHANGED <<mgr, refCount, freed>>
    BY <1>1 DEF Unregister, poolUnch, IInv, NoneLeft, Shape
  <1> DEFINE r == [sc[o] EXCEPT !.pc = "unregistered"]
  <1>3. r \in ConfigShape /\ r.pc = "unregistered" /\ sc' = [sc EXCEPT ![o] = r]
    BY <1>1 DEF ConfigShape, Places
  <1> HIDE DEF r
  <1>4. \A c \in Configs : sc'[c] = IF c = o THEN r ELSE sc[c]
    BY <1>3 DEF IInv, Shape
  <1>5. notifier' \in [Configs -> 0 .. 1] /\ \A c \in Configs \ {o} : notifier'[c] = notifier[c]
    BY DEF Unregister, Post, IInv, Shape
  <1>6. reg' = reg \ {o}
    BY DEF Unregister, Forget
  <1>7. th' \in [Threads -> ThreadType] /\ NotYet' /\ Counted' /\ FreedLast'
    <2>1. CASE UNCHANGED th
      BY <1>2, <2>1 DEF IInv, Shape, NotYet, Counted, FreedLast
    <2>2. CASE o \in Dedicated /\ th' = [th EXCEPT ![o].exit = TRUE, ![o].sem = 1]
      <3> DEFINE q == [th[o] EXCEPT !.exit = TRUE, !.sem = 1]
      <3>1. o \in Threads /\ th[o] \in ThreadType
        BY <2>2, DedicatedThread DEF IInv, Shape
      <3>2. q \in ThreadType
        BY <3>1, ToldToExitShape
      <3>3. q.pc = th[o].pc /\ q.orphan = th[o].orphan /\ th' = [th EXCEPT ![o] = q]
        BY <2>2, <3>1 DEF ThreadType
      <3>4. q.orphan = FALSE /\ q.pc \notin {"last", "done"}
        BY <1>2, <3>1, <3>3 DEF IInv, NotYet, ThreadType
      <3> HIDE DEF q
      <3> QED
        BY <1>2, <3>1, <3>2, <3>3, <3>4, ListedStays
    <2> QED
      BY <2>1, <2>2 DEF Unregister
  <1>8. Shape'
    BY <1>2, <1>3, <1>5, <1>7 DEF IInv, Shape
  <1>9. RegisteredAlive' /\ PlainNotPosted'
    BY <1>3, <1>4, <1>5, <1>6, DedicatedThread DEF IInv, RegisteredAlive, PlainNotPosted
  <1> QED
    BY <1>2, <1>7, <1>8, <1>9 DEF IInv, NoneLeft

\* The destruction of a SyncConfig keeps the invariant.
LEMMA DeleteKeeps ==
  ASSUME IInv, NEW o \in Configs, Delete(o)
  PROVE  IInv'
  <1>1. sc[o].pc = "unregistered" /\ sc' = [sc EXCEPT ![o] = NoConfig]
        /\ notifier' = [notifier EXCEPT ![o] = 0]
    BY DEF Delete
  <1>2. UNCHANGED <<th, reg, mgr, refCount, freed>>
    BY DEF Delete, poolUnch
  <1>3. NoConfig \in ConfigShape /\ NoConfig.pc = "off"
    BY DEF NoConfig, ConfigShape, Places
  <1>4. \A c \in Configs : sc'[c] = IF c = o THEN NoConfig ELSE sc[c]
    BY <1>1 DEF IInv, Shape
  <1>5. \A c \in Configs : notifier'[c] = IF c = o THEN 0 ELSE notifier[c]
    BY <1>1 DEF IInv, Shape
  <1>6. Shape'
    BY <1>1, <1>2, <1>3 DEF IInv, Shape
  <1>7. RegisteredAlive'
    BY <1>1, <1>2, <1>4, DedicatedThread DEF IInv, RegisteredAlive
  <1>8. PlainNotPosted' /\ NoneLeft'
    BY <1>2, <1>3, <1>4, <1>5, DedicatedThread DEF IInv, PlainNotPosted, NoneLeft
  <1>9. NotYet' /\ Counted' /\ FreedLast'
    BY <1>2 DEF IInv, NotYet, Counted, FreedLast, Going, Listed
  <1> QED
    BY <1>6, <1>7, <1>8, <1>9 DEF IInv

\* CheckAndPrepareShutdown moves no thread.
LEMMA ShutdownKeeps ==
  ASSUME IInv, Shutdown
  PROVE  IInv'
  <1>1. UNCHANGED <<reg, refCount, freed, sc, notifier>>
    BY DEF Shutdown
  <1>2. mgr # "deleted" /\ mgr' \in {"shutdown", "deleting"} /\ \A o \in Configs : sc[o].pc = "off"
    BY DEF Shutdown, IInv, NoneLeft
  <1>3. \A t \in Threads : /\ th'[t] \in ThreadType
                           /\ th'[t].pc = th[t].pc /\ th'[t].orphan = th[t].orphan
    <2> TAKE t \in Threads
    <2>1. th[t] \in ThreadType
      BY DEF IInv, Shape
    <2>2. th'[t] = IF Listed(t) THEN [th[t] EXCEPT !.exit = TRUE, !.sem = 1] ELSE th[t]
      BY DEF Shutdown
    <2>3. [th[t] EXCEPT !.exit = TRUE, !.sem = 1] \in ThreadType
      BY <2>1, ToldToExitShape
    <2> QED
      BY <2>1, <2>2, <2>3 DEF ThreadType
  <1>4. th' = [t \in Threads |-> th'[t]]
    BY DEF Shutdown
  <1>5. th' \in [Threads -> ThreadType]
    BY <1>3, <1>4
  <1>6. Shape'
    BY <1>1, <1>2, <1>5 DEF IInv, Shape
  <1>7. NotYet'
    BY <1>1, <1>2, <1>3 DEF IInv, NotYet
  <1>8. Counted' /\ FreedLast'
    BY <1>1, <1>2, <1>3 DEF IInv, NotYet, Counted, FreedLast
  <1>9. NoneLeft' /\ RegisteredAlive' /\ PlainNotPosted'
    BY <1>1, <1>2 DEF IInv, NoneLeft, RegisteredAlive, PlainNotPosted
  <1> QED
    BY <1>6, <1>7, <1>8, <1>9 DEF IInv

\* The destructor counts exactly the threads that will count themselves off.
LEMMA DestroyKeeps ==
  ASSUME IInv, Destroy
  PROVE  IInv'
  <1>1. mgr = "deleting" /\ mgr' = "deleted" /\ UNCHANGED <<reg, sc, notifier>>
    BY DEF Destroy
  <1>2. \A t \in Threads : /\ th'[t] \in ThreadType /\ th'[t].pc = th[t].pc
                           /\ Listed(t) => th'[t].orphan
                           /\ th[t].pc \notin {"last", "done"}
    <2> TAKE t \in Threads
    <2>1. th[t] \in ThreadType /\ th[t].pc \notin {"last", "done"}
      BY <1>1 DEF IInv, Shape, NotYet
    <2>2. th'[t] = IF Listed(t) THEN [th[t] EXCEPT !.orphan = TRUE] ELSE th[t]
      BY DEF Destroy
    <2>3. [th[t] EXCEPT !.orphan = TRUE] \in ThreadType
      BY <2>1 DEF ThreadType
    <2> QED
      BY <2>1, <2>2, <2>3 DEF ThreadType
  <1>3. th' = [t \in Threads |-> th'[t]]
    BY DEF Destroy
  <1>4. th' \in [Threads -> ThreadType]
    BY <1>2, <1>3
  <1>5. Left = Going /\ Going' = Going
    <2>1. \A t \in Threads : Listed(t) <=> th[t].pc \in {"new", "waiting", "running", "after"}
      BY <1>2 DEF IInv, Shape, ThreadType, Listed
    <2> QED
      BY <1>2, <2>1 DEF Left, Going
  <1>6. refCount' = Cardinality(Going') /\ refCount' \in Int
    BY <1>5, GoingFinite, FS_CardinalityType DEF Destroy
  <1>7. freed' = (Left = {})
    BY DEF Destroy
  <1>8. freed' \in BOOLEAN
    BY <1>7, Zenon
  <1>9. Shape'
    BY <1>1, <1>4, <1>6, <1>8 DEF IInv, Shape
  <1>10. FreedLast'
    <2> SUFFICES ASSUME freed', NEW t \in Threads PROVE th'[t].pc = "none"
      BY DEF FreedLast
    <2>1. ~Listed(t)
      BY <1>7 DEF Left
    <2> QED
      BY <1>2, <2>1 DEF Listed
  <1>11. Counted'
    BY <1>2, <1>6 DEF Counted, Listed
  <1> QED
    BY <1>1, <1>9, <1>10, <1>11 DEF IInv, NotYet, NoneLeft, RegisteredAlive, PlainNotPosted

\* Every step of the system keeps the invariant.
LEMMA StepKeeps == IInv /\ [Next]_vars => IInv'
  <1> SUFFICES ASSUME IInv, [Next]_vars PROVE IInv'
    OBVIOUS
  <1>1. CASE UNCHANGED vars
    BY <1>1 DEF vars, IInv, Shape, RegisteredAlive, NoneLeft, NotYet, Counted, Going, Listed,
                FreedLast, PlainNotPosted
  <1>2. ASSUME NEW t \in Threads, Thread(t) PROVE IInv'
    BY <1>2, ThreadKeeps
  <1>3. ASSUME NEW o \in Configs, Config(o) PROVE IInv'
    BY <1>3, AddKeeps, WorkerKeeps, UnregisterKeeps, DeleteKeeps DEF Config
  <1>4. ASSUME NEW o \in Configs, Open(o) \/ Resume(o) \/ Pause(o) \/ RequestClose(o) \/ Scan(o)
        PROVE IInv'
    BY <1>4, OpenKeeps, WorkerKeeps
  <1> QED
    BY <1>1, <1>2, <1>3, <1>4, ShutdownKeeps, DestroyKeeps DEF Next

\* The reference count is that of the threads still going, and the list of notifications names
\* only SyncConfigs that live (refCountFinalThreadCleanup, m_poolNotifications).
THEOREM Invariance == Spec => []IInv
  BY InitIInv, StepKeeps, PTL DEF Spec

\* ~SyncConfigThreadPool: the lists and the mutex are deleted when no thread is left that uses
\* them, however many threads the destructor leaves running.
THEOREM FreedByLast == Spec => []FreedLast
  <1>1. IInv => FreedLast
    BY DEF IInv
  <1> QED
    BY <1>1, Invariance, PTL

\* UnregisterForTaskCompleteNotification: no thread posts to the semaphore of a SyncConfig
\* without a dedicated thread after it is destroyed.
THEOREM PlainQuiet == Spec => []PlainNotPosted
  <1>1. IInv => PlainNotPosted
    BY DEF IInv
  <1> QED
    BY <1>1, Invariance, PTL

-----------------------------------------------------------------------------
(***************************************************************************)
(* The tasks.  A SyncConfig counts its tasks and the pool has no count of  *)
(* them: the two agree because a thread takes a task only while it has     *)
(* none, because it lets go of it only where it has completed it, and      *)
(* because nobody tells a thread to exit while it has one.  The last is a  *)
(* matter of the callers: a dedicated thread works for its SyncConfig      *)
(* alone, which unregisters when its last task is done, and the pool is    *)
(* shut down when the SyncConfigs are gone.                                *)
(***************************************************************************)

\* The thread whose context is c has accepted a task of o and has not completed it.
Holds(c, o) == c.task = o /\ c.pc \in {"new", "waiting", "running"}

Out(o) == {t \in Threads : Holds(th[t], o)}

\* What the context c of a thread t says: a thread in use has its task until it is free again,
\* and startTaskSem is posted for a task or for the end.
Sound(t, c) ==
    /\ c.task # None => c.inUse
    /\ t \in Dedicated => c.task \in {t, None}
    /\ c.pc = "running" => c.task # None
    /\ c.pc = "after" \/ c.sem = 1 => c.inUse \/ c.exit
    /\ c.sem = 1 /\ c.pc \in {"running", "after"} => c.exit
    /\ c.pc \in {"new", "waiting"} /\ c.task # None => c.sem = 1 /\ ~c.exit

\* Outside of ApplyDownloadChangeLog.
Resting == {"off", "idle", "ended", "unregistered"}

\* What a SyncConfig o in the state c counts.
Fits(o, c) ==
    /\ c.work \in Nat /\ c.tasks \in Nat /\ c.results \in Nat
    /\ c.work + c.tasks + c.results <= MaxWork(o)
    /\ c.pc \in Resting => c.tasks = 0 /\ c.results = 0
    /\ c.pc = "add" => c.work > 0

ThreadsSound == \A t \in Threads : Sound(t, th[t])
ConfigsFit == \A o \in Configs : Fits(o, sc[o])
TasksCounted == \A o \in Configs : Cardinality(Out(o)) = sc[o].tasks
NotCounting == mgr # "deleted" => refCount = 0

TaskInv == ThreadsSound /\ ConfigsFit /\ TasksCounted /\ NotCounting

-----------------------------------------------------------------------------
(* The start *)

\* A thread that is not there, and one that is new, hold nothing.
LEMMA FreshSound ==
  ASSUME NEW t \in Threads, NEW c \in {NoThread, NewThread}
  PROVE  Sound(t, c) /\ c.task = None
  <1>1. /\ c.task = None /\ ~c.inUse /\ c.sem = 0 /\ c.pc \in {"none", "new"}
    BY DEF NoThread, NewThread
  <1> QED
    BY <1>1 DEF Sound

\* A SyncConfig that is not there counts nothing.
LEMMA NoConfigFits == ASSUME NEW o \in Configs PROVE Fits(o, NoConfig) /\ NoConfig.tasks = 0
  BY PoolConstants DEF Fits, NoConfig, MaxWork

\* No SyncConfig is the name for none.
LEMMA NoneNoConfig == None \notin Configs
  BY PoolConstants DEF Configs

\* A new pool has no task, and the SyncConfigs count none.
LEMMA InitTaskInv == Init => TaskInv
  <1> SUFFICES ASSUME Init PROVE TaskInv
    OBVIOUS
  <1>1. \A t \in Threads : th[t] \in {NoThread, NewThread}
    BY DEF Init
  <1>2. ThreadsSound
    BY <1>1, FreshSound DEF ThreadsSound
  <1>3. ConfigsFit
    BY NoConfigFits DEF Init, ConfigsFit
  <1>4. ASSUME NEW o \in Configs PROVE Cardinality(Out(o)) = sc[o].tasks
    <2>1. Out(o) = {}
      BY <1>1, FreshSound, NoneNoConfig DEF Out, Holds
    <2>2. sc[o].tasks = 0
      BY NoConfigFits DEF Init
    <2> QED
      BY <2>1, <2>2, FS_EmptySet
  <1> QED
    BY <1>2, <1>3, <1>4 DEF Init, TaskInv, TasksCounted, NotCounting

-----------------------------------------------------------------------------
(* Who holds tasks *)

\* Finitely many threads do.
LEMMA OutFinite == ASSUME NEW o PROVE IsFiniteSet(Out(o))
  BY ThreadsFinite, FS_Subset DEF Out

\* Nobody works for a SyncConfig that is outside of ApplyDownloadChangeLog.
LEMMA RestingAlone ==
  ASSUME TaskInv, NEW o \in Configs, sc[o].pc \in Resting
  PROVE  Out(o) = {}
  <1>1. Cardinality(Out(o)) = 0
    BY DEF TaskInv, ConfigsFit, TasksCounted, Fits
  <1> QED
    BY <1>1, OutFinite, FS_EmptySet

\* Once the pool is going down no thread has a task to do.
LEMMA DownIdle ==
  ASSUME IInv, TaskInv, mgr # "up", NEW t \in Threads, th[t].pc \in {"new", "waiting", "running"}
  PROVE  th[t].task = None
  <1>1. th[t].task \in Configs \cup {None}
    BY DEF IInv, Shape, ThreadType
  <1>2. ASSUME NEW o \in Configs PROVE th[t].task # o
    <2>1. Out(o) = {}
      BY RestingAlone DEF IInv, NoneLeft, Resting
    <2> QED
      BY <2>1 DEF Out, Holds
  <1> QED
    BY <1>1, <1>2

\* A thread whose record is replaced by a sound one that holds the same.
LEMMA OneThread ==
  ASSUME IInv, TaskInv, NEW t \in Threads, NEW r, th' = [th EXCEPT ![t] = r], Sound(t, r),
         \A o \in Configs : Holds(r, o) <=> Holds(th[t], o)
  PROVE  ThreadsSound' /\ \A o \in Configs : Out(o)' = Out(o)
  <1>1. \A u \in Threads : th'[u] = IF u = t THEN r ELSE th[u]
    BY DEF IInv, Shape
  <1>2. ThreadsSound'
    <2> SUFFICES ASSUME NEW u \in Threads PROVE Sound(u, th'[u])
      BY DEF ThreadsSound, Sound
    <2>1. Sound(u, th[u])
      BY DEF TaskInv, ThreadsSound
    <2> QED
      BY <1>1, <2>1
  <1>3. ASSUME NEW o \in Configs PROVE Out(o)' = Out(o)
    BY <1>1 DEF Out, Holds
  <1> QED
    BY <1>2, <1>3

\* A step that leaves the SyncConfigs, and who holds their tasks.
LEMMA ConfigsLeft ==
  ASSUME TaskInv, UNCHANGED sc, ThreadsSound', \A o \in Configs : Out(o)' = Out(o), NotCounting'
  PROVE  TaskInv'
  <1>1. ConfigsFit'
    BY DEF TaskInv, ConfigsFit, Fits
  <1>2. TasksCounted'
    BY DEF TaskInv, TasksCounted
  <1> QED
    BY <1>1, <1>2 DEF TaskInv

\* A step of one SyncConfig that keeps the number of its tasks, and who holds them.
LEMMA OneConfig ==
  ASSUME IInv, TaskInv, NEW o \in Configs, NEW r, sc' = [sc EXCEPT ![o] = r], Fits(o, r),
         r.tasks = sc[o].tasks,
         ThreadsSound', \A c \in Configs : Out(c)' = Out(c), UNCHANGED <<mgr, refCount>>
  PROVE  TaskInv'
  <1>1. \A c \in Configs : sc'[c] = IF c = o THEN r ELSE sc[c]
    BY DEF IInv, Shape
  <1>2. ConfigsFit'
    <2> SUFFICES ASSUME NEW c \in Configs PROVE Fits(c, sc'[c])
      BY DEF ConfigsFit, Fits
    <2>1. Fits(c, sc[c])
      BY DEF TaskInv, ConfigsFit
    <2> QED
      BY <1>1, <2>1
  <1>3. TasksCounted'
    BY <1>1 DEF TaskInv, TasksCounted
  <1> QED
    BY <1>2, <1>3 DEF TaskInv, NotCounting

\* The threads when none of them takes a step.
LEMMA ThreadsLeft ==
  ASSUME TaskInv, UNCHANGED th
  PROVE  ThreadsSound' /\ \A o \in Configs : Out(o)' = Out(o)
  BY DEF TaskInv, ThreadsSound, Sound, Out, Holds

-----------------------------------------------------------------------------
(* threadRoutine *)

\* A thread leaves with no task.
LEMMA ExitTasks ==
  ASSUME IInv, TaskInv, NEW t \in Threads, th[t].pc \in {"new", "after"}, Leaving(t), Exit(t),
         UNCHANGED <<sc, mgr>>
  PROVE  TaskInv'
  <1>1. th[t] \in ThreadType /\ Sound(t, th[t])
    BY DEF IInv, Shape, TaskInv, ThreadsSound
  <1>2. ASSUME NEW o \in Configs PROVE ~Holds(th[t], o)
    <2>1. CASE th[t].orphan
      BY <2>1, DownIdle, NoneNoConfig DEF IInv, NotYet, Holds
    <2>2. CASE ~th[t].orphan
      BY <1>1, <2>2, NoneNoConfig DEF Leaving, Sound, Holds
    <2> QED
      BY <2>1, <2>2
  <1>3. CASE th[t].orphan
    <2>1. mgr = "deleted"
      BY <1>3 DEF IInv, NotYet
    <2>2. PICK p \in {"last", "done"} : th' = [th EXCEPT ![t].pc = p]
      BY <1>3 DEF Exit
    <2> DEFINE r == [th[t] EXCEPT !.pc = p]
    <2>3. /\ r.pc = p /\ r.task = th[t].task /\ r.inUse = th[t].inUse /\ r.sem = th[t].sem
          /\ r.exit = th[t].exit
      BY <1>1 DEF ThreadType
    <2>4. th' = [th EXCEPT ![t] = r]
      BY <2>2
    <2> HIDE DEF r
    <2>5. Sound(t, r) /\ \A o \in Configs : ~Holds(r, o)
      BY <1>1, <2>3 DEF Sound, Holds
    <2>6. ThreadsSound' /\ \A o \in Configs : Out(o)' = Out(o)
      BY <1>2, <2>4, <2>5, OneThread
    <2> QED
      BY <2>1, <2>6, ConfigsLeft DEF NotCounting
  <1>4. CASE ~th[t].orphan
    <2>1. th' = [th EXCEPT ![t] = NoThread] /\ UNCHANGED refCount
      BY <1>4 DEF Exit
    <2>2. Sound(t, NoThread) /\ \A o \in Configs : ~Holds(NoThread, o)
      BY FreshSound, NoneNoConfig DEF Holds
    <2>3. ThreadsSound' /\ \A o \in Configs : Out(o)' = Out(o)
      BY <1>2, <2>1, <2>2, OneThread
    <2> QED
      BY <2>1, <2>3, ConfigsLeft DEF TaskInv, NotCounting
  <1> QED
    BY <1>3, <1>4

\* PerformDownloadTask ends: one thread fewer holds a task, and one task fewer is counted.
LEMMA FinishTasks ==
  ASSUME IInv, TaskInv, NEW t \in Threads, Finish(t)
  PROVE  TaskInv'
  <1> DEFINE k == th[t].task
             r == [th[t] EXCEPT !.pc = "after"]
             c == [sc[k] EXCEPT !.tasks = sc[k].tasks - 1, !.results = sc[k].results + 1]
  <1>1. th[t] \in ThreadType /\ Sound(t, th[t]) /\ th[t].pc = "running"
    BY DEF Finish, IInv, Shape, TaskInv, ThreadsSound
  <1>2. k \in Configs /\ t \in Out(k)
    BY <1>1 DEF Sound, ThreadType, Out, Holds
  <1>3. /\ r.pc = "after" /\ r.task = k /\ r.inUse = th[t].inUse /\ r.sem = th[t].sem
        /\ r.exit = th[t].exit /\ th' = [th EXCEPT ![t] = r]
    BY <1>1 DEF Finish, ThreadType
  <1>4. sc[k] \in ConfigShape /\ Fits(k, sc[k]) /\ Cardinality(Out(k)) = sc[k].tasks
    BY <1>2 DEF IInv, Shape, TaskInv, ConfigsFit, TasksCounted
  <1>5. sc[k].tasks > 0
    <2>1. Cardinality(Out(k)) # 0
      BY <1>2, OutFinite, FS_EmptySet
    <2> QED
      BY <1>4, <2>1 DEF Fits
  <1>6. sc' = [sc EXCEPT ![k] = c]
    BY DEF Finish, Completed
  <1>7. /\ c.pc = sc[k].pc /\ c.work = sc[k].work /\ c.tasks = sc[k].tasks - 1
        /\ c.results = sc[k].results + 1
    BY <1>4 DEF ConfigShape
  <1> HIDE DEF k, r, c
  <1>8. Fits(k, c)
    <2>1. sc[k].work \in Nat /\ sc[k].tasks \in Nat /\ sc[k].results \in Nat /\ MaxWork(k) \in Nat
      BY <1>4, PoolConstants DEF Fits, MaxWork
    <2> QED
      BY <1>4, <1>5, <1>7, <2>1 DEF Fits
  <1>9. \A o \in Configs : sc'[o] = IF o = k THEN c ELSE sc[o]
    BY <1>6 DEF IInv, Shape
  <1>10. \A u \in Threads : th'[u] = IF u = t THEN r ELSE th[u]
    BY <1>3 DEF IInv, Shape
  <1>11. ThreadsSound'
    <2> SUFFICES ASSUME NEW u \in Threads PROVE Sound(u, th'[u])
      BY DEF ThreadsSound, Sound
    <2>1. Sound(u, th[u])
      BY DEF TaskInv, ThreadsSound
    <2>2. Sound(t, r)
      BY <1>1, <1>3 DEF Sound, k
    <2> QED
      BY <1>10, <2>1, <2>2
  <1>12. ConfigsFit'
    <2> SUFFICES ASSUME NEW o \in Configs PROVE Fits(o, sc'[o])
      BY DEF ConfigsFit, Fits
    <2>1. Fits(o, sc[o])
      BY DEF TaskInv, ConfigsFit
    <2> QED
      BY <1>8, <1>9, <2>1
  <1>13. ASSUME NEW o \in Configs PROVE Cardinality(Out(o)') = sc'[o].tasks
    <2>1. CASE o = k
      <3>1. Out(o)' = Out(k) \ {t}
        BY <1>1, <1>3, <1>10, <2>1 DEF Out, Holds
      <3>2. Cardinality(Out(o)') = sc[k].tasks - 1
        BY <1>2, <1>4, <3>1, OutFinite, FS_RemoveElement
      <3> QED
        BY <1>7, <1>9, <2>1, <3>2
    <2>2. CASE o # k
      <3>1. Out(o)' = Out(o)
        BY <1>1, <1>3, <1>10, <2>2 DEF Out, Holds, k
      <3> QED
        BY <1>9, <2>2, <3>1 DEF TaskInv, TasksCounted
    <2> QED
      BY <2>1, <2>2
  <1> QED
    BY <1>11, <1>12, <1>13 DEF TaskInv, TasksCounted, NotCounting, Finish, poolUnch

\* Every step of a pool thread keeps the count.
LEMMA ThreadTasks ==
  ASSUME IInv, TaskInv, NEW t \in Threads, Thread(t)
  PROVE  TaskInv'
  <1>0. th[t] \in ThreadType /\ Sound(t, th[t])
    BY DEF IInv, Shape, TaskInv, ThreadsSound
  <1>1. CASE Begin(t)
    <2>1. CASE Leaving(t)
      BY <1>1, <2>1, ExitTasks DEF Begin
    <2>2. CASE ~Leaving(t)
      <3> DEFINE r == [th[t] EXCEPT !.pc = "waiting"]
      <3>1. /\ r.pc = "waiting" /\ r.task = th[t].task /\ r.inUse = th[t].inUse
            /\ r.sem = th[t].sem /\ r.exit = th[t].exit
            /\ th[t].pc = "new" /\ th' = [th EXCEPT ![t] = r]
        BY <1>0, <1>1, <2>2 DEF Begin, ThreadType
      <3> HIDE DEF r
      <3>2. Sound(t, r) /\ \A o \in Configs : Holds(r, o) <=> Holds(th[t], o)
        BY <1>0, <3>1 DEF Sound, Holds
      <3>3. ThreadsSound' /\ \A o \in Configs : Out(o)' = Out(o)
        BY <3>1, <3>2, OneThread
      <3> QED
        BY <1>1, <2>2, <3>3, ConfigsLeft DEF Begin, TaskInv, NotCounting
    <2> QED
      BY <2>1, <2>2
  <1>2. CASE Start(t)
    <2> DEFINE p == IF th[t].task = None THEN "after" ELSE "running"
               r == [th[t] EXCEPT !.sem = 0, !.pc = p]
    <2>1. /\ r.pc = p /\ r.task = th[t].task /\ r.inUse = th[t].inUse
          /\ r.sem = 0 /\ r.exit = th[t].exit
          /\ th[t].pc = "waiting" /\ th[t].sem = 1 /\ th' = [th EXCEPT ![t] = r]
      BY <1>0, <1>2 DEF Start, ThreadType
    <2> HIDE DEF r
    <2>2. Sound(t, r) /\ \A o \in Configs : Holds(r, o) <=> Holds(th[t], o)
      BY <1>0, <2>1, NoneNoConfig DEF Sound, Holds
    <2>3. ThreadsSound' /\ \A o \in Configs : Out(o)' = Out(o)
      BY <2>1, <2>2, OneThread
    <2> QED
      BY <1>2, <2>3, ConfigsLeft DEF Start, poolUnch, TaskInv, NotCounting
  <1>3. CASE Finish(t)
    BY <1>3, FinishTasks
  <1>4. CASE Relock(t)
    <2>1. CASE Leaving(t)
      BY <1>4, <2>1, ExitTasks DEF Relock
    <2>2. CASE ~Leaving(t)
      <3> DEFINE r == [th[t] EXCEPT !.pc = "waiting", !.inUse = FALSE, !.task = None]
      <3>1. /\ r.pc = "waiting" /\ r.task = None /\ r.inUse = FALSE
            /\ r.sem = th[t].sem /\ r.exit = th[t].exit
            /\ th[t].pc = "after" /\ ~th[t].exit /\ th' = [th EXCEPT ![t] = r]
        BY <1>0, <1>4, <2>2 DEF Relock, Leaving, ThreadType
      <3> HIDE DEF r
      <3>2. Sound(t, r) /\ \A o \in Configs : Holds(r, o) <=> Holds(th[t], o)
        BY <1>0, <3>1, NoneNoConfig DEF Sound, Holds
      <3>3. ThreadsSound' /\ \A o \in Configs : Out(o)' = Out(o)
        BY <3>1, <3>2, OneThread
      <3> QED
        BY <1>4, <2>2, <3>3, ConfigsLeft DEF Relock, TaskInv, NotCounting
    <2> QED
      BY <2>1, <2>2
  <1>5. CASE Cleanup(t)
    <2>1. mgr = "deleted" /\ UNCHANGED <<sc, mgr>>
      BY <1>5 DEF Cleanup, IInv, NotYet
    <2>2. \A u \in Threads : th'[u] = NoThread
      BY <1>5 DEF Cleanup
    <2>3. ThreadsSound'
      BY <2>2, FreshSound DEF ThreadsSound, Sound
    <2>4. ASSUME NEW o \in Configs PROVE Out(o)' = Out(o)
      <3>1. Out(o) = {}
        BY <2>1, RestingAlone DEF IInv, NoneLeft, Resting
      <3>2. Out(o)' = {}
        BY <2>2, FreshSound, NoneNoConfig DEF Out, Holds
      <3> QED
        BY <3>1, <3>2
    <2> QED
      BY <2>1, <2>3, <2>4, ConfigsLeft DEF NotCounting
  <1> QED
    BY <1>1, <1>2, <1>3, <1>4, <1>5 DEF Thread

-----------------------------------------------------------------------------
(* The SyncConfigs *)

\* AddTask: the thread that takes the task of o had none, and will find this one.
LEMMA TakerFree ==
  ASSUME IInv, TaskInv, NEW o \in Configs, mgr = "up", NEW t \in Threads, Takes(o, t)
  PROVE  /\ t \in Dedicated => t = o
         /\ th[t].task = None /\ ~th[t].exit /\ th[t].pc \in {"new", "waiting"}
  <1>1. th[t] \in ThreadType /\ Sound(t, th[t])
    BY DEF IInv, Shape, TaskInv, ThreadsSound
  <1>2. Free(t) /\ (t \in Dedicated => t = o)
    BY PoolConstants DEF Takes
  <1>3. th[t].task = None /\ ~th[t].exit /\ th[t].pc \notin {"none", "running", "after"}
    BY <1>1, <1>2 DEF Free, Listed, Sound
  <1>4. th[t].pc \notin {"last", "done"}
    BY DEF IInv, NotYet
  <1> QED
    BY <1>1, <1>2, <1>3, <1>4 DEF ThreadType

\* A task that is accepted is counted, and one thread more holds it.
LEMMA TakeTasks ==
  ASSUME IInv, TaskInv, NEW o \in Configs, Add(o), NEW t \in Threads, Takes(o, t),
         th' = [th EXCEPT ![t].inUse = TRUE, ![t].task = o, ![t].sem = 1],
         sc' = [sc EXCEPT ![o].pc = "free", ![o].work = @ - 1, ![o].tasks = @ + 1]
  PROVE  TaskInv'
  <1> DEFINE q == [th[t] EXCEPT !.inUse = TRUE, !.task = o, !.sem = 1]
             r == [sc[o] EXCEPT !.pc = "free", !.work = sc[o].work - 1, !.tasks = sc[o].tasks + 1]
  <1>1. /\ th[t] \in ThreadType /\ sc[o] \in ConfigShape /\ sc[o].pc = "add" /\ Fits(o, sc[o])
        /\ Cardinality(Out(o)) = sc[o].tasks
    BY DEF Add, IInv, Shape, TaskInv, ConfigsFit, TasksCounted
  <1>2. mgr = "up" /\ UNCHANGED <<mgr, refCount>>
    BY <1>1 DEF Add, poolUnch, IInv, NoneLeft
  <1>3. /\ t \in Dedicated => t = o
        /\ th[t].task = None /\ ~th[t].exit /\ th[t].pc \in {"new", "waiting"}
    BY <1>2, TakerFree
  <1>4. /\ q.inUse = TRUE /\ q.task = o /\ q.sem = 1 /\ q.pc = th[t].pc /\ q.exit = th[t].exit
        /\ th' = [th EXCEPT ![t] = q]
    BY <1>1 DEF ThreadType
  <1>5. /\ r.pc = "free" /\ r.work = sc[o].work - 1 /\ r.tasks = sc[o].tasks + 1
        /\ r.results = sc[o].results /\ sc' = [sc EXCEPT ![o] = r]
    BY <1>1 DEF ConfigShape
  <1> HIDE DEF q, r
  <1>6. Sound(t, q)
    BY <1>3, <1>4 DEF Sound
  <1>7. Fits(o, r)
    <2>1. sc[o].work \in Nat /\ sc[o].tasks \in Nat /\ sc[o].results \in Nat /\ MaxWork(o) \in Nat
      BY <1>1, PoolConstants DEF Fits, MaxWork
    <2> QED
      BY <1>1, <1>5, <2>1 DEF Fits, Resting
  <1>8. \A u \in Threads : th'[u] = IF u = t THEN q ELSE th[u]
    BY <1>4 DEF IInv, Shape
  <1>9. \A c \in Configs : sc'[c] = IF c = o THEN r ELSE sc[c]
    BY <1>5 DEF IInv, Shape
  <1>10. ThreadsSound'
    <2> SUFFICES ASSUME NEW u \in Threads PROVE Sound(u, th'[u])
      BY DEF ThreadsSound, Sound
    <2>1. Sound(u, th[u])
      BY DEF TaskInv, ThreadsSound
    <2> QED
      BY <1>6, <1>8, <2>1
  <1>11. ConfigsFit'
    <2> SUFFICES ASSUME NEW c \in Configs PROVE Fits(c, sc'[c])
      BY DEF ConfigsFit, Fits
    <2>1. Fits(c, sc[c])
      BY DEF TaskInv, ConfigsFit
    <2> QED
      BY <1>7, <1>9, <2>1
  <1>12. ASSUME NEW c \in Configs PROVE Cardinality(Out(c)') = sc'[c].tasks
    <2>1. t \notin Out(c)
      BY <1>3, NoneNoConfig DEF Out, Holds
    <2>2. CASE c = o
      <3>1. Out(c)' = Out(o) \cup {t}
        BY <1>3, <1>4, <1>8, <2>2 DEF Out, Holds
      <3>2. Cardinality(Out(c)') = sc[o].tasks + 1
        BY <1>1, <2>1, <2>2, <3>1, OutFinite, FS_AddElement
      <3> QED
        BY <1>5, <1>9, <2>2, <3>2
    <2>3. CASE c # o
      <3>1. Out(c)' = Out(c)
        BY <1>4, <1>8, <2>1, <2>3 DEF Out, Holds
      <3> QED
        BY <1>9, <2>3, <3>1 DEF TaskInv, TasksCounted
    <2> QED
      BY <2>2, <2>3
  <1> QED
    BY <1>2, <1>10, <1>11, <1>12 DEF TaskInv, TasksCounted, NotCounting

\* A SyncConfig goes from one place to another with what it counts, and the threads stay.
LEMMA PlaceTasks ==
  ASSUME IInv, TaskInv, NEW o \in Configs, NEW p \in Places, sc' = [sc EXCEPT ![o].pc = p],
         p \in Resting => sc[o].tasks = 0 /\ sc[o].results = 0,
         p # "add",
         UNCHANGED <<th, mgr, refCount>>
  PROVE  TaskInv'
  <1> DEFINE r == [sc[o] EXCEPT !.pc = p]
  <1>1. sc[o] \in ConfigShape /\ Fits(o, sc[o])
    BY DEF IInv, Shape, TaskInv, ConfigsFit
  <1>2. /\ r.pc = p /\ r.work = sc[o].work /\ r.tasks = sc[o].tasks /\ r.results = sc[o].results
        /\ sc' = [sc EXCEPT ![o] = r]
    BY <1>1 DEF ConfigShape
  <1> HIDE DEF r
  <1>3. Fits(o, r)
    BY <1>1, <1>2 DEF Fits
  <1> QED
    BY <1>2, <1>3, ThreadsLeft, OneConfig

\* The worker's steps between two tasks.
LEMMA WorkerTasks ==
  ASSUME IInv, TaskInv, NEW o \in Configs,
         CheckFree(o) \/ Decide(o) \/ Wake(o) \/ Handle(o) \/ EndFunction(o) \/ WorkerEnds(o)
  PROVE  TaskInv'
  <1>0. /\ sc[o] \in ConfigShape /\ Fits(o, sc[o]) /\ UNCHANGED <<th, mgr, refCount>>
        /\ sc[o].work \in Nat /\ sc[o].tasks \in Nat /\ sc[o].results \in Nat /\ MaxWork(o) \in Nat
    BY PoolConstants
       DEF IInv, Shape, TaskInv, ConfigsFit, Fits, MaxWork, CheckFree, Decide, Wake, Handle,
           EndFunction, WorkerEnds, poolUnch
  <1>1. ASSUME NEW p \in Places \ {"add"}, p \notin Resting, NEW b \in BOOLEAN,
               sc' = [sc EXCEPT ![o].pc = p, ![o].free = b]
        PROVE  TaskInv'
    <2> DEFINE r == [sc[o] EXCEPT !.pc = p, !.free = b]
    <2>1. /\ r.pc = p /\ r.work = sc[o].work /\ r.tasks = sc[o].tasks
          /\ r.results = sc[o].results /\ sc' = [sc EXCEPT ![o] = r]
      BY <1>0, <1>1 DEF ConfigShape
    <2> HIDE DEF r
    <2>2. Fits(o, r)
      BY <1>0, <1>1, <2>1 DEF Fits
    <2> QED
      BY <1>0, <2>1, <2>2, ThreadsLeft, OneConfig
  <1>2. ASSUME NEW p \in {"handle", "end", "add", "decide"}, NEW n \in 0 .. sc[o].results,
               Go(o, p, n), p = "add" => sc[o].work > 0
        PROVE  TaskInv'
    <2> DEFINE k == IF p = "end" THEN 0 ELSE sc[o].work
               r == [sc[o] EXCEPT !.pc = p, !.results = n,
                                  !.free = @ /\ p \in {"handle", "decide"}, !.work = k]
    <2>1. sc' = [sc EXCEPT ![o] = r]
      BY <1>0, <1>2 DEF Go, IInv, Shape
    <2>2. r.pc = p /\ r.work = k /\ r.tasks = sc[o].tasks /\ r.results = n
      BY <1>0 DEF ConfigShape
    <2>3. k \in Nat /\ k <= sc[o].work /\ (p = "add" => k > 0)
      BY <1>0, <1>2
    <2> HIDE DEF k, r
    <2>4. Fits(o, r)
      BY <1>0, <2>2, <2>3 DEF Fits, Resting
    <2> QED
      BY <1>0, <2>1, <2>2, <2>4, ThreadsLeft, OneConfig
  <1>3. CASE CheckFree(o)
    <2>1. HasFreeThread(o) \in BOOLEAN
      BY DEF HasFreeThread
    <2> QED
      BY <1>1, <1>3, <2>1 DEF CheckFree, Places, Resting
  <1>4. CASE Decide(o)
    <2>1. HasFreeThread(o) \in BOOLEAN
      BY DEF HasFreeThread
    <2>2. ASSUME NEW p \in {"waiting", "handle"}, sc' = [sc EXCEPT ![o].pc = p] PROVE TaskInv'
      BY <1>0, <2>2, PlaceTasks DEF Places, Resting
    <2>3. ASSUME NEW p \in {"waiting", "handle"}, NEW b \in BOOLEAN,
                 sc' = [sc EXCEPT ![o].pc = p, ![o].free = b]
          PROVE  TaskInv'
      BY <1>1, <2>3 DEF Places, Resting
    <2> QED
      BY <1>4, <2>1, <2>2, <2>3 DEF Decide
  <1>5. CASE Wake(o)
    <2>1. PICK p \in {"woken", "end"} : sc' = [sc EXCEPT ![o].pc = p]
      BY <1>5 DEF Wake, Step
    <2> QED
      BY <1>0, <2>1, PlaceTasks DEF Places, Resting
  <1>6. CASE Handle(o)
    <2>1. CASE sc[o].results > 0
      <3>1. PICK p \in {"handle", "end"} : Go(o, p, sc[o].results - 1)
        BY <1>6, <2>1 DEF Handle
      <3>2. sc[o].results - 1 \in 0 .. sc[o].results
        BY <1>0, <2>1
      <3> QED
        BY <1>2, <3>1, <3>2
    <2>2. CASE sc[o].results = 0
      <3>1. PICK p \in {"end", "add", "decide"} : Go(o, p, 0) /\ (p = "add" => sc[o].work # 0)
        BY <1>6, <2>2 DEF Handle
      <3>2. 0 \in 0 .. sc[o].results
        BY <1>0
      <3> QED
        BY <1>0, <1>2, <3>1, <3>2
    <2> QED
      BY <1>0, <2>1, <2>2
  <1>7. CASE EndFunction(o)
    <2>1. CASE AllHandled(o)
      BY <1>0, <1>7, <2>1, PlaceTasks DEF EndFunction, AllHandled, Places
    <2>2. CASE ~AllHandled(o) /\ sc[o].results = 0
      BY <1>0, <1>7, <2>2, PlaceTasks DEF EndFunction, Places, Resting
    <2>3. CASE ~AllHandled(o) /\ sc[o].results # 0
      <3> DEFINE r == [sc[o] EXCEPT !.results = sc[o].results - 1]
      <3>1. /\ r.pc = "end" /\ r.work = sc[o].work /\ r.tasks = sc[o].tasks
            /\ r.results = sc[o].results - 1 /\ sc' = [sc EXCEPT ![o] = r]
        BY <1>0, <1>7, <2>3 DEF EndFunction, ConfigShape
      <3> HIDE DEF r
      <3>2. Fits(o, r)
        BY <1>0, <2>3, <3>1 DEF Fits, Resting
      <3> QED
        BY <1>0, <3>1, <3>2, ThreadsLeft, OneConfig
    <2> QED
      BY <2>1, <2>2, <2>3
  <1>8. CASE WorkerEnds(o)
    <2>1. sc' = [sc EXCEPT ![o].pc = "ended"] /\ sc[o].tasks = 0 /\ sc[o].results = 0
      BY <1>0, <1>8 DEF WorkerEnds, Step, Fits, Resting
    <2> QED
      BY <1>0, <2>1, PlaceTasks DEF Places
  <1> QED
    BY <1>3, <1>4, <1>5, <1>6, <1>7, <1>8

\* Those who pause, resume or close a SyncConfig, and a scan.
LEMMA OthersTasks ==
  ASSUME IInv, TaskInv, NEW o \in Configs, Resume(o) \/ Pause(o) \/ RequestClose(o) \/ Scan(o)
  PROVE  TaskInv'
  <1>0. /\ sc[o] \in ConfigShape /\ Fits(o, sc[o]) /\ UNCHANGED <<th, mgr, refCount>>
        /\ MaxWork(o) \in Nat
    BY PoolConstants
       DEF IInv, Shape, TaskInv, ConfigsFit, MaxWork, Resume, Pause, RequestClose, Scan, poolUnch
  <1>1. ASSUME NEW stop \in BOOLEAN, NEW allowed \in BOOLEAN,
               sc' = [sc EXCEPT ![o] = [sc[o] EXCEPT !.stop = stop, !.allowed = allowed]]
        PROVE  TaskInv'
    <2> DEFINE r == [sc[o] EXCEPT !.stop = stop, !.allowed = allowed]
    <2>1. /\ r.pc = sc[o].pc /\ r.work = sc[o].work /\ r.tasks = sc[o].tasks
          /\ r.results = sc[o].results /\ sc' = [sc EXCEPT ![o] = r]
      BY <1>0, <1>1 DEF ConfigShape
    <2> HIDE DEF r
    <2>2. Fits(o, r)
      BY <1>0, <2>1 DEF Fits
    <2> QED
      BY <1>0, <2>1, <2>2, ThreadsLeft, OneConfig
  <1>2. sc[o].stop \in BOOLEAN /\ sc[o].allowed \in BOOLEAN
    BY <1>0 DEF ConfigShape
  <1>3. CASE Resume(o) \/ Pause(o)
    <2>1. PICK b \in BOOLEAN : sc' = [sc EXCEPT ![o].allowed = b]
      BY <1>3 DEF Resume, Pause
    <2>2. sc' = [sc EXCEPT ![o] = [sc[o] EXCEPT !.stop = sc[o].stop, !.allowed = b]]
      BY <1>0, <2>1 DEF ConfigShape, IInv, Shape
    <2> QED
      BY <1>1, <1>2, <2>2
  <1>4. CASE RequestClose(o)
    <2>1. sc' = [sc EXCEPT ![o] = [sc[o] EXCEPT !.stop = TRUE, !.allowed = sc[o].allowed]]
      BY <1>0, <1>4 DEF RequestClose, ConfigShape, IInv, Shape
    <2> QED
      BY <1>1, <1>2, <2>1
  <1>5. CASE Scan(o)
    <2>1. PICK n \in 1 .. MaxWork(o) : sc' = [sc EXCEPT ![o].pc = "add", ![o].work = n]
      BY <1>5 DEF Scan
    <2>2. sc[o].tasks = 0 /\ sc[o].results = 0
      BY <1>0, <1>5 DEF Scan, Fits, Resting
    <2> DEFINE r == [sc[o] EXCEPT !.pc = "add", !.work = n]
    <2>3. /\ r.pc = "add" /\ r.work = n /\ r.tasks = 0 /\ r.results = 0
          /\ sc' = [sc EXCEPT ![o] = r]
      BY <1>0, <2>1, <2>2 DEF ConfigShape
    <2> HIDE DEF r
    <2>4. Fits(o, r)
      BY <1>0, <2>3 DEF Fits, Resting
    <2> QED
      BY <1>0, <2>2, <2>3, <2>4, ThreadsLeft, OneConfig
  <1> QED
    BY <1>3, <1>4, <1>5

\* A SyncConfig begins with a thread that is new, and ends when it holds nothing.
LEMMA LifeTasks ==
  ASSUME IInv, TaskInv, NEW o \in Configs, Open(o) \/ Add(o) \/ Unregister(o) \/ Delete(o)
  PROVE  TaskInv'
  <1>0. /\ sc[o] \in ConfigShape /\ Fits(o, sc[o]) /\ UNCHANGED <<mgr, refCount>>
    BY DEF IInv, Shape, TaskInv, ConfigsFit, Open, Add, Unregister, Delete, poolUnch
  \* o goes to a place where it counts nothing, as before; only the thread named o may change.
  <1>1. ASSUME sc[o].pc \in Resting, NEW p \in Resting, sc' = [sc EXCEPT ![o].pc = p],
               ThreadsSound', \A c \in Configs : Out(c)' = Out(c)
        PROVE  TaskInv'
    <2> DEFINE r == [sc[o] EXCEPT !.pc = p]
    <2>1. /\ r.pc = p /\ r.work = sc[o].work /\ r.tasks = sc[o].tasks
          /\ r.results = sc[o].results /\ sc' = [sc EXCEPT ![o] = r]
      BY <1>0, <1>1 DEF ConfigShape
    <2> HIDE DEF r
    <2>2. Fits(o, r)
      BY <1>0, <1>1, <2>1 DEF Fits, Resting
    <2> QED
      BY <1>0, <1>1, <2>1, <2>2, OneConfig
  <1>2. CASE Open(o)
    <2>1. sc[o].pc \in Resting
      BY <1>2 DEF Open, Resting
    <2>2. PICK p \in {"idle", "ended"} : sc' = [sc EXCEPT ![o].pc = p]
      BY <1>2 DEF Open
    <2>3. ThreadsSound' /\ \A c \in Configs : Out(c)' = Out(c)
      <3>1. CASE UNCHANGED th
        BY <3>1, ThreadsLeft
      <3>2. CASE o \in Dedicated /\ ~Listed(o) /\ th' = [th EXCEPT ![o] = NewThread]
        <4>1. \A c \in Configs : ~Holds(NewThread, c) /\ ~Holds(th[o], c)
          BY <3>2, NoneNoConfig, FreshSound, DedicatedThread DEF Holds, Listed
        <4> QED
          BY <3>2, <4>1, FreshSound, DedicatedThread, OneThread
      <3> QED
        BY <1>2, <3>1, <3>2 DEF Open
    <2> QED
      BY <1>1, <2>1, <2>2, <2>3 DEF Resting
  <1>3. CASE Add(o)
    <2>1. CASE sc' = [sc EXCEPT ![o].pc = "free"] /\ UNCHANGED th
      BY <1>0, <2>1, PlaceTasks DEF Places, Resting
    <2> QED
      BY <1>3, <2>1, TakeTasks DEF Add
  <1>4. CASE Unregister(o)
    <2>1. sc[o].pc = "ended" /\ sc' = [sc EXCEPT ![o].pc = "unregistered"]
      BY <1>4 DEF Unregister, Step
    <2>2. ThreadsSound' /\ \A c \in Configs : Out(c)' = Out(c)
      <3>1. CASE UNCHANGED th
        BY <3>1, ThreadsLeft
      <3>2. CASE o \in Dedicated /\ th' = [th EXCEPT ![o].exit = TRUE, ![o].sem = 1]
        <4> DEFINE q == [th[o] EXCEPT !.exit = TRUE, !.sem = 1]
        <4>1. o \in Threads /\ th[o] \in ThreadType /\ Sound(o, th[o])
          BY <3>2, DedicatedThread DEF IInv, Shape, TaskInv, ThreadsSound
        <4>2. /\ q.pc = th[o].pc /\ q.task = th[o].task /\ q.inUse = th[o].inUse
              /\ q.exit = TRUE /\ q.sem = 1 /\ th' = [th EXCEPT ![o] = q]
          BY <3>2, <4>1 DEF ThreadType
        <4> HIDE DEF q
        <4>3. th[o].pc \in {"new", "waiting", "running"} => th[o].task = None
          <5>1. o \notin Out(o)
            BY <2>1, RestingAlone DEF Resting
          <5> QED
            BY <3>2, <4>1, <5>1 DEF Out, Holds, Sound
        <4>4. Sound(o, q)
          BY <4>1, <4>2, <4>3 DEF Sound
        <4>5. \A c \in Configs : Holds(q, c) <=> Holds(th[o], c)
          BY <4>2 DEF Holds
        <4> QED
          BY <4>1, <4>2, <4>4, <4>5, OneThread
      <3> QED
        BY <1>4, <3>1, <3>2 DEF Unregister
    <2> QED
      BY <1>1, <2>1, <2>2 DEF Resting
  <1>5. CASE Delete(o)
    <2>1. sc[o].tasks = 0 /\ UNCHANGED th /\ sc' = [sc EXCEPT ![o] = NoConfig]
      BY <1>0, <1>5 DEF Delete, Fits, Resting
    <2> QED
      BY <1>0, <2>1, NoConfigFits, ThreadsLeft, OneConfig
  <1> QED
    BY <1>2, <1>3, <1>4, <1>5

-----------------------------------------------------------------------------
(* SyncFeatureMgr_Stop *)

\* The threads are told to exit, or left, when none of them has a task to do.
LEMMA StopTasks ==
  ASSUME IInv, TaskInv, Shutdown \/ Destroy
  PROVE  TaskInv'
  <1>1. \A o \in Configs : sc[o].pc = "off"
    BY DEF Shutdown, Destroy, IInv, NoneLeft
  <1>2. ASSUME NEW t \in Threads
        PROVE  /\ Sound(t, th'[t]) /\ th'[t].task = th[t].task /\ th'[t].pc = th[t].pc
    <2>1. th[t] \in ThreadType /\ Sound(t, th[t])
      BY DEF IInv, Shape, TaskInv, ThreadsSound
    <2>2. th[t].pc \in {"new", "waiting", "running"} => th[t].task = None
      <3>1. \A o \in Configs : t \notin Out(o)
        BY <1>1, RestingAlone DEF Resting
      <3> QED
        BY <2>1, <3>1 DEF Out, Holds, ThreadType
    <2>3. CASE th'[t] = th[t]
      BY <2>1, <2>3
    <2>4. CASE th'[t] = [th[t] EXCEPT !.exit = TRUE, !.sem = 1]
      <3>1. /\ th'[t].pc = th[t].pc /\ th'[t].task = th[t].task /\ th'[t].inUse = th[t].inUse
            /\ th'[t].exit = TRUE /\ th'[t].sem = 1
        BY <2>1, <2>4 DEF ThreadType
      <3> QED
        BY <2>1, <2>2, <3>1 DEF Sound
    <2>5. CASE th'[t] = [th[t] EXCEPT !.orphan = TRUE]
      <3>1. /\ th'[t].pc = th[t].pc /\ th'[t].task = th[t].task /\ th'[t].inUse = th[t].inUse
            /\ th'[t].exit = th[t].exit /\ th'[t].sem = th[t].sem
        BY <2>1, <2>5 DEF ThreadType
      <3> QED
        BY <2>1, <3>1 DEF Sound
    <2> QED
      BY <2>3, <2>4, <2>5 DEF Shutdown, Destroy
  <1>3. ThreadsSound'
    BY <1>2 DEF ThreadsSound, Sound
  <1>4. \A o \in Configs : Out(o)' = Out(o)
    BY <1>2 DEF Out, Holds
  <1>5. NotCounting' /\ UNCHANGED sc
    BY DEF Shutdown, Destroy, TaskInv, NotCounting
  <1> QED
    BY <1>3, <1>4, <1>5, ConfigsLeft

-----------------------------------------------------------------------------
\* Every step of the system keeps the count of the tasks.
LEMMA NextTasks == IInv /\ TaskInv /\ [Next]_vars => TaskInv'
  <1> SUFFICES ASSUME IInv, TaskInv, [Next]_vars PROVE TaskInv'
    OBVIOUS
  <1>1. CASE UNCHANGED vars
    BY <1>1, ThreadsLeft, ConfigsLeft DEF vars, TaskInv, NotCounting
  <1>2. ASSUME NEW o \in Configs, Config(o) PROVE TaskInv'
    BY <1>2, WorkerTasks, LifeTasks DEF Config
  <1> QED
    BY <1>1, <1>2, ThreadTasks, LifeTasks, OthersTasks, StopTasks DEF Next

\* The tasks a SyncConfig counts are those the threads of the pool hold, one each.
THEOREM TaskInvariance == Spec => []TaskInv
  BY InitTaskInv, NextTasks, Invariance, PTL DEF Spec

\* Every variable keeps its type, and no SyncConfig has more tasks and results out than files
\* were found.
THEOREM TypeCorrect == Spec => []TypeOK
  <1>1. IInv /\ TaskInv => TypeOK
    <2> SUFFICES ASSUME IInv, TaskInv PROVE TypeOK
      OBVIOUS
    <2>1. ASSUME NEW o \in Configs
          PROVE  sc[o] \in ConfigType(o) /\ sc[o].work + sc[o].tasks + sc[o].results <= MaxWork(o)
      <3>1. sc[o] \in ConfigShape /\ Fits(o, sc[o]) /\ MaxWork(o) \in Nat
        BY PoolConstants DEF IInv, Shape, TaskInv, ConfigsFit, MaxWork
      <3>2. /\ sc[o].work \in 0 .. MaxWork(o) /\ sc[o].tasks \in 0 .. MaxWork(o)
            /\ sc[o].results \in 0 .. MaxWork(o)
        BY <3>1 DEF Fits
      <3>3. sc[o] \in ConfigType(o)
        BY <3>1, <3>2 DEF ConfigShape, ConfigType, Places
      <3> QED
        BY <3>1, <3>3 DEF Fits
    <2>2. refCount \in 0 .. Cardinality(Threads)
      <3>1. Cardinality(Threads) \in Nat /\ Cardinality(Going) \in Nat
        BY ThreadsFinite, GoingFinite, FS_CardinalityType
      <3>2. Cardinality(Going) <= Cardinality(Threads)
        BY ThreadsFinite, FS_Subset DEF Going
      <3> QED
        BY <3>1, <3>2 DEF IInv, Counted, TaskInv, NotCounting
    <2>3. reg \subseteq Configs
      BY DedicatedThread DEF IInv, RegisteredAlive
    <2> QED
      BY <2>1, <2>2, <2>3 DEF TypeOK, IInv, Shape
  <1> QED
    BY <1>1, Invariance, TaskInvariance, PTL

\* threadRoutine, "Tasks, once accepted, can never be skipped": each task a SyncConfig counts is
\* with one thread, which performs it or will find it and has not been told to exit.
THEOREM TasksKept == Spec => []AcceptedKept
  <1>1. IInv /\ TaskInv => AcceptedKept
    <2> SUFFICES ASSUME IInv, TaskInv, NEW o \in Configs
                 PROVE  /\ Cardinality(Out(o)) = sc[o].tasks
                        /\ \A t \in Out(o) : th[t].pc = "running" \/ (th[t].sem = 1 /\ ~th[t].exit)
      BY DEF AcceptedKept, Out, Holds
    <2>1. Cardinality(Out(o)) = sc[o].tasks
      BY DEF TaskInv, TasksCounted
    <2>2. ASSUME NEW t \in Out(o)
          PROVE  th[t].pc = "running" \/ (th[t].sem = 1 /\ ~th[t].exit)
      BY NoneNoConfig DEF Out, Holds, TaskInv, ThreadsSound, Sound
    <2> QED
      BY <2>1, <2>2
  <1> QED
    BY <1>1, Invariance, TaskInvariance, PTL

\* ApplyDownloadChangeLog: a task that is performed uses the stack of a worker that is still
\* there.
THEOREM TasksUseTheLiving == Spec => []TasksInScope
  <1>1. IInv /\ TaskInv => TasksInScope
    <2> SUFFICES ASSUME IInv, TaskInv, NEW t \in Threads, th[t].pc = "running"
                 PROVE  sc[th[t].task].pc \notin Resting
      BY DEF TasksInScope, Resting
    <2>1. th[t].task \in Configs
      BY DEF IInv, Shape, ThreadType, TaskInv, ThreadsSound, Sound
    <2>2. t \in Out(th[t].task)
      BY DEF Out, Holds
    <2> QED
      BY <2>1, <2>2, RestingAlone
  <1> QED
    BY <1>1, Invariance, TaskInvariance, PTL
=============================================================================
