----------------------------- MODULE PoolProofs -----------------------------
(***************************************************************************)
(* Proofs about the pool of tunnels, for any number of threads, tunnels    *)
(* and tries.                                                              *)
(*                                                                         *)
(* The inductive invariant adds to the properties of PoolProps what makes  *)
(* them inductive: which tunnels Stop may hold references on, that the     *)
(* tunnel of a TS_Open is nobody else's before VtunnelAdd, and where the   *)
(* tunnels that are in use can still be found.                             *)
(***************************************************************************)
EXTENDS PoolProps, FiniteSetTheorems, TLAPS

\* Stop keeps a reference on the tunnel it forces to close, and on the busy ones; it has none
\* on the others that are mapped, and none on a tunnel that does not exist.
StopReferences ==
    /\ stopPc = "forcing" => stopAt \in stopRefs /\ stopAt \notin busyTunnels
    /\ busyTunnels \subseteq stopRefs
    /\ \A v \in vtunnelMap \cap stopRefs : stopPc = "forcing" /\ v = stopAt
    /\ \A v \in stopRefs : object[v] # "none"

\* The caller of TS_Open that has not come to VtunnelAdd.
Fresh(t) == pc[t] = "entered" /\ call[t] = "open"

\* The tunnel it has made is not mapped, not used, and not that of another such caller.
FreshIsOwn ==
    \A t \in Threads : Fresh(t) =>
        /\ object[at[t]] = "alive"
        /\ at[t] \notin vtunnelMap /\ at[t] \notin stopRefs
        /\ \A u \in Threads : pc[u] = "using" => at[u] # at[t]
        /\ \A u \in Threads : Fresh(u) /\ at[u] = at[t] => u = t

\* Stop is through its loop: the map is empty and stays so.
LoopOver == stopPc \in {"await", "nap", "network", "return", "done"}
MapStaysEmpty ==
    /\ state = "STARTED" <=> stopPc \in {"idle", "begin"}
    /\ LoopOver => vtunnelMap = {}

\* Stop is through its list of busy tunnels.
Counted == stopPc \in {"network", "return", "done"}

\* Every tunnel in use is in the map, in the list of Stop, or was given up.
UsersAccounted ==
    \A t \in Threads : pc[t] = "using" =>
        IF Counted THEN stuck \/ at[t] \in gaveUp
        ELSE at[t] \in vtunnelMap \cup busyTunnels \cup gaveUp

IInv ==
    /\ TypeOK
    /\ RefCountIsHolders
    /\ NoDanglingEntry
    /\ NoUseAfterDelete
    /\ StopReferences
    /\ FreshIsOwn
    /\ MapStaysEmpty
    /\ UsersAccounted

-----------------------------------------------------------------------------
(* The number of the threads that use a tunnel *)

\* The threads in a tunnel are finitely many.
LEMMA UsersFinite == \A v \in Tunnels : IsFiniteSet(Users(v)) /\ Cardinality(Users(v)) \in Nat
<1> SUFFICES ASSUME NEW v \in Tunnels
             PROVE  IsFiniteSet(Users(v)) /\ Cardinality(Users(v)) \in Nat
  OBVIOUS
<1>1. IsFiniteSet(Threads)
  BY ThreadsAssumption, FS_Union DEF Threads
<1>2. Users(v) \subseteq Threads
  BY DEF Users
<1> QED  BY <1>1, <1>2, FS_Subset, FS_CardinalityType

\* A thread that is in the tunnel: the count is positive.
LEMMA InUse ==
    ASSUME NEW v \in Tunnels, NEW t \in Threads, pc[t] = "using", at[t] = v
    PROVE  Cardinality(Users(v)) > 0
<1>1. t \in Users(v)
  BY DEF Users
<1>2. Users(v) # {}
  BY <1>1
<1>3. Cardinality(Users(v)) # 0
  BY <1>2, UsersFinite, FS_EmptySet
<1> QED  BY <1>3, UsersFinite

\* VtunnelRemove may delete: with a count of zero nobody holds the pointer.
LEMMA NobodyHolds ==
    ASSUME TypeOK, RefCountIsHolders, NEW v \in Tunnels, refCount[v] = 0
    PROVE  v \notin stopRefs /\ \A t \in Threads : pc[t] = "using" => at[t] # v
  BY UsersFinite, InUse DEF RefCountIsHolders

\* Stop may delete: with a count of one only its own reference is left.
LEMMA OnlyStopHolds ==
    ASSUME TypeOK, RefCountIsHolders, NEW v \in Tunnels, v \in stopRefs, refCount[v] = 1
    PROVE  \A t \in Threads : pc[t] = "using" => at[t] # v
  BY UsersFinite, InUse DEF RefCountIsHolders

\* VtunnelRelease: the count of a tunnel a thread is in is not zero.
LEMMA HolderCounted ==
    ASSUME TypeOK, RefCountIsHolders, NEW t \in Threads, pc[t] = "using"
    PROVE  refCount[at[t]] > 0
  BY UsersFinite, InUse DEF TypeOK, RefCountIsHolders

\* A step of thread t: the others stay where they are.
Alone(t) == \A u \in Threads \ {t} : pc'[u] = pc[u] /\ at'[u] = at[u]

\* A thread that was in no tunnel enters tunnel v.
LEMMA Joining ==
    ASSUME NEW t \in Threads, Alone(t), pc[t] # "using", pc'[t] = "using",
           NEW v \in Tunnels, at'[t] = v
    PROVE  /\ Cardinality(Users(v))' = Cardinality(Users(v)) + 1
           /\ \A w \in Tunnels \ {v} : Users(w)' = Users(w)
<1>1. Users(v)' = Users(v) \cup {t}
  BY DEF Users, Alone
<1>2. t \notin Users(v)
  BY DEF Users
<1>3. \A w \in Tunnels \ {v} : Users(w)' = Users(w)
  BY DEF Users, Alone
<1> QED  BY <1>1, <1>2, <1>3, UsersFinite, FS_AddElement

\* A thread leaves tunnel v.
LEMMA Leaving ==
    ASSUME NEW t \in Threads, Alone(t), pc[t] = "using", pc'[t] # "using",
           NEW v \in Tunnels, at[t] = v
    PROVE  /\ Cardinality(Users(v))' = Cardinality(Users(v)) - 1
           /\ \A w \in Tunnels \ {v} : Users(w)' = Users(w)
<1>1. Users(v)' = Users(v) \ {t}
  BY DEF Users, Alone
<1>2. t \in Users(v)
  BY DEF Users
<1>3. \A w \in Tunnels \ {v} : Users(w)' = Users(w)
  BY DEF Users, Alone
<1> QED  BY <1>1, <1>2, <1>3, UsersFinite, FS_RemoveElement

\* A thread that neither enters nor leaves a tunnel.
LEMMA Staying ==
    ASSUME NEW t \in Threads, Alone(t), pc[t] # "using", pc'[t] # "using"
    PROVE  \A w \in Tunnels : Users(w)' = Users(w)
  BY DEF Users, Alone

\* A step of Stop.
LEMMA NobodyMoves ==
    ASSUME UNCHANGED <<pc, at>>
    PROVE  \A w \in Tunnels : Users(w)' = Users(w)
  BY DEF Users

-----------------------------------------------------------------------------
(* The invariant holds at the start, and every step keeps it *)

\* Nobody holds a pointer before the first call.
LEMMA InitCounts == Init => RefCountIsHolders
<1> SUFFICES ASSUME Init PROVE RefCountIsHolders
  OBVIOUS
<1>1. \A v \in Tunnels : Users(v) = {}
  BY DEF Init, Users
<1> QED  BY <1>1, FS_EmptySet DEF Init, RefCountIsHolders

\* The inductive invariant holds initially.
LEMMA InitInv == Init => IInv
<1> SUFFICES ASSUME Init PROVE IInv
  OBVIOUS
<1>1. Nowhere \in Tunnels
  BY TunnelsAssumption DEF Nowhere
<1>2. TypeOK
  BY <1>1 DEF Init, TypeOK
<1>3. NoDanglingEntry /\ NoUseAfterDelete /\ StopReferences
  BY DEF Init, NoDanglingEntry, NoUseAfterDelete, StopReferences
<1>4. FreshIsOwn /\ MapStaysEmpty /\ UsersAccounted
  BY DEF Init, FreshIsOwn, Fresh, MapStaysEmpty, UsersAccounted
<1> QED  BY <1>2, <1>3, <1>4, InitCounts DEF IInv

\* A step that changes no variable.
LEMMA StutterInv == IInv /\ UNCHANGED vars => IInv'
  BY
  DEF IInv, vars, callVars, stopVars, TypeOK, RefCountIsHolders, Users, NoDanglingEntry,
      NoUseAfterDelete, StopReferences, FreshIsOwn, Fresh, MapStaysEmpty, LoopOver,
      UsersAccounted, Counted

\* Enter keeps the invariant.
LEMMA EnterInv ==
    ASSUME IInv, NEW t \in Threads, NEW v \in Tunnels, NEW c \in {"open", "use", "close"}, Enter(t, c, v)
    PROVE  IInv'
<1> USE DEF IInv
<1>1. TypeOK'
  BY DEF TypeOK, Enter, Goto, stopVars
<1>2. RefCountIsHolders'
  BY Staying DEF RefCountIsHolders, Alone, Enter, Goto, stopVars
<1>3. NoDanglingEntry' /\ NoUseAfterDelete'
  BY DEF NoDanglingEntry, NoUseAfterDelete, Enter, Goto, stopVars
<1>4. StopReferences' /\ FreshIsOwn'
  BY
  DEF TypeOK, NoDanglingEntry, NoUseAfterDelete, StopReferences, FreshIsOwn, Fresh, Enter, Goto,
      stopVars
<1>5. MapStaysEmpty' /\ UsersAccounted'
  BY DEF MapStaysEmpty, LoopOver, UsersAccounted, Counted, Enter, Goto, stopVars
<1> QED  BY <1>1, <1>2, <1>3, <1>4, <1>5

\* Add keeps the invariant.
LEMMA AddInv ==
    ASSUME IInv, NEW t \in Threads, Add(t)
    PROVE  IInv'
<1> USE DEF IInv
<1>1. TypeOK'
  BY DEF TypeOK, Add, Goto, stopVars
<1>2. RefCountIsHolders'
  BY Joining, UsersFinite DEF TypeOK, RefCountIsHolders, Alone, Add, Goto, stopVars
<1>3. NoDanglingEntry' /\ NoUseAfterDelete'
  BY DEF NoDanglingEntry, NoUseAfterDelete, StopReferences, FreshIsOwn, Fresh, Add, Goto, stopVars
<1>4. StopReferences' /\ FreshIsOwn'
  BY DEF TypeOK, StopReferences, FreshIsOwn, Fresh, Add, Goto, stopVars
<1>5. MapStaysEmpty' /\ UsersAccounted'
  BY DEF MapStaysEmpty, LoopOver, UsersAccounted, Counted, Add, Goto, Admits, stopVars
<1> QED  BY <1>1, <1>2, <1>3, <1>4, <1>5

\* AddRefused keeps the invariant.
LEMMA AddRefusedInv ==
    ASSUME IInv, NEW t \in Threads, AddRefused(t)
    PROVE  IInv'
<1> USE DEF IInv
<1>1. TypeOK'
  BY DEF TypeOK, AddRefused, Goto, stopVars
<1>2. RefCountIsHolders'
  BY Staying DEF RefCountIsHolders, Alone, AddRefused, Goto, stopVars
<1>3. NoDanglingEntry' /\ NoUseAfterDelete'
  BY
  DEF NoDanglingEntry, NoUseAfterDelete, StopReferences, FreshIsOwn, Fresh, AddRefused, Goto,
      stopVars
<1>4. StopReferences' /\ FreshIsOwn'
  BY DEF TypeOK, StopReferences, FreshIsOwn, Fresh, AddRefused, Goto, stopVars
<1>5. MapStaysEmpty' /\ UsersAccounted'
  BY DEF MapStaysEmpty, LoopOver, UsersAccounted, Counted, AddRefused, Goto, stopVars
<1> QED  BY <1>1, <1>2, <1>3, <1>4, <1>5

\* Find keeps the invariant.
LEMMA FindInv ==
    ASSUME IInv, NEW t \in Threads, Find(t)
    PROVE  IInv'
<1> USE DEF IInv
<1>1. TypeOK'
  BY DEF TypeOK, Find, Goto, Refer, stopVars
<1>2. RefCountIsHolders'
  BY Joining, UsersFinite DEF TypeOK, RefCountIsHolders, Alone, Find, Goto, Refer, stopVars
<1>3. NoDanglingEntry' /\ NoUseAfterDelete'
  BY DEF NoDanglingEntry, NoUseAfterDelete, Find, Goto, stopVars
<1>4. StopReferences' /\ FreshIsOwn'
  BY DEF StopReferences, FreshIsOwn, Fresh, Find, Goto, stopVars
<1>5. MapStaysEmpty' /\ UsersAccounted'
  BY DEF MapStaysEmpty, LoopOver, UsersAccounted, Counted, Find, Goto, stopVars
<1> QED  BY <1>1, <1>2, <1>3, <1>4, <1>5

\* FindFails keeps the invariant.
LEMMA FindFailsInv ==
    ASSUME IInv, NEW t \in Threads, FindFails(t)
    PROVE  IInv'
<1> USE DEF IInv
<1>1. TypeOK'
  BY DEF TypeOK, FindFails, Goto, stopVars
<1>2. RefCountIsHolders'
  BY Staying DEF RefCountIsHolders, Alone, FindFails, Goto, stopVars
<1>3. NoDanglingEntry' /\ NoUseAfterDelete'
  BY DEF NoDanglingEntry, NoUseAfterDelete, FindFails, Goto, stopVars
<1>4. StopReferences' /\ FreshIsOwn'
  BY DEF StopReferences, FreshIsOwn, Fresh, FindFails, Goto, stopVars
<1>5. MapStaysEmpty' /\ UsersAccounted'
  BY DEF MapStaysEmpty, LoopOver, UsersAccounted, Counted, FindFails, Goto, stopVars
<1> QED  BY <1>1, <1>2, <1>3, <1>4, <1>5

\* Packet keeps the invariant.
LEMMA PacketInv ==
    ASSUME IInv, NEW t \in Threads, NEW v \in Tunnels, Packet(t, v)
    PROVE  IInv'
<1> USE DEF IInv
<1>1. TypeOK'
  BY DEF TypeOK, Packet, Goto, Refer, stopVars
<1>2. RefCountIsHolders'
  BY Joining, UsersFinite DEF TypeOK, RefCountIsHolders, Alone, Packet, Goto, Refer, stopVars
<1>3. NoDanglingEntry' /\ NoUseAfterDelete'
  BY DEF TypeOK, NoDanglingEntry, NoUseAfterDelete, Packet, Goto, stopVars
<1>4. StopReferences' /\ FreshIsOwn'
  BY DEF TypeOK, StopReferences, FreshIsOwn, Fresh, Packet, Goto, stopVars
<1>5. MapStaysEmpty' /\ UsersAccounted'
  BY DEF TypeOK, MapStaysEmpty, LoopOver, UsersAccounted, Counted, Packet, Goto, stopVars
<1> QED  BY <1>1, <1>2, <1>3, <1>4, <1>5

\* Release keeps the invariant.
LEMMA ReleaseInv ==
    ASSUME IInv, NEW t \in Threads, Release(t)
    PROVE  IInv'
<1> USE DEF IInv
<1>1. TypeOK'
  BY HolderCounted DEF TypeOK, Release, Goto, AfterRelease, stopVars
<1>2. RefCountIsHolders'
  BY Leaving, UsersFinite
  DEF TypeOK, RefCountIsHolders, Alone, Release, Goto, AfterRelease, stopVars
<1>3. NoDanglingEntry' /\ NoUseAfterDelete'
  BY DEF NoDanglingEntry, NoUseAfterDelete, Release, Goto, stopVars
<1>4. StopReferences' /\ FreshIsOwn'
  BY DEF StopReferences, FreshIsOwn, Fresh, Release, Goto, AfterRelease, stopVars
<1>5. MapStaysEmpty' /\ UsersAccounted'
  BY DEF MapStaysEmpty, LoopOver, UsersAccounted, Counted, Release, Goto, stopVars
<1> QED  BY <1>1, <1>2, <1>3, <1>4, <1>5

\* RemoveMissing keeps the invariant.
LEMMA RemoveMissingInv ==
    ASSUME IInv, NEW t \in Threads, RemoveMissing(t)
    PROVE  IInv'
<1> USE DEF IInv
<1>1. TypeOK'
  BY DEF TypeOK, RemoveMissing, Goto, stopVars
<1>2. RefCountIsHolders'
  BY Staying DEF RefCountIsHolders, Alone, RemoveMissing, Goto, Removing, stopVars
<1>3. NoDanglingEntry' /\ NoUseAfterDelete'
  BY DEF NoDanglingEntry, NoUseAfterDelete, RemoveMissing, Goto, stopVars
<1>4. StopReferences' /\ FreshIsOwn'
  BY DEF StopReferences, FreshIsOwn, Fresh, RemoveMissing, Goto, stopVars
<1>5. MapStaysEmpty' /\ UsersAccounted'
  BY DEF MapStaysEmpty, LoopOver, UsersAccounted, Counted, RemoveMissing, Goto, stopVars
<1> QED  BY <1>1, <1>2, <1>3, <1>4, <1>5

\* RemoveWait keeps the invariant.
LEMMA RemoveWaitInv ==
    ASSUME IInv, NEW t \in Threads, RemoveWait(t)
    PROVE  IInv'
<1> USE DEF IInv
<1>1. TypeOK'
  BY DEF TypeOK, RemoveWait, Goto, NextTry, stopVars
<1>2. RefCountIsHolders'
  BY Staying DEF RefCountIsHolders, Alone, RemoveWait, Goto, Removing, stopVars
<1>3. NoDanglingEntry' /\ NoUseAfterDelete'
  BY DEF NoDanglingEntry, NoUseAfterDelete, RemoveWait, Goto, stopVars
<1>4. StopReferences' /\ FreshIsOwn'
  BY DEF StopReferences, FreshIsOwn, Fresh, RemoveWait, Goto, stopVars
<1>5. MapStaysEmpty' /\ UsersAccounted'
  BY DEF MapStaysEmpty, LoopOver, UsersAccounted, Counted, RemoveWait, Goto, stopVars
<1> QED  BY <1>1, <1>2, <1>3, <1>4, <1>5

\* RemoveWake keeps the invariant.
LEMMA RemoveWakeInv ==
    ASSUME IInv, NEW t \in Threads, RemoveWake(t)
    PROVE  IInv'
<1> USE DEF IInv
<1>1. TypeOK'
  BY DEF TypeOK, RemoveWake, Goto, stopVars
<1>2. RefCountIsHolders'
  BY Staying DEF RefCountIsHolders, Alone, RemoveWake, Goto, stopVars
<1>3. NoDanglingEntry' /\ NoUseAfterDelete'
  BY DEF NoDanglingEntry, NoUseAfterDelete, RemoveWake, Goto, stopVars
<1>4. StopReferences' /\ FreshIsOwn'
  BY DEF StopReferences, FreshIsOwn, Fresh, RemoveWake, Goto, stopVars
<1>5. MapStaysEmpty' /\ UsersAccounted'
  BY DEF MapStaysEmpty, LoopOver, UsersAccounted, Counted, RemoveWake, Goto, stopVars
<1> QED  BY <1>1, <1>2, <1>3, <1>4, <1>5

\* RemoveGiveUp keeps the invariant.
LEMMA RemoveGiveUpInv ==
    ASSUME IInv, NEW t \in Threads, RemoveGiveUp(t)
    PROVE  IInv'
<1> USE DEF IInv
<1>1. TypeOK'
  BY DEF TypeOK, RemoveGiveUp, Goto, stopVars
<1>2. RefCountIsHolders'
  BY Staying DEF RefCountIsHolders, Alone, RemoveGiveUp, Goto, Removing, stopVars
<1>3. NoDanglingEntry' /\ NoUseAfterDelete'
  BY DEF NoDanglingEntry, NoUseAfterDelete, RemoveGiveUp, Goto, stopVars
<1>4. StopReferences' /\ FreshIsOwn'
  BY DEF StopReferences, FreshIsOwn, Fresh, RemoveGiveUp, Goto, stopVars
<1>5. MapStaysEmpty' /\ UsersAccounted'
  BY DEF MapStaysEmpty, LoopOver, UsersAccounted, Counted, RemoveGiveUp, Goto, stopVars
<1> QED  BY <1>1, <1>2, <1>3, <1>4, <1>5

\* RemoveDelete keeps the invariant.
LEMMA RemoveDeleteInv ==
    ASSUME IInv, NEW t \in Threads, RemoveDelete(t)
    PROVE  IInv'
<1> USE DEF IInv
<1>1. TypeOK'
  BY DEF TypeOK, RemoveDelete, Goto, stopVars
<1>2. RefCountIsHolders'
  BY Staying DEF RefCountIsHolders, Alone, RemoveDelete, Goto, Removing, stopVars
<1>3. NoDanglingEntry' /\ NoUseAfterDelete'
  BY NobodyHolds
  DEF TypeOK, NoDanglingEntry, NoUseAfterDelete, StopReferences, RemoveDelete, Goto, stopVars
<1>4. StopReferences' /\ FreshIsOwn'
  BY DEF StopReferences, FreshIsOwn, Fresh, RemoveDelete, Goto, stopVars
<1>5. MapStaysEmpty' /\ UsersAccounted'
  BY NobodyHolds
  DEF TypeOK, MapStaysEmpty, LoopOver, UsersAccounted, Counted, RemoveDelete, Goto, stopVars
<1> QED  BY <1>1, <1>2, <1>3, <1>4, <1>5

\* ShutdownBegin keeps the invariant.
LEMMA ShutdownBeginInv ==
    ASSUME IInv, ShutdownBegin
    PROVE  IInv'
<1> USE DEF IInv
<1>1. TypeOK'
  BY DEF TypeOK, ShutdownBegin, callVars
<1>2. RefCountIsHolders'
  BY NobodyMoves DEF RefCountIsHolders, ShutdownBegin, callVars
<1>3. NoDanglingEntry' /\ NoUseAfterDelete'
  BY DEF NoDanglingEntry, NoUseAfterDelete, ShutdownBegin, callVars
<1>4. StopReferences' /\ FreshIsOwn'
  BY DEF StopReferences, FreshIsOwn, Fresh, ShutdownBegin, callVars
<1>5. MapStaysEmpty' /\ UsersAccounted'
  BY DEF MapStaysEmpty, LoopOver, UsersAccounted, Counted, ShutdownBegin, callVars
<1> QED  BY <1>1, <1>2, <1>3, <1>4, <1>5

\* StopBegin keeps the invariant.
LEMMA StopBeginInv ==
    ASSUME IInv, StopBegin
    PROVE  IInv'
<1> USE DEF IInv
<1>1. TypeOK'
  BY DEF TypeOK, StopBegin, callVars
<1>2. RefCountIsHolders'
  BY NobodyMoves DEF RefCountIsHolders, StopBegin, callVars
<1>3. NoDanglingEntry' /\ NoUseAfterDelete'
  BY DEF NoDanglingEntry, NoUseAfterDelete, StopBegin, callVars
<1>4. StopReferences' /\ FreshIsOwn'
  BY DEF StopReferences, FreshIsOwn, Fresh, StopBegin, callVars
<1>5. MapStaysEmpty' /\ UsersAccounted'
  BY DEF MapStaysEmpty, LoopOver, UsersAccounted, Counted, StopBegin, callVars
<1> QED  BY <1>1, <1>2, <1>3, <1>4, <1>5

\* StopTake keeps the invariant.
LEMMA StopTakeInv ==
    ASSUME IInv, StopTake
    PROVE  IInv'
<1> USE DEF IInv
<1>1. TypeOK'
  BY DEF TypeOK, StopTake, callVars
<1>2. RefCountIsHolders'
  BY NobodyMoves, UsersFinite DEF TypeOK, RefCountIsHolders, StopReferences, StopTake, callVars
<1>3. NoDanglingEntry' /\ NoUseAfterDelete'
  BY DEF NoDanglingEntry, NoUseAfterDelete, StopTake, callVars
<1>4. StopReferences' /\ FreshIsOwn'
  BY DEF NoDanglingEntry, StopReferences, FreshIsOwn, Fresh, StopTake, callVars
<1>5. MapStaysEmpty' /\ UsersAccounted'
  BY DEF MapStaysEmpty, LoopOver, UsersAccounted, Counted, StopTake, callVars
<1> QED  BY <1>1, <1>2, <1>3, <1>4, <1>5

\* StopDelete keeps the invariant.
LEMMA StopDeleteInv ==
    ASSUME IInv, StopDelete
    PROVE  IInv'
<1> USE DEF IInv
<1>1. TypeOK'
  BY DEF TypeOK, StopDelete, Erase, callVars
<1>2. RefCountIsHolders'
  BY NobodyMoves DEF RefCountIsHolders, StopDelete, callVars
<1>3. NoDanglingEntry' /\ NoUseAfterDelete'
  BY OnlyStopHolds
  DEF TypeOK, NoDanglingEntry, NoUseAfterDelete, StopReferences, StopDelete, Erase, callVars
<1>4. StopReferences' /\ FreshIsOwn'
  BY DEF StopReferences, FreshIsOwn, Fresh, StopDelete, Erase, callVars
<1>5. MapStaysEmpty' /\ UsersAccounted'
  BY OnlyStopHolds
  DEF TypeOK, MapStaysEmpty, LoopOver, UsersAccounted, Counted, StopReferences, StopDelete, Erase,
      callVars
<1> QED  BY <1>1, <1>2, <1>3, <1>4, <1>5

\* StopKeep keeps the invariant.
LEMMA StopKeepInv ==
    ASSUME IInv, StopKeep
    PROVE  IInv'
<1> USE DEF IInv
<1>1. TypeOK'
  BY DEF TypeOK, StopKeep, Erase, callVars
<1>2. RefCountIsHolders'
  BY NobodyMoves DEF RefCountIsHolders, StopKeep, callVars
<1>3. NoDanglingEntry' /\ NoUseAfterDelete'
  BY DEF NoDanglingEntry, NoUseAfterDelete, StopKeep, Erase, callVars
<1>4. StopReferences' /\ FreshIsOwn'
  BY DEF StopReferences, FreshIsOwn, Fresh, StopKeep, Erase, callVars
<1>5. MapStaysEmpty' /\ UsersAccounted'
  BY DEF MapStaysEmpty, LoopOver, UsersAccounted, Counted, StopKeep, Erase, callVars
<1> QED  BY <1>1, <1>2, <1>3, <1>4, <1>5

\* StopMissing keeps the invariant.
LEMMA StopMissingInv ==
    ASSUME IInv, StopMissing
    PROVE  IInv'
<1> USE DEF IInv
<1>1. TypeOK'
  BY DEF TypeOK, StopMissing, callVars
<1>2. RefCountIsHolders'
  BY NobodyMoves DEF RefCountIsHolders, StopMissing, callVars
<1>3. NoDanglingEntry' /\ NoUseAfterDelete'
  BY DEF NoDanglingEntry, NoUseAfterDelete, StopMissing, callVars
<1>4. StopReferences' /\ FreshIsOwn'
  BY DEF StopReferences, FreshIsOwn, Fresh, StopMissing, callVars
<1>5. MapStaysEmpty' /\ UsersAccounted'
  BY DEF MapStaysEmpty, LoopOver, UsersAccounted, Counted, StopMissing, callVars
<1> QED  BY <1>1, <1>2, <1>3, <1>4, <1>5

\* StopPause keeps the invariant.
LEMMA StopPauseInv ==
    ASSUME IInv, StopPause
    PROVE  IInv'
<1> USE DEF IInv
<1>1. TypeOK'
  BY DEF TypeOK, StopPause, callVars
<1>2. RefCountIsHolders'
  BY NobodyMoves DEF RefCountIsHolders, StopPause, callVars
<1>3. NoDanglingEntry' /\ NoUseAfterDelete'
  BY DEF NoDanglingEntry, NoUseAfterDelete, StopPause, callVars
<1>4. StopReferences' /\ FreshIsOwn'
  BY DEF StopReferences, FreshIsOwn, Fresh, StopPause, callVars
<1>5. MapStaysEmpty' /\ UsersAccounted'
  BY DEF MapStaysEmpty, UsersAccounted, Counted, StopPause, callVars
<1> QED  BY <1>1, <1>2, <1>3, <1>4, <1>5

\* StopFinish keeps the invariant.
LEMMA StopFinishInv ==
    ASSUME IInv, StopFinish
    PROVE  IInv'
<1> USE DEF IInv
<1>1. TypeOK'
  BY DEF TypeOK, StopFinish, callVars
<1>2. RefCountIsHolders'
  BY NobodyMoves DEF RefCountIsHolders, StopFinish, callVars
<1>3. NoDanglingEntry' /\ NoUseAfterDelete'
  BY OnlyStopHolds
  DEF TypeOK, NoDanglingEntry, NoUseAfterDelete, StopReferences, StopFinish, callVars
<1>4. StopReferences' /\ FreshIsOwn'
  BY DEF TypeOK, StopReferences, FreshIsOwn, Fresh, StopFinish, callVars
<1>5. MapStaysEmpty' /\ UsersAccounted'
  BY OnlyStopHolds
  DEF TypeOK, MapStaysEmpty, LoopOver, UsersAccounted, Counted, StopReferences, StopFinish,
      StillBusy, callVars
<1> QED  BY <1>1, <1>2, <1>3, <1>4, <1>5

\* StopNetwork keeps the invariant.
LEMMA StopNetworkInv ==
    ASSUME IInv, StopNetwork
    PROVE  IInv'
<1> USE DEF IInv
<1>1. TypeOK'
  BY DEF TypeOK, StopNetwork, callVars
<1>2. RefCountIsHolders'
  BY NobodyMoves DEF RefCountIsHolders, StopNetwork, callVars
<1>3. NoDanglingEntry' /\ NoUseAfterDelete'
  BY DEF NoDanglingEntry, NoUseAfterDelete, StopNetwork, callVars
<1>4. StopReferences' /\ FreshIsOwn'
  BY DEF StopReferences, FreshIsOwn, Fresh, StopNetwork, callVars
<1>5. MapStaysEmpty' /\ UsersAccounted'
  BY DEF MapStaysEmpty, LoopOver, UsersAccounted, Counted, StopNetwork, callVars
<1> QED  BY <1>1, <1>2, <1>3, <1>4, <1>5

\* ShutdownEnd keeps the invariant.
LEMMA ShutdownEndInv ==
    ASSUME IInv, ShutdownEnd
    PROVE  IInv'
<1> USE DEF IInv
<1>1. TypeOK'
  BY DEF TypeOK, ShutdownEnd, callVars
<1>2. RefCountIsHolders'
  BY NobodyMoves DEF RefCountIsHolders, ShutdownEnd, callVars
<1>3. NoDanglingEntry' /\ NoUseAfterDelete'
  BY DEF NoDanglingEntry, NoUseAfterDelete, ShutdownEnd, callVars
<1>4. StopReferences' /\ FreshIsOwn'
  BY DEF StopReferences, FreshIsOwn, Fresh, ShutdownEnd, callVars
<1>5. MapStaysEmpty' /\ UsersAccounted'
  BY DEF MapStaysEmpty, LoopOver, UsersAccounted, Counted, ShutdownEnd, callVars
<1> QED  BY <1>1, <1>2, <1>3, <1>4, <1>5

\* Every step keeps the invariant.
LEMMA NextInv == IInv /\ [Next]_vars => IInv'
<1> SUFFICES ASSUME IInv, [Next]_vars PROVE IInv'
  OBVIOUS
<1>1. ASSUME NEW t \in Threads, Calling(t) PROVE IInv'
  BY <1>1, EnterInv, AddInv, AddRefusedInv, FindInv, FindFailsInv, PacketInv, ReleaseInv DEF Calling
<1>2. ASSUME NEW t \in Threads, Remove(t) PROVE IInv'
  BY <1>2, RemoveMissingInv, RemoveWaitInv, RemoveWakeInv, RemoveGiveUpInv, RemoveDeleteInv
  DEF Remove
<1>3. CASE ShutdownBegin
  BY <1>3, ShutdownBeginInv
<1>4. CASE Stop
  BY <1>4, StopBeginInv, StopTakeInv, StopDeleteInv, StopKeepInv, StopMissingInv, StopPauseInv,
     StopFinishInv, StopNetworkInv, ShutdownEndInv DEF Stop
<1>5. CASE UNCHANGED vars
  BY <1>5, StutterInv
<1> QED  BY <1>1, <1>2, <1>3, <1>4, <1>5 DEF Next

-----------------------------------------------------------------------------
(* The theorems *)

\* The inductive invariant is an invariant.
THEOREM Invariance == Spec => []IInv
  BY InitInv, NextInv, PTL DEF Spec

\* Every variable of the pool keeps its type: no count of references is ever negative.
THEOREM TypeCorrect == Spec => []TypeOK
<1>1. IInv => TypeOK
  BY DEF IInv
<1> QED  BY <1>1, Invariance, PTL

\* VtunnelFind: a thread that was given a pointer to a tunnel finds the tunnel there until it
\* gives its reference back, however TS_Close and TS_Shutdown interleave with it.
THEOREM Safe == Spec => []NoUseAfterDelete
<1>1. IInv => NoUseAfterDelete
  BY DEF IInv
<1> QED  BY <1>1, Invariance, PTL

\* VtunnelRemove and Stop: what the map and Stop's list of busy tunnels point to is there.
THEOREM EntriesLive == Spec => []NoDanglingEntry
<1>1. IInv => NoDanglingEntry
  BY DEF IInv
<1> QED  BY <1>1, Invariance, PTL

\* AddRefCount: a reference count is the number of the holders.
THEOREM CountsExact == Spec => []RefCountIsHolders
<1>1. IInv => RefCountIsHolders
  BY DEF IInv
<1> QED  BY <1>1, Invariance, PTL

\* Stop: when it finds no reason for an error, the only threads in a tunnel are in tunnels
\* that VtunnelRemove gave up on.
THEOREM StopReliable == Spec => []StopAccounts
<1>1. IInv => StopAccounts
  BY DEF IInv, UsersAccounted, Counted, StopAccounts
<1> QED  BY <1>1, Invariance, PTL

\* What DeletedWhenFree says of one tunnel.
Lifecycle(v) ==
    object'[v] # object[v] =>
        \/ object[v] = "none" /\ object'[v] = "alive"
        \/ object[v] = "alive" /\ Users(v) = {}

\* VtunnelRemove, TS_Open and Stop delete a tunnel nobody is in.
LEMMA LifecycleStep == ASSUME IInv, [Next]_vars PROVE \A v \in Tunnels : Lifecycle(v)
<1> SUFFICES ASSUME NEW v \in Tunnels PROVE Lifecycle(v)
  OBVIOUS
<1> USE DEF IInv, TypeOK, Lifecycle
<1>1. ASSUME NEW t \in Threads, NEW u \in Tunnels, NEW c \in {"open", "use", "close"}, Enter(t, c, u)
      PROVE  Lifecycle(v)
  BY <1>1 DEF Enter
<1>2. ASSUME NEW t \in Threads, AddRefused(t) PROVE Lifecycle(v)
  BY <1>2 DEF AddRefused, FreshIsOwn, Fresh, Users
<1>3. ASSUME NEW t \in Threads, RemoveDelete(t) PROVE Lifecycle(v)
  BY <1>3, NobodyHolds DEF RemoveDelete, NoDanglingEntry, Users
<1>4. CASE StopDelete
  BY <1>4, OnlyStopHolds DEF StopDelete, StopReferences, Users
<1>5. CASE StopFinish
  BY <1>5, OnlyStopHolds DEF StopFinish, StopReferences, Users
<1>6. CASE UNCHANGED object
  BY <1>6
<1>7. ASSUME NEW t \in Threads, Calling(t) \/ Remove(t) PROVE Lifecycle(v)
  <2>1. CASE Calling(t)
    BY <1>1, <1>2, <1>6, <2>1 DEF Calling, Packet, Add, Find, FindFails, Release
  <2>2. CASE Remove(t)
    BY <1>3, <1>6, <2>2 DEF Remove, RemoveMissing, RemoveWait, RemoveWake, RemoveGiveUp
  <2> QED  BY <1>7, <2>1, <2>2
<1>8. CASE ShutdownBegin \/ Stop
  BY <1>4, <1>5, <1>6, <1>8
  DEF ShutdownBegin, Stop, StopBegin, StopTake, StopKeep, StopMissing, StopPause, StopNetwork,
      ShutdownEnd
<1>9. CASE UNCHANGED vars
  BY <1>6, <1>9 DEF vars
<1> QED  BY <1>7, <1>8, <1>9 DEF Next

\* A tunnel is deleted once, when nobody is in it.
THEOREM DeletesWhenFree == Spec => DeletedWhenFree
<1>1. IInv /\ [Next]_vars => [\A v \in Tunnels : Lifecycle(v)]_vars
  BY LifecycleStep
<1>2. [\A v \in Tunnels : Lifecycle(v)]_vars =>
        [\A v \in Tunnels : object'[v] # object[v] =>
            \/ object[v] = "none" /\ object'[v] = "alive"
            \/ object[v] = "alive" /\ Users(v) = {}]_vars
  BY DEF Lifecycle
<1> QED  BY <1>1, <1>2, Invariance, PTL DEF Spec, DeletedWhenFree
=============================================================================
