-------------------------------- MODULE Pool --------------------------------
(***************************************************************************)
(* The pool of tunnels (gvm_core/internal/Ts2/Transport/src/Pool.cpp) and  *)
(* its users on the client side (gvm_core/internal/Ts2/src/ts_api.cpp):    *)
(* who may hold a pointer to a Vtunnel, and when it is deleted.            *)
(*                                                                         *)
(* The pool maps the id of a tunnel to the Vtunnel object.  A thread gets  *)
(* the pointer, with a reference, from VtunnelAdd or VtunnelFind and gives *)
(* the reference back with VtunnelRelease.  VtunnelRemove and Stop delete  *)
(* the object.  Every step of the model is one critical section of the     *)
(* mutex of the pool; what a thread does to the tunnel between two of them *)
(* is the time it spends "using" it (module Vtunnel).                      *)
(*                                                                         *)
(* Threads: callers of TS_Open, TS_Read, TS_Write and TS_Close, EndPoint   *)
(* threads that hand packets to recvPacketHandler, and the one thread that *)
(* calls TS_Shutdown.  removeCond does not appear: the wait on it is timed *)
(* (20 ms), so a waiter may wake at any time and a signal only hurries it. *)
(***************************************************************************)
EXTENDS Naturals, FiniteSets

CONSTANTS
    Tunnels,    \* the ids; each is given to one tunnel
    Callers,    \* threads of the applications
    Links,      \* EndPoint threads
    MaxTries    \* waits of VtunnelRemove before it gives up (10)

ASSUME ThreadsAssumption == IsFiniteSet(Callers) /\ IsFiniteSet(Links) /\ Callers \cap Links = {}
ASSUME TunnelsAssumption == Tunnels # {}
ASSUME TriesAssumption == MaxTries \in Nat

Threads == Callers \cup Links

\* Where a thread, or Stop, is before its first call: no value of it is looked at.
Nowhere == CHOOSE v \in Tunnels : TRUE

VARIABLES
    ts_state,       \* of ts_api.cpp: READY from TS_Init on
    state,          \* of the pool; "DELETED" once TS_Shutdown has deleted it
    object,         \* object[v]: the Vtunnel with id v
    vtunnelMap,     \* the ids the pool maps
    refCount,       \* refCount[v]: Vtunnel::refCount
    pc, call, at,   \* of each thread: where it is, in which call, for which tunnel
    tries,          \* of a thread in VtunnelRemove
    stopPc, stopAt, \* where Stop is, and the tunnel it is working on
    busyTunnels,    \* of Stop
    stopRefs,       \* history: the tunnels on which Stop holds a reference
    stuck,          \* stuckThreads > 0
    gaveUp          \* history: the tunnels VtunnelRemove forgot without deleting them

callVars == <<pc, call, at, tries>>
stopVars == <<stopPc, stopAt, busyTunnels, stopRefs, stuck>>
vars == <<ts_state, state, object, vtunnelMap, refCount, callVars, stopVars, gaveUp>>

\* The threads that hold a reference on v.
Users(v) == {t \in Threads : pc[t] = "using" /\ at[t] = v}

\* removeWaitCount > 0
RemoveWaits == \E t \in Threads : pc[t] = "waiting"

Init ==
    /\ ts_state = "READY" /\ state = "STARTED"
    /\ object = [v \in Tunnels |-> "none"]
    /\ vtunnelMap = {}
    /\ refCount = [v \in Tunnels |-> 0]
    /\ pc = [t \in Threads |-> "idle"]
    /\ call = [t \in Threads |-> "use"]
    /\ at = [t \in Threads |-> Nowhere]
    /\ tries = [t \in Threads |-> 0]
    /\ stopPc = "idle" /\ stopAt = Nowhere
    /\ busyTunnels = {} /\ stopRefs = {}
    /\ stuck = FALSE
    /\ gaveUp = {}

Goto(t, label) == pc' = [pc EXCEPT ![t] = label]

-----------------------------------------------------------------------------
(* Calls of the applications *)

\* An application knows a handle once TS_Open has returned it.
Opening(v) == \E t \in Threads : at[t] = v /\ call[t] = "open" /\ pc[t] # "idle"
Known(v) == object[v] # "none" /\ ~Opening(v)

\* TS_Open, TS_Read, TS_Write or TS_Close looks at ts_state, which no lock protects.
Enter(t, c, v) ==
    /\ t \in Callers /\ pc[t] = "idle" /\ ts_state = "READY"
    /\ IF c = "open" THEN object[v] = "none" ELSE Known(v)
    /\ Goto(t, "entered")
    /\ call' = [call EXCEPT ![t] = c]
    /\ at' = [at EXCEPT ![t] = v]
    /\ object' = IF c = "open" THEN [object EXCEPT ![v] = "alive"] ELSE object
    /\ UNCHANGED <<ts_state, state, vtunnelMap, refCount, tries, stopVars, gaveUp>>

Admits == state = "STARTED"

\* VtunnelAdd: the reference is for the Open in progress.
Add(t) ==
    /\ pc[t] = "entered" /\ call[t] = "open" /\ state # "DELETED"
    /\ Admits
    /\ vtunnelMap' = vtunnelMap \cup {at[t]}
    /\ refCount' = [refCount EXCEPT ![at[t]] = @ + 1]
    /\ Goto(t, "using")
    /\ UNCHANGED <<ts_state, state, object, call, at, tries, stopVars, gaveUp>>

\* VtunnelAdd fails when the pool is not started or the device not authorized; TS_Open
\* deletes the tunnel.
AddRefused(t) ==
    /\ pc[t] = "entered" /\ call[t] = "open" /\ state # "DELETED"
    /\ object' = [object EXCEPT ![at[t]] = "deleted"]
    /\ Goto(t, "idle")
    /\ UNCHANGED <<ts_state, state, vtunnelMap, refCount, call, at, tries, stopVars, gaveUp>>

\* Faulty variant: the pointer is given without a reference.
Refer_Not(v) == UNCHANGED refCount

Refer(v) == refCount' = [refCount EXCEPT ![v] = @ + 1]

\* VtunnelFind
Find(t) ==
    /\ pc[t] = "entered" /\ call[t] # "open" /\ state # "DELETED"
    /\ at[t] \in vtunnelMap
    /\ Refer(at[t])
    /\ Goto(t, "using")
    /\ UNCHANGED <<ts_state, state, object, vtunnelMap, call, at, tries, stopVars, gaveUp>>

FindFails(t) ==
    /\ pc[t] = "entered" /\ call[t] # "open" /\ state # "DELETED"
    /\ at[t] \notin vtunnelMap
    /\ Goto(t, "idle")
    /\ UNCHANGED <<ts_state, state, object, vtunnelMap, refCount, call, at, tries, stopVars, gaveUp>>

\* recvPacketHandler: a packet for tunnel v, which the pool maps.  ts_state is not looked at.
Packet(t, v) ==
    /\ t \in Links /\ pc[t] = "idle" /\ state \in {"STARTED", "STOPPING"}
    /\ v \in vtunnelMap
    /\ Refer(v)
    /\ Goto(t, "using")
    /\ call' = [call EXCEPT ![t] = "packet"]
    /\ at' = [at EXCEPT ![t] = v]
    /\ UNCHANGED <<ts_state, state, object, vtunnelMap, tries, stopVars, gaveUp>>

\* Where a call goes on after VtunnelRelease: TS_Close removes the tunnel, TS_Open does if
\* Open failed.
AfterRelease(c) ==
    CASE c = "close" -> {"removing"}
      [] c = "open"  -> {"removing", "idle"}
      [] OTHER       -> {"idle"}

\* VtunnelRelease
Release(t) ==
    /\ pc[t] = "using" /\ state # "DELETED"
    /\ refCount' = [refCount EXCEPT ![at[t]] = @ - 1]
    /\ \E label \in AfterRelease(call[t]) : Goto(t, label)
    /\ tries' = [tries EXCEPT ![t] = 0]
    /\ UNCHANGED <<ts_state, state, object, vtunnelMap, call, at, stopVars, gaveUp>>

-----------------------------------------------------------------------------
(* VtunnelRemove *)

Removing(t) == pc[t] = "removing" /\ state # "DELETED"

RemoveMissing(t) ==
    /\ Removing(t)
    /\ at[t] \notin vtunnelMap
    /\ Goto(t, "idle")
    /\ UNCHANGED <<ts_state, state, object, vtunnelMap, refCount, call, at, tries, stopVars, gaveUp>>

\* Faulty variant: the tries are not counted.
NextTry_Same(n) == n

NextTry(n) == n + 1

\* Somebody uses the tunnel: wait, with the mutex released.
RemoveWait(t) ==
    /\ Removing(t)
    /\ at[t] \in vtunnelMap /\ refCount[at[t]] > 0
    /\ tries[t] < MaxTries
    /\ tries' = [tries EXCEPT ![t] = NextTry(@)]
    /\ Goto(t, "waiting")
    /\ UNCHANGED <<ts_state, state, object, vtunnelMap, refCount, call, at, stopVars, gaveUp>>

\* The wait ends, and the mutex is released once more before the loop starts again.
RemoveWake(t) ==
    /\ pc[t] = "waiting" /\ state # "DELETED"
    /\ Goto(t, "removing")
    /\ UNCHANGED <<ts_state, state, object, vtunnelMap, refCount, call, at, tries, stopVars, gaveUp>>

\* After the last try the entry goes and the object stays.
RemoveGiveUp(t) ==
    /\ Removing(t)
    /\ at[t] \in vtunnelMap /\ refCount[at[t]] > 0
    /\ tries[t] >= MaxTries
    /\ vtunnelMap' = vtunnelMap \ {at[t]}
    /\ gaveUp' = gaveUp \cup {at[t]}
    /\ Goto(t, "idle")
    /\ UNCHANGED <<ts_state, state, object, refCount, call, at, tries, stopVars>>

RemoveDelete(t) ==
    /\ Removing(t)
    /\ at[t] \in vtunnelMap /\ refCount[at[t]] = 0
    /\ object' = [object EXCEPT ![at[t]] = "deleted"]
    /\ vtunnelMap' = vtunnelMap \ {at[t]}
    /\ Goto(t, "idle")
    /\ UNCHANGED <<ts_state, state, refCount, call, at, tries, stopVars, gaveUp>>

-----------------------------------------------------------------------------
(* TS_Shutdown and Stop *)

\* "Prevent any new TS calls"
ShutdownBegin ==
    /\ ts_state = "READY" /\ stopPc = "idle"
    /\ ts_state' = "SHUTTING_DOWN"
    /\ stopPc' = "begin"
    /\ UNCHANGED <<state, object, vtunnelMap, refCount, callVars, stopAt, busyTunnels, stopRefs,
                   stuck, gaveUp>>

StopBegin ==
    /\ stopPc = "begin"
    /\ state' = "STOPPING"
    /\ stopPc' = "loop"
    /\ UNCHANGED <<ts_state, object, vtunnelMap, refCount, callVars, stopAt, busyTunnels, stopRefs,
                   stuck, gaveUp>>

\* A reference, "to prevent normal close from deleting it out from under us", and then
\* ForceClose with the mutex released.
StopTake ==
    /\ stopPc = "loop"
    /\ \E v \in vtunnelMap :
        /\ stopAt' = v
        /\ refCount' = [refCount EXCEPT ![v] = @ + 1]
        /\ stopRefs' = stopRefs \cup {v}
    /\ stopPc' = "forcing"
    /\ UNCHANGED <<ts_state, state, object, vtunnelMap, callVars, busyTunnels, stuck, gaveUp>>

\* Faulty variant: the entry of a busy tunnel is not erased.
EraseFree(v) == vtunnelMap' = IF refCount[v] = 1 THEN vtunnelMap \ {v} ELSE vtunnelMap

\* "Erase the map entry to insure we make progress"
Erase(v) == vtunnelMap' = vtunnelMap \ {v}

\* Only Stop uses the tunnel: it is deleted.
StopDelete ==
    /\ stopPc = "forcing" /\ stopAt \in vtunnelMap
    /\ refCount[stopAt] = 1
    /\ object' = [object EXCEPT ![stopAt] = "deleted"]
    /\ Erase(stopAt)
    /\ stopPc' = "loop"
    /\ UNCHANGED <<ts_state, state, refCount, callVars, stopAt, busyTunnels, stopRefs, stuck, gaveUp>>

\* "Keep the ref count and try again soon"
StopKeep ==
    /\ stopPc = "forcing" /\ stopAt \in vtunnelMap
    /\ refCount[stopAt] # 1
    /\ busyTunnels' = busyTunnels \cup {stopAt}
    /\ Erase(stopAt)
    /\ stopPc' = "loop"
    /\ UNCHANGED <<ts_state, state, object, refCount, callVars, stopAt, stopRefs, stuck, gaveUp>>

\* Faulty variant: Stop forces the close again instead of going on.
StopMissing_Again ==
    /\ stopPc = "forcing" /\ stopAt \notin vtunnelMap
    /\ UNCHANGED vars

\* A VtunnelRemove has erased the entry meanwhile: the reference is never given back.
StopMissing ==
    /\ stopPc = "forcing" /\ stopAt \notin vtunnelMap
    /\ stopPc' = "loop"
    /\ UNCHANGED <<ts_state, state, object, vtunnelMap, refCount, callVars, stopAt, busyTunnels,
                   stopRefs, stuck, gaveUp>>

\* The map is empty: wait for the threads in VtunnelRemove or, if there are none, take a nap.
StopPause ==
    /\ stopPc = "loop" /\ vtunnelMap = {}
    /\ stopPc' = IF RemoveWaits THEN "await" ELSE "nap"
    /\ UNCHANGED <<ts_state, state, object, vtunnelMap, refCount, callVars, stopAt, busyTunnels,
                   stopRefs, stuck, gaveUp>>

\* Faulty variant: a busy tunnel is no reason for an error.
StillBusy_None(v) == FALSE

StillBusy(v) == refCount[v] # 1

\* Under the mutex again, after the pause (the five rounds of the wait are any time): the
\* busy tunnels that have become free are deleted, the others are a reason for an error.
StopFinish ==
    /\ stopPc \in {"await", "nap"}
    /\ object' = [v \in Tunnels |->
            IF v \in busyTunnels /\ refCount[v] = 1 THEN "deleted" ELSE object[v]]
    /\ stuck' = ((stopPc = "await" /\ RemoveWaits) \/ \E v \in busyTunnels : StillBusy(v))
    /\ busyTunnels' = {}
    /\ stopPc' = "network"
    /\ UNCHANGED <<ts_state, state, vtunnelMap, refCount, callVars, stopAt, stopRefs, gaveUp>>

\* The front end is stopped: its EndPoint threads have been joined.
StopNetwork ==
    /\ stopPc = "network"
    /\ \A t \in Links : pc[t] = "idle"
    /\ state' = "STOPPED"
    /\ stopPc' = "return"
    /\ UNCHANGED <<ts_state, object, vtunnelMap, refCount, callVars, stopAt, busyTunnels, stopRefs,
                   stuck, gaveUp>>

\* TS_Shutdown deletes the pool unless Stop returned an error.
ShutdownEnd ==
    /\ stopPc = "return"
    /\ state' = IF stuck THEN state ELSE "DELETED"
    /\ ts_state' = "NULL"
    /\ stopPc' = "done"
    /\ UNCHANGED <<object, vtunnelMap, refCount, callVars, stopAt, busyTunnels, stopRefs, stuck, gaveUp>>

-----------------------------------------------------------------------------

Calling(t) ==
    \/ \E v \in Tunnels : Packet(t, v) \/ \E c \in {"open", "use", "close"} : Enter(t, c, v)
    \/ Add(t) \/ AddRefused(t) \/ Find(t) \/ FindFails(t) \/ Release(t)

Remove(t) ==
    RemoveMissing(t) \/ RemoveWait(t) \/ RemoveWake(t) \/ RemoveGiveUp(t) \/ RemoveDelete(t)

Stop ==
    \/ StopBegin \/ StopTake \/ StopDelete \/ StopKeep \/ StopMissing \/ StopPause \/ StopFinish
    \/ StopNetwork \/ ShutdownEnd

Next == (\E t \in Threads : Calling(t) \/ Remove(t)) \/ ShutdownBegin \/ Stop

Spec == Init /\ [][Next]_vars

\* ReceivePacket does not block, and the mutex is given to every thread that wants it.
Fairness ==
    /\ WF_vars(Stop)
    /\ \A t \in Threads : WF_vars(Remove(t))
    /\ \A t \in Links : WF_vars(Release(t))

FairSpec == Spec /\ Fairness
=============================================================================
