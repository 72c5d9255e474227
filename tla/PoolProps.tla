----------------------------- MODULE PoolProps -----------------------------
(***************************************************************************)
(* What the pool of tunnels should guarantee to the threads that use it.   *)
(***************************************************************************)
EXTENDS Pool

\* Every variable has its type; a reference count, above all, is never negative (an int in
\* the code).
TypeOK ==
    /\ ts_state \in {"READY", "SHUTTING_DOWN", "NULL"}
    /\ state \in {"STARTED", "STOPPING", "STOPPED", "DELETED"}
    /\ object \in [Tunnels -> {"none", "alive", "deleted"}]
    /\ vtunnelMap \in SUBSET Tunnels
    /\ refCount \in [Tunnels -> Nat]
    /\ pc \in [Threads -> {"idle", "entered", "using", "removing", "waiting"}]
    /\ call \in [Threads -> {"open", "use", "close", "packet"}]
    /\ at \in [Threads -> Tunnels]
    /\ tries \in [Threads -> Nat]
    /\ stopPc \in {"idle", "begin", "loop", "forcing", "await", "nap", "network", "return", "done"}
    /\ stopAt \in Tunnels
    /\ busyTunnels \in SUBSET Tunnels /\ stopRefs \in SUBSET Tunnels
    /\ stuck \in BOOLEAN
    /\ gaveUp \in SUBSET Tunnels

\* VtunnelFind: "grab a reference to the Vtunnel to insure that it doesn't get deleted until
\* the caller is finished with the pointer".  Stop is such a caller while it forces a close.
NoUseAfterDelete ==
    /\ \A t \in Threads : pc[t] = "using" => object[at[t]] = "alive"
    /\ stopPc = "forcing" => object[stopAt] = "alive"

\* VtunnelRemove and Stop delete what the map, or Stop's list of busy tunnels, points to: no
\* entry of either is dangling, and no tunnel is in both.
NoDanglingEntry ==
    /\ \A v \in vtunnelMap \cup busyTunnels : object[v] = "alive"
    /\ vtunnelMap \cap busyTunnels = {}

\* AddRefCount: the count is the number of the threads that hold the pointer, and Stop.
RefCountIsHolders ==
    \A v \in Tunnels :
        refCount[v] = Cardinality(Users(v)) + (IF v \in stopRefs THEN 1 ELSE 0)

\* Stop: "be careful to return an error if we have reason to suspect that we did not get all
\* the active threads to quit".  Once Stop is through its lists without such a reason, no
\* thread is in a tunnel, except in one that VtunnelRemove gave up on (the exception is needed:
\* such a tunnel is in neither list of Stop).
StopAccounts ==
    stopPc \in {"network", "return"} /\ ~stuck =>
        \A t \in Threads : pc[t] = "using" => at[t] \in gaveUp

\* TS_Shutdown: "it is too dangerous to delete the pool" while client threads are active; no
\* thread that is inside a call of the API finds the pool deleted.
PoolOutlivesCalls ==
    state = "DELETED" => \A t \in Threads : pc[t] = "idle"

\* A tunnel is deleted once, by a step that finds nobody using it but Stop, which is done
\* with it.
DeletedWhenFree ==
    [][\A v \in Tunnels : object'[v] # object[v] =>
        \/ object[v] = "none" /\ object'[v] = "alive"
        \/ object[v] = "alive" /\ Users(v) = {}]_vars

\* Stop: "a Vtunnel map entry is deleted every time through this loop, so that progress is
\* made": TS_Shutdown returns, whatever the callers of the API do.
ShutdownReturns == stopPc = "begin" ~> stopPc = "done"

\* VtunnelRemove: "eventually give up": the call returns, though the tunnel be used forever.
\* (A pool that has been deleted answers nobody: PoolOutlivesCalls.)
RemoveReturns ==
    \A t \in Threads : pc[t] \in {"removing", "waiting"} ~> (pc[t] = "idle" \/ state = "DELETED")
=============================================================================
