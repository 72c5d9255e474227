--------------------------- MODULE TsServerProps ---------------------------
(* What the server side of the tunnels promises. *)
EXTENDS TsServer

Live == {t \in Services : th[t].pc \notin {"none", "done"}}

MainStates == {"wait", "asleep", "look", "find", "syn", "start", "count", "stop", "stopping", "await",
               "awaiting", "end", "done"}
ThreadStates == {"none", "find", "opening", "request", "handler", "inside", "removing", "closing",
                 "remove", "exit", "done"}
MainThread == [pc : MainStates, conn : Conns \cup {None}, new : 0 .. MaxTunnels, vt : 0 .. MaxTunnels,
               ok : BOOLEAN, stopOk : BOOLEAN]
Thread == [pc : ThreadStates, vt : 0 .. MaxTunnels, ok : BOOLEAN, client : Conns \cup {None}]
Tunnel == [conn : Conns \cup {None}, state : {"half", "open", "closed", "deleted"}]

\* The variables have their types; the count of service threads falls below zero by one at most, that
\* of a thread which ended before it was counted.
TypeOK ==
    /\ tss_stopping \in BOOLEAN
    /\ tss_service_threads \in -1 .. MaxStarts
    /\ tssInputQueue \in Seq(Conns) /\ handle \in {"none", "registered", "deleted"}
    /\ main \in MainThread
    /\ dst_udi \in Conns \cup {None}
    /\ th \in [Services -> Thread]
    /\ tunnel \in Seq(Tunnel) /\ Len(tunnel) <= MaxTunnels
    /\ vtunnelMap \subseteq DOMAIN tunnel /\ busyTunnels \subseteq DOMAIN tunnel
    /\ pool \in {"up", "stopping", "stopped", "deleted"}
    /\ arrived \in 0 .. MaxSyn

\* tssThreadMain deletes the pool, the mutex and the condition variables only when no service thread
\* can touch them any more: the count, raised after a thread was started and perhaps after it ended,
\* is right whenever the shutdown reads it, and a timeout of the wait keeps the pool.
PoolOutlivesServices == pool = "deleted" => Live = {}

\* Every tunnel of the map has a service thread that will wait for its close and remove it, or is
\* about to get one: no way through ts_serviceRunner leaves its tunnel behind in the map.
MappedServed ==
    \A v \in vtunnelMap :
        \/ \E t \in Services : th[t].vt = v /\ th[t].pc \notin {"none", "exit", "done"}
        \/ main.pc \in {"syn", "start"} /\ main.new = v

\* A SYN that ts_queueConnRequest has queued is taken, unless the server is shut down: the wait of
\* tssThreadMain is without a timeout, and only the signal of tss_cond_input ends it.
SynTaken == tssInputQueue # <<>> ~> tssInputQueue = <<>> \/ tss_stopping \/ main.pc = "done"

\* TS_ServerShutdown returns: the thread it joins comes to its end, whatever the service threads and
\* their handlers do ("Don't hang up the shutdown").
ShutdownEnds == tss_stopping ~> main.pc = "done"

-----------------------------------------------------------------------------
(* Not so, by what the code does: no run of the project checks these. *)

\* A tunnel is served by one thread: violated by a redundant SYN, which starts a second thread for
\* the tunnel that was made last.
ServedByOne ==
    \A t, u \in Live : th[t].vt = th[u].vt => t = u

\* A service is told the client whose tunnel it serves: violated when the next SYN is taken while the
\* thread still waits for the open, because dst_udi is one variable of tssThreadMain.
IdentityRight ==
    \A t \in Services : th[t].pc \in {"handler", "inside", "removing"} => th[t].client = tunnel[th[t].vt].conn

\* The handler a thread calls is there: violated by TS_DeregisterService, which deletes it while the
\* thread waits for the open.
HandleAlive == \A t \in Services : th[t].pc \in {"opening", "request"} => handle = "registered"
=============================================================================
