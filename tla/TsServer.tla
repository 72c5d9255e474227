------------------------------ MODULE TsServer ------------------------------
(***************************************************************************)
(* The server side of the tunnels (internal/Ts2/src/ts_server.cpp): the    *)
(* thread that takes connection requests (tssThreadMain), the detached     *)
(* threads that serve one tunnel each (ts_serviceRunner), and the          *)
(* shutdown, which may delete the pool only when the last of them is gone. *)
(*                                                                         *)
(* A step is a section under tss_mutex or under the mutex of the pool, or  *)
(* a return from a wait.  Of the pool this module keeps what module Pool   *)
(* promises: the map, the references, that a tunnel in use is not deleted, *)
(* and that VtunnelRemove may forget it instead.  Of a tunnel it keeps     *)
(* whether it is half open, open or closed (module Vtunnel).               *)
(*                                                                         *)
(* Left out: a second TS_ServerInit, failures of allocation and of the     *)
(* condition variables.                                                    *)
(***************************************************************************)
EXTENDS Integers, FiniteSets, Sequences

CONSTANTS
    Conns,      \* the tunnels that clients open, each from a device of its own
    None,
    MaxSyn,     \* bound: SYNs that arrive, first ones and redundant ones
    MaxTunnels, \* bound: tunnels the server makes
    MaxStarts   \* bound: service threads that are started

ASSUME ServerConstants ==
    /\ None \notin Conns
    /\ MaxSyn \in Nat /\ MaxTunnels \in Nat \ {0} /\ MaxStarts \in Nat

Tunnels == 1 .. MaxTunnels
Services == 1 .. MaxStarts

VARIABLES
    tss_stopping,
    tss_service_threads,
    tssInputQueue,
    handle,         \* the service of all SYNs: none yet, registered, or its handle deleted
    main,           \* of tssThreadMain: where it is, the SYN, newVtId, vt, err and stopErr are 0
    dst_udi,        \* its local variable, which the service threads have a pointer to
    th,             \* each service thread: where it is, its tunnel, whether WaitForOpen succeeded,
                    \* and the client its TSServiceRequest_t names
    vtunnelMap,     \* of the pool
    tunnel,         \* the tunnels made so far: whose they are and their state
    busyTunnels,    \* of Pool::Stop
    pool,           \* "up", "stopping", "stopped" or "deleted"
    arrived         \* how many SYNs have arrived

vars == <<tss_stopping, tss_service_threads, tssInputQueue, handle, main, dst_udi, th, vtunnelMap,
          tunnel, busyTunnels, pool, arrived>>

poolVars == <<vtunnelMap, tunnel, busyTunnels, pool>>
inputVars == <<tss_stopping, tssInputQueue, arrived, handle>>

NoService == [pc |-> "none", vt |-> 1, ok |-> FALSE, client |-> None]

Init ==
    /\ tss_stopping = FALSE /\ tss_service_threads = 0 /\ tssInputQueue = <<>>
    /\ handle = "none"
    /\ main = [pc |-> "wait", conn |-> None, new |-> 0, vt |-> 0, ok |-> TRUE, stopOk |-> TRUE]
    /\ dst_udi = None
    /\ th = [t \in Services |-> NoService]
    /\ vtunnelMap = {} /\ tunnel = <<>> /\ busyTunnels = {} /\ pool = "up"
    /\ arrived = 0

-----------------------------------------------------------------------------
(* What the pool and the tunnels do *)

\* The threads that hold a reference on v.
Users(v) == {t \in Services : th[t].pc \in {"opening", "inside", "closing"} /\ th[t].vt = v}

InUse(v) == Users(v) # {} \/ (main.pc = "syn" /\ main.vt = v)

SetState(v, s) == tunnel' = [tunnel EXCEPT ![v].state = s]

\* VtunnelRemove: the entry goes; the tunnel is deleted, unless it is still in use after the last
\* of ten waits.
VtunnelRemove(v) ==
    /\ vtunnelMap' = vtunnelMap \ {v}
    /\ tunnel' = IF v \in vtunnelMap /\ ~InUse(v)
                 THEN [tunnel EXCEPT ![v].state = "deleted"] ELSE tunnel
    /\ UNCHANGED <<busyTunnels, pool>>

\* The last ACK of the handshake; a FIN, or an unlinked device.
Opened(v) ==
    /\ v \in vtunnelMap /\ tunnel[v].state = "half"
    /\ SetState(v, "open")
    /\ UNCHANGED <<inputVars, tss_service_threads, main, dst_udi, th, vtunnelMap, busyTunnels, pool>>

Closed(v) ==
    /\ v \in vtunnelMap /\ tunnel[v].state \in {"half", "open"}
    /\ SetState(v, "closed")
    /\ UNCHANGED <<inputVars, tss_service_threads, main, dst_udi, th, vtunnelMap, busyTunnels, pool>>

-----------------------------------------------------------------------------
(* Requests, registration and shutdown *)

\* VPLCond_Signal(&tss_cond_input): the wait of tssThreadMain returns 0.
Signalled == IF main.pc = "asleep" THEN [main EXCEPT !.pc = "wait", !.ok = TRUE] ELSE main

\* Mutant: nobody is told.
ts_queueConnRequest_Silent(c) ==
    /\ pool \in {"up", "stopping"} /\ arrived < MaxSyn
    /\ arrived' = arrived + 1
    /\ tssInputQueue' = Append(tssInputQueue, c)
    /\ UNCHANGED <<tss_stopping, handle, tss_service_threads, main, dst_udi, th, poolVars>>

ts_queueConnRequest(c) ==
    /\ pool \in {"up", "stopping"} /\ arrived < MaxSyn
    /\ arrived' = arrived + 1
    /\ tssInputQueue' = Append(tssInputQueue, c)
    /\ main' = Signalled
    /\ UNCHANGED <<tss_stopping, handle, tss_service_threads, dst_udi, th, poolVars>>

TS_RegisterService ==
    /\ handle = "none" /\ main.pc # "done"
    /\ handle' = "registered"
    /\ UNCHANGED <<tss_stopping, tssInputQueue, arrived, tss_service_threads, main, dst_udi, th, poolVars>>

\* "this prevents new connections from being established, but does not stop any existing".
TS_DeregisterService ==
    /\ handle = "registered" /\ main.pc # "done"
    /\ handle' = "deleted"
    /\ UNCHANGED <<tss_stopping, tssInputQueue, arrived, tss_service_threads, main, dst_udi, th, poolVars>>

\* Mutant: the signal is forgotten.
TS_ServerShutdown_Silent ==
    /\ ~tss_stopping /\ main.pc # "done"
    /\ tss_stopping' = TRUE
    /\ UNCHANGED <<tssInputQueue, arrived, handle, tss_service_threads, main, dst_udi, th, poolVars>>

TS_ServerShutdown ==
    /\ ~tss_stopping /\ main.pc # "done"
    /\ tss_stopping' = TRUE
    /\ main' = Signalled
    /\ UNCHANGED <<tssInputQueue, arrived, handle, tss_service_threads, dst_udi, th, poolVars>>

-----------------------------------------------------------------------------
(* tssThreadMain *)

Goto(pc) == main' = [main EXCEPT !.pc = pc]

\* Under tss_mutex: stop, wait, or take a SYN.
TakeSyn ==
    /\ main.pc = "wait"
    /\ \/ /\ tss_stopping
          /\ Goto("stop") /\ UNCHANGED tssInputQueue
       \/ /\ ~tss_stopping /\ tssInputQueue = <<>>
          /\ Goto("asleep") /\ UNCHANGED tssInputQueue
       \/ /\ ~tss_stopping /\ tssInputQueue # <<>>
          /\ main' = [main EXCEPT !.pc = "look", !.conn = Head(tssInputQueue)]
          /\ tssInputQueue' = Tail(tssInputQueue)
    /\ UNCHANGED <<tss_stopping, arrived, handle, tss_service_threads, dst_udi, th, poolVars>>

\* The SYN is deleted, and err is 0 or not.
Dropped(ok) == [main EXCEPT !.pc = "wait", !.conn = None, !.ok = ok]

\* TS_ServiceLookup; the SYN is dropped when the service is not there, and err keeps that, or when
\* it names another device or instance.
Lookup ==
    /\ main.pc = "look"
    /\ \/ /\ handle = "registered"
          /\ main' = [main EXCEPT !.pc = "find", !.ok = TRUE]
          /\ dst_udi' = main.conn
       \/ /\ main' = Dropped(handle = "registered")
          /\ UNCHANGED dst_udi
    /\ UNCHANGED <<inputVars, tss_service_threads, th, poolVars>>

\* A redundant SYN finds its tunnel; newVtId stays what it was.
FindVtunnel ==
    /\ main.pc = "find"
    /\ \E v \in vtunnelMap :
        /\ tunnel[v].conn = main.conn
        /\ main' = [main EXCEPT !.pc = "syn", !.vt = v]
    /\ UNCHANGED <<inputVars, tss_service_threads, dst_udi, th, poolVars>>

Redundant == \E v \in vtunnelMap : tunnel[v].conn = main.conn

\* VtunnelAdd: a new id, and a reference.
AddVtunnel ==
    /\ main.pc = "find" /\ ~Redundant /\ Len(tunnel) < MaxTunnels
    /\ LET v == Len(tunnel) + 1 IN
        /\ tunnel' = Append(tunnel, [conn |-> main.conn, state |-> "half"])
        /\ vtunnelMap' = vtunnelMap \cup {v}
        /\ main' = [main EXCEPT !.pc = "syn", !.new = v, !.vt = v]
    /\ UNCHANGED <<inputVars, tss_service_threads, dst_udi, th, busyTunnels, pool>>

\* "Client device is unauthorized": the SYN is dropped.
AddRefused ==
    /\ main.pc = "find" /\ ~Redundant
    /\ main' = Dropped(FALSE)
    /\ UNCHANGED <<inputVars, tss_service_threads, dst_udi, th, poolVars>>

\* HandleSyn has answered, and the reference is given back.
HandledSyn ==
    /\ main.pc = "syn"
    /\ main' = [main EXCEPT !.pc = "start", !.conn = None, !.vt = 0]
    /\ UNCHANGED <<inputVars, tss_service_threads, dst_udi, th, poolVars>>

\* ts_startService: a thread for newVtId, whichever tunnel the SYN was for ...
StartService ==
    /\ main.pc = "start"
    /\ \E t \in Services :
        /\ th[t].pc = "none" /\ \A u \in 1 .. t - 1 : th[u].pc # "none"
        /\ th' = [th EXCEPT ![t] = [NoService EXCEPT !.pc = "find", !.vt = main.new]]
    /\ main' = [main EXCEPT !.pc = "count", !.ok = TRUE]
    /\ UNCHANGED <<inputVars, tss_service_threads, dst_udi, poolVars>>

\* ... or none, "some sort of resource problem, so bail".
StartFails ==
    /\ main.pc = "start"
    /\ VtunnelRemove(main.new)
    /\ main' = [main EXCEPT !.pc = "stop", !.ok = FALSE]
    /\ UNCHANGED <<inputVars, tss_service_threads, dst_udi, th>>

\* Mutant: the thread is not counted when it has come to its end already.
Counts_Running == IF \E t \in Services : th[t].vt = main.new /\ th[t].pc \notin {"none", "done", "exit"}
                  THEN 1 ELSE 0

\* Mutant: the increment is forgotten.
Counts_None == 0

\* tss_service_threads++, after the thread was started.
Counts == 1

CountService ==
    /\ main.pc = "count"
    /\ tss_service_threads' = tss_service_threads + Counts
    /\ Goto("wait")
    /\ UNCHANGED <<inputVars, dst_udi, th, poolVars>>

\* The rest of the services is erased, and Pool::Stop begins.
StopBegin ==
    /\ main.pc = "stop"
    /\ pool' = "stopping"
    /\ Goto("stopping")
    /\ UNCHANGED <<inputVars, tss_service_threads, dst_udi, th, vtunnelMap, tunnel, busyTunnels>>

\* Pool::Stop forces a tunnel to close, and deletes it or keeps it in its list.
StopTunnel ==
    /\ main.pc = "stopping"
    /\ \E v \in vtunnelMap :
        /\ vtunnelMap' = vtunnelMap \ {v}
        /\ SetState(v, IF InUse(v) THEN "closed" ELSE "deleted")
        /\ busyTunnels' = IF InUse(v) THEN busyTunnels \cup {v} ELSE busyTunnels
    /\ UNCHANGED <<inputVars, tss_service_threads, main, dst_udi, th, pool>>

\* Pool::Stop looks at the busy tunnels once more; one that is still busy, or a thread that has
\* not come out of VtunnelRemove, is an error.
StopEnd ==
    /\ main.pc = "stopping" /\ vtunnelMap = {}
    /\ tunnel' = [v \in DOMAIN tunnel |->
            IF v \in busyTunnels /\ ~InUse(v) THEN [tunnel[v] EXCEPT !.state = "deleted"] ELSE tunnel[v]]
    /\ \E late \in BOOLEAN :
        /\ late => \E t \in Services : th[t].pc \in {"remove", "removing"}
        /\ main' = [main EXCEPT !.pc = "await",
                                !.stopOk = ~late /\ \A v \in busyTunnels : ~InUse(v)]
    /\ busyTunnels' = {}
    /\ pool' = "stopped"
    /\ UNCHANGED <<inputVars, tss_service_threads, dst_udi, th, vtunnelMap>>

\* Wait for all the service threads to exit ...
Await ==
    /\ main.pc = "await"
    /\ Goto(IF tss_service_threads <= 0 THEN "end" ELSE "awaiting")
    /\ UNCHANGED <<inputVars, tss_service_threads, dst_udi, th, poolVars>>

\* Mutant: the timeout is not kept in err.
Overdue_Ok == [main EXCEPT !.pc = "end", !.ok = TRUE]

Overdue == [main EXCEPT !.pc = "end", !.ok = FALSE]

\* ... but not for ever: "Don't hang up the shutdown".
AwaitTimeout ==
    /\ main.pc = "awaiting"
    /\ main' = Overdue
    /\ UNCHANGED <<inputVars, tss_service_threads, dst_udi, th, poolVars>>

\* "If the Pool->Stop returned an error or the thread count is non-zero, then it is too risky to
\* delete the tss_pool."
End ==
    /\ main.pc = "end"
    /\ pool' = IF main.stopOk /\ main.ok THEN "deleted" ELSE pool
    /\ Goto("done")
    /\ UNCHANGED <<inputVars, tss_service_threads, dst_udi, th, vtunnelMap, tunnel, busyTunnels>>

Main ==
    \/ TakeSyn \/ Lookup \/ FindVtunnel \/ AddVtunnel \/ AddRefused \/ HandledSyn
    \/ StartService \/ StartFails \/ CountService
    \/ StopBegin \/ StopTunnel \/ StopEnd \/ Await \/ AwaitTimeout \/ End

-----------------------------------------------------------------------------
(* ts_serviceRunner *)

Go(t, pc) == th' = [th EXCEPT ![t].pc = pc]

\* VtunnelFind for WaitForOpen, for a call of the handler and for WaitForClose.
Find(t, from, to, missing) ==
    /\ th[t].pc = from
    /\ Go(t, IF th[t].vt \in vtunnelMap THEN to ELSE missing)
    /\ UNCHANGED <<inputVars, tss_service_threads, main, dst_udi, poolVars>>

\* WaitForOpen returns, at the latest by a timeout, and the reference is given back.
WaitForOpen(t) ==
    /\ th[t].pc = "opening"
    /\ th' = [th EXCEPT ![t].pc = "request", ![t].ok = tunnel[th[t].vt].state = "open"]
    /\ UNCHANGED <<inputVars, tss_service_threads, main, dst_udi, poolVars>>

\* The request of the service is filled in from parmsp; the handler is called if there is a tunnel.
Request(t) ==
    /\ th[t].pc = "request"
    /\ th' = [th EXCEPT ![t].pc = IF th[t].ok THEN "handler" ELSE "remove", ![t].client = dst_udi]
    /\ UNCHANGED <<inputVars, tss_service_threads, main, dst_udi, poolVars>>

\* TSS_Read, TSS_Write or TSS_Close returns to the handler, the last by way of VtunnelRemove.
HandlerReturn(t) ==
    /\ th[t].pc = "inside"
    /\ \E pc \in {"handler", "removing"} : Go(t, pc)
    /\ UNCHANGED <<inputVars, tss_service_threads, main, dst_udi, poolVars>>

HandlerCloses(t) ==
    /\ th[t].pc = "removing"
    /\ VtunnelRemove(th[t].vt)
    /\ Go(t, "handler")
    /\ UNCHANGED <<inputVars, tss_service_threads, main, dst_udi>>

\* Mutant: a close that fails is the end.
AfterClose_Break(t) == {"remove", "exit"}

\* "Do not break here, need to clean up ..."
AfterClose(t) == {"remove"}

\* WaitForClose returns, with an error or without, and the reference is given back.
WaitForClose(t) ==
    /\ th[t].pc = "closing"
    /\ \E pc \in AfterClose(t) : Go(t, pc)
    /\ IF tunnel[th[t].vt].state # "deleted" THEN SetState(th[t].vt, "closed") ELSE UNCHANGED tunnel
    /\ UNCHANGED <<inputVars, tss_service_threads, main, dst_udi, vtunnelMap, busyTunnels, pool>>

Remove(t) ==
    /\ th[t].pc = "remove"
    /\ VtunnelRemove(th[t].vt)
    /\ Go(t, "exit")
    /\ UNCHANGED <<inputVars, tss_service_threads, main, dst_udi>>

\* "Thread exits": counted off, and the shutdown told, under tss_mutex.
Exit(t) ==
    /\ th[t].pc = "exit"
    /\ Go(t, "done")
    /\ tss_service_threads' = tss_service_threads - 1
    /\ main' = IF main.pc = "awaiting" THEN [main EXCEPT !.pc = "await", !.ok = TRUE] ELSE main
    /\ UNCHANGED <<inputVars, dst_udi, poolVars>>

Service(t) ==
    \/ Find(t, "find", "opening", "exit") \/ WaitForOpen(t) \/ Request(t)
    \/ Find(t, "handler", "inside", "handler") \/ HandlerReturn(t) \/ HandlerCloses(t)
    \/ Find(t, "handler", "closing", "exit") \/ WaitForClose(t)
    \/ Remove(t) \/ Exit(t)

-----------------------------------------------------------------------------

Next ==
    \/ \E c \in Conns : ts_queueConnRequest(c)
    \/ TS_RegisterService \/ TS_DeregisterService \/ TS_ServerShutdown
    \/ \E v \in vtunnelMap : Opened(v) \/ Closed(v)
    \/ Main
    \/ \E t \in Services : Service(t)

Spec == Init /\ [][Next]_vars

\* tssThreadMain runs; its waits are timed, but the first, which is for a signal.
FairSpec == Spec /\ WF_vars(Main)
=============================================================================
