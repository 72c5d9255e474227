-------------------------- MODULE TsServerProofs --------------------------
(***************************************************************************)
(* The pool is deleted only when no service thread can touch it any more,  *)
(* for any number of clients, tunnels and service threads.                 *)
(*                                                                         *)
(* The argument is a count: tss_service_threads is the number of the       *)
(* threads that are started and have not ended, less the one that          *)
(* tssThreadMain has just started and not counted yet.  It never looks at  *)
(* the count in that state, and after its loop no thread is started.       *)
(***************************************************************************)
EXTENDS TsServerProps, TLAPS, FiniteSetTheorems, SequenceTheorems

Uncounted == IF main.pc = "count" THEN 1 ELSE 0

CountRight == tss_service_threads = Cardinality(Live) - Uncounted

\* Nothing is left when the loop at the end of tssThreadMain is left without an error.
EndQuiet == main.pc = "end" /\ main.ok => Live = {}

DeletedLast == pool = "deleted" => main.pc = "done" /\ Live = {}

\* TypeOK, with the bounds of the count left to CountRight.
Typed ==
    /\ tss_stopping \in BOOLEAN
    /\ tss_service_threads \in Int
    /\ tssInputQueue \in Seq(Conns) /\ handle \in {"none", "registered", "deleted"}
    /\ main \in MainThread
    /\ dst_udi \in Conns \cup {None}
    /\ th \in [Services -> Thread]
    /\ tunnel \in Seq(Tunnel) /\ Len(tunnel) <= MaxTunnels
    /\ vtunnelMap \subseteq DOMAIN tunnel /\ busyTunnels \subseteq DOMAIN tunnel
    /\ pool \in {"up", "stopping", "stopped", "deleted"}
    /\ arrived \in 0 .. MaxSyn

IInv == Typed /\ CountRight /\ EndQuiet /\ DeletedLast /\ MappedServed

-----------------------------------------------------------------------------
(* Sequences and the set of the live threads *)

\* A new state of one tunnel keeps the tunnels.
LEMMA TunnelState ==
    ASSUME tunnel \in Seq(Tunnel), NEW v, NEW s \in {"half", "open", "closed", "deleted"},
           SetState(v, s)
    PROVE  tunnel' \in Seq(Tunnel) /\ Len(tunnel') = Len(tunnel) /\ DOMAIN tunnel' = DOMAIN tunnel
<1>1. CASE v \in 1 .. Len(tunnel)
  <2>1. tunnel[v] \in Tunnel
    BY <1>1, ElementOfSeq
  <2>2. [tunnel[v] EXCEPT !.state = s] \in Tunnel
    BY <2>1 DEF Tunnel
  <2>3. tunnel' = [tunnel EXCEPT ![v] = [tunnel[v] EXCEPT !.state = s]]
    BY DEF SetState
  <2>4. tunnel' \in Seq(Tunnel) /\ Len(tunnel') = Len(tunnel)
    BY <1>1, <2>2, <2>3, ExceptSeq
  <2>. QED  BY <2>4, LenProperties
<1>2. CASE v \notin 1 .. Len(tunnel)
  <2>1. DOMAIN tunnel = 1 .. Len(tunnel)
    BY LenProperties
  <2>2. tunnel' = tunnel
    BY <1>2, <2>1 DEF SetState
  <2>. QED  BY <2>2
<1>. QED  BY <1>1, <1>2

\* The started threads are finitely many, and their number is at most MaxStarts.
LEMMA LiveFinite == IsFiniteSet(Live) /\ Cardinality(Live) \in 0 .. MaxStarts
<1>1. IsFiniteSet(Services) /\ Cardinality(Services) = MaxStarts
  BY FS_Interval, ServerConstants DEF Services
<1>2. Live \in SUBSET Services
  BY DEF Live
<1>3. IsFiniteSet(Live) /\ Cardinality(Live) <= Cardinality(Services)
  BY <1>1, <1>2, FS_Subset
<1>. QED  BY <1>1, <1>3, FS_CardinalityType, ServerConstants

\* The same of the next state.
LEMMA LiveFiniteNext == IsFiniteSet(Live') /\ Cardinality(Live') \in 0 .. MaxStarts
<1>1. IsFiniteSet(Services) /\ Cardinality(Services) = MaxStarts
  BY FS_Interval, ServerConstants DEF Services
<1>2. Live' \in SUBSET Services
  BY DEF Live
<1>3. IsFiniteSet(Live') /\ Cardinality(Live') <= Cardinality(Services)
  BY <1>1, <1>2, FS_Subset
<1>. QED  BY <1>1, <1>3, FS_CardinalityType, ServerConstants

-----------------------------------------------------------------------------
(* The steps *)

\* A service thread of tunnel th[t].vt goes to pc, and the others stay.
Moves(t, pc) ==
    /\ th' \in [Services -> Thread]
    /\ th'[t].pc = pc
    /\ \A u \in Services : th'[u].vt = th[u].vt /\ (u # t => th'[u].pc = th[u].pc)

\* A step that changes only the place of a thread is such a move.
LEMMA GoMoves ==
    ASSUME Typed, NEW t \in Services, NEW pc \in ThreadStates, Go(t, pc)
    PROVE  Moves(t, pc)
<1>1. th \in [Services -> Thread]
  BY DEF Typed
<1>2. [th[t] EXCEPT !.pc = pc] \in Thread
  BY <1>1 DEF Thread
<1>3. th' = [th EXCEPT ![t] = [th[t] EXCEPT !.pc = pc]]
  BY DEF Go
<1>4. th' \in [Services -> Thread]
  BY <1>1, <1>2, <1>3
<1>5. [th[t] EXCEPT !.pc = pc].pc = pc /\ [th[t] EXCEPT !.pc = pc].vt = th[t].vt
  BY <1>1 DEF Thread
<1>. QED  BY <1>1, <1>3, <1>4, <1>5 DEF Moves

\* Where each step of ts_serviceRunner but the last leads; all of them are places of a live thread.
Moving == {"find", "opening", "request", "handler", "inside", "removing", "closing", "remove", "exit"}

\* No step but the last ends the thread, starts one, or touches the count or tssThreadMain.
LEMMA ServiceMoves ==
    ASSUME Typed, NEW t \in Services, Service(t), ~Exit(t)
    PROVE  /\ th[t].pc \in Moving
           /\ \E pc \in Moving : Moves(t, pc)
           /\ UNCHANGED <<inputVars, tss_service_threads, main, dst_udi, pool>>
<1>. USE DEF Moving
<1>0. Moving \subseteq ThreadStates
  BY DEF ThreadStates
<1>1. ASSUME NEW from \in {"find", "handler"}, NEW to \in {"opening", "inside", "closing"},
             NEW missing \in {"exit", "handler"}, Find(t, from, to, missing)
      PROVE  /\ th[t].pc \in Moving
             /\ \E pc \in Moving : Moves(t, pc)
             /\ UNCHANGED <<inputVars, tss_service_threads, main, dst_udi, pool>>
  <2>1. PICK pc \in Moving : Go(t, pc)
    BY <1>1 DEF Find
  <2>. QED  BY <1>1, <2>1, <1>0, GoMoves DEF Find, poolVars
<1>2. CASE WaitForOpen(t)
  <2>1. th \in [Services -> Thread]
    BY DEF Typed
  <2>2. PICK b \in BOOLEAN : th' = [th EXCEPT ![t] = [th[t] EXCEPT !.pc = "request", !.ok = b]]
    BY <1>2, <2>1 DEF WaitForOpen
  <2>3. /\ [th[t] EXCEPT !.pc = "request", !.ok = b] \in Thread
        /\ [th[t] EXCEPT !.pc = "request", !.ok = b].pc = "request"
        /\ [th[t] EXCEPT !.pc = "request", !.ok = b].vt = th[t].vt
    BY <2>1 DEF Thread, ThreadStates
  <2>4. th' \in [Services -> Thread]
    BY <2>1, <2>2, <2>3
  <2>5. Moves(t, "request")
    BY <2>1, <2>2, <2>3, <2>4 DEF Moves
  <2>. QED  BY <1>2, <2>5 DEF WaitForOpen, poolVars
<1>3. CASE Request(t)
  <2>1. th \in [Services -> Thread] /\ dst_udi \in Conns \cup {None}
    BY DEF Typed
  <2>2. PICK pc \in {"handler", "remove"} :
            th' = [th EXCEPT ![t] = [th[t] EXCEPT !.pc = pc, !.client = dst_udi]]
    BY <1>3, <2>1 DEF Request
  <2>3. /\ [th[t] EXCEPT !.pc = pc, !.client = dst_udi] \in Thread
        /\ [th[t] EXCEPT !.pc = pc, !.client = dst_udi].pc = pc
        /\ [th[t] EXCEPT !.pc = pc, !.client = dst_udi].vt = th[t].vt
    BY <2>1 DEF Thread, ThreadStates
  <2>4. th' \in [Services -> Thread]
    BY <2>1, <2>2, <2>3
  <2>5. Moves(t, pc)
    BY <2>1, <2>2, <2>3, <2>4 DEF Moves
  <2>. QED  BY <1>3, <2>5 DEF Request, poolVars
<1>4. CASE HandlerReturn(t)
  <2>1. PICK pc \in {"handler", "removing"} : Go(t, pc)
    BY <1>4 DEF HandlerReturn
  <2>. QED  BY <1>4, <2>1, <1>0, GoMoves DEF HandlerReturn, poolVars
<1>5. CASE HandlerCloses(t)
  BY <1>5, <1>0, GoMoves DEF HandlerCloses, VtunnelRemove
<1>6. CASE WaitForClose(t)
  <2>1. Go(t, "remove")
    BY <1>6 DEF WaitForClose, AfterClose
  <2>. QED  BY <1>6, <2>1, <1>0, GoMoves DEF WaitForClose
<1>7. CASE Remove(t)
  BY <1>7, <1>0, GoMoves DEF Remove, VtunnelRemove
<1>. QED  BY <1>1, <1>2, <1>3, <1>4, <1>5, <1>6, <1>7 DEF Service

\* Such a step keeps the set of the live threads.
LEMMA MovingLive ==
    ASSUME Typed, NEW t \in Services, th[t].pc \in Moving, NEW pc \in Moving, Moves(t, pc)
    PROVE  Live' = Live
BY DEF Live, Moves, Moving

\* The last step takes the thread from them.
LEMMA ExitLive ==
    ASSUME Typed, NEW t \in Services, Exit(t)
    PROVE  t \in Live /\ Live' = Live \ {t} /\ Moves(t, "done")
<1>1. Moves(t, "done")
  BY GoMoves DEF Exit, ThreadStates
<1>. QED  BY <1>1 DEF Exit, Live, Moves

\* ts_startService adds one.
LEMMA StartLive ==
    ASSUME Typed, StartService
    PROVE  \E t \in Services : /\ t \notin Live /\ Live' = Live \cup {t}
                               /\ th' \in [Services -> Thread]
                               /\ th'[t].pc = "find" /\ th'[t].vt = main.new
                               /\ \A u \in Services : u # t => th'[u] = th[u]
<1>1. PICK t \in Services :
            /\ th[t].pc = "none"
            /\ th' = [th EXCEPT ![t] = [NoService EXCEPT !.pc = "find", !.vt = main.new]]
  BY DEF StartService
<1>2. th \in [Services -> Thread] /\ main.new \in 0 .. MaxTunnels
  BY DEF Typed, MainThread
<1>3. /\ [NoService EXCEPT !.pc = "find", !.vt = main.new] \in Thread
      /\ [NoService EXCEPT !.pc = "find", !.vt = main.new].pc = "find"
      /\ [NoService EXCEPT !.pc = "find", !.vt = main.new].vt = main.new
  BY <1>2 DEF NoService, Thread, ThreadStates
<1>4. th' \in [Services -> Thread]
  BY <1>1, <1>2, <1>3
<1>5. th'[t].pc = "find" /\ th'[t].vt = main.new /\ \A u \in Services : u # t => th'[u] = th[u]
  BY <1>1, <1>2, <1>3
<1>6. t \notin Live /\ Live' = Live \cup {t}
  BY <1>1, <1>5 DEF Live
<1>. QED  BY <1>4, <1>5, <1>6


\* What is done from outside tssThreadMain and the service threads: it moves tssThreadMain out of its
\* first wait at most.
Outside ==
    \/ \E c \in Conns : ts_queueConnRequest(c)
    \/ TS_RegisterService \/ TS_DeregisterService \/ TS_ServerShutdown
    \/ \E v \in vtunnelMap : Opened(v) \/ Closed(v)

\* No such step touches the threads, the count, the map or the pool.
LEMMA OutsideMoves ==
    ASSUME Typed, Outside
    PROVE  /\ UNCHANGED <<tss_service_threads, th, vtunnelMap, pool>>
           /\ \/ main' = main
              \/ /\ main.pc = "asleep"
                 /\ main' = [main EXCEPT !.pc = "wait", !.ok = TRUE]
           /\ main' \in MainThread
<1>1. main \in MainThread
  BY DEF Typed
<1>2. Signalled \in MainThread
  BY <1>1 DEF MainThread, Signalled, MainStates
<1>3. main' = main \/ main' = Signalled
  BY DEF Outside, ts_queueConnRequest, TS_RegisterService, TS_DeregisterService, TS_ServerShutdown,
         Opened, Closed
<1>4. UNCHANGED <<tss_service_threads, th, vtunnelMap, pool>>
  BY DEF Outside, ts_queueConnRequest, TS_RegisterService, TS_DeregisterService, TS_ServerShutdown,
         Opened, Closed, poolVars, SetState
<1>. QED  BY <1>1, <1>2, <1>3, <1>4 DEF Signalled

\* The steps of tssThreadMain that neither start nor count a thread.
Plain ==
    \/ TakeSyn \/ Lookup \/ FindVtunnel \/ AddVtunnel \/ AddRefused \/ HandledSyn \/ StartFails
    \/ StopBegin \/ StopTunnel \/ StopEnd \/ Await \/ AwaitTimeout \/ End

\* Such a step changes neither the count nor the threads, and "count" is not among its places.
LEMMA PlainMoves ==
    ASSUME Typed, Plain
    PROVE  /\ UNCHANGED <<tss_service_threads, th>>
           /\ main.pc # "count" /\ main'.pc # "count" /\ main' \in MainThread
<1>. main \in MainThread
  BY DEF Typed

<1>1. CASE TakeSyn
  <2>1. tssInputQueue # <<>> => Head(tssInputQueue) \in Conns
    BY HeadTailProperties DEF Typed
  <2>. QED  BY <1>1, <2>1 DEF MainThread, TakeSyn, Goto, MainStates, poolVars
<1>2. CASE Lookup
  BY <1>2 DEF MainThread, MainStates, Lookup, Dropped
<1>3. CASE FindVtunnel
  <2>1. PICK v \in vtunnelMap : main' = [main EXCEPT !.pc = "syn", !.vt = v]
    BY <1>3 DEF FindVtunnel
  <2>2. v \in 0 .. MaxTunnels
    BY LenProperties, ServerConstants DEF Typed
  <2>3. main' \in MainThread /\ main'.pc = "syn"
    BY <2>1, <2>2 DEF MainThread, MainStates
  <2>. QED  BY <1>3, <2>3 DEF FindVtunnel
<1>4. CASE AddVtunnel
  <2>1. Len(tunnel) + 1 \in 0 .. MaxTunnels
    BY <1>4, LenProperties, ServerConstants DEF Typed, AddVtunnel
  <2>2. main' = [main EXCEPT !.pc = "syn", !.new = Len(tunnel) + 1, !.vt = Len(tunnel) + 1]
    BY <1>4 DEF AddVtunnel
  <2>3. main' \in MainThread /\ main'.pc = "syn"
    BY <2>1, <2>2 DEF MainThread, MainStates
  <2>. QED  BY <1>4, <2>3 DEF AddVtunnel
<1>5. CASE AddRefused
  BY <1>5 DEF MainThread, MainStates, AddRefused, Dropped
<1>6. CASE HandledSyn
  <2>1. 0 \in 0 .. MaxTunnels
    BY ServerConstants
  <2>. QED  BY <1>6, <2>1 DEF MainThread, HandledSyn, MainStates
<1>7. CASE StartFails
  BY <1>7 DEF MainThread, MainStates, StartFails, VtunnelRemove
<1>8. CASE StopBegin
  BY <1>8 DEF MainThread, MainStates, StopBegin, Goto
<1>9. CASE StopTunnel
  BY <1>9 DEF MainThread, MainStates, StopTunnel, poolVars
<1>10. CASE StopEnd
  BY <1>10 DEF MainThread, MainStates, StopEnd
<1>11. CASE Await
  BY <1>11 DEF MainThread, MainStates, Await, Goto
<1>12. CASE AwaitTimeout
  BY <1>12 DEF MainThread, MainStates, AwaitTimeout, Overdue
<1>13. CASE End
  BY <1>13 DEF MainThread, MainStates, End, Goto
<1>. QED  BY <1>1, <1>2, <1>3, <1>4, <1>5, <1>6, <1>7, <1>8, <1>9, <1>10, <1>11, <1>12, <1>13 DEF Plain

-----------------------------------------------------------------------------
(* The invariant *)

TunnelsTyped ==
    /\ tunnel \in Seq(Tunnel) /\ Len(tunnel) <= MaxTunnels
    /\ vtunnelMap \subseteq DOMAIN tunnel /\ busyTunnels \subseteq DOMAIN tunnel
    /\ pool \in {"up", "stopping", "stopped", "deleted"}

\* The tunnels stay typed when one of them changes its state.
LEMMA SetStateTyped ==
    ASSUME Typed, NEW v, NEW s \in {"half", "open", "closed", "deleted"}, SetState(v, s),
           vtunnelMap' \subseteq vtunnelMap, busyTunnels' \subseteq busyTunnels \cup vtunnelMap, pool' = pool
    PROVE  TunnelsTyped'
<1>1. tunnel' \in Seq(Tunnel) /\ Len(tunnel') = Len(tunnel) /\ DOMAIN tunnel' = DOMAIN tunnel
  BY TunnelState DEF Typed
<1>. QED  BY <1>1 DEF Typed, TunnelsTyped

\* The tunnels stay typed in VtunnelRemove, which takes one entry from the map.
LEMMA RemoveTyped ==
    ASSUME Typed, NEW v, VtunnelRemove(v)
    PROVE  TunnelsTyped' /\ vtunnelMap' = vtunnelMap \ {v}
<1>1. CASE SetState(v, "deleted")
  BY <1>1, SetStateTyped DEF VtunnelRemove
<1>2. CASE tunnel' = tunnel
  BY <1>2 DEF VtunnelRemove, Typed, TunnelsTyped
<1>. QED  BY <1>1, <1>2 DEF VtunnelRemove, SetState

\* The tunnels stay typed in every step.
LEMMA TunnelsStep ==
    ASSUME Typed, Next
    PROVE  TunnelsTyped'
<1>1. ASSUME UNCHANGED poolVars PROVE TunnelsTyped'
  BY <1>1 DEF Typed, TunnelsTyped, poolVars
<1>2. CASE Outside
  <2>1. ASSUME NEW v \in vtunnelMap, Opened(v) \/ Closed(v) PROVE TunnelsTyped'
    BY <2>1, SetStateTyped DEF Opened, Closed
  <2>. QED  BY <1>1, <1>2, <2>1 DEF Outside, ts_queueConnRequest, TS_RegisterService,
              TS_DeregisterService, TS_ServerShutdown
<1>3. CASE AddVtunnel
  <2>1. [conn |-> main.conn, state |-> "half"] \in Tunnel
    BY <1>3 DEF Typed, MainThread, AddVtunnel, Tunnel
  <2>2. /\ tunnel' \in Seq(Tunnel) /\ Len(tunnel') = Len(tunnel) + 1
        /\ Len(tunnel) < MaxTunnels
    BY <1>3, <2>1, AppendProperties DEF Typed, AddVtunnel
  <2>3. DOMAIN tunnel' = 1 .. Len(tunnel) + 1 /\ DOMAIN tunnel = 1 .. Len(tunnel) /\ Len(tunnel) \in Nat
    BY <2>2, LenProperties DEF Typed
  <2>. QED  BY <1>3, <2>2, <2>3, ServerConstants DEF Typed, AddVtunnel, TunnelsTyped
<1>4. CASE StartFails
  BY <1>4, RemoveTyped DEF StartFails
<1>5. CASE StopBegin \/ End
  BY <1>5 DEF StopBegin, End, Typed, TunnelsTyped
<1>6. CASE StopTunnel
  <2>1. PICK v \in vtunnelMap :
            /\ vtunnelMap' = vtunnelMap \ {v}
            /\ SetState(v, IF InUse(v) THEN "closed" ELSE "deleted")
            /\ busyTunnels' = IF InUse(v) THEN busyTunnels \cup {v} ELSE busyTunnels
            /\ pool' = pool
    BY <1>6 DEF StopTunnel
  <2>. QED  BY <2>1, SetStateTyped
<1>7. CASE StopEnd
  <2>. DEFINE e(v) == IF v \in busyTunnels /\ ~InUse(v) THEN [tunnel[v] EXCEPT !.state = "deleted"]
                                                     ELSE tunnel[v]
  <2>1. DOMAIN tunnel = 1 .. Len(tunnel) /\ Len(tunnel) \in Nat
    BY LenProperties DEF Typed
  <2>2. \A v \in 1 .. Len(tunnel) : e(v) \in Tunnel
    <3>1. \A v \in 1 .. Len(tunnel) : tunnel[v] \in Tunnel
      BY ElementOfSeq DEF Typed
    <3>2. \A r \in Tunnel : [r EXCEPT !.state = "deleted"] \in Tunnel
      BY DEF Tunnel
    <3>. QED  BY <3>1, <3>2
  <2>3. tunnel' = [v \in 1 .. Len(tunnel) |-> e(v)]
    BY <1>7, <2>1 DEF StopEnd
  <2>. HIDE DEF e
  <2>4. tunnel' \in Seq(Tunnel) /\ Len(tunnel') = Len(tunnel)
    BY <2>1, <2>2, <2>3, IsASeq, LenProperties
  <2>5. DOMAIN tunnel' = DOMAIN tunnel
    BY <2>1, <2>3
  <2>. QED  BY <1>7, <2>4, <2>5 DEF Typed, TunnelsTyped, StopEnd
<1>8. CASE TakeSyn \/ Lookup \/ FindVtunnel \/ AddRefused \/ HandledSyn \/ StartService \/ CountService
            \/ Await \/ AwaitTimeout
  BY <1>1, <1>8 DEF TakeSyn, Lookup, FindVtunnel, AddRefused, HandledSyn, StartService, CountService,
                    Await, AwaitTimeout
<1>9. ASSUME NEW t \in Services, Service(t) PROVE TunnelsTyped'
  <2>1. CASE HandlerCloses(t) \/ Remove(t)
    BY <2>1, RemoveTyped DEF HandlerCloses, Remove
  <2>2. CASE WaitForClose(t)
    <3>1. CASE SetState(th[t].vt, "closed")
      BY <2>2, <3>1, SetStateTyped DEF WaitForClose
    <3>2. CASE UNCHANGED tunnel
      BY <2>2, <3>2, <1>1 DEF WaitForClose, poolVars
    <3>. QED  BY <2>2, <3>1, <3>2 DEF WaitForClose
  <2>3. CASE WaitForOpen(t) \/ Request(t) \/ HandlerReturn(t) \/ Exit(t)
    BY <1>1, <2>3 DEF WaitForOpen, Request, HandlerReturn, Exit
  <2>. QED  BY <1>1, <1>9, <2>1, <2>2, <2>3 DEF Service, Find
<1>. QED  BY <1>2, <1>3, <1>4, <1>5, <1>6, <1>7, <1>8, <1>9 DEF Next, Main, Outside

\* The rest of the type: the request queue, the registration, and tssThreadMain's dst_udi.
LEMMA InputsStep ==
    ASSUME Typed, Next
    PROVE  /\ tss_stopping' \in BOOLEAN
           /\ tss_service_threads' \in Int
           /\ tssInputQueue' \in Seq(Conns) /\ handle' \in {"none", "registered", "deleted"}
           /\ dst_udi' \in Conns \cup {None}
           /\ arrived' \in 0 .. MaxSyn
<1>. DEFINE Inputs == /\ tss_stopping' \in BOOLEAN
                      /\ tss_service_threads' \in Int
                      /\ tssInputQueue' \in Seq(Conns) /\ handle' \in {"none", "registered", "deleted"}
                      /\ dst_udi' \in Conns \cup {None}
                      /\ arrived' \in 0 .. MaxSyn
<1>1. CASE Outside
  <2>1. ASSUME NEW c \in Conns, ts_queueConnRequest(c) PROVE Inputs
    <3>1. tssInputQueue' \in Seq(Conns)
      BY <2>1, AppendProperties DEF Typed, ts_queueConnRequest
    <3>. QED  BY <2>1, <3>1, ServerConstants DEF Typed, ts_queueConnRequest
  <2>2. CASE TS_RegisterService \/ TS_DeregisterService \/ TS_ServerShutdown
    BY <2>2 DEF Typed, TS_RegisterService, TS_DeregisterService, TS_ServerShutdown
  <2>3. ASSUME NEW v \in vtunnelMap, Opened(v) \/ Closed(v) PROVE Inputs
    BY <2>3 DEF Typed, Opened, Closed, inputVars
  <2>. QED  BY <1>1, <2>1, <2>2, <2>3 DEF Outside
<1>2. CASE TakeSyn
  <2>1. tssInputQueue # <<>> => Tail(tssInputQueue) \in Seq(Conns)
    BY HeadTailProperties DEF Typed
  <2>. QED  BY <1>2, <2>1 DEF Typed, TakeSyn
<1>3. CASE Lookup
  BY <1>3 DEF Typed, Lookup, inputVars, MainThread
<1>4. CASE Plain /\ ~TakeSyn /\ ~Lookup
  BY <1>4 DEF Typed, Plain, inputVars, FindVtunnel, AddVtunnel, AddRefused, HandledSyn, StartFails,
              StopBegin, StopTunnel, StopEnd, Await, AwaitTimeout, End
<1>5. CASE StartService \/ CountService
  BY <1>5 DEF Typed, StartService, CountService, Counts, inputVars
<1>6. ASSUME NEW t \in Services, Service(t) PROVE Inputs
  <2>1. CASE Exit(t)
    BY <2>1 DEF Typed, Exit, inputVars
  <2>2. CASE ~Exit(t)
    BY <1>6, <2>2, ServiceMoves DEF Typed, inputVars
  <2>. QED  BY <2>1, <2>2
<1>. QED  BY <1>1, <1>2, <1>3, <1>4, <1>5, <1>6 DEF Next, Main, Outside, Plain

\* tssThreadMain and the service threads.
LEMMA ThreadsStep ==
    ASSUME Typed, Next
    PROVE  main' \in MainThread /\ th' \in [Services -> Thread]
<1>1. CASE Outside
  BY <1>1, OutsideMoves DEF Typed
<1>2. CASE Plain
  BY <1>2, PlainMoves DEF Typed
<1>3. CASE StartService
  <2>1. main' = [main EXCEPT !.pc = "count", !.ok = TRUE] /\ main \in MainThread
    BY <1>3 DEF StartService, Typed
  <2>2. main' \in MainThread
    BY <2>1 DEF MainThread, MainStates
  <2>. QED  BY <1>3, <2>2, StartLive
<1>4. CASE CountService
  <2>1. main' = [main EXCEPT !.pc = "wait"] /\ main \in MainThread /\ th' = th
    BY <1>4 DEF CountService, Goto, Typed
  <2>. QED  BY <2>1 DEF MainThread, MainStates, Typed
<1>5. ASSUME NEW t \in Services, Service(t) PROVE main' \in MainThread /\ th' \in [Services -> Thread]
  <2>1. CASE Exit(t)
    <3>1. main' \in MainThread
      BY <2>1 DEF Exit, Typed, MainThread, MainStates
    <3>. QED  BY <2>1, <3>1, ExitLive DEF Moves
  <2>2. CASE ~Exit(t)
    BY <1>5, <2>2, ServiceMoves DEF Typed, Moves
  <2>. QED  BY <2>1, <2>2
<1>. QED  BY <1>1, <1>2, <1>3, <1>4, <1>5 DEF Next, Main, Outside, Plain

\* Every step keeps the types.
LEMMA TypedStep ==
    ASSUME Typed, Next
    PROVE  Typed'
BY TunnelsStep, InputsStep, ThreadsStep DEF Typed, TunnelsTyped


-----------------------------------------------------------------------------
(* The count *)

\* A thread that starts is not counted, one that is counted does not start, one that ends is counted off.
LEMMA CountStep ==
    ASSUME IInv, Next
    PROVE  CountRight'
<1>. Typed /\ CountRight
  BY DEF IInv
<1>0. IsFiniteSet(Live) /\ Cardinality(Live) \in Nat
  BY LiveFinite, ServerConstants
<1>1. CASE Outside
  <2>1. Live' = Live /\ tss_service_threads' = tss_service_threads
    BY <1>1, OutsideMoves DEF Live
  <2>2. main'.pc = "count" <=> main.pc = "count"
    BY <1>1, OutsideMoves DEF Typed, MainThread
  <2>. QED  BY <2>1, <2>2 DEF CountRight, Uncounted
<1>2. CASE Plain
  <2>1. Live' = Live /\ tss_service_threads' = tss_service_threads
    BY <1>2, PlainMoves DEF Live
  <2>. QED  BY <1>2, <2>1, PlainMoves DEF CountRight, Uncounted
<1>3. CASE StartService
  <2>1. PICK t \in Services : t \notin Live /\ Live' = Live \cup {t}
    BY <1>3, StartLive
  <2>2. Cardinality(Live') = Cardinality(Live) + 1
    BY <1>0, <2>1, FS_AddElement
  <2>3. main.pc # "count" /\ main'.pc = "count" /\ tss_service_threads' = tss_service_threads
    BY <1>3 DEF StartService, Typed, MainThread
  <2>. QED  BY <1>0, <2>2, <2>3 DEF CountRight, Uncounted
<1>4. CASE CountService
  <2>1. Live' = Live
    BY <1>4 DEF CountService, Live
  <2>2. /\ main.pc = "count" /\ main'.pc # "count"
        /\ tss_service_threads' = tss_service_threads + 1
    BY <1>4 DEF CountService, Counts, Goto, Typed, MainThread
  <2>. QED  BY <1>0, <2>1, <2>2 DEF CountRight, Uncounted
<1>5. ASSUME NEW t \in Services, Service(t) PROVE CountRight'
  <2>1. CASE Exit(t)
    <3>1. Cardinality(Live') = Cardinality(Live) - 1
      BY <1>0, <2>1, ExitLive, FS_RemoveElement
    <3>2. /\ main'.pc = "count" <=> main.pc = "count"
          /\ tss_service_threads' = tss_service_threads - 1
      BY <2>1 DEF Exit, Typed, MainThread
    <3>. QED  BY <1>0, <3>1, <3>2 DEF CountRight, Uncounted
  <2>2. CASE ~Exit(t)
    <3>1. Live' = Live /\ UNCHANGED <<tss_service_threads, main>>
      BY <1>5, <2>2, ServiceMoves, MovingLive
    <3>. QED  BY <3>1 DEF CountRight, Uncounted
  <2>. QED  BY <2>1, <2>2
<1>. QED  BY <1>1, <1>2, <1>3, <1>4, <1>5 DEF Next, Main, Outside, Plain

\* tssThreadMain leaves its last loop without an error only when the count is zero, and then nothing
\* is left; no thread starts after that, and the pool is deleted in that state only.
LEMMA QuietStep ==
    ASSUME IInv, Next
    PROVE  EndQuiet' /\ DeletedLast'
<1>. Typed /\ CountRight /\ EndQuiet /\ DeletedLast
  BY DEF IInv
<1>0. main \in MainThread
  BY DEF Typed
<1>1. CASE Outside
  <2>1. Live' = Live
    BY <1>1, OutsideMoves DEF Live
  <2>. QED  BY <1>0, <1>1, <2>1, OutsideMoves DEF EndQuiet, DeletedLast, MainThread
<1>2. CASE Await
  <2>1. Live' = Live /\ pool' = pool /\ main.pc = "await"
    BY <1>2, PlainMoves DEF Await, Plain, Live, poolVars
  <2>2. main'.pc = "end" => Live = {}
    <3>1. main'.pc = "end" => tss_service_threads <= 0
      BY <1>0, <1>2 DEF Await, Goto, MainThread
    <3>2. tss_service_threads <= 0 => Cardinality(Live) = 0
      BY <2>1, LiveFinite, ServerConstants DEF CountRight, Uncounted
    <3>. QED  BY <3>1, <3>2, LiveFinite, FS_EmptySet
  <2>. QED  BY <2>1, <2>2 DEF EndQuiet, DeletedLast
<1>3. CASE AwaitTimeout
  <2>1. pool' = pool /\ main.pc = "awaiting" /\ main'.ok = FALSE
    BY <1>0, <1>3 DEF AwaitTimeout, Overdue, MainThread, poolVars
  <2>. QED  BY <2>1 DEF EndQuiet, DeletedLast
<1>4. CASE End
  <2>1. Live' = Live /\ main.pc = "end" /\ main'.pc = "done"
    BY <1>0, <1>4 DEF End, Goto, Live, MainThread
  <2>2. pool' = "deleted" => Live = {}
    BY <1>4, <2>1 DEF End, EndQuiet, DeletedLast
  <2>. QED  BY <2>1, <2>2 DEF EndQuiet, DeletedLast
<1>5. CASE Plain /\ ~Await /\ ~AwaitTimeout /\ ~End
  <2>1. main'.pc # "end"
    BY <1>0, <1>5 DEF Plain, TakeSyn, Lookup, FindVtunnel, AddVtunnel, AddRefused, HandledSyn, StartFails,
         StopBegin, StopTunnel, StopEnd, Dropped, Goto, MainThread
  <2>2. main.pc # "done" /\ (pool' = "deleted" => pool = "deleted")
    BY <1>0, <1>5 DEF Plain, TakeSyn, Lookup, FindVtunnel, AddVtunnel, AddRefused, HandledSyn, StartFails,
         StopBegin, StopTunnel, StopEnd, VtunnelRemove, poolVars
  <2>. QED  BY <2>1, <2>2 DEF EndQuiet, DeletedLast
<1>6. CASE StartService \/ CountService
  <2>1. main'.pc # "end" /\ main.pc # "done" /\ pool' = pool
    BY <1>0, <1>6 DEF StartService, CountService, Goto, MainThread, poolVars
  <2>. QED  BY <2>1 DEF EndQuiet, DeletedLast
<1>7. ASSUME NEW t \in Services, Service(t) PROVE EndQuiet' /\ DeletedLast'
  <2>1. CASE Exit(t)
    <3>1. Live' \subseteq Live /\ pool' = pool
      BY <2>1, ExitLive DEF Exit, poolVars
    <3>2. main' = main \/ (main.pc = "awaiting" /\ main'.pc = "await")
      BY <1>0, <2>1 DEF Exit, MainThread
    <3>. QED  BY <3>1, <3>2 DEF EndQuiet, DeletedLast
  <2>2. CASE ~Exit(t)
    <3>1. Live' = Live /\ UNCHANGED <<main, pool>>
      BY <1>7, <2>2, ServiceMoves, MovingLive
    <3>. QED  BY <3>1 DEF EndQuiet, DeletedLast
  <2>. QED  BY <2>1, <2>2
<1>. QED  BY <1>1, <1>2, <1>3, <1>4, <1>5, <1>6, <1>7 DEF Next, Main, Outside, Plain

-----------------------------------------------------------------------------
(* Every tunnel of the map has its thread *)

\* tssThreadMain is about to start the thread of v.
Coming(v) == main.pc \in {"syn", "start"} /\ main.new = v

\* Each way out of ts_serviceRunner removes the tunnel from the map or has found that it is not there.
LEMMA ServedStep ==
    ASSUME IInv, Next
    PROVE  MappedServed'
<1>. Typed /\ MappedServed
  BY DEF IInv
<1>0. main \in MainThread
  BY DEF Typed
<1>1. CASE Outside
  <2>1. \A v : Coming(v) => Coming(v)'
    BY <1>0, <1>1, OutsideMoves DEF Coming
  <2>. QED  BY <1>1, <2>1, OutsideMoves DEF MappedServed, Coming
<1>2. CASE AddVtunnel
  <2>1. /\ vtunnelMap' = vtunnelMap \cup {Len(tunnel) + 1} /\ UNCHANGED th
        /\ main.pc = "find" /\ main'.pc = "syn" /\ main'.new = Len(tunnel) + 1
    BY <1>0, <1>2 DEF AddVtunnel, MainThread
  <2>. QED  BY <2>1 DEF MappedServed
<1>3. CASE HandledSyn
  <2>1. main'.pc = "start" /\ main'.new = main.new /\ UNCHANGED <<th, vtunnelMap>>
    BY <1>0, <1>3 DEF HandledSyn, MainThread, poolVars
  <2>. QED  BY <2>1 DEF MappedServed
<1>4. CASE StartService
  <2>1. PICK t \in Services : /\ t \notin Live
                              /\ th'[t].pc = "find" /\ th'[t].vt = main.new
                              /\ \A u \in Services : u # t => th'[u] = th[u]
    BY <1>4, StartLive
  <2>2. UNCHANGED vtunnelMap
    BY <1>4 DEF StartService, poolVars
  <2>3. th[t].pc \in {"none", "done"}
    BY <2>1 DEF Live
  <2>. QED  BY <2>1, <2>2, <2>3 DEF MappedServed
<1>5. CASE StartFails
  <2>1. vtunnelMap' = vtunnelMap \ {main.new} /\ UNCHANGED th
    BY <1>5 DEF StartFails, VtunnelRemove
  <2>. QED  BY <2>1 DEF MappedServed
<1>6. CASE StopTunnel
  <2>1. vtunnelMap' \subseteq vtunnelMap /\ UNCHANGED <<th, main>>
    BY <1>6 DEF StopTunnel
  <2>. QED  BY <2>1 DEF MappedServed
<1>7. CASE TakeSyn \/ Lookup \/ FindVtunnel \/ AddRefused \/ CountService \/ StopBegin \/ StopEnd \/ Await
            \/ AwaitTimeout \/ End
  <2>1. main.pc \notin {"syn", "start"} /\ UNCHANGED <<th, vtunnelMap>>
    BY <1>7 DEF TakeSyn, Lookup, FindVtunnel, AddRefused, CountService, StopBegin, StopEnd, Await,
                AwaitTimeout, End, poolVars
  <2>. QED  BY <2>1 DEF MappedServed
<1>8. ASSUME NEW t \in Services, Service(t) PROVE MappedServed'
  <2>1. CASE HandlerCloses(t) \/ Remove(t)
    <3>1. vtunnelMap' = vtunnelMap \ {th[t].vt} /\ UNCHANGED main
      BY <2>1, RemoveTyped DEF HandlerCloses, Remove
    <3>2. \E pc \in ThreadStates : Go(t, pc)
      BY <2>1 DEF HandlerCloses, Remove, ThreadStates
    <3>3. \A u \in Services : th'[u].vt = th[u].vt /\ (u # t => th'[u].pc = th[u].pc)
      BY <3>2, GoMoves DEF Moves
    <3>. QED  BY <3>1, <3>3 DEF MappedServed
  <2>2. CASE Exit(t)
    <3>1. Moves(t, "done") /\ UNCHANGED vtunnelMap /\ th[t].pc = "exit"
      BY <2>2, ExitLive DEF Exit, poolVars
    <3>2. \A v : Coming(v) => Coming(v)'
      BY <1>0, <2>2 DEF Exit, Coming
    <3>. QED  BY <3>1, <3>2 DEF MappedServed, Moves, Coming
  <2>3. ASSUME NEW from \in {"find", "handler"}, NEW to \in {"opening", "inside", "closing"},
               NEW missing \in {"exit", "handler"}, Find(t, from, to, missing)
        PROVE  MappedServed'
    <3>1. CASE th[t].vt \in vtunnelMap
      <4>1. Moves(t, to) /\ UNCHANGED <<main, vtunnelMap>>
        BY <2>3, <3>1, GoMoves DEF Find, ThreadStates, poolVars
      <4>. QED  BY <4>1 DEF MappedServed, Moves
    <3>2. CASE th[t].vt \notin vtunnelMap
      <4>1. Moves(t, missing) /\ UNCHANGED <<main, vtunnelMap>>
        BY <2>3, <3>2, GoMoves DEF Find, ThreadStates, poolVars
      <4>. QED  BY <3>2, <4>1 DEF MappedServed, Moves
    <3>. QED  BY <3>1, <3>2
  <2>4. CASE WaitForOpen(t) \/ Request(t) \/ HandlerReturn(t) \/ WaitForClose(t)
    <3>1. PICK pc \in Moving : Moves(t, pc)
      BY <1>8, <2>4, ServiceMoves DEF Exit, WaitForOpen, Request, HandlerReturn, WaitForClose
    <3>2. /\ UNCHANGED <<main, vtunnelMap>>
          /\ th'[t].pc \in {"request", "handler", "remove", "removing"}
      <4>1. th \in [Services -> Thread]
        BY DEF Typed
      <4>. QED  BY <2>4, <4>1 DEF WaitForOpen, Request, HandlerReturn, WaitForClose, AfterClose, Go,
                                  Thread, poolVars
    <3>. QED  BY <3>1, <3>2 DEF MappedServed, Moves
  <2>. QED  BY <1>8, <2>1, <2>2, <2>3, <2>4 DEF Service
<1>. QED  BY <1>1, <1>2, <1>3, <1>4, <1>5, <1>6, <1>7, <1>8 DEF Next, Main, Outside

-----------------------------------------------------------------------------
(* The theorems *)

\* The invariant holds when TS_ServerInit has returned.
LEMMA Initially == Init => IInv
<1>. SUFFICES ASSUME Init PROVE IInv
  OBVIOUS
<1>1. Live = {}
  BY DEF Init, Live, NoService
<1>2. Typed
  <2>1. th \in [Services -> Thread]
    BY ServerConstants DEF Init, NoService, Thread, ThreadStates
  <2>2. main \in MainThread
    BY ServerConstants DEF Init, MainThread, MainStates
  <2>3. tssInputQueue \in Seq(Conns) /\ tunnel \in Seq(Tunnel) /\ Len(tunnel) = 0
    BY EmptySeq DEF Init
  <2>0. tss_stopping \in BOOLEAN
    BY Zenon DEF Init
  <2>4. /\ tss_service_threads \in Int /\ dst_udi \in Conns \cup {None}
        /\ handle \in {"none", "registered", "deleted"}
        /\ pool \in {"up", "stopping", "stopped", "deleted"}
    BY DEF Init
  <2>5. vtunnelMap \subseteq DOMAIN tunnel /\ busyTunnels \subseteq DOMAIN tunnel
    BY DEF Init
  <2>6. arrived \in 0 .. MaxSyn /\ 0 <= MaxTunnels
    BY ServerConstants DEF Init
  <2>. QED  BY <2>0, <2>1, <2>2, <2>3, <2>4, <2>5, <2>6 DEF Typed
<1>3. CountRight
  BY <1>1, FS_EmptySet DEF Init, CountRight, Uncounted
<1>. QED  BY <1>1, <1>2, <1>3 DEF Init, IInv, EndQuiet, DeletedLast, MappedServed

\* The invariant speaks of nothing but the variables.
LEMMA Stutters == IInv /\ UNCHANGED vars => IInv'
BY DEF IInv, Typed, CountRight, EndQuiet, DeletedLast, MappedServed, Uncounted, Live, vars

\* IInv is an invariant of the server.
THEOREM Invariance == Spec => []IInv
<1>1. IInv /\ [Next]_vars => IInv'
  <2>1. IInv /\ Next => IInv'
    BY TypedStep, CountStep, QuietStep, ServedStep DEF IInv
  <2>. QED  BY <2>1, Stutters
<1>. QED  BY <1>1, Initially, PTL DEF Spec

\* The types are right, and the count of service threads never falls below -1.
THEOREM TypeCorrect == Spec => []TypeOK
<1>1. IInv => TypeOK
  BY LiveFinite, ServerConstants DEF IInv, Typed, TypeOK, CountRight, Uncounted
<1>. QED  BY <1>1, Invariance, PTL

\* When tssThreadMain deletes the pool every service thread has ended.
THEOREM PoolLast == Spec => []PoolOutlivesServices
<1>1. IInv => PoolOutlivesServices
  BY DEF IInv, DeletedLast, PoolOutlivesServices
<1>. QED  BY <1>1, Invariance, PTL

\* No way through ts_serviceRunner leaves its tunnel behind in the map of the pool.
THEOREM Served == Spec => []MappedServed
<1>1. IInv => MappedServed
  BY DEF IInv
<1>. QED  BY <1>1, Invariance, PTL

=============================================================================
