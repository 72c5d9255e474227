------------------------------ MODULE Vtunnel ------------------------------
(***************************************************************************)
(* A TS2 tunnel: the two Vtunnel objects of one connection                 *)
(* (gvm_core/internal/Ts2/Transport/src/Vtunnel.cpp), the threads that use *)
(* them, and the network between them.                                     *)
(*                                                                         *)
(* An end has a `mutex' (state), a send window (segs_mutex, buffers_mutex) *)
(* and a receive window (segs_mutex).  A step is what a thread does under  *)
(* one of these locks, or reads without one; the handlers that release     *)
(* `mutex' before they work on a window take several steps.                *)
(*                                                                         *)
(* The threads of an end are the caller of Open or WaitForOpen, the        *)
(* callers of Write, a caller of Read, a caller of Close or WaitForClose,  *)
(* the caller of ForceClose, writerThread, retryThread, and the EndPoint   *)
(* threads (Links) that hand packets to ReceivePacket.                     *)
(*                                                                         *)
(* `net' is the set of packets under way: it reorders, a packet may be     *)
(* lost, and a retransmission puts a packet back after it was delivered.   *)
(* The window a packet advertises is used only when a tunnel opens and is  *)
(* then the whole of WindowSize, so it is not a field of the packets.      *)
(***************************************************************************)
EXTENDS Integers, Sequences, FiniteSets, TunnelWindow

CONSTANTS
    Client, Server,     \* the two ends
    Links,              \* the EndPoint threads of each end
    Calls,              \* the calls of Write
    Caller,             \* Caller[w]: the end that makes call w
    Size,               \* Size[w]: the bytes call w writes
    ReadLens,           \* the lengths Read is called with
    ISN,                \* ISN[e]: the number the send window of e starts from
    SegmentSize,        \* localInfo->GetMaxSegmentSize()
    WindowSize,         \* localInfo->GetMaxWindowSize()
    Closers,            \* the ends whose application closes the tunnel
    Concurrent,         \* TRUE: the calls of an application overlap
    Timeouts,           \* the waits that may time out
    MaxSyn,             \* bound: SYN packets accepted by the server
    MaxLoss,            \* bound: packets the network loses
    MaxNet,             \* bound: packets under way when one is sent again
    MaxForce            \* bound: calls of ForceClose

Ends == {Client, Server}

ASSUME EndsAssumption == Client # Server
ASSUME CallsAssumption == Caller \in [Calls -> Ends] /\ Size \in [Calls -> Nat \ {0}]
ASSUME NumbersAssumption ==
    /\ ISN \in [Ends -> Nat \ {0}]
    /\ ReadLens \subseteq Nat \ {0}
    /\ SegmentSize \in Nat \ {0}
    /\ WindowSize \in Nat /\ WindowSize >= SegmentSize
    /\ MaxSyn \in Nat /\ MaxLoss \in Nat /\ MaxNet \in Nat /\ MaxForce \in Nat
    /\ Closers \subseteq Ends
    /\ Concurrent \in BOOLEAN

VARIABLES
    state,              \* Vtunnel::state
    mutex,              \* who holds Vtunnel::mutex across steps
    inPool,             \* the Pool still maps the id of the tunnel to it
    sendSegments, retrySegments, sendSegments_size,     \* sendWindow, under segs_mutex
    cur_seq,
    sendBuffers, sendBuffers_size,                      \* sendWindow, under buffers_mutex
    currBufferIndex, currBufferOffset, nextBufferIndex,
    recvSegments, head_seq, cur_ack, closeInProgress,   \* recvWindow, under its segs_mutex
    writer, retrier,    \* writerThread and retryThread
    openPc, openQueue,  \* the caller of Open / WaitForOpen
    closePc,            \* the caller of Close / WaitForClose
    writePc, writeIndex,\* the callers of Write, and the index AppendToBuffers gave them
    readPc,             \* the caller of Read
    handling,           \* packets the Links are working on
    synQueue, synTaken, synHandled, \* SYNs in tssInputQueue, held by tssThreadMain, answered
    net, lost, forced,
    got,                \* history: the bytes Read has returned at an end, in order
    readFault           \* history: the odd results Read has returned at an end

stateVars == <<state, mutex, inPool>>
segmentVars == <<sendSegments, retrySegments, sendSegments_size>>
bufferVars == <<sendBuffers, sendBuffers_size, currBufferIndex, currBufferOffset, nextBufferIndex>>
recvVars == <<recvSegments, head_seq, cur_ack, closeInProgress>>
workerVars == <<writer, retrier>>
openVars == <<openPc, openQueue>>
synVars == <<synQueue, synTaken, synHandled>>
writeVars == <<writePc, writeIndex>>
readVars == <<readPc, got, readFault>>
boundVars == <<lost, forced>>
vars == <<stateVars, segmentVars, cur_seq, bufferVars, recvVars, workerVars, openVars,
          synVars, closePc, writeVars, readVars, handling, net, boundVars>>

Peer(e) == IF e = Client THEN Server ELSE Client

PacketTypes == {"SYN", "SYN_ACK", "ACK", "DATA", "FIN", "FIN_ACK"}
Packet == [to : Ends, type : PacketTypes, seq : Nat, ack : Nat, len : Nat]
Segment == [type : {"SYN", "SYN_ACK", "DATA", "FIN"}, seq : Nat, len : Nat, head : Nat, round : Nat]
Buffer == [head_seq : Nat, size : Nat, aborted : BOOLEAN]
Piece == [seq : Nat, len : Nat]
Handling == [link : Links, pc : {"threeway", "establish", "recheck", "ack", "segments", "buffers", "data"},
             pkt : Packet]

-----------------------------------------------------------------------------
(* Packets and segments *)

\* A packet of e with the acknowledgement number `ack'.
PacketOf(e, type, seq, ack, len) ==
    [to |-> Peer(e), type |-> type, seq |-> seq, ack |-> ack, len |-> len]

\* A control segment: no bytes, and head_seq_index is its own number.  `round' tells the
\* SYN_ACKs that answer different copies of a SYN apart (they are different send_segments).
ControlSegment(type, seq, round) ==
    [type |-> type, seq |-> seq, len |-> 0, head |-> seq, round |-> round]

\* Faulty variant: the segment is not queued for retransmission.
InsertSegment_Once(e, seg) ==
    /\ sendSegments' = [sendSegments EXCEPT ![e] = WithSegment(@, seg)]
    /\ sendSegments_size' = [sendSegments_size EXCEPT ![e] = @ + seg.len]
    /\ UNCHANGED retrySegments

\* sendWindow::InsertSegments: a segment with the same number is replaced in sendSegments,
\* and stays in retrySegments, whose keys are timestamps (taken to be distinct).
InsertSegment(e, seg) ==
    /\ sendSegments' = [sendSegments EXCEPT ![e] = WithSegment(@, seg)]
    /\ retrySegments' = [retrySegments EXCEPT ![e] = @ \cup {seg}]
    /\ sendSegments_size' = [sendSegments_size EXCEPT ![e] = @ + seg.len]

\* The segments `segs' of sendSegments leave both lists.
EraseSegments(e, segs) ==
    /\ sendSegments' = [sendSegments EXCEPT ![e] = @ \ segs]
    /\ retrySegments' = [retrySegments EXCEPT ![e] = @ \ segs]

\* Faulty variant: the segments stay queued for retransmission.
CancelCtrlPkt_SentOnly(e) ==
    /\ sendSegments' = [sendSegments EXCEPT ![e] = {s \in @ : s.type = "DATA"}]
    /\ UNCHANGED <<retrySegments, sendSegments_size>>

\* sendWindow::CancelCtrlPktFromSegments
CancelCtrlPktFromSegments(e) ==
    /\ EraseSegments(e, {s \in sendSegments[e] : s.type # "DATA"})
    /\ UNCHANGED sendSegments_size

\* Faulty variant: the segments go, nobody tells the callers of Write.
Clear_Silent(e) ==
    /\ EraseSegments(e, sendSegments[e])
    /\ UNCHANGED <<sendSegments_size, bufferVars>>

\* Faulty variant: the buffers go, as if they had been acknowledged.
Clear_Buffers(e) ==
    /\ sendBuffers' = [sendBuffers EXCEPT ![e] = {}]
    /\ EraseSegments(e, sendSegments[e])
    /\ UNCHANGED <<sendSegments_size, sendBuffers_size, currBufferIndex, currBufferOffset, nextBufferIndex>>

\* sendWindow::Clear: the buffers stay, marked, for Write to find and delete.
Clear(e) ==
    /\ sendBuffers' = [sendBuffers EXCEPT ![e] = {[b EXCEPT !.aborted = TRUE] : b \in @}]
    /\ EraseSegments(e, sendSegments[e])
    /\ UNCHANGED <<sendSegments_size, sendBuffers_size, currBufferIndex, currBufferOffset, nextBufferIndex>>

\* Faulty variant: the buffer goes, its segments stay queued for retransmission.
ForgetBuffer(e, index) ==
    /\ sendBuffers' = [sendBuffers EXCEPT ![e] = {b \in @ : b.head_seq # index}]
    /\ UNCHANGED <<sendSegments, retrySegments, sendSegments_size, sendBuffers_size,
                   currBufferIndex, currBufferOffset, nextBufferIndex>>

\* sendWindow::CancelFromBuffers: neither size is adjusted, currBufferIndex is not moved.
CancelFromBuffers(e, index) ==
    /\ EraseSegments(e, {s \in sendSegments[e] : s.head = index})
    /\ sendBuffers' = [sendBuffers EXCEPT ![e] = {b \in @ : b.head_seq # index}]
    /\ UNCHANGED <<sendSegments_size, sendBuffers_size, currBufferIndex, currBufferOffset, nextBufferIndex>>

\* stopWorkerThreads: both threads are told to stop and joined.
Joined(thread) == IF thread = "idle" THEN "idle" ELSE "joined"
StopWorkerThreads(e) ==
    /\ writer' = [writer EXCEPT ![e] = Joined(@)]
    /\ retrier' = [retrier EXCEPT ![e] = Joined(@)]

\* Threads waiting in Read are told that a close is under way; nobody else is.
WakeReaders(e) ==
    closeInProgress' = [closeInProgress EXCEPT ![e] = @ \/ readPc[e] = "waiting"]

\* Faulty variant: the state is set and close_cond is not signalled.
WakeCloser_Nobody(e) == UNCHANGED closePc

\* Broadcast of close_cond.
WakeCloser(e) == closePc' = [closePc EXCEPT ![e] = IF @ = "waiting" THEN "woken" ELSE @]

\* Faulty variant: nobody is kept out of the middle of a close.
Free_Always(e) == TRUE

Free(e) == mutex[e] = "free"

\* The front end drops the DATA packets of the tunnel it has not sent yet: any of them.
CancelDataPackets(e) ==
    \E queued \in SUBSET {p \in net : p.to = Peer(e) /\ p.type = "DATA"} : net' = net \ queued

Init ==
    /\ state = [e \in Ends |-> "NULL"]
    /\ mutex = [e \in Ends |-> "free"]
    /\ inPool = [e \in Ends |-> e = Client]
    /\ sendSegments = [e \in Ends |-> {}]
    /\ retrySegments = [e \in Ends |-> {}]
    /\ sendSegments_size = [e \in Ends |-> 0]
    /\ cur_seq = ISN
    /\ sendBuffers = [e \in Ends |-> {}]
    /\ sendBuffers_size = [e \in Ends |-> 0]
    /\ currBufferIndex = [e \in Ends |-> 0]
    /\ currBufferOffset = [e \in Ends |-> 0]
    /\ nextBufferIndex = [e \in Ends |-> 0]
    /\ recvSegments = [e \in Ends |-> {}]
    /\ head_seq = [e \in Ends |-> 0]
    /\ cur_ack = [e \in Ends |-> 0]
    /\ closeInProgress = [e \in Ends |-> FALSE]
    /\ writer = [e \in Ends |-> "idle"]
    /\ retrier = [e \in Ends |-> "idle"]
    /\ openPc = [e \in Ends |-> "idle"]
    /\ openQueue = {}
    /\ synQueue = 0 /\ synTaken = FALSE /\ synHandled = 0
    /\ closePc = [e \in Ends |-> "idle"]
    /\ writePc = [w \in Calls |-> "idle"]
    /\ writeIndex = [w \in Calls |-> 0]
    /\ readPc = [e \in Ends |-> "idle"]
    /\ handling = {}
    /\ net = {}
    /\ lost = 0 /\ forced = 0
    /\ got = [e \in Ends |-> <<>>]
    /\ readFault = [e \in Ends |-> {}]

-----------------------------------------------------------------------------
(* Opening, client side: Open *)

\* A tunnel that was force-closed before Open is left as it is and Open fails.
OpenRefused ==
    /\ openPc[Client] = "idle" /\ Free(Client)
    /\ state[Client] = "CLOSED"
    /\ openPc' = [openPc EXCEPT ![Client] = "failed"]
    /\ CancelCtrlPktFromSegments(Client)
    /\ UNCHANGED <<stateVars, cur_seq, bufferVars, recvVars, workerVars, openQueue, synVars,
                   closePc, writeVars, readVars, handling, net, boundVars>>

OpenStart ==
    /\ openPc[Client] = "idle" /\ Free(Client)
    /\ state[Client] = "NULL"
    /\ state' = [state EXCEPT ![Client] = "OPENING"]
    /\ retrier' = [retrier EXCEPT ![Client] = "running"]
    /\ InsertSegment(Client, ControlSegment("SYN", cur_seq[Client], 0))
    /\ net' = net \cup {PacketOf(Client, "SYN", cur_seq[Client], cur_ack[Client], 0)}
    /\ openPc' = [openPc EXCEPT ![Client] = "waiting"]
    /\ UNCHANGED <<mutex, inPool, cur_seq, bufferVars, recvVars, writer, openQueue, synVars,
                   closePc, writeVars, readVars, handling, boundVars>>

\* nextBufferIndex = currBufferIndex = cur_seq = ack; currBufferOffset is not reset.
FirstSequence(e, ack) ==
    /\ cur_seq' = [cur_seq EXCEPT ![e] = ack]
    /\ currBufferIndex' = [currBufferIndex EXCEPT ![e] = ack]
    /\ nextBufferIndex' = [nextBufferIndex EXCEPT ![e] = ack]
    /\ UNCHANGED <<sendBuffers, sendBuffers_size, currBufferOffset>>

\* Faulty variant: the reader starts at the number of the SYN.
ExpectFrom_Syn(e, seq) ==
    /\ cur_ack' = [cur_ack EXCEPT ![e] = seq + 1]
    /\ head_seq' = [head_seq EXCEPT ![e] = seq]
    /\ UNCHANGED <<recvSegments, closeInProgress>>

\* A SYN or SYN_ACK numbered `seq' sets both ends of the receive window.
ExpectFrom(e, seq) ==
    /\ cur_ack' = [cur_ack EXCEPT ![e] = seq + 1]
    /\ head_seq' = [head_seq EXCEPT ![e] = seq + 1]
    /\ UNCHANGED <<recvSegments, closeInProgress>>

\* The SYN_ACK is taken from openQueue.  (Every SYN_ACK a tunnel is sent acknowledges its
\* SYN, so the branch that drops a wrong acknowledgement number is never taken.)
OpenFinish ==
    /\ openPc[Client] = "waiting" /\ Free(Client)
    /\ state[Client] = "OPENING"
    /\ \E p \in openQueue :
        /\ p.ack = cur_seq[Client] + 1
        /\ FirstSequence(Client, p.ack)
        /\ ExpectFrom(Client, p.seq)
        /\ net' = net \cup {PacketOf(Client, "ACK", p.ack, p.seq + 1, 0)}
    /\ state' = [state EXCEPT ![Client] = "OPEN"]
    /\ openQueue' = {}
    /\ CancelCtrlPktFromSegments(Client)
    /\ openPc' = [openPc EXCEPT ![Client] = "ok"]
    /\ UNCHANGED <<mutex, inPool, workerVars, synVars, closePc, writeVars, readVars, handling,
                   boundVars>>

\* ForceClose woke the caller of Open.
OpenAborted ==
    /\ openPc[Client] = "waiting" /\ Free(Client)
    /\ state[Client] = "CLOSED"
    /\ openPc' = [openPc EXCEPT ![Client] = "failed"]
    /\ CancelCtrlPktFromSegments(Client)
    /\ UNCHANGED <<stateVars, cur_seq, bufferVars, recvVars, workerVars, openQueue, synVars,
                   closePc, writeVars, readVars, handling, net, boundVars>>

\* No SYN_ACK in time: Open fails and the state stays OPENING.
OpenTimeout ==
    /\ "open" \in Timeouts
    /\ openPc[Client] = "waiting" /\ Free(Client)
    /\ state[Client] = "OPENING"
    /\ openPc' = [openPc EXCEPT ![Client] = "failed"]
    /\ CancelCtrlPktFromSegments(Client)
    /\ UNCHANGED <<stateVars, cur_seq, bufferVars, recvVars, workerVars, openQueue, synVars,
                   closePc, writeVars, readVars, handling, net, boundVars>>

-----------------------------------------------------------------------------
(* Opening, server side: Pool::recvPacketHandler, tssThreadMain, HandleSyn, WaitForOpen *)

\* The SYNs that have arrived.
SynsArrived == synQueue + synHandled + (IF synTaken THEN 1 ELSE 0)

\* A SYN is addressed to id 0: the Pool queues it for tssThreadMain.  (MaxSyn: the copies
\* after that are lost on the way.)
QueueSyn(p) ==
    /\ p \in net /\ p.type = "SYN"
    /\ net' = net \ {p}
    /\ synQueue' = IF SynsArrived < MaxSyn THEN synQueue + 1 ELSE synQueue
    /\ UNCHANGED <<stateVars, segmentVars, cur_seq, bufferVars, recvVars, workerVars, openVars,
                   synTaken, synHandled, closePc, writeVars, readVars, handling, boundVars>>

\* tssThreadMain takes a SYN, and finds the tunnel of an earlier copy or creates one.
\* (Once the tunnel has been removed a late copy opens another one, which is not modelled.)
TakeSyn ==
    /\ synQueue > 0 /\ ~synTaken
    /\ state[Server] = "NULL" \/ inPool[Server]
    /\ synQueue' = synQueue - 1
    /\ synTaken' = TRUE
    /\ inPool' = [inPool EXCEPT ![Server] = TRUE]
    /\ state' = [state EXCEPT ![Server] = IF @ = "NULL" THEN "HALF_OPEN" ELSE @]
    /\ UNCHANGED <<mutex, segmentVars, cur_seq, bufferVars, recvVars, workerVars, openVars,
                   synHandled, closePc, writeVars, readVars, handling, net, boundVars>>

\* HandleSyn does not look at the state.
HandleSyn ==
    /\ synTaken /\ Free(Server)
    /\ ExpectFrom(Server, ISN[Client])
    /\ retrier' = [retrier EXCEPT ![Server] = IF @ = "idle" THEN "running" ELSE @]
    /\ InsertSegment(Server, ControlSegment("SYN_ACK", cur_seq[Server], synHandled))
    /\ net' = net \cup {PacketOf(Server, "SYN_ACK", cur_seq[Server], ISN[Client] + 1, 0)}
    /\ synTaken' = FALSE
    /\ synHandled' = synHandled + 1
    /\ UNCHANGED <<stateVars, cur_seq, bufferVars, writer, openVars, synQueue, closePc,
                   writeVars, readVars, handling, boundVars>>

\* ts_serviceRunner calls WaitForOpen.  CLOSED and, unlike in the wait, CLOSING are errors.
WaitForOpenStart ==
    /\ openPc[Server] = "idle" /\ synHandled > 0 /\ Free(Server)
    /\ \/ /\ state[Server] = "HALF_OPEN"
          /\ openPc' = [openPc EXCEPT ![Server] = "waiting"]
          /\ UNCHANGED segmentVars
       \/ /\ state[Server] # "HALF_OPEN"
          /\ openPc' = [openPc EXCEPT ![Server] = IF state[Server] = "OPEN" THEN "ok" ELSE "failed"]
          /\ CancelCtrlPktFromSegments(Server)
    /\ UNCHANGED <<stateVars, cur_seq, bufferVars, recvVars, workerVars, openQueue, synVars,
                   closePc, writeVars, readVars, handling, net, boundVars>>

\* The wait ends when the state is no longer HALF_OPEN.
WaitForOpenFinish ==
    /\ openPc[Server] = "waiting" /\ Free(Server)
    /\ state[Server] # "HALF_OPEN"
    /\ openPc' = [openPc EXCEPT ![Server] = IF state[Server] = "CLOSED" THEN "failed" ELSE "ok"]
    /\ CancelCtrlPktFromSegments(Server)
    /\ UNCHANGED <<stateVars, cur_seq, bufferVars, recvVars, workerVars, openQueue, synVars,
                   closePc, writeVars, readVars, handling, net, boundVars>>

\* No ACK in time: the open fails, though the ACK may come before the waiter has mutex again.
WaitForOpenTimeout ==
    /\ "accept" \in Timeouts
    /\ openPc[Server] = "waiting" /\ Free(Server)
    /\ openPc' = [openPc EXCEPT ![Server] = "failed"]
    /\ CancelCtrlPktFromSegments(Server)
    /\ UNCHANGED <<stateVars, cur_seq, bufferVars, recvVars, workerVars, openQueue, synVars,
                   closePc, writeVars, readVars, handling, net, boundVars>>

-----------------------------------------------------------------------------
(* The application: when it may call *)

\* A call of Write is over, or has not begun.
Resting(w) == writePc[w] \in {"idle", "ok", "failed"}
NoWrite(e) == \A w \in Calls : Caller[w] = e => Resting(w)

\* The client has a handle once Open succeeded; the service handler of the server runs
\* between WaitForOpen and WaitForClose.
Serving(e) ==
    /\ openPc[e] = "ok" /\ inPool[e]
    /\ e = Server => closePc[e] = "idle"

-----------------------------------------------------------------------------
(* Write *)

\* The state check.  (A call that fails here changes nothing.)
WriteStart(w) ==
    LET e == Caller[w] IN
    /\ writePc[w] = "idle" /\ Serving(e) /\ Free(e)
    /\ Concurrent \/ (NoWrite(e) /\ closePc[e] = "idle")
    /\ state[e] = "OPEN"
    /\ writePc' = [writePc EXCEPT ![w] = "checked"]
    /\ UNCHANGED <<stateVars, segmentVars, cur_seq, bufferVars, recvVars, workerVars, openVars, synVars,
                   closePc, writeIndex, readVars, handling, net, boundVars>>

\* sendWindow::AppendToBuffers, under buffers_mutex.
AppendToBuffers(e, size) ==
    /\ sendBuffers' = [sendBuffers EXCEPT ![e] = @ \cup
            {[head_seq |-> nextBufferIndex[e], size |-> size, aborted |-> FALSE]}]
    /\ currBufferIndex' = [currBufferIndex EXCEPT ![e] =
            IF sendSegments_size[e] = sendBuffers_size[e] THEN nextBufferIndex[e] ELSE @]
    /\ sendBuffers_size' = [sendBuffers_size EXCEPT ![e] = @ + size]
    /\ nextBufferIndex' = [nextBufferIndex EXCEPT ![e] = @ + size]
    /\ UNCHANGED currBufferOffset

\* "buffers[] already exists, shouldn't happen": then the call fails.
WriteAppend(w) ==
    LET e == Caller[w] IN
    /\ writePc[w] = "checked"
    /\ IF \E b \in sendBuffers[e] : b.head_seq = nextBufferIndex[e]
       THEN /\ writePc' = [writePc EXCEPT ![w] = "failed"]
            /\ UNCHANGED <<bufferVars, writeIndex>>
       ELSE /\ AppendToBuffers(e, Size[w])
            /\ writeIndex' = [writeIndex EXCEPT ![w] = nextBufferIndex[e]]
            /\ writePc' = [writePc EXCEPT ![w] = "appended"]
    /\ UNCHANGED <<stateVars, segmentVars, cur_seq, recvVars, workerVars, openVars, synVars,
                   closePc, readVars, handling, net, boundVars>>

\* Under mutex again: the first write spawns writerThread, unless a close came between.
WriteSpawn(w) ==
    LET e == Caller[w] IN
    /\ writePc[w] = "appended" /\ Free(e)
    /\ writer[e] = "idle" => state[e] = "OPEN"
    /\ writer' = [writer EXCEPT ![e] = IF @ = "idle" THEN "running" ELSE @]
    /\ writePc' = [writePc EXCEPT ![w] = "waiting"]
    /\ UNCHANGED <<stateVars, segmentVars, cur_seq, bufferVars, recvVars, retrier, openVars, synVars,
                   closePc, writeIndex, readVars, handling, net, boundVars>>

WriteSpawnRefused(w) ==
    LET e == Caller[w] IN
    /\ writePc[w] = "appended" /\ Free(e)
    /\ writer[e] = "idle" /\ state[e] # "OPEN"
    /\ CancelFromBuffers(e, writeIndex[w])
    /\ writePc' = [writePc EXCEPT ![w] = "failed"]
    /\ UNCHANGED <<stateVars, cur_seq, recvVars, workerVars, openVars, synVars,
                   closePc, writeIndex, readVars, handling, net, boundVars>>

\* The buffer of call w, if it is still there.
BufferOf(w) == {b \in sendBuffers[Caller[w]] : b.head_seq = writeIndex[w]}

\* Under buffers_mutex, before or after the wait on complete_cond: the buffer is gone,
\* which handleAck does when it is acknowledged, and the write succeeds.
WriteFinish(w) ==
    /\ writePc[w] = "waiting"
    /\ BufferOf(w) = {}
    /\ writePc' = [writePc EXCEPT ![w] = "ok"]
    /\ CancelDataPackets(Caller[w])
    /\ UNCHANGED <<stateVars, segmentVars, cur_seq, bufferVars, recvVars, workerVars, openVars, synVars,
                   closePc, writeIndex, readVars, handling, boundVars>>

\* Clear has marked the buffer.
WriteAborted(w) ==
    /\ writePc[w] = "waiting"
    /\ \E b \in BufferOf(w) : b.aborted
    /\ writePc' = [writePc EXCEPT ![w] = "failed"]
    /\ CancelFromBuffers(Caller[w], writeIndex[w])
    /\ CancelDataPackets(Caller[w])
    /\ UNCHANGED <<stateVars, cur_seq, recvVars, workerVars, openVars, synVars,
                   closePc, writeIndex, readVars, handling, boundVars>>

WriteTimeout(w) ==
    /\ "write" \in Timeouts
    /\ writePc[w] = "waiting"
    /\ writePc' = [writePc EXCEPT ![w] = "failed"]
    /\ CancelFromBuffers(Caller[w], writeIndex[w])
    /\ CancelDataPackets(Caller[w])
    /\ UNCHANGED <<stateVars, cur_seq, recvVars, workerVars, openVars, synVars,
                   closePc, writeIndex, readVars, handling, boundVars>>

-----------------------------------------------------------------------------
(* writerThread and retryThread *)

\* Faulty variant: the window is not looked at.
isAvailableWindow_Always(e) == TRUE

\* (window_capacity - sendSegments_size) >= segment_size on unsigned numbers: a size above
\* the capacity wraps and is no obstacle.
isAvailableWindow(e) ==
    sendSegments_size[e] \notin (WindowSize - SegmentSize + 1) .. WindowSize

isAvailableBufferToSend(e) == nextBufferIndex[e] > currBufferIndex[e] + currBufferOffset[e]

\* Faulty variant: the index moves with every segment.
AdvanceWriter_Index(e, b, len) ==
    /\ currBufferIndex' = [currBufferIndex EXCEPT ![e] = @ + len]
    /\ UNCHANGED currBufferOffset

\* Faulty variant: the size of a finished buffer is taken off an offset that was not advanced.
AdvanceWriter_Subtract(e, b, len) ==
    LET done == currBufferOffset[e] + len = b.size IN
    /\ currBufferOffset' = [currBufferOffset EXCEPT ![e] = IF done THEN @ - b.size ELSE @ + len]
    /\ currBufferIndex' = [currBufferIndex EXCEPT ![e] = IF done THEN @ + b.size ELSE @]

\* len bytes of the current buffer have been sent.
AdvanceWriter(e, b, len) ==
    LET done == currBufferOffset[e] + len = b.size IN
    /\ currBufferOffset' = [currBufferOffset EXCEPT ![e] = IF done THEN 0 ELSE @ + len]
    /\ currBufferIndex' = [currBufferIndex EXCEPT ![e] = IF done THEN @ + b.size ELSE @]

\* One turn of writerThread: the window and a buffer are available (only this thread uses
\* up the window, so waiting for one and then the other is waiting for both).
WriterSend(e) ==
    /\ writer[e] = "running"
    /\ isAvailableWindow(e) /\ isAvailableBufferToSend(e)
    /\ \E b \in sendBuffers[e] :
        /\ b.head_seq = currBufferIndex[e]
        /\ LET left == b.size - currBufferOffset[e]
               len == IF left \in 0 .. SegmentSize THEN left ELSE SegmentSize
               seq == currBufferIndex[e] + currBufferOffset[e]
           IN  /\ InsertSegment(e, [type |-> "DATA", seq |-> seq, len |-> len,
                                    head |-> currBufferIndex[e], round |-> 0])
               /\ AdvanceWriter(e, b, len)
               /\ net' = net \cup {PacketOf(e, "DATA", seq, cur_ack[e], len)}
    /\ UNCHANGED <<stateVars, cur_seq, sendBuffers, sendBuffers_size, nextBufferIndex, recvVars,
                   workerVars, openVars, synVars, closePc, writeVars, readVars, handling, boundVars>>

\* "Cannot find current buffer to send": the thread bails out for good.
WriterExit(e) ==
    /\ writer[e] = "running"
    /\ isAvailableWindow(e) /\ isAvailableBufferToSend(e)
    /\ \A b \in sendBuffers[e] : b.head_seq # currBufferIndex[e]
    /\ writer' = [writer EXCEPT ![e] = "exited"]
    /\ UNCHANGED <<stateVars, segmentVars, cur_seq, bufferVars, recvVars, retrier, openVars, synVars,
                   closePc, writeVars, readVars, handling, net, boundVars>>

\* retryThread, under segs_mutex: the time of a segment has come.  The packet is built
\* again with the acknowledgement of now.
RetrySend(e, s) ==
    /\ retrier[e] = "running"
    /\ s \in retrySegments[e]
    /\ Cardinality(net) < MaxNet
    /\ net' = net \cup {PacketOf(e, s.type, s.seq, cur_ack[e], s.len)}
    /\ UNCHANGED <<stateVars, segmentVars, cur_seq, bufferVars, recvVars, workerVars, openVars, synVars,
                   closePc, writeVars, readVars, handling, boundVars>>

-----------------------------------------------------------------------------
(* ReceivePacket: the dispatch, under mutex *)

\* A link takes packet p from the network to a tunnel the Pool knows.
Arrives(p, l) ==
    /\ p \in net /\ p.type # "SYN"
    /\ inPool[p.to] /\ Free(p.to)
    /\ \A h \in handling : ~(h.link = l /\ h.pkt.to = p.to)

\* The states in which a packet of each type is not dropped.
Accepts(type) ==
    CASE type = "FIN"     -> {"OPENING", "HALF_OPEN", "OPEN", "CLOSING", "CLOSE_WAIT"}
      [] type = "FIN_ACK" -> {"CLOSING", "CLOSE_WAIT"}
      [] type = "SYN_ACK" -> {"OPENING"}
      [] type = "ACK"     -> {"HALF_OPEN", "OPEN", "CLOSING", "CLOSE_WAIT"}
      [] type = "DATA"    -> {"OPENING", "HALF_OPEN", "OPEN", "CLOSE_WAIT"}
      [] OTHER            -> {}

DropPacket(p, l) ==
    /\ Arrives(p, l)
    /\ state[p.to] \notin Accepts(p.type)
    /\ net' = net \ {p}
    /\ UNCHANGED <<stateVars, segmentVars, cur_seq, bufferVars, recvVars, workerVars, openVars, synVars,
                   closePc, writeVars, readVars, handling, boundVars>>

\* In HALF_OPEN an ACK, or DATA, may be the last packet of the handshake.
FirstStep(e, type) ==
    IF state[e] = "HALF_OPEN" THEN "threeway" ELSE IF type = "ACK" THEN "ack" ELSE "data"

\* ACK and DATA are handled after mutex is released.
ReceiveAckOrData(p, l) ==
    /\ Arrives(p, l)
    /\ p.type \in {"ACK", "DATA"} /\ state[p.to] \in Accepts(p.type)
    /\ handling' = handling \cup {[link |-> l, pkt |-> p, pc |-> FirstStep(p.to, p.type)]}
    /\ net' = net \ {p}
    /\ UNCHANGED <<stateVars, segmentVars, cur_seq, bufferVars, recvVars, workerVars, openVars, synVars,
                   closePc, writeVars, readVars, boundVars>>

ReceiveSynAck(p, l) ==
    /\ Arrives(p, l)
    /\ p.type = "SYN_ACK" /\ state[p.to] \in Accepts(p.type)
    /\ openQueue' = openQueue \cup {p}
    /\ net' = net \ {p}
    /\ UNCHANGED <<stateVars, segmentVars, cur_seq, bufferVars, recvVars, workerVars, openPc, synVars,
                   closePc, writeVars, readVars, handling, boundVars>>

\* handleFin: the receive queue is kept, the send window is cleared, a FIN_ACK is sent.
ReceiveFin(p, l) ==
    LET e == p.to IN
    /\ Arrives(p, l)
    /\ p.type = "FIN" /\ state[e] \in Accepts(p.type)
    /\ WakeReaders(e)
    /\ cur_ack' = [cur_ack EXCEPT ![e] = p.seq + 1]
    /\ Clear(e)
    /\ net' = (net \ {p}) \cup {PacketOf(e, "FIN_ACK", cur_seq[e], p.seq + 1, 0)}
    /\ \/ /\ state[e] \in {"OPENING", "HALF_OPEN"}
          /\ UNCHANGED <<state, closePc>>
       \/ /\ state[e] = "OPEN"
          /\ state' = [state EXCEPT ![e] = "CLOSING"]
          /\ UNCHANGED closePc
       \/ /\ state[e] \in {"CLOSING", "CLOSE_WAIT"}
          /\ state' = [state EXCEPT ![e] = "CLOSED"]
          /\ WakeCloser(e)
    /\ UNCHANGED <<mutex, inPool, cur_seq, recvSegments, head_seq, workerVars, openVars, synVars,
                   writeVars, readVars, handling, boundVars>>

\* handleFinAck: an acknowledgement number that does not match is only logged.
ReceiveFinAck(p, l) ==
    LET e == p.to IN
    /\ Arrives(p, l)
    /\ p.type = "FIN_ACK" /\ state[e] \in Accepts(p.type)
    /\ state' = [state EXCEPT ![e] = "CLOSED"]
    /\ StopWorkerThreads(e)
    /\ Clear(e)
    /\ WakeCloser(e)
    /\ net' = net \ {p}
    /\ UNCHANGED <<mutex, inPool, cur_seq, recvVars, openVars, synVars,
                   writeVars, readVars, handling, boundVars>>

-----------------------------------------------------------------------------
(* handleThreeWayAck, handleAck, handleData: without mutex *)

Advance(h, pc) == handling' = (handling \ {h}) \cup {[h EXCEPT !.pc = pc]}
Done(h) == handling' = handling \ {h}

\* An ACK is done with; a DATA packet goes on to the state check of ReceivePacket.
AfterThreeWay(h) == IF h.pkt.type = "DATA" THEN Advance(h, "recheck") ELSE Done(h)

\* The numbers are compared without a lock ...
ThreeWayCheck(h) ==
    LET e == h.pkt.to IN
    /\ h \in handling /\ h.pc = "threeway"
    /\ IF h.pkt.ack = cur_seq[e] + 1 /\ h.pkt.seq = cur_ack[e]
       THEN Advance(h, "establish")
       ELSE AfterThreeWay(h)
    /\ UNCHANGED <<stateVars, segmentVars, cur_seq, bufferVars, recvVars, workerVars, openVars, synVars,
                   closePc, writeVars, readVars, net, boundVars>>

\* ... and the state is written without one.
Establish(h) ==
    LET e == h.pkt.to IN
    /\ h \in handling /\ h.pc = "establish"
    /\ FirstSequence(e, h.pkt.ack)
    /\ state' = [state EXCEPT ![e] = "OPEN"]
    /\ CancelCtrlPktFromSegments(e)
    /\ AfterThreeWay(h)
    /\ UNCHANGED <<mutex, inPool, recvVars, workerVars, openVars, synVars,
                   closePc, writeVars, readVars, net, boundVars>>

\* mutex again: DATA is not taken in CLOSING.
Recheck(h) ==
    LET e == h.pkt.to IN
    /\ h \in handling /\ h.pc = "recheck" /\ Free(e)
    /\ IF state[e] = "CLOSING" THEN Done(h) ELSE Advance(h, "data")
    /\ UNCHANGED <<stateVars, segmentVars, cur_seq, bufferVars, recvVars, workerVars, openVars, synVars,
                   closePc, writeVars, readVars, net, boundVars>>

\* Faulty variant: every acknowledgement is taken, the old ones too.
NewAck_Any(e, ack) == TRUE

NewAck(e, ack) == ack > cur_seq[e]

\* `no lock held yet'
AckCompare(h) ==
    /\ h \in handling /\ h.pc = "ack"
    /\ IF NewAck(h.pkt.to, h.pkt.ack) THEN Advance(h, "segments") ELSE Done(h)
    /\ UNCHANGED <<stateVars, segmentVars, cur_seq, bufferVars, recvVars, workerVars, openVars, synVars,
                   closePc, writeVars, readVars, net, boundVars>>

\* Under segs_mutex.
AckSegments(h) ==
    LET e == h.pkt.to
        acked == AckedSegments(sendSegments[e], h.pkt.ack)
    IN
    /\ h \in handling /\ h.pc = "segments"
    /\ cur_seq' = [cur_seq EXCEPT ![e] = h.pkt.ack]
    /\ EraseSegments(e, acked)
    /\ sendSegments_size' = [sendSegments_size EXCEPT ![e] = @ - Bytes(acked)]
    /\ Advance(h, "buffers")
    /\ UNCHANGED <<stateVars, bufferVars, recvVars, workerVars, openVars, synVars,
                   closePc, writeVars, readVars, net, boundVars>>

\* Under buffers_mutex.
AckBuffers(h) ==
    LET e == h.pkt.to
        acked == AckedBuffers(sendBuffers[e], h.pkt.ack)
    IN
    /\ h \in handling /\ h.pc = "buffers"
    /\ sendBuffers' = [sendBuffers EXCEPT ![e] = @ \ acked]
    /\ sendBuffers_size' = [sendBuffers_size EXCEPT ![e] =
            @ - MapThenSumSet(LAMBDA b : b.size, acked)]
    /\ Done(h)
    /\ UNCHANGED <<stateVars, segmentVars, cur_seq, currBufferIndex, currBufferOffset, nextBufferIndex,
                   recvVars, workerVars, openVars, synVars, closePc, writeVars, readVars, net, boundVars>>

\* Faulty variant: a packet ahead of the expected one is taken for the expected one.
ExpectAfter_Gap(e, p, segs) ==
    IF p.seq < cur_ack[e] THEN UNCHANGED cur_ack
    ELSE \E to \in Boundaries(segs, p.seq) :
            /\ IsRunEnd(segs, p.seq, to)
            /\ cur_ack' = [cur_ack EXCEPT ![e] = to]

\* The expected packet moves cur_ack over it and the queued segments that follow.
ExpectAfter(e, p, segs) ==
    IF p.seq # cur_ack[e] THEN UNCHANGED cur_ack
    ELSE \E to \in Boundaries(segs, p.seq) :
            /\ IsRunEnd(segs, p.seq, to)
            /\ cur_ack' = [cur_ack EXCEPT ![e] = to]

IsDuplicate(e, p) == p.seq < cur_ack[e] \/ \E s \in recvSegments[e] : s.seq = p.seq

\* handleData, under the lock of the receive window: queue the packet if it is new, and
\* answer with cur_ack in any case.  There is no look at window_capacity.
HandleData(h) ==
    LET e == h.pkt.to
        p == h.pkt
        segs == recvSegments[e] \cup {[seq |-> p.seq, len |-> p.len]}
    IN
    /\ h \in handling /\ h.pc = "data"
    /\ IF IsDuplicate(e, p) THEN UNCHANGED <<recvSegments, cur_ack>>
       ELSE /\ recvSegments' = [recvSegments EXCEPT ![e] = segs]
            /\ ExpectAfter(e, p, segs)
    /\ net' = net \cup {PacketOf(e, "ACK", cur_seq[e], cur_ack'[e], 0)}
    /\ Done(h)
    /\ UNCHANGED <<stateVars, segmentVars, cur_seq, bufferVars, head_seq, closeInProgress, workerVars,
                   openVars, synVars, closePc, writeVars, readVars, boundVars>>

-----------------------------------------------------------------------------
(* Read: one reader at a time *)

\* In CLOSING only what is queued may be read.  cur_ack - head_seq is unsigned: a cur_ack
\* that was moved back below head_seq counts as a very large number.
NothingLeft(e) == cur_ack[e] \in {head_seq[e], head_seq[e] + 1}

\* The state check.  (A call that fails here changes nothing.)
ReadStart(e) ==
    /\ readPc[e] = "idle" /\ Serving(e) /\ Free(e)
    /\ Concurrent \/ closePc[e] = "idle"
    /\ \/ state[e] = "OPEN"
       \/ state[e] = "CLOSING" /\ recvSegments[e] # {} /\ ~NothingLeft(e)
    /\ readPc' = [readPc EXCEPT ![e] = "ready"]
    /\ UNCHANGED <<stateVars, segmentVars, cur_seq, bufferVars, recvVars, workerVars, openVars, synVars,
                   closePc, writeVars, got, readFault, handling, net, boundVars>>

\* The wait on recv_cond, under the lock of the receive window.
ReadWait(e) ==
    /\ readPc[e] = "ready" /\ ~closeInProgress[e] /\ cur_ack[e] = head_seq[e]
    /\ readPc' = [readPc EXCEPT ![e] = "waiting"]
    /\ UNCHANGED <<stateVars, segmentVars, cur_seq, bufferVars, recvVars, workerVars, openVars, synVars,
                   closePc, writeVars, got, readFault, handling, net, boundVars>>

ReadWake(e) ==
    /\ readPc[e] = "waiting"
    /\ closeInProgress[e] \/ cur_ack[e] # head_seq[e]
    /\ readPc' = [readPc EXCEPT ![e] = "ready"]
    /\ UNCHANGED <<stateVars, segmentVars, cur_seq, bufferVars, recvVars, workerVars, openVars, synVars,
                   closePc, writeVars, got, readFault, handling, net, boundVars>>

\* An error: the time is up, or a close found the reader waiting and there is nothing left.
ReadFails(e) ==
    /\ \/ readPc[e] = "waiting" /\ "read" \in Timeouts
       \/ readPc[e] = "ready" /\ closeInProgress[e] /\ NothingLeft(e)
    /\ readPc' = [readPc EXCEPT ![e] = "idle"]
    /\ UNCHANGED <<stateVars, segmentVars, cur_seq, bufferVars, recvVars, workerVars, openVars, synVars,
                   closePc, writeVars, got, readFault, handling, net, boundVars>>

\* Faulty variant: what was copied stays in the window.
ReadReturns_Peek(e, upto, fault) ==
    /\ got' = [got EXCEPT ![e] = @ \o [i \in 1..(upto - head_seq[e]) |-> head_seq[e] + i - 1]]
    /\ readFault' = [readFault EXCEPT ![e] = @ \cup fault]
    /\ UNCHANGED <<head_seq, recvSegments>>

\* The call returns the bytes head_seq .. upto - 1, and any oddity in `fault'.
ReadReturns(e, upto, fault) ==
    /\ head_seq' = [head_seq EXCEPT ![e] = upto]
    /\ recvSegments' = [recvSegments EXCEPT ![e] = {s \in @ : EndOf(s) > upto}]
    /\ got' = [got EXCEPT ![e] = @ \o [i \in 1..(upto - head_seq[e]) |-> head_seq[e] + i - 1]]
    /\ readFault' = [readFault EXCEPT ![e] = @ \cup fault]

\* There is something to read, or so the numbers say.
MayRead(e) ==
    /\ readPc[e] = "ready" /\ cur_ack[e] # head_seq[e]
    /\ ~(closeInProgress[e] /\ NothingLeft(e))

\* The segment Read begins with is the first of the window and holds byte head_seq.
ReadableFrom(e) ==
    {s \in recvSegments[e] :
        /\ \A t \in recvSegments[e] : s.seq <= t.seq
        /\ head_seq[e] \in s.seq .. EndOf(s)}

\* Copy up to `len' of the bytes that follow one another, into the caller's buffer.  A
\* segment that does not follow, where one was expected, is an internal error.
ReadData(e, len) ==
    /\ MayRead(e) /\ cur_ack[e] > head_seq[e]
    /\ \E first \in ReadableFrom(e) :
       \E stop \in Boundaries(recvSegments[e], first.seq) :
        LET limit == IF head_seq[e] + len < cur_ack[e] THEN head_seq[e] + len ELSE cur_ack[e]
            upto == IF limit < stop THEN limit ELSE stop
        IN  /\ IsRunEnd(recvSegments[e], first.seq, stop)
            /\ ReadReturns(e, upto,
                   IF upto < limit /\ \E s \in recvSegments[e] : s.seq > stop THEN {"internal"} ELSE {})
    /\ readPc' = [readPc EXCEPT ![e] = "idle"]
    /\ UNCHANGED <<stateVars, segmentVars, cur_seq, bufferVars, cur_ack, closeInProgress, workerVars,
                   openVars, synVars, closePc, writeVars, handling, net, boundVars>>

\* Nothing can be copied: no byte and TS_OK from an empty window, TS_ERR_INTERNAL when the
\* first segment lies elsewhere or cur_ack is below head_seq.
ReadNothing(e) ==
    /\ MayRead(e)
    /\ cur_ack[e] < head_seq[e] \/ ReadableFrom(e) = {}
    /\ ReadReturns(e, head_seq[e],
            IF cur_ack[e] > head_seq[e] /\ recvSegments[e] = {} THEN {"empty"} ELSE {"internal"})
    /\ readPc' = [readPc EXCEPT ![e] = "idle"]
    /\ UNCHANGED <<stateVars, segmentVars, cur_seq, bufferVars, cur_ack, closeInProgress, workerVars,
                   openVars, synVars, closePc, writeVars, handling, net, boundVars>>

-----------------------------------------------------------------------------
(* Close (client), WaitForClose (server), ForceClose, VtunnelRemove *)

\* The client may close while other threads are in Read or Write; the service handler of
\* the server has returned from them.
MayClose(e) ==
    /\ e \in Closers /\ openPc[e] = "ok" /\ inPool[e]
    /\ closePc[e] = "idle" /\ Free(e)
    /\ (Concurrent /\ e = Client) \/ (NoWrite(e) /\ readPc[e] = "idle")

\* closeTunnel up to the FIN: writers and readers are told.
Abort(e) ==
    /\ Clear(e)
    /\ WakeReaders(e)
    /\ UNCHANGED <<cur_seq, recvSegments, head_seq, cur_ack>>

CloseClosed(e) ==
    /\ MayClose(e) /\ state[e] = "CLOSED"
    /\ closePc' = [closePc EXCEPT ![e] = "done"]
    /\ UNCHANGED <<stateVars, segmentVars, cur_seq, bufferVars, recvVars, workerVars, openVars, synVars,
                   writeVars, readVars, handling, net, boundVars>>

\* The FIN of the peer has arrived already: no FIN is sent.
CloseAfterFin(e) ==
    /\ MayClose(e) /\ state[e] = "CLOSING"
    /\ StopWorkerThreads(e)
    /\ Abort(e)
    /\ state' = [state EXCEPT ![e] = "CLOSED"]
    /\ closePc' = [closePc EXCEPT ![e] = "done"]
    /\ UNCHANGED <<mutex, inPool, openVars, synVars, writeVars, readVars, handling, net, boundVars>>

\* The window is cleared; mutex is kept until the FIN is queued.
CloseBegin(e) ==
    /\ MayClose(e) /\ state[e] = "OPEN"
    /\ Abort(e)
    /\ state' = [state EXCEPT ![e] = IF e = Client THEN "CLOSING" ELSE @]
    /\ mutex' = [mutex EXCEPT ![e] = "close"]
    /\ UNCHANGED <<inPool, workerVars, openVars, synVars, closePc, writeVars, readVars,
                   handling, net, boundVars>>

SendFin(e) ==
    /\ InsertSegment(e, ControlSegment("FIN", cur_seq[e], 0))
    /\ net' = net \cup {PacketOf(e, "FIN", cur_seq[e], cur_ack[e], 0)}

\* The FIN is sent and the closer waits on close_cond.
CloseFin(e) ==
    /\ mutex[e] = "close"
    /\ SendFin(e)
    /\ state' = [state EXCEPT ![e] = IF e = Client THEN "CLOSING" ELSE "CLOSE_WAIT"]
    /\ mutex' = [mutex EXCEPT ![e] = "free"]
    /\ closePc' = [closePc EXCEPT ![e] = "waiting"]
    /\ UNCHANGED <<inPool, cur_seq, bufferVars, recvVars, workerVars, openVars, synVars,
                   writeVars, readVars, handling, boundVars>>

CloseDone(e) ==
    /\ closePc[e] = "woken" /\ Free(e)
    /\ closePc' = [closePc EXCEPT ![e] = "done"]
    /\ UNCHANGED <<stateVars, segmentVars, cur_seq, bufferVars, recvVars, workerVars, openVars, synVars,
                   writeVars, readVars, handling, net, boundVars>>

CloseTimeout(e) ==
    /\ "close" \in Timeouts
    /\ closePc[e] = "waiting" /\ Free(e)
    /\ state' = [state EXCEPT ![e] = "CLOSED"]
    /\ closePc' = [closePc EXCEPT ![e] = "done"]
    /\ UNCHANGED <<mutex, inPool, segmentVars, cur_seq, bufferVars, recvVars, workerVars, openVars, synVars,
                   writeVars, readVars, handling, net, boundVars>>

MayForce(e) == forced < MaxForce /\ inPool[e] /\ Free(e)

\* ForceClose: an open in progress is told through open_cond, a closer is not told.
ForceClose(e) ==
    /\ MayForce(e) /\ state[e] \notin {"OPEN", "CLOSED"}
    /\ IF state[e] = "CLOSING" THEN StopWorkerThreads(e) /\ Abort(e)
       ELSE UNCHANGED <<segmentVars, cur_seq, bufferVars, recvVars, workerVars>>
    /\ state' = [state EXCEPT ![e] = "CLOSED"]
    /\ forced' = forced + 1
    /\ UNCHANGED <<mutex, inPool, openVars, synVars, closePc, writeVars, readVars, handling, net, lost>>

ForceCloseBegin(e) ==
    /\ MayForce(e) /\ state[e] = "OPEN"
    /\ Abort(e)
    /\ mutex' = [mutex EXCEPT ![e] = "force"]
    /\ forced' = forced + 1
    /\ UNCHANGED <<state, inPool, workerVars, openVars, synVars, closePc, writeVars, readVars,
                   handling, net, lost>>

ForceCloseFin(e) ==
    /\ mutex[e] = "force"
    /\ SendFin(e)
    /\ state' = [state EXCEPT ![e] = "CLOSED"]
    /\ mutex' = [mutex EXCEPT ![e] = "free"]
    /\ UNCHANGED <<inPool, cur_seq, bufferVars, recvVars, workerVars, openVars, synVars,
                   closePc, writeVars, readVars, handling, boundVars>>

\* Some thread holds a reference on the tunnel of e.
InUse(e) ==
    \/ readPc[e] # "idle" \/ ~NoWrite(e) \/ ~Free(e)
    \/ \E h \in handling : h.pkt.to = e
    \/ e = Server /\ (synTaken \/ (synHandled > 0 /\ openPc[e] \notin {"ok", "failed"}))

\* Pool::VtunnelRemove, when nobody uses the tunnel: the destructor stops its threads.
Remove(e) ==
    /\ inPool[e] /\ (openPc[e] = "failed" \/ closePc[e] = "done")
    /\ ~InUse(e)
    /\ inPool' = [inPool EXCEPT ![e] = FALSE]
    /\ StopWorkerThreads(e)
    /\ UNCHANGED <<state, mutex, segmentVars, cur_seq, bufferVars, recvVars, openVars, synVars,
                   closePc, writeVars, readVars, handling, net, boundVars>>

-----------------------------------------------------------------------------
(* The network, and the whole *)

\* A packet is lost.
Lose(p) ==
    /\ p \in net /\ lost < MaxLoss
    /\ net' = net \ {p}
    /\ lost' = lost + 1
    /\ UNCHANGED <<stateVars, segmentVars, cur_seq, bufferVars, recvVars, workerVars, openVars, synVars,
                   closePc, writeVars, readVars, handling, forced>>

\* Pool::recvPacketHandler does not know the tunnel.
DropUnknown(p) ==
    /\ p \in net /\ p.type # "SYN" /\ ~inPool[p.to]
    /\ net' = net \ {p}
    /\ UNCHANGED <<stateVars, segmentVars, cur_seq, bufferVars, recvVars, workerVars, openVars, synVars,
                   closePc, writeVars, readVars, handling, boundVars>>

Opening ==
    OpenRefused \/ OpenStart \/ OpenFinish \/ OpenAborted \/ OpenTimeout

Accepting ==
    \/ TakeSyn \/ HandleSyn
    \/ WaitForOpenStart \/ WaitForOpenFinish \/ WaitForOpenTimeout

Writing(w) ==
    \/ WriteStart(w) \/ WriteAppend(w) \/ WriteSpawn(w) \/ WriteSpawnRefused(w)
    \/ WriteFinish(w) \/ WriteAborted(w) \/ WriteTimeout(w)

Reading(e) ==
    \/ ReadStart(e) \/ ReadWait(e) \/ ReadWake(e) \/ ReadFails(e) \/ ReadNothing(e)
    \/ \E len \in ReadLens : ReadData(e, len)

Closing(e) ==
    \/ CloseClosed(e) \/ CloseAfterFin(e) \/ CloseBegin(e) \/ CloseFin(e) \/ CloseDone(e)
    \/ CloseTimeout(e) \/ ForceClose(e) \/ ForceCloseBegin(e) \/ ForceCloseFin(e) \/ Remove(e)

Working(e) ==
    \/ WriterSend(e) \/ WriterExit(e)
    \/ \E s \in retrySegments[e] : RetrySend(e, s)

Receiving(p, l) ==
    \/ DropPacket(p, l) \/ ReceiveAckOrData(p, l) \/ ReceiveSynAck(p, l)
    \/ ReceiveFin(p, l) \/ ReceiveFinAck(p, l)

Handle(h) ==
    \/ ThreeWayCheck(h) \/ Establish(h) \/ Recheck(h)
    \/ AckCompare(h) \/ AckSegments(h) \/ AckBuffers(h) \/ HandleData(h)

Next ==
    \/ Opening
    \/ Accepting
    \/ \E w \in Calls : Writing(w)
    \/ \E e \in Ends : Reading(e) \/ Closing(e) \/ Working(e)
    \/ \E p \in net : QueueSyn(p) \/ Lose(p) \/ DropUnknown(p) \/ \E l \in Links : Receiving(p, l)
    \/ \E h \in handling : Handle(h)

Spec == Init /\ [][Next]_vars

(***************************************************************************)
(* Fairness: no thread stops in the middle of a call, writerThread and     *)
(* retryThread run, and a packet that is sent again and again is received  *)
(* in the end.  Nobody has to open, write, read or close.                  *)
(***************************************************************************)
\* A packet that an end, or the end that sent it, still waits for.
IsNews(p) ==
    CASE p.type = "DATA" -> p.seq \in {cur_ack[p.to], cur_seq[Peer(p.to)]}
      [] p.type = "ACK"  -> p.ack > cur_seq[p.to]
      [] OTHER           -> TRUE

Receive(p) == QueueSyn(p) \/ \E l \in Links : Receiving(p, l)

\* Some packet of each sort that is there again and again is received.
ReceiveNews(e) == \E p \in net : p.to = e /\ IsNews(p) /\ Receive(p)
ReceiveOld(e) == \E p \in net : p.to = e /\ ~IsNews(p) /\ Receive(p)

\* The first segment that waits for its acknowledgement is sent again.
RetryFirst(e) ==
    \E s \in retrySegments[e] : (\A t \in retrySegments[e] : s.seq <= t.seq) /\ RetrySend(e, s)

\* The steps of a call of Write that has begun.
WriteGoesOn(w) ==
    \/ WriteAppend(w) \/ WriteSpawn(w) \/ WriteSpawnRefused(w)
    \/ WriteFinish(w) \/ WriteAborted(w)

Fairness ==
    /\ WF_vars(OpenFinish) /\ WF_vars(TakeSyn) /\ WF_vars(HandleSyn)
    /\ WF_vars(WaitForOpenStart) /\ WF_vars(WaitForOpenFinish)
    /\ \A w \in Calls : WF_vars(WriteGoesOn(w))
    /\ \A e \in Ends :
        /\ WF_vars(WriterSend(e))
        /\ SF_vars(RetryFirst(e))
        /\ WF_vars(CloseFin(e)) /\ WF_vars(CloseDone(e))
        /\ WF_vars(\E h \in handling : h.pkt.to = e /\ Handle(h))
        /\ SF_vars(ReceiveNews(e)) /\ SF_vars(ReceiveOld(e))

FairSpec == Spec /\ Fairness
=============================================================================
