---------------------------- MODULE VtunnelProps ----------------------------
(***************************************************************************)
(* What should hold of a tunnel, whatever the order of packets, threads    *)
(* and calls.  README.md says which run checks which property, and under   *)
(* which restrictions.                                                     *)
(***************************************************************************)
EXTENDS Vtunnel

\* Every variable has its type: the states are those of VTunnelState_t, the windows hold
\* segments and buffers, the packets under way are packets.
TypeOK ==
    /\ state \in [Ends -> {"NULL", "OPENING", "HALF_OPEN", "OPEN", "CLOSING", "CLOSE_WAIT", "CLOSED"}]
    /\ mutex \in [Ends -> {"free", "close", "force"}]
    /\ inPool \in [Ends -> BOOLEAN]
    /\ sendSegments \in [Ends -> SUBSET Segment] /\ retrySegments \in [Ends -> SUBSET Segment]
    /\ cur_seq \in [Ends -> Nat]
    /\ sendBuffers \in [Ends -> SUBSET Buffer]
    /\ currBufferIndex \in [Ends -> Nat] /\ nextBufferIndex \in [Ends -> Nat]
    /\ currBufferOffset \in [Ends -> Nat]
    /\ recvSegments \in [Ends -> SUBSET Piece]
    /\ head_seq \in [Ends -> Nat] /\ cur_ack \in [Ends -> Nat]
    /\ closeInProgress \in [Ends -> BOOLEAN]
    /\ writer \in [Ends -> {"idle", "running", "exited", "joined"}]
    /\ retrier \in [Ends -> {"idle", "running", "joined"}]
    /\ openPc \in [Ends -> {"idle", "waiting", "ok", "failed"}]
    /\ openQueue \in SUBSET Packet
    /\ synQueue \in Nat /\ synTaken \in BOOLEAN /\ synHandled \in Nat
    /\ closePc \in [Ends -> {"idle", "waiting", "woken", "done"}]
    /\ writePc \in [Calls -> {"idle", "checked", "appended", "waiting", "ok", "failed"}]
    /\ writeIndex \in [Calls -> Nat]
    /\ readPc \in [Ends -> {"idle", "ready", "waiting"}]
    /\ handling \in SUBSET Handling
    /\ net \in SUBSET Packet
    /\ lost \in Nat /\ forced \in Nat
    /\ got \in [Ends -> Seq(Nat)]
    /\ readFault \in [Ends -> SUBSET {"empty", "internal"}]

-----------------------------------------------------------------------------
(* The data *)

\* handleData and Read: what the reader of an end has been given is a prefix of what the
\* other end has written: no byte missing, repeated or out of order.
ReadsInOrder ==
    \A e \in Ends : \A i \in DOMAIN got[e] : got[e][i] = ISN[Peer(e)] + i

\* Byte n of the stream to e is in the hands of its reader or in its receive window.
Holds(e, n) ==
    \/ n <= ISN[Peer(e)] + Len(got[e])
    \/ \E s \in recvSegments[e] : n \in s.seq .. EndOf(s) - 1

\* handleAck and Write: a Write that returned TS_OK wrote bytes that the other end holds
\* ("this call blocks until all data has been received and acknowledged").
ConfirmedReceived ==
    \A w \in Calls : writePc[w] = "ok" =>
        \A n \in writeIndex[w] .. writeIndex[w] + Size[w] - 1 : Holds(Peer(Caller[w]), n)

\* A segment points into the buffer of the Write it carries (the data is not copied): once
\* that call has returned, no thread may find the segment in a list.
BufferOutlivesSegments ==
    \A e \in Ends : \A s \in sendSegments[e] \cup retrySegments[e] : s.type = "DATA" =>
        \E w \in Calls :
            /\ Caller[w] = e /\ writePc[w] \in {"appended", "waiting"}
            /\ writeIndex[w] = s.head /\ EndOf(s) <= writeIndex[w] + Size[w]

\* writerThread and handleAck: while a tunnel is open the size the window is charged for
\* is that of the segments in it, and it does not exceed the window.
WindowAccounting ==
    \A e \in Ends : state[e] = "OPEN" =>
        /\ sendSegments_size[e] = Bytes(sendSegments[e])
        /\ sendSegments_size[e] <= WindowSize

\* Read: a call that returns TS_OK returns data ("this call blocks until data is received
\* or an error occurs").
ReadsReturnData == \A e \in Ends : "empty" \notin readFault[e]

\* Read: the gap in the numbers that "should never happen" does not.
ReadsMeetNoGap == \A e \in Ends : "internal" \notin readFault[e]

\* "Cannot find current buffer to send": what "shouldn't happen" does not, while a tunnel is open.
WriterKeepsUp == \A e \in Ends : writer[e] = "exited" => state[e] # "OPEN"

-----------------------------------------------------------------------------
(* Opening and closing *)

\* CancelCtrlPktFromSegments: when the opening of a tunnel is over, no SYN or SYN_ACK of it
\* is sent again for as long as the tunnel lives.
HandshakeQuiet ==
    \A e \in Ends : openPc[e] \in {"ok", "failed"} =>
        \A s \in retrySegments[e] : s.type \notin {"SYN", "SYN_ACK"}

\* closeTunnel: an end that waits for the answer to its FIN has the FIN queued for
\* retransmission and a thread that retransmits it.
FinScheduled ==
    \A e \in Ends : closePc[e] = "waiting" /\ state[e] \in {"CLOSING", "CLOSE_WAIT"} =>
        /\ retrier[e] = "running"
        /\ \E s \in retrySegments[e] : s.type = "FIN"

\* The reader at the end e has not had all of what call w, confirmed, wrote to it, and its
\* application has not closed the tunnel, nor has anyone forced it to close.
AwaitsReader(w, e) ==
    /\ e = Peer(Caller[w]) /\ writePc[w] = "ok"
    /\ ISN[Caller[w]] + Len(got[e]) < writeIndex[w] + Size[w] - 1
    /\ closePc[e] = "idle" /\ forced = 0

\* handleFin: "if there is data still to be consumed, the reader must be allowed to read it
\* before it calls WaitForClose() to finish the close".
ConfirmedReadable ==
    \A w \in Calls, e \in Ends : AwaitsReader(w, e) => state[e] # "CLOSED"

\* WaitForOpen: a tunnel that has received confirmed data is given to its service.
ConfirmedServed ==
    \A w \in Calls, e \in Ends : AwaitsReader(w, e) => openPc[e] # "failed"

\* ForceClose and Pool::Stop: no caller of Close or WaitForClose is left waiting on a tunnel
\* that is closed.
CloserTold == \A e \in Ends : state[e] = "CLOSED" => closePc[e] # "waiting"

\* The states in the order a tunnel passes through them.
Stage == [s \in {"NULL", "OPENING", "HALF_OPEN", "OPEN", "CLOSING", "CLOSE_WAIT", "CLOSED"} |->
            CASE s = "NULL" -> 0 [] s \in {"OPENING", "HALF_OPEN"} -> 1 [] s = "OPEN" -> 2
              [] s = "CLOSED" -> 4 [] OTHER -> 3]

\* No step takes a tunnel back: above all, nothing reopens one that closes or is closed.
NeverReopened == [][\A e \in Ends : Stage[state'[e]] >= Stage[state[e]]]_vars

\* handleAck: the number of the first byte that is not acknowledged never moves back.
CurSeqNeverBack == [][\A e \in Ends : cur_seq'[e] >= cur_seq[e]]_vars

-----------------------------------------------------------------------------
(* The promise to the applications *)

\* First byte after the SYN of e.
Base(e) == ISN[e] + 1

\* The bytes of e that its peer has: cur_ack also counts the FIN.
ReceivedBytes(e) ==
    LET known == cur_ack[Peer(e)]
        next == IF nextBufferIndex[e] = 0 THEN Base(e) ELSE nextBufferIndex[e]
    IN  IF known <= Base(e) THEN 0 ELSE (IF known < next THEN known ELSE next) - Base(e)

Outcome(w) ==
    CASE writePc[w] \in {"idle", "checked"}     -> "idle"
      [] writePc[w] \in {"appended", "waiting"} -> "pending"
      [] OTHER                                  -> writePc[w]

Stream == INSTANCE ByteStream WITH
    written  <- [e \in Ends |-> IF nextBufferIndex[e] = 0 THEN 0 ELSE nextBufferIndex[e] - Base(e)],
    received <- [e \in Ends |-> ReceivedBytes(e)],
    output   <- [e \in Ends |-> [i \in DOMAIN got[Peer(e)] |-> got[Peer(e)][i] - ISN[e]]],
    outcome  <- [w \in Calls |-> Outcome(w)],
    place    <- [w \in Calls |-> IF writeIndex[w] = 0 THEN 0 ELSE writeIndex[w] + Size[w] - Base(Caller[w])]

\* The two windows, their threads and the packets implement a stream of bytes in each direction.
ImplementsByteStream == Stream!Spec

-----------------------------------------------------------------------------
(* Progress *)

\* Write: a call that waits returns, whoever closes the tunnel meanwhile; and it succeeds, though
\* packets be lost, unless somebody closes.
WriteEnds ==
    \A w \in Calls :
        writePc[w] = "waiting"
            ~> \/ writePc[w] = "ok"
               \/ writePc[w] = "failed" /\ \E e \in Ends : closePc[e] # "idle"

\* A close that waits for the peer returns.
CloseCompletes == \A e \in Ends : closePc[e] = "waiting" ~> (closePc[e] = "done" \/ lost > 0)
=============================================================================
