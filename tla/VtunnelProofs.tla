--------------------------- MODULE VtunnelProofs ---------------------------
(***************************************************************************)
(* What holds of a tunnel for every number of calls, bytes and packets,    *)
(* every size of segment and window and every starting number.  Each part  *)
(* builds on those before it; the hypotheses of a part are those without   *)
(* which its invariant is false (README.md says what breaks it).           *)
(*                                                                         *)
(*   types      TypeOK, by groups of variables                             *)
(*   closer     whoever closes a tunnel is woken when it is closed         *)
(*   handshake  with one SYN, nothing of the handshake is left over        *)
(*   life       with one link, a tunnel never goes back to an earlier      *)
(*              state                                                      *)
(*   data       with one link, no two segments of a stream overlap,        *)
(*              wherever they are                                          *)
(*   reader     with one link and one SYN, Read returns the stream         *)
(*   orderly    when the applications make one call at a time, numbers,    *)
(*              buffers and segments of an end agree                       *)
(*                                                                         *)
(* VtunnelStreamProofs goes on from here.                                  *)
(***************************************************************************)
EXTENDS VtunnelProps, TLAPS, SequenceTheorems, FiniteSetTheorems

\* The groups of variables are always seen one by one.
USE DEF stateVars, segmentVars, bufferVars, recvVars, workerVars, openVars, synVars, writeVars,
        readVars, boundVars

-----------------------------------------------------------------------------
(* The variables have their types *)

\* TypeOK, by groups of variables.
StateTyped ==
    /\ state \in [Ends -> {"NULL", "OPENING", "HALF_OPEN", "OPEN", "CLOSING", "CLOSE_WAIT", "CLOSED"}]
    /\ mutex \in [Ends -> {"free", "close", "force"}]
    /\ inPool \in [Ends -> BOOLEAN]
SegmentsTyped ==
    sendSegments \in [Ends -> SUBSET Segment] /\ retrySegments \in [Ends -> SUBSET Segment]
BuffersTyped ==
    /\ sendBuffers \in [Ends -> SUBSET Buffer]
    /\ currBufferIndex \in [Ends -> Nat] /\ nextBufferIndex \in [Ends -> Nat]
    /\ currBufferOffset \in [Ends -> Nat]
RecvTyped ==
    /\ recvSegments \in [Ends -> SUBSET Piece]
    /\ head_seq \in [Ends -> Nat] /\ cur_ack \in [Ends -> Nat]
    /\ closeInProgress \in [Ends -> BOOLEAN]
WorkersTyped ==
    /\ writer \in [Ends -> {"idle", "running", "exited", "joined"}]
    /\ retrier \in [Ends -> {"idle", "running", "joined"}]
OpenTyped ==
    /\ openPc \in [Ends -> {"idle", "waiting", "ok", "failed"}]
    /\ openQueue \in SUBSET Packet
SynTyped == synQueue \in Nat /\ synTaken \in BOOLEAN /\ synHandled \in Nat
ClosersTyped == closePc \in [Ends -> {"idle", "waiting", "woken", "done"}]
WritersTyped ==
    /\ writePc \in [Calls -> {"idle", "checked", "appended", "waiting", "ok", "failed"}]
    /\ writeIndex \in [Calls -> Nat]
ReadersTyped ==
    /\ readPc \in [Ends -> {"idle", "ready", "waiting"}]
    /\ got \in [Ends -> Seq(Nat)]
    /\ readFault \in [Ends -> SUBSET {"empty", "internal"}]
BoundsTyped == lost \in Nat /\ forced \in Nat

CurSeqTyped == cur_seq \in [Ends -> Nat]
HandlingTyped == handling \in SUBSET Handling
NetTyped == net \in SUBSET Packet

\* The groups are the whole of TypeOK.
LEMMA TypeGroups ==
    TypeOK <=> /\ StateTyped /\ SegmentsTyped /\ BuffersTyped /\ RecvTyped /\ WorkersTyped
               /\ OpenTyped /\ SynTyped /\ ClosersTyped /\ WritersTyped /\ ReadersTyped
               /\ BoundsTyped /\ CurSeqTyped /\ HandlingTyped /\ NetTyped
BY DEF TypeOK, StateTyped, SegmentsTyped, BuffersTyped, RecvTyped, WorkersTyped, OpenTyped, SynTyped,
       ClosersTyped, WritersTyped, ReadersTyped, BoundsTyped, CurSeqTyped, HandlingTyped, NetTyped

\* The same of the next state.
LEMMA TypeGroupsNext ==
    ASSUME StateTyped', SegmentsTyped', BuffersTyped', RecvTyped', WorkersTyped', OpenTyped',
           SynTyped', ClosersTyped', WritersTyped', ReadersTyped', BoundsTyped', CurSeqTyped',
           HandlingTyped', NetTyped'
    PROVE  TypeOK'
BY DEF TypeOK, StateTyped, SegmentsTyped, BuffersTyped, RecvTyped, WorkersTyped, OpenTyped, SynTyped,
       ClosersTyped, WritersTyped, ReadersTyped, BoundsTyped, CurSeqTyped, HandlingTyped, NetTyped

\* A group of variables that a step leaves alone keeps its types.
LEMMA Kept ==
    ASSUME TypeOK
    PROVE  /\ UNCHANGED stateVars => StateTyped'
           /\ UNCHANGED segmentVars => SegmentsTyped'
           /\ UNCHANGED bufferVars => BuffersTyped'
           /\ UNCHANGED recvVars => RecvTyped'
           /\ UNCHANGED workerVars => WorkersTyped'
           /\ UNCHANGED openVars => OpenTyped'
           /\ UNCHANGED synVars => SynTyped'
           /\ UNCHANGED closePc => ClosersTyped'
           /\ UNCHANGED writeVars => WritersTyped'
           /\ UNCHANGED readVars => ReadersTyped'
           /\ UNCHANGED boundVars => BoundsTyped'
           /\ UNCHANGED cur_seq => CurSeqTyped'
           /\ UNCHANGED handling => HandlingTyped'
           /\ UNCHANGED net => NetTyped'
BY TypeGroups DEF StateTyped, SegmentsTyped, BuffersTyped, RecvTyped, WorkersTyped, OpenTyped, SynTyped,
       ClosersTyped, WritersTyped, ReadersTyped, BoundsTyped, CurSeqTyped, HandlingTyped, NetTyped

\* The constants that every step depends on.
LEMMA Numbers ==
    /\ Client \in Ends /\ Server \in Ends /\ Client # Server
    /\ \A e \in Ends : Peer(e) \in Ends /\ Peer(e) # e /\ ISN[e] \in Nat \ {0}
    /\ \A w \in Calls : Caller[w] \in Ends /\ Size[w] \in Nat \ {0}
    /\ SegmentSize \in Nat \ {0}
BY EndsAssumption, CallsAssumption, NumbersAssumption DEF Ends, Peer

\* The packets that PacketOf builds.
LEMMA PacketTyped ==
    ASSUME NEW e \in Ends, NEW type \in PacketTypes, NEW seq \in Nat, NEW ack \in Nat, NEW len \in Nat
    PROVE  PacketOf(e, type, seq, ack, len) \in Packet
BY Numbers DEF PacketOf, Packet

\* sendWindow::InsertSegments.
LEMMA InsertTyped ==
    ASSUME SegmentsTyped, NEW e \in Ends, NEW seg \in Segment, InsertSegment(e, seg)
    PROVE  SegmentsTyped'
BY DEF SegmentsTyped, InsertSegment, WithSegment

\* Removal of segments from the two lists: Clear, CancelFromBuffers and CancelCtrlPktFromSegments.
LEMMA EraseTyped ==
    ASSUME SegmentsTyped, NEW e \in Ends, NEW segs, EraseSegments(e, segs)
    PROVE  SegmentsTyped'
BY DEF SegmentsTyped, EraseSegments

\* sendWindow::Clear.
LEMMA ClearTyped ==
    ASSUME SegmentsTyped, BuffersTyped, NEW e \in Ends, Clear(e)
    PROVE  SegmentsTyped' /\ BuffersTyped'
<1>1. SegmentsTyped'
  BY EraseTyped DEF Clear
<1>2. \A b \in sendBuffers[e] : [b EXCEPT !.aborted = TRUE] \in Buffer
  <2>1. SUFFICES ASSUME NEW b \in Buffer PROVE [b EXCEPT !.aborted = TRUE] \in Buffer
    BY DEF BuffersTyped
  <2>. QED  BY DEF Buffer
<1>. QED  BY <1>1, <1>2 DEF BuffersTyped, Clear

\* sendWindow::CancelFromBuffers.
LEMMA CancelTyped ==
    ASSUME SegmentsTyped, BuffersTyped, NEW e \in Ends, NEW index, CancelFromBuffers(e, index)
    PROVE  SegmentsTyped' /\ BuffersTyped'
<1>1. SegmentsTyped'
  BY EraseTyped DEF CancelFromBuffers
<1>. QED  BY <1>1 DEF BuffersTyped, CancelFromBuffers

\* The removal of the packets queued in the front end.
LEMMA CancelPacketsTyped ==
    ASSUME NetTyped, NEW e \in Ends, CancelDataPackets(e)
    PROVE  NetTyped'
BY DEF NetTyped, CancelDataPackets

\* The constructor leaves every variable typed.
LEMMA InitTyped == Init => TypeOK
<1>. SUFFICES ASSUME Init PROVE TypeOK
  OBVIOUS
<1>1. StateTyped /\ SegmentsTyped /\ BuffersTyped /\ RecvTyped /\ WorkersTyped
  BY DEF Init, StateTyped, SegmentsTyped, BuffersTyped, RecvTyped, WorkersTyped
<1>2. OpenTyped /\ SynTyped /\ ClosersTyped /\ WritersTyped /\ BoundsTyped /\ HandlingTyped /\ NetTyped
  BY DEF Init, OpenTyped, SynTyped, ClosersTyped, WritersTyped, BoundsTyped, HandlingTyped, NetTyped
<1>3. ReadersTyped
  BY DEF Init, ReadersTyped
<1>4. CurSeqTyped
  BY NumbersAssumption DEF Init, CurSeqTyped
<1>. QED  BY <1>1, <1>2, <1>3, <1>4, TypeGroups

\* Open keeps the types.
LEMMA OpeningTyped == ASSUME TypeOK, Opening PROVE TypeOK'
<1>. USE Numbers, TypeGroups, Kept
<1>1. CASE OpenRefused \/ OpenAborted \/ OpenTimeout
  <2>1. SegmentsTyped'
    BY <1>1, EraseTyped DEF OpenRefused, OpenAborted, OpenTimeout, CancelCtrlPktFromSegments
  <2>2. OpenTyped'
    BY <1>1 DEF OpenTyped, OpenRefused, OpenAborted, OpenTimeout
  <2>. QED  BY <1>1, <2>1, <2>2, TypeGroupsNext DEF OpenRefused, OpenAborted, OpenTimeout
<1>2. CASE OpenStart
  <2>1. ControlSegment("SYN", cur_seq[Client], 0) \in Segment
    BY DEF CurSeqTyped, ControlSegment, Segment
  <2>2. SegmentsTyped'
    BY <1>2, <2>1, InsertTyped DEF OpenStart
  <2>3. PacketOf(Client, "SYN", cur_seq[Client], cur_ack[Client], 0) \in Packet
    BY PacketTyped DEF CurSeqTyped, RecvTyped, PacketTypes
  <2>4. StateTyped' /\ WorkersTyped' /\ OpenTyped' /\ NetTyped'
    BY <1>2, <2>3 DEF OpenStart, StateTyped, WorkersTyped, OpenTyped, NetTyped
  <2>. QED  BY <1>2, <2>2, <2>4, TypeGroupsNext DEF OpenStart
<1>3. CASE OpenFinish
  <2>1. SegmentsTyped'
    BY <1>3, EraseTyped DEF OpenFinish, CancelCtrlPktFromSegments
  <2>2. PICK p \in openQueue :
            /\ FirstSequence(Client, p.ack) /\ ExpectFrom(Client, p.seq)
            /\ net' = net \cup {PacketOf(Client, "ACK", p.ack, p.seq + 1, 0)}
    BY <1>3 DEF OpenFinish
  <2>3. p.ack \in Nat /\ p.seq \in Nat /\ p.seq + 1 \in Nat
    BY DEF OpenTyped, Packet
  <2>4. NetTyped'
    BY <2>2, <2>3, PacketTyped DEF NetTyped, PacketTypes
  <2>5. CurSeqTyped' /\ BuffersTyped' /\ RecvTyped'
    BY <2>2, <2>3 DEF FirstSequence, ExpectFrom, CurSeqTyped, BuffersTyped, RecvTyped
  <2>6. StateTyped' /\ OpenTyped'
    BY <1>3 DEF OpenFinish, StateTyped, OpenTyped
  <2>. QED  BY <1>3, <2>1, <2>4, <2>5, <2>6, TypeGroupsNext DEF OpenFinish
<1>. QED  BY <1>1, <1>2, <1>3 DEF Opening

\* The handling of a SYN and WaitForOpen keep the types.
LEMMA AcceptingTyped == ASSUME TypeOK, Accepting PROVE TypeOK'
<1>. USE Numbers, TypeGroups, Kept
<1>1. CASE TakeSyn
  <2>1. StateTyped' /\ SynTyped'
    BY <1>1 DEF TakeSyn, StateTyped, SynTyped
  <2>. QED  BY <1>1, <2>1, TypeGroupsNext DEF TakeSyn
<1>2. CASE HandleSyn
  <2>1. ControlSegment("SYN_ACK", cur_seq[Server], synHandled) \in Segment
    BY DEF CurSeqTyped, SynTyped, ControlSegment, Segment
  <2>2. SegmentsTyped'
    BY <1>2, <2>1, InsertTyped DEF HandleSyn
  <2>3. PacketOf(Server, "SYN_ACK", cur_seq[Server], ISN[Client] + 1, 0) \in Packet
    BY PacketTyped DEF CurSeqTyped, PacketTypes
  <2>4. WorkersTyped' /\ NetTyped'
    BY <1>2, <2>3 DEF HandleSyn, WorkersTyped, NetTyped
  <2>6. SynTyped'
    <3>1. synQueue' = synQueue /\ synTaken' = FALSE /\ synHandled' = synHandled + 1
      BY <1>2 DEF HandleSyn
    <3>2. synQueue \in Nat /\ synHandled \in Nat
      BY DEF SynTyped
    <3>3. synQueue' \in Nat /\ synHandled' \in Nat
      BY <3>1, <3>2
    <3>. QED  BY <3>1, <3>3, Zenon DEF SynTyped
  <2>5. RecvTyped'
    BY <1>2 DEF HandleSyn, ExpectFrom, RecvTyped
  <2>. QED  BY <1>2, <2>2, <2>4, <2>5, <2>6, TypeGroupsNext DEF HandleSyn
<1>3. CASE WaitForOpenStart \/ WaitForOpenFinish \/ WaitForOpenTimeout
  <2>1. SegmentsTyped'
    BY <1>3, EraseTyped DEF WaitForOpenStart, WaitForOpenFinish, WaitForOpenTimeout,
       CancelCtrlPktFromSegments
  <2>2. OpenTyped'
    BY <1>3 DEF OpenTyped, WaitForOpenStart, WaitForOpenFinish, WaitForOpenTimeout
  <2>. QED  BY <1>3, <2>1, <2>2, TypeGroupsNext DEF WaitForOpenStart, WaitForOpenFinish,
              WaitForOpenTimeout
<1>. QED  BY <1>1, <1>2, <1>3 DEF Accepting

\* Write keeps the types.
LEMMA WritingTyped == ASSUME TypeOK, NEW w \in Calls, Writing(w) PROVE TypeOK'
<1>. USE Numbers, TypeGroups, Kept
<1>1. CASE WriteStart(w)
  <2>1. WritersTyped'
    BY <1>1 DEF WriteStart, WritersTyped
  <2>. QED  BY <1>1, <2>1, TypeGroupsNext DEF WriteStart
<1>2. CASE WriteAppend(w)
  <2>1. [head_seq |-> nextBufferIndex[Caller[w]], size |-> Size[w], aborted |-> FALSE] \in Buffer
    BY DEF Buffer, BuffersTyped
  <2>2. BuffersTyped'
    <3>1. CASE UNCHANGED bufferVars
      BY <3>1
    <3>2. CASE AppendToBuffers(Caller[w], Size[w])
      <4>1. sendBuffers' \in [Ends -> SUBSET Buffer]
        BY <3>2, <2>1 DEF AppendToBuffers, BuffersTyped
      <4>2. /\ currBufferIndex' \in [Ends -> Nat] /\ nextBufferIndex' \in [Ends -> Nat]
            /\ currBufferOffset' \in [Ends -> Nat]
        BY <3>2 DEF AppendToBuffers, BuffersTyped
      <4>. QED  BY <4>1, <4>2 DEF BuffersTyped
    <3>. QED  BY <1>2, <3>1, <3>2 DEF WriteAppend
  <2>3. WritersTyped'
    BY <1>2 DEF WriteAppend, BuffersTyped, WritersTyped
  <2>. QED  BY <1>2, <2>2, <2>3, TypeGroupsNext DEF WriteAppend
<1>3. CASE WriteSpawn(w)
  <2>1. WorkersTyped' /\ WritersTyped'
    BY <1>3 DEF WriteSpawn, WorkersTyped, WritersTyped
  <2>. QED  BY <1>3, <2>1, TypeGroupsNext DEF WriteSpawn
<1>4. CASE WriteSpawnRefused(w)
  <2>1. SegmentsTyped' /\ BuffersTyped'
    BY <1>4, CancelTyped DEF WriteSpawnRefused
  <2>2. WritersTyped'
    BY <1>4 DEF WriteSpawnRefused, WritersTyped
  <2>. QED  BY <1>4, <2>1, <2>2, TypeGroupsNext DEF WriteSpawnRefused
<1>5. CASE WriteFinish(w)
  <2>1. WritersTyped' /\ NetTyped'
    BY <1>5, CancelPacketsTyped DEF WriteFinish, WritersTyped
  <2>. QED  BY <1>5, <2>1, TypeGroupsNext DEF WriteFinish
<1>6. CASE WriteAborted(w) \/ WriteTimeout(w)
  <2>1. SegmentsTyped' /\ BuffersTyped'
    BY <1>6, CancelTyped DEF WriteAborted, WriteTimeout
  <2>2. WritersTyped' /\ NetTyped'
    BY <1>6, CancelPacketsTyped DEF WriteAborted, WriteTimeout, WritersTyped
  <2>. QED  BY <1>6, <2>1, <2>2, TypeGroupsNext DEF WriteAborted, WriteTimeout
<1>. QED  BY <1>1, <1>2, <1>3, <1>4, <1>5, <1>6 DEF Writing

\* writerThread and retryThread keep the types.
LEMMA WorkingTyped == ASSUME TypeOK, NEW e \in Ends, Working(e) PROVE TypeOK'
<1>. USE Numbers, TypeGroups, Kept
<1>1. CASE WriterSend(e)
  <2>1. PICK b \in sendBuffers[e] :
          LET left == b.size - currBufferOffset[e]
              len == IF left \in 0 .. SegmentSize THEN left ELSE SegmentSize
              seq == currBufferIndex[e] + currBufferOffset[e]
          IN  /\ InsertSegment(e, [type |-> "DATA", seq |-> seq, len |-> len,
                                   head |-> currBufferIndex[e], round |-> 0])
              /\ AdvanceWriter(e, b, len)
              /\ net' = net \cup {PacketOf(e, "DATA", seq, cur_ack[e], len)}
    BY <1>1 DEF WriterSend
  <2>. DEFINE left == b.size - currBufferOffset[e]
              len == IF left \in 0 .. SegmentSize THEN left ELSE SegmentSize
              seq == currBufferIndex[e] + currBufferOffset[e]
              seg == [type |-> "DATA", seq |-> seq, len |-> len,
                      head |-> currBufferIndex[e], round |-> 0]
  <2>2. b.size \in Nat /\ len \in Nat /\ seq \in Nat /\ cur_ack[e] \in Nat
    BY DEF BuffersTyped, Buffer, RecvTyped
  <2>3. seg \in Segment
    BY <2>2 DEF Segment, BuffersTyped
  <2>. HIDE DEF len, seq
  <2>4. SegmentsTyped'
    BY <2>1, <2>3, InsertTyped DEF len, seq
  <2>5. PacketOf(e, "DATA", seq, cur_ack[e], len) \in Packet
    BY <2>2, PacketTyped DEF PacketTypes
  <2>6. NetTyped'
    BY <2>1, <2>5 DEF NetTyped, len, seq
  <2>7. AdvanceWriter(e, b, len)
    BY <2>1 DEF len
  <2>8. BuffersTyped'
    <3>1. sendBuffers' = sendBuffers /\ nextBufferIndex' = nextBufferIndex
      BY <1>1 DEF WriterSend
    <3>2. currBufferIndex' \in [Ends -> Nat] /\ currBufferOffset' \in [Ends -> Nat]
      BY <2>2, <2>7 DEF AdvanceWriter, BuffersTyped
    <3>. QED  BY <3>1, <3>2 DEF BuffersTyped
  <2>. QED  BY <1>1, <2>4, <2>6, <2>8, TypeGroupsNext DEF WriterSend
<1>2. CASE WriterExit(e)
  <2>1. WorkersTyped'
    BY <1>2 DEF WriterExit, WorkersTyped
  <2>. QED  BY <1>2, <2>1, TypeGroupsNext DEF WriterExit
<1>3. ASSUME NEW s \in retrySegments[e], RetrySend(e, s) PROVE TypeOK'
  <2>. s \in Segment /\ cur_ack[e] \in Nat
    BY DEF SegmentsTyped, RecvTyped
  <2>. s.type \in PacketTypes /\ s.seq \in Nat /\ s.len \in Nat
    BY DEF Segment, PacketTypes
  <2>1. PacketOf(e, s.type, s.seq, cur_ack[e], s.len) \in Packet
    BY PacketTyped
  <2>2. NetTyped'
    BY <1>3, <2>1 DEF RetrySend, NetTyped
  <2>. QED  BY <1>3, <2>2, TypeGroupsNext DEF RetrySend
<1>. QED  BY <1>1, <1>2, <1>3 DEF Working

\* ReceivePacket keeps the types.
LEMMA ReceivingTyped ==
    ASSUME TypeOK, NEW p \in net, NEW l \in Links, Receiving(p, l)
    PROVE  TypeOK'
<1>. USE Numbers, TypeGroups, Kept
<1>1. p \in Packet /\ p.to \in Ends /\ p.seq \in Nat /\ p.seq + 1 \in Nat
  BY DEF NetTyped, Packet
<1>2. CASE DropPacket(p, l)
  <2>1. NetTyped'
    BY <1>2 DEF DropPacket, NetTyped
  <2>. QED  BY <1>2, <2>1, TypeGroupsNext DEF DropPacket
<1>3. CASE ReceiveAckOrData(p, l)
  <2>1. [link |-> l, pkt |-> p, pc |-> FirstStep(p.to, p.type)] \in Handling
    BY <1>1 DEF FirstStep, Handling
  <2>2. NetTyped' /\ HandlingTyped'
    BY <1>3, <2>1 DEF ReceiveAckOrData, NetTyped, HandlingTyped
  <2>. QED  BY <1>3, <2>2, TypeGroupsNext DEF ReceiveAckOrData
<1>4. CASE ReceiveSynAck(p, l)
  <2>1. NetTyped' /\ OpenTyped'
    BY <1>1, <1>4 DEF ReceiveSynAck, NetTyped, OpenTyped
  <2>. QED  BY <1>4, <2>1, TypeGroupsNext DEF ReceiveSynAck
<1>5. CASE ReceiveFin(p, l)
  <2>1. SegmentsTyped' /\ BuffersTyped'
    BY <1>1, <1>5, ClearTyped DEF ReceiveFin
  <2>2. PacketOf(p.to, "FIN_ACK", cur_seq[p.to], p.seq + 1, 0) \in Packet
    BY <1>1, PacketTyped DEF CurSeqTyped, PacketTypes
  <2>3. NetTyped'
    BY <1>5, <2>2 DEF ReceiveFin, NetTyped
  <2>4. RecvTyped'
    BY <1>1, <1>5 DEF ReceiveFin, WakeReaders, RecvTyped
  <2>5. StateTyped' /\ ClosersTyped'
    BY <1>5 DEF ReceiveFin, WakeCloser, StateTyped, ClosersTyped
  <2>. QED  BY <1>5, <2>1, <2>3, <2>4, <2>5, TypeGroupsNext DEF ReceiveFin
<1>6. CASE ReceiveFinAck(p, l)
  <2>1. SegmentsTyped' /\ BuffersTyped'
    BY <1>1, <1>6, ClearTyped DEF ReceiveFinAck
  <2>2. NetTyped' /\ StateTyped' /\ ClosersTyped' /\ WorkersTyped'
    BY <1>6 DEF ReceiveFinAck, NetTyped, StateTyped, ClosersTyped, WorkersTyped, WakeCloser,
       StopWorkerThreads, Joined
  <2>. QED  BY <1>6, <2>1, <2>2, TypeGroupsNext DEF ReceiveFinAck
<1>. QED  BY <1>2, <1>3, <1>4, <1>5, <1>6 DEF Receiving

\* A handler that goes on keeps the types, or leaves.
LEMMA AdvanceTyped ==
    ASSUME HandlingTyped, NEW h \in handling
    PROVE  /\ \A pc \in {"establish", "recheck", "segments", "buffers", "data"} :
                 Advance(h, pc) => HandlingTyped'
           /\ Done(h) => HandlingTyped'
<1>1. h \in Handling
  BY DEF HandlingTyped
<1>2. \A pc \in {"establish", "recheck", "segments", "buffers", "data"} : [h EXCEPT !.pc = pc] \in Handling
  BY <1>1 DEF Handling
<1>. QED  BY <1>2 DEF HandlingTyped, Advance, Done

\* What is known of a packet that a link is working on.
LEMMA HandledPacket ==
    ASSUME HandlingTyped, NEW h \in handling
    PROVE  /\ h.pkt \in Packet /\ h.pkt.to \in Ends
           /\ h.pkt.seq \in Nat /\ h.pkt.ack \in Nat /\ h.pkt.len \in Nat
           /\ h.pkt.type \in PacketTypes
<1>1. h \in Handling
  BY DEF HandlingTyped
<1>. QED  BY <1>1 DEF Handling, Packet, PacketTypes

\* handleThreeWayAck, handleAck and handleData keep the types.
LEMMA HandleTyped == ASSUME TypeOK, NEW h \in handling, Handle(h) PROVE TypeOK'
<1>. USE Numbers, TypeGroups, Kept, HandledPacket
<1>1. CASE ThreeWayCheck(h) \/ Recheck(h) \/ AckCompare(h)
  <2>1. HandlingTyped'
    BY <1>1, AdvanceTyped DEF ThreeWayCheck, Recheck, AckCompare, AfterThreeWay
  <2>. QED  BY <1>1, <2>1, TypeGroupsNext DEF ThreeWayCheck, Recheck, AckCompare
<1>2. CASE Establish(h)
  <2>1. HandlingTyped'
    BY <1>2, AdvanceTyped DEF Establish, AfterThreeWay
  <2>2. SegmentsTyped'
    BY <1>2, EraseTyped DEF Establish, CancelCtrlPktFromSegments
  <2>3. StateTyped'
    BY <1>2 DEF Establish, StateTyped
  <2>4. CurSeqTyped' /\ BuffersTyped'
    BY <1>2 DEF Establish, FirstSequence, CurSeqTyped, BuffersTyped
  <2>. QED  BY <1>2, <2>1, <2>2, <2>3, <2>4, TypeGroupsNext DEF Establish
<1>3. CASE AckSegments(h)
  <2>1. HandlingTyped'
    BY <1>3, AdvanceTyped DEF AckSegments
  <2>2. SegmentsTyped'
    BY <1>3, EraseTyped DEF AckSegments
  <2>3. CurSeqTyped'
    BY <1>3 DEF AckSegments, CurSeqTyped
  <2>. QED  BY <1>3, <2>1, <2>2, <2>3, TypeGroupsNext DEF AckSegments
<1>4. CASE AckBuffers(h)
  <2>1. HandlingTyped'
    BY <1>4, AdvanceTyped DEF AckBuffers
  <2>2. BuffersTyped'
    BY <1>4 DEF AckBuffers, BuffersTyped
  <2>. QED  BY <1>4, <2>1, <2>2, TypeGroupsNext DEF AckBuffers
<1>5. CASE HandleData(h)
  <2>. DEFINE e == h.pkt.to
              segs == recvSegments[e] \cup {[seq |-> h.pkt.seq, len |-> h.pkt.len]}
  <2>1. HandlingTyped'
    BY <1>5, AdvanceTyped DEF HandleData
  <2>2. segs \in SUBSET Piece
    BY DEF Piece, RecvTyped
  <2>3. \A to \in Boundaries(segs, h.pkt.seq) : to \in Nat
    BY <2>2 DEF Boundaries, EndOf, Piece
  <2>. HIDE DEF segs
  <2>4. RecvTyped'
    <3>1. recvSegments' = recvSegments \/ recvSegments' = [recvSegments EXCEPT ![e] = segs]
      BY <1>5 DEF HandleData, segs
    <3>2. \/ cur_ack' = cur_ack
          \/ \E to \in Boundaries(segs, h.pkt.seq) : cur_ack' = [cur_ack EXCEPT ![e] = to]
      BY <1>5 DEF HandleData, ExpectAfter, segs
    <3>3. cur_ack' \in [Ends -> Nat]
      BY <2>3, <3>2 DEF RecvTyped
    <3>. QED  BY <1>5, <2>2, <3>1, <3>3 DEF HandleData, RecvTyped
  <2>5. PacketOf(e, "ACK", cur_seq[e], cur_ack'[e], 0) \in Packet
    BY <2>4, PacketTyped DEF CurSeqTyped, RecvTyped, PacketTypes
  <2>6. NetTyped'
    BY <1>5, <2>5 DEF HandleData, NetTyped
  <2>. QED  BY <1>5, <2>1, <2>4, <2>6, TypeGroupsNext DEF HandleData
<1>. QED  BY <1>1, <1>2, <1>3, <1>4, <1>5 DEF Handle

\* Read returns a sequence of numbers, the empty one when `upto' is not above head_seq.
LEMMA ReturnsTyped ==
    ASSUME TypeOK, NEW e \in Ends, NEW upto \in Nat, NEW fault \in SUBSET {"empty", "internal"},
           ReadReturns(e, upto, fault), UNCHANGED <<cur_ack, closeInProgress>>,
           readPc' = [readPc EXCEPT ![e] = "idle"]
    PROVE  RecvTyped' /\ ReadersTyped'
<1>. USE TypeGroups
<1>1. RecvTyped'
  BY DEF ReadReturns, RecvTyped
<1>. DEFINE more == [i \in 1..(upto - head_seq[e]) |-> head_seq[e] + i - 1]
<1>2. head_seq[e] \in Nat /\ got[e] \in Seq(Nat)
  BY DEF RecvTyped, ReadersTyped
<1>3. more \in Seq(Nat)
  <2>1. \A i \in 1..(upto - head_seq[e]) : head_seq[e] + i - 1 \in Nat
    BY <1>2
  <2>2. CASE upto - head_seq[e] \in Nat
    BY <2>1, <2>2, SeqDef
  <2>3. CASE upto - head_seq[e] \notin Nat
    <3>1. 1..(upto - head_seq[e]) = 1..0
      BY <1>2, <2>3
    <3>2. more = [i \in 1..0 |-> head_seq[e] + i - 1]
      BY <3>1
    <3>3. more \in [1..0 -> Nat]
      BY <2>1, <3>1, <3>2
    <3>. HIDE DEF more
    <3>. QED  BY <3>3, SeqDef
  <2>. QED  BY <2>2, <2>3
<1>. HIDE DEF more
<1>4. got[e] \o more \in Seq(Nat)
  BY <1>2, <1>3, ConcatProperties
<1>5. got' = [got EXCEPT ![e] = got[e] \o more]
  BY DEF ReadReturns, more
<1>6. readFault' \in [Ends -> SUBSET {"empty", "internal"}]
  BY DEF ReadReturns, ReadersTyped
<1>. QED  BY <1>1, <1>4, <1>5, <1>6 DEF ReadersTyped

\* Read keeps the types.
LEMMA ReadingTyped == ASSUME TypeOK, NEW e \in Ends, Reading(e) PROVE TypeOK'
<1>. USE Numbers, TypeGroups, Kept
<1>1. CASE ReadStart(e) \/ ReadWait(e) \/ ReadWake(e) \/ ReadFails(e)
  <2>1. UNCHANGED <<got, readFault>>
    BY <1>1 DEF ReadStart, ReadWait, ReadWake, ReadFails
  <2>2. \E pc \in {"idle", "ready", "waiting"} : readPc' = [readPc EXCEPT ![e] = pc]
    BY <1>1 DEF ReadStart, ReadWait, ReadWake, ReadFails
  <2>3. ReadersTyped'
    BY <2>1, <2>2 DEF ReadersTyped
  <2>. QED  BY <1>1, <2>3, TypeGroupsNext DEF ReadStart, ReadWait, ReadWake, ReadFails
<1>2. CASE ReadNothing(e)
  <2>1. RecvTyped' /\ ReadersTyped'
    BY <1>2, ReturnsTyped DEF ReadNothing, RecvTyped
  <2>. QED  BY <1>2, <2>1, TypeGroupsNext DEF ReadNothing
<1>3. ASSUME NEW len \in ReadLens, ReadData(e, len) PROVE TypeOK'
  <2>8. PICK first \in ReadableFrom(e) : \E stop \in Boundaries(recvSegments[e], first.seq) :
          LET limit == IF head_seq[e] + len < cur_ack[e] THEN head_seq[e] + len ELSE cur_ack[e]
              upto == IF limit < stop THEN limit ELSE stop
          IN  ReadReturns(e, upto,
                 IF upto < limit /\ \E s \in recvSegments[e] : s.seq > stop THEN {"internal"} ELSE {})
    BY <1>3 DEF ReadData
  <2>1. PICK stop \in Boundaries(recvSegments[e], first.seq) :
          LET limit == IF head_seq[e] + len < cur_ack[e] THEN head_seq[e] + len ELSE cur_ack[e]
              upto == IF limit < stop THEN limit ELSE stop
          IN  ReadReturns(e, upto,
                 IF upto < limit /\ \E s \in recvSegments[e] : s.seq > stop THEN {"internal"} ELSE {})
    BY <2>8
  <2>. DEFINE limit == IF head_seq[e] + len < cur_ack[e] THEN head_seq[e] + len ELSE cur_ack[e]
              upto == IF limit < stop THEN limit ELSE stop
  <2>2. first \in Piece /\ recvSegments[e] \subseteq Piece
    BY DEF ReadableFrom, RecvTyped
  <2>3. stop \in Nat
    BY <2>2 DEF Boundaries, EndOf, Piece
  <2>4. len \in Nat /\ head_seq[e] \in Nat /\ cur_ack[e] \in Nat
    BY NumbersAssumption DEF RecvTyped
  <2>5. upto \in Nat
    BY <2>3, <2>4
  <2>. HIDE DEF upto
  <2>6. \E fault \in SUBSET {"empty", "internal"} : ReadReturns(e, upto, fault)
    BY <2>1 DEF upto
  <2>7. RecvTyped' /\ ReadersTyped'
    BY <1>3, <2>5, <2>6, ReturnsTyped DEF ReadData
  <2>. QED  BY <1>3, <2>7, TypeGroupsNext DEF ReadData
<1>. QED  BY <1>1, <1>2, <1>3 DEF Reading

\* Close, WaitForClose, ForceClose and VtunnelRemove keep the types.
LEMMA ClosingTyped == ASSUME TypeOK, NEW e \in Ends, Closing(e) PROVE TypeOK'
<1>. USE Numbers, TypeGroups, Kept
<1>1. ASSUME Abort(e) PROVE SegmentsTyped' /\ BuffersTyped' /\ RecvTyped' /\ CurSeqTyped'
  <2>1. SegmentsTyped' /\ BuffersTyped'
    BY <1>1, ClearTyped DEF Abort
  <2>2. RecvTyped' /\ CurSeqTyped'
    BY <1>1 DEF Abort, WakeReaders, RecvTyped, CurSeqTyped
  <2>. QED  BY <2>1, <2>2
<1>2. ASSUME StopWorkerThreads(e) PROVE WorkersTyped'
  BY <1>2 DEF StopWorkerThreads, Joined, WorkersTyped
<1>3. ASSUME SendFin(e) PROVE SegmentsTyped' /\ NetTyped'
  <2>1. ControlSegment("FIN", cur_seq[e], 0) \in Segment
    BY DEF CurSeqTyped, ControlSegment, Segment
  <2>2. PacketOf(e, "FIN", cur_seq[e], cur_ack[e], 0) \in Packet
    BY PacketTyped DEF CurSeqTyped, RecvTyped, PacketTypes
  <2>. QED  BY <1>3, <2>1, <2>2, InsertTyped DEF SendFin, NetTyped
<1>4. CASE CloseClosed(e) \/ CloseDone(e) \/ CloseTimeout(e)
  <2>1. ClosersTyped' /\ StateTyped'
    BY <1>4 DEF CloseClosed, CloseDone, CloseTimeout, ClosersTyped, StateTyped
  <2>. QED  BY <1>4, <2>1, TypeGroupsNext DEF CloseClosed, CloseDone, CloseTimeout
<1>5. CASE CloseAfterFin(e)
  <2>1. ClosersTyped' /\ StateTyped'
    BY <1>5 DEF CloseAfterFin, ClosersTyped, StateTyped
  <2>. QED  BY <1>1, <1>2, <1>5, <2>1, TypeGroupsNext DEF CloseAfterFin
<1>6. CASE CloseBegin(e)
  <2>1. StateTyped'
    BY <1>6 DEF CloseBegin, StateTyped
  <2>. QED  BY <1>1, <1>6, <2>1, TypeGroupsNext DEF CloseBegin
<1>7. CASE CloseFin(e)
  <2>1. ClosersTyped' /\ StateTyped'
    BY <1>7 DEF CloseFin, ClosersTyped, StateTyped
  <2>. QED  BY <1>3, <1>7, <2>1, TypeGroupsNext DEF CloseFin
<1>8. CASE ForceClose(e)
  <2>1. StateTyped' /\ BoundsTyped'
    BY <1>8 DEF ForceClose, StateTyped, BoundsTyped
  <2>2. SegmentsTyped' /\ BuffersTyped' /\ RecvTyped' /\ CurSeqTyped' /\ WorkersTyped'
    BY <1>1, <1>2, <1>8 DEF ForceClose
  <2>. QED  BY <1>8, <2>1, <2>2, TypeGroupsNext DEF ForceClose
<1>9. CASE ForceCloseBegin(e)
  <2>1. StateTyped' /\ BoundsTyped'
    BY <1>9 DEF ForceCloseBegin, StateTyped, BoundsTyped
  <2>. QED  BY <1>1, <1>9, <2>1, TypeGroupsNext DEF ForceCloseBegin
<1>10. CASE ForceCloseFin(e)
  <2>1. StateTyped'
    BY <1>10 DEF ForceCloseFin, StateTyped
  <2>. QED  BY <1>3, <1>10, <2>1, TypeGroupsNext DEF ForceCloseFin
<1>11. CASE Remove(e)
  <2>1. StateTyped'
    BY <1>11 DEF Remove, StateTyped
  <2>. QED  BY <1>2, <1>11, <2>1, TypeGroupsNext DEF Remove
<1>. QED  BY <1>4, <1>5, <1>6, <1>7, <1>8, <1>9, <1>10, <1>11 DEF Closing

\* The network keeps the types.
LEMMA NetworkTyped ==
    ASSUME TypeOK, NEW p \in net, QueueSyn(p) \/ Lose(p) \/ DropUnknown(p)
    PROVE  TypeOK'
<1>. USE TypeGroups, Kept
<1>1. NetTyped' /\ SynTyped' /\ BoundsTyped'
  BY DEF QueueSyn, Lose, DropUnknown, NetTyped, SynTyped, BoundsTyped
<1>. QED  BY <1>1, TypeGroupsNext DEF QueueSyn, Lose, DropUnknown

\* Every step of the system keeps the types.
LEMMA NextTyped == TypeOK /\ [Next]_vars => TypeOK'
<1>. SUFFICES ASSUME TypeOK, [Next]_vars PROVE TypeOK'
  OBVIOUS
<1>1. CASE Next
  BY <1>1, OpeningTyped, AcceptingTyped, WritingTyped, ReadingTyped, ClosingTyped, WorkingTyped,
     NetworkTyped, ReceivingTyped, HandleTyped DEF Next
<1>2. CASE UNCHANGED vars
  BY <1>2, Kept, TypeGroupsNext DEF vars
<1>. QED  BY <1>1, <1>2

\* Every variable keeps its type, whatever the threads, packets and calls do.
THEOREM TypeCorrect == Spec => []TypeOK
BY InitTyped, NextTyped, PTL DEF Spec

-----------------------------------------------------------------------------
(* The closer is told *)

\* While nobody has forced a close, the tunnel that is closed has no closer waiting.
CloserInv ==
    forced = 0 => \A e \in Ends :
        mutex[e] # "force" /\ (state[e] = "CLOSED" => closePc[e] # "waiting")

\* The steps of a call of Write or Read, of the two threads of an end and of the network leave
\* the states, the opener, the closer and mutex alone.
LEMMA ControlKept ==
    ASSUME \/ \E w \in Calls : Writing(w)
           \/ \E e \in Ends : Reading(e) \/ Working(e)
           \/ \E p \in net : QueueSyn(p) \/ Lose(p) \/ DropUnknown(p)
           \/ \E p \in net, l \in Links :
                 DropPacket(p, l) \/ ReceiveAckOrData(p, l) \/ ReceiveSynAck(p, l)
           \/ \E h \in handling :
                 \/ ThreeWayCheck(h) \/ Recheck(h) \/ AckCompare(h) \/ AckSegments(h)
                 \/ AckBuffers(h) \/ HandleData(h)
           \/ UNCHANGED vars
    PROVE  UNCHANGED <<state, mutex, openPc, closePc, forced>>
<1>1. ASSUME NEW w \in Calls, Writing(w) PROVE UNCHANGED <<state, mutex, openPc, closePc, forced>>
  BY <1>1 DEF Writing, WriteStart, WriteAppend, WriteSpawn, WriteSpawnRefused, WriteFinish,
     WriteAborted, WriteTimeout
<1>2. ASSUME NEW e \in Ends, Reading(e) PROVE UNCHANGED <<state, mutex, openPc, closePc, forced>>
  BY <1>2 DEF Reading, ReadStart, ReadWait, ReadWake, ReadFails, ReadNothing, ReadData
<1>3. ASSUME NEW e \in Ends, Working(e) PROVE UNCHANGED <<state, mutex, openPc, closePc, forced>>
  BY <1>3 DEF Working, WriterSend, WriterExit, RetrySend
<1>4. ASSUME NEW p \in net, QueueSyn(p) \/ Lose(p) \/ DropUnknown(p)
      PROVE  UNCHANGED <<state, mutex, openPc, closePc, forced>>
  BY <1>4 DEF QueueSyn, Lose, DropUnknown
<1>5. ASSUME NEW p \in net, NEW l \in Links,
             DropPacket(p, l) \/ ReceiveAckOrData(p, l) \/ ReceiveSynAck(p, l)
      PROVE  UNCHANGED <<state, mutex, openPc, closePc, forced>>
  BY <1>5 DEF DropPacket, ReceiveAckOrData, ReceiveSynAck
<1>6. ASSUME NEW h \in handling,
             \/ ThreeWayCheck(h) \/ Recheck(h) \/ AckCompare(h) \/ AckSegments(h)
             \/ AckBuffers(h) \/ HandleData(h)
      PROVE  UNCHANGED <<state, mutex, openPc, closePc, forced>>
  BY <1>6 DEF ThreeWayCheck, Recheck, AckCompare, AckSegments, AckBuffers, HandleData
<1>. QED  BY <1>1, <1>2, <1>3, <1>4, <1>5, <1>6 DEF vars

\* A step that writes one of them.
ControlStep ==
    \/ Opening \/ Accepting
    \/ \E e \in Ends : Closing(e)
    \/ \E p \in net, l \in Links : ReceiveFin(p, l) \/ ReceiveFinAck(p, l)
    \/ \E h \in handling : Establish(h)

\* Every step of a tunnel is one of them.
LEMMA ControlSteps ==
    ASSUME [Next]_vars
    PROVE  ControlStep \/ UNCHANGED <<state, mutex, openPc, closePc, forced>>
BY ControlKept DEF Next, ControlStep, Receiving, Handle

\* No step leaves a closer waiting on a tunnel that is closed, unless a close is forced.
LEMMA CloserKept == TypeOK /\ CloserInv /\ [Next]_vars => CloserInv'
<1>. SUFFICES ASSUME TypeOK, CloserInv, [Next]_vars PROVE CloserInv'
  OBVIOUS
<1>. /\ state \in [Ends -> {"NULL", "OPENING", "HALF_OPEN", "OPEN", "CLOSING", "CLOSE_WAIT", "CLOSED"}]
     /\ mutex \in [Ends -> {"free", "close", "force"}]
     /\ closePc \in [Ends -> {"idle", "waiting", "woken", "done"}]
     /\ forced \in Nat
  BY DEF TypeOK
<1>1. CASE UNCHANGED <<state, mutex, openPc, closePc, forced>>
  BY <1>1 DEF CloserInv
<1>2. CASE Opening
  BY <1>2 DEF CloserInv, Opening, OpenRefused, OpenStart, OpenFinish, OpenAborted, OpenTimeout
<1>3. CASE Accepting
  BY <1>3 DEF CloserInv, Accepting, TakeSyn, HandleSyn, WaitForOpenStart, WaitForOpenFinish,
     WaitForOpenTimeout
<1>4. ASSUME NEW e \in Ends, Closing(e) PROVE CloserInv'
  BY <1>4 DEF CloserInv, Closing, CloseClosed, CloseAfterFin, CloseBegin, CloseFin, CloseDone,
     CloseTimeout, ForceClose, ForceCloseBegin, ForceCloseFin, Remove
<1>5. ASSUME NEW p \in net, NEW l \in Links, ReceiveFin(p, l) \/ ReceiveFinAck(p, l)
      PROVE  CloserInv'
  BY <1>5 DEF CloserInv, ReceiveFin, ReceiveFinAck, WakeCloser
<1>6. ASSUME NEW h \in handling, Establish(h) PROVE CloserInv'
  BY <1>6 DEF CloserInv, Establish
<1>. QED  BY <1>1, <1>2, <1>3, <1>4, <1>5, <1>6, ControlSteps DEF ControlStep

\* Nobody waits to close a tunnel that is closed, whatever else happens, until ForceClose is called.
THEOREM CloserAlwaysTold == Spec => [](forced = 0 => CloserTold)
<1>1. Init => CloserInv
  BY DEF Init, CloserInv
<1>2. CloserInv => (forced = 0 => CloserTold)
  BY DEF CloserInv, CloserTold
<1>. QED  BY <1>1, <1>2, CloserKept, TypeCorrect, PTL DEF Spec

-----------------------------------------------------------------------------
(* The handshake *)

\* Nothing but SYNs is under way until the server has answered one.
BeforeSyn == synHandled = 0 =>
    /\ \A p \in net : p.type = "SYN"
    /\ handling = {} /\ openQueue = {}
    /\ openPc[Client] # "ok" /\ openPc[Server] = "idle"
    /\ sendSegments[Server] = {} /\ retrySegments[Server] = {}
    /\ \A s \in sendSegments[Client] \cup retrySegments[Client] : s.type = "SYN"
    /\ state[Client] \in {"NULL", "OPENING", "CLOSED"}
    /\ state[Server] \in {"NULL", "HALF_OPEN", "CLOSED"}
    /\ cur_seq = ISN
    /\ \A e \in Ends : mutex[e] = "free" /\ got[e] = <<>>

\* Nobody writes, reads or closes without an open tunnel.
Callers ==
    /\ \A w \in Calls : writePc[w] # "idle" => openPc[Caller[w]] = "ok"
    /\ \A e \in Ends : openPc[e] # "ok" =>
        closePc[e] = "idle" /\ readPc[e] = "idle" /\ writer[e] = "idle" /\ mutex[e] # "close"

\* Nobody calls Write, Read or Close on a tunnel that was not opened for him.
LEMMA CallersKept == TypeOK /\ Callers /\ [Next]_vars => Callers'
<1>. SUFFICES ASSUME TypeOK, Callers, [Next]_vars PROVE Callers'
  OBVIOUS
<1>. USE Numbers
<1>. /\ mutex \in [Ends -> {"free", "close", "force"}]
     /\ openPc \in [Ends -> {"idle", "waiting", "ok", "failed"}]
     /\ closePc \in [Ends -> {"idle", "waiting", "woken", "done"}]
     /\ writePc \in [Calls -> {"idle", "checked", "appended", "waiting", "ok", "failed"}]
     /\ readPc \in [Ends -> {"idle", "ready", "waiting"}]
     /\ writer \in [Ends -> {"idle", "running", "exited", "joined"}]
  BY DEF TypeOK
<1>1. CASE UNCHANGED <<mutex, openPc, closePc, writePc, readPc, writer>>
  BY <1>1 DEF Callers
<1>2. CASE Opening
  BY <1>2 DEF Callers, Opening, OpenRefused, OpenStart, OpenFinish, OpenAborted, OpenTimeout
<1>3. CASE Accepting
  BY <1>3 DEF Callers, Accepting, TakeSyn, HandleSyn, WaitForOpenStart, WaitForOpenFinish,
     WaitForOpenTimeout
<1>4. ASSUME NEW w \in Calls, Writing(w) PROVE Callers'
  <2>1. writePc[w] # "idle" \/ openPc[Caller[w]] = "ok"
    BY <1>4 DEF Writing, WriteStart, WriteAppend, WriteSpawn, WriteSpawnRefused, WriteFinish,
       WriteAborted, WriteTimeout, Serving
  <2>2. openPc[Caller[w]] = "ok"
    BY <2>1 DEF Callers
  <2>3. \E pc : writePc' = [writePc EXCEPT ![w] = pc]
    BY <1>4 DEF Writing, WriteStart, WriteAppend, WriteSpawn, WriteSpawnRefused, WriteFinish,
       WriteAborted, WriteTimeout
  <2>4. UNCHANGED <<mutex, openPc, closePc, readPc>>
    BY <1>4 DEF Writing, WriteStart, WriteAppend, WriteSpawn, WriteSpawnRefused, WriteFinish,
       WriteAborted, WriteTimeout
  <2>5. writer' = writer \/ \E pc : writer' = [writer EXCEPT ![Caller[w]] = pc]
    BY <1>4 DEF Writing, WriteStart, WriteAppend, WriteSpawn, WriteSpawnRefused, WriteFinish,
       WriteAborted, WriteTimeout
  <2>. QED  BY <2>2, <2>3, <2>4, <2>5 DEF Callers
<1>5. ASSUME NEW e \in Ends, Reading(e) PROVE Callers'
  BY <1>5 DEF Callers, Reading, ReadStart, ReadWait, ReadWake, ReadFails, ReadNothing, ReadData,
     MayRead, Serving
<1>6. ASSUME NEW e \in Ends, Closing(e) PROVE Callers'
  BY <1>6 DEF Callers, Closing, CloseClosed, CloseAfterFin, CloseBegin, CloseFin, CloseDone,
     CloseTimeout, ForceClose, ForceCloseBegin, ForceCloseFin, Remove, MayClose, StopWorkerThreads,
     Joined
<1>7. ASSUME NEW e \in Ends, Working(e) PROVE Callers'
  BY <1>7 DEF Callers, Working, WriterSend, WriterExit, RetrySend
<1>8. ASSUME NEW p \in net, NEW l \in Links, Receiving(p, l) PROVE Callers'
  BY <1>8 DEF Callers, Receiving, DropPacket, ReceiveAckOrData, ReceiveSynAck, ReceiveFin,
     ReceiveFinAck, WakeCloser, StopWorkerThreads, Joined
<1>9. ASSUME NEW p \in net, QueueSyn(p) \/ Lose(p) \/ DropUnknown(p) PROVE Callers'
  BY <1>9 DEF Callers, QueueSyn, Lose, DropUnknown
<1>10. ASSUME NEW h \in handling, Handle(h) PROVE Callers'
  BY <1>10 DEF Callers, Handle, ThreeWayCheck, Establish, Recheck, AckCompare, AckSegments,
     AckBuffers, HandleData
<1>. QED  BY <1>1, <1>2, <1>3, <1>4, <1>5, <1>6, <1>7, <1>8, <1>9, <1>10 DEF Next, vars

\* A SYN is queued, taken and answered, and nothing else is done with it.
LEMMA SynSteps ==
    ASSUME [Next]_vars
    PROVE  \/ HandleSyn \/ TakeSyn \/ \E p \in net : QueueSyn(p)
           \/ UNCHANGED <<synQueue, synTaken, synHandled>>
<1>1. CASE UNCHANGED vars
  BY <1>1 DEF vars
<1>2. CASE Opening \/ Accepting
  BY <1>2 DEF Opening, OpenRefused, OpenStart, OpenFinish, OpenAborted, OpenTimeout,
     Accepting, WaitForOpenStart, WaitForOpenFinish, WaitForOpenTimeout
<1>3. ASSUME NEW w \in Calls, Writing(w) PROVE UNCHANGED <<synQueue, synTaken, synHandled>>
  BY <1>3 DEF Writing, WriteStart, WriteAppend, WriteSpawn, WriteSpawnRefused, WriteFinish,
     WriteAborted, WriteTimeout
<1>4. ASSUME NEW e \in Ends, Reading(e) \/ Closing(e) \/ Working(e)
      PROVE  UNCHANGED <<synQueue, synTaken, synHandled>>
  BY <1>4 DEF Reading, ReadStart, ReadWait, ReadWake, ReadFails, ReadNothing, ReadData,
     Closing, CloseClosed, CloseAfterFin, CloseBegin, CloseFin, CloseDone,
     CloseTimeout, ForceClose, ForceCloseBegin, ForceCloseFin, Remove,
     Working, WriterSend, WriterExit, RetrySend
<1>5. ASSUME NEW p \in net, NEW l \in Links, Receiving(p, l)
      PROVE  UNCHANGED <<synQueue, synTaken, synHandled>>
  BY <1>5 DEF Receiving, DropPacket, ReceiveAckOrData, ReceiveSynAck, ReceiveFin, ReceiveFinAck
<1>6. ASSUME NEW p \in net, Lose(p) \/ DropUnknown(p)
      PROVE  UNCHANGED <<synQueue, synTaken, synHandled>>
  BY <1>6 DEF Lose, DropUnknown
<1>7. ASSUME NEW h \in handling, Handle(h) PROVE UNCHANGED <<synQueue, synTaken, synHandled>>
  BY <1>7 DEF Handle, ThreeWayCheck, Establish, Recheck, AckCompare, AckSegments,
     AckBuffers, HandleData
<1>. QED  BY <1>1, <1>2, <1>3, <1>4, <1>5, <1>6, <1>7 DEF Next

\* Every copy of a SYN is counted once, while it waits, is taken and is answered.
SynBound == SynsArrived <= MaxSyn

\* No more than MaxSyn copies of the SYN arrive.
LEMMA SynBoundKept == TypeOK /\ SynBound /\ [Next]_vars => SynBound'
<1>. SUFFICES ASSUME TypeOK, SynBound, [Next]_vars PROVE SynBound'
  OBVIOUS
<1>1. synQueue \in Nat /\ synHandled \in Nat /\ MaxSyn \in Nat
  BY NumbersAssumption DEF TypeOK
<1>2. CASE HandleSyn
  <2>1. synTaken /\ ~synTaken' /\ synHandled' = synHandled + 1 /\ synQueue' = synQueue
    BY <1>2 DEF HandleSyn
  <2>. QED  BY <1>1, <2>1 DEF SynBound, SynsArrived
<1>3. CASE TakeSyn
  <2>1. ~synTaken /\ synTaken' /\ synHandled' = synHandled /\ synQueue' = synQueue - 1
    BY <1>3 DEF TakeSyn
  <2>. QED  BY <1>1, <2>1 DEF SynBound, SynsArrived
<1>4. ASSUME NEW p \in net, QueueSyn(p) PROVE SynBound'
  <2>1. /\ synTaken' = synTaken /\ synHandled' = synHandled
        /\ synQueue' = IF SynsArrived < MaxSyn THEN synQueue + 1 ELSE synQueue
    BY <1>4 DEF QueueSyn
  <2>. QED  BY <1>1, <2>1 DEF SynBound, SynsArrived
<1>5. CASE UNCHANGED <<synQueue, synTaken, synHandled>>
  BY <1>5 DEF SynBound, SynsArrived
<1>. QED  BY <1>2, <1>3, <1>4, <1>5, SynSteps

\* What may happen before a SYN is answered.
LEMMA BeforeSynSteps ==
    ASSUME TypeOK, Callers, BeforeSyn, synHandled = 0, Next
    PROVE  \/ OpenRefused \/ OpenStart \/ OpenAborted \/ OpenTimeout \/ TakeSyn \/ HandleSyn
           \/ \E e \in Ends : ForceClose(e) \/ Remove(e)
           \/ \E s \in retrySegments[Client] : RetrySend(Client, s)
           \/ \E p \in net : QueueSyn(p) \/ Lose(p)
<1>. USE Numbers
<1>1. /\ \A p \in net : p.type = "SYN"
      /\ handling = {} /\ openQueue = {} /\ retrySegments[Server] = {}
      /\ openPc[Server] = "idle" /\ state[Client] \in {"NULL", "OPENING", "CLOSED"}
      /\ state[Server] \in {"NULL", "HALF_OPEN", "CLOSED"}
  BY DEF BeforeSyn
<1>2. \A e \in Ends : openPc[e] # "ok" /\ mutex[e] = "free" /\ state[e] \notin {"OPEN", "CLOSING"}
  BY DEF BeforeSyn, Ends
<1>3. \A e \in Ends : closePc[e] = "idle" /\ readPc[e] = "idle" /\ writer[e] = "idle"
  BY <1>2 DEF Callers
<1>4. \A w \in Calls : writePc[w] = "idle"
  BY <1>2 DEF Callers
<1>5. CASE Opening
  BY <1>1, <1>5 DEF Opening, OpenFinish
<1>6. CASE Accepting
  BY <1>1, <1>6 DEF Accepting, WaitForOpenStart, WaitForOpenFinish, WaitForOpenTimeout
<1>7. ASSUME NEW w \in Calls, Writing(w) PROVE FALSE
  BY <1>2, <1>4, <1>7 DEF Writing, WriteStart, WriteAppend, WriteSpawn, WriteSpawnRefused,
     WriteFinish, WriteAborted, WriteTimeout, Serving
<1>8. ASSUME NEW e \in Ends, Reading(e) PROVE FALSE
  BY <1>2, <1>3, <1>8 DEF Reading, ReadStart, ReadWait, ReadWake, ReadFails, ReadNothing, ReadData,
     Serving, MayRead
<1>9. ASSUME NEW e \in Ends, Closing(e) PROVE ForceClose(e) \/ Remove(e)
  BY <1>2, <1>3, <1>9 DEF Closing, CloseClosed, CloseAfterFin, CloseBegin, CloseFin, CloseDone,
     CloseTimeout, ForceCloseBegin, ForceCloseFin, MayClose
<1>10. ASSUME NEW e \in Ends, Working(e)
       PROVE  \E s \in retrySegments[Client] : RetrySend(Client, s)
  BY <1>1, <1>3, <1>10 DEF Working, WriterSend, WriterExit, Ends
<1>11. ASSUME NEW p \in net, NEW l \in Links, Receiving(p, l) PROVE FALSE
  BY <1>1, <1>11 DEF Receiving, DropPacket, ReceiveAckOrData, ReceiveSynAck, ReceiveFin,
     ReceiveFinAck, Arrives
<1>12. ASSUME NEW p \in net, DropUnknown(p) PROVE FALSE
  BY <1>1, <1>12 DEF DropUnknown
<1>. QED  BY <1>1, <1>5, <1>6, <1>7, <1>8, <1>9, <1>10, <1>11, <1>12 DEF Next

\* Until a SYN is answered nothing but SYNs is under way.
LEMMA BeforeSynKept == TypeOK /\ Callers /\ BeforeSyn /\ [Next]_vars => BeforeSyn'
<1>. SUFFICES ASSUME TypeOK, Callers, BeforeSyn, [Next]_vars, synHandled' = 0 PROVE BeforeSyn'
  BY DEF BeforeSyn
<1>. USE Numbers
<1>1. synHandled = 0 /\ ~HandleSyn
  <2>1. synHandled \in Nat
    BY DEF TypeOK
  <2>2. /\ HandleSyn => synHandled' = synHandled + 1
        /\ TakeSyn \/ (\E p \in net : QueueSyn(p)) => synHandled' = synHandled
    BY DEF HandleSyn, TakeSyn, QueueSyn
  <2>. QED  BY <2>1, <2>2, SynSteps
<1>. /\ state \in [Ends -> {"NULL", "OPENING", "HALF_OPEN", "OPEN", "CLOSING", "CLOSE_WAIT", "CLOSED"}]
     /\ openPc \in [Ends -> {"idle", "waiting", "ok", "failed"}]
     /\ sendSegments \in [Ends -> SUBSET Segment] /\ retrySegments \in [Ends -> SUBSET Segment]
  BY DEF TypeOK
<1>2. CASE UNCHANGED vars
  BY <1>2 DEF vars, BeforeSyn
<1>3. CASE OpenRefused \/ OpenAborted \/ OpenTimeout
  BY <1>1, <1>3 DEF BeforeSyn, OpenRefused, OpenAborted, OpenTimeout, CancelCtrlPktFromSegments,
     EraseSegments
<1>4. CASE OpenStart
  <2>. DEFINE seg == ControlSegment("SYN", cur_seq[Client], 0)
              pkt == PacketOf(Client, "SYN", cur_seq[Client], cur_ack[Client], 0)
  <2>1. seg.type = "SYN" /\ pkt.type = "SYN"
    BY DEF ControlSegment, PacketOf
  <2>. HIDE DEF seg, pkt
  <2>2. /\ UNCHANGED <<handling, openQueue, cur_seq, mutex, got>>
        /\ openPc' = [openPc EXCEPT ![Client] = "waiting"]
        /\ state' = [state EXCEPT ![Client] = "OPENING"]
        /\ sendSegments' = [sendSegments EXCEPT ![Client] = WithSegment(@, seg)]
        /\ retrySegments' = [retrySegments EXCEPT ![Client] = @ \cup {seg}]
        /\ net' = net \cup {pkt}
    BY <1>4 DEF OpenStart, InsertSegment, seg, pkt
  <2>. QED  BY <1>1, <2>1, <2>2 DEF BeforeSyn, WithSegment
<1>5. CASE TakeSyn
  BY <1>1, <1>5 DEF BeforeSyn, TakeSyn
<1>6. ASSUME NEW e \in Ends, ForceClose(e) \/ Remove(e) PROVE BeforeSyn'
  <2>1. state[e] # "CLOSING"
    BY <1>1 DEF BeforeSyn, Ends
  <2>2. /\ UNCHANGED <<net, handling, openQueue, openPc, sendSegments, retrySegments, cur_seq,
                       mutex, got>>
        /\ state' = state \/ state' = [state EXCEPT ![e] = "CLOSED"]
    BY <1>6, <2>1 DEF ForceClose, Remove
  <2>. QED  BY <1>1, <2>2 DEF BeforeSyn
<1>7. ASSUME NEW s \in retrySegments[Client], RetrySend(Client, s) PROVE BeforeSyn'
  BY <1>1, <1>7 DEF BeforeSyn, RetrySend, PacketOf
<1>8. ASSUME NEW p \in net, QueueSyn(p) \/ Lose(p) PROVE BeforeSyn'
  BY <1>1, <1>8 DEF BeforeSyn, QueueSyn, Lose
<1>. QED  BY <1>1, <1>2, <1>3, <1>4, <1>5, <1>6, <1>7, <1>8, BeforeSynSteps

\* The SYN or SYN_ACK that waits to be sent again.
HandshakeSegments(e) == {s \in retrySegments[e] : s.type \in {"SYN", "SYN_ACK"}}

\* Its time is over, or has not come.
Quiet(e) ==
    \/ openPc[e] \in {"ok", "failed"} \/ state[e] = "OPEN" \/ mutex[e] # "free"
    \/ e = Client /\ openPc[e] = "idle"

HandshakeInv ==
    \A e \in Ends :
        /\ HandshakeSegments(e) \subseteq sendSegments[e]
        /\ Quiet(e) => HandshakeSegments(e) = {}

\* A step that leaves the segments alone, and begins no quiet time.
LEMMA QuietKept ==
    ASSUME HandshakeInv, UNCHANGED <<sendSegments, retrySegments>>,
           \A f \in Ends : Quiet(f)' => Quiet(f)
    PROVE  HandshakeInv'
BY DEF HandshakeInv, HandshakeSegments

\* Segments of one end leave both lists: all those of the handshake, when a quiet time begins.
LEMMA QuietErased ==
    ASSUME TypeOK, HandshakeInv, NEW e \in Ends, NEW segs \in SUBSET sendSegments[e],
           EraseSegments(e, segs),
           \A f \in Ends : Quiet(f)' => Quiet(f) \/ (f = e /\ HandshakeSegments(e) \subseteq segs)
    PROVE  HandshakeInv'
<1>1. /\ sendSegments' = [sendSegments EXCEPT ![e] = @ \ segs]
      /\ retrySegments' = [retrySegments EXCEPT ![e] = @ \ segs]
  BY DEF EraseSegments
<1>2. sendSegments \in [Ends -> SUBSET Segment] /\ retrySegments \in [Ends -> SUBSET Segment]
  BY DEF TypeOK
<1>3. /\ HandshakeSegments(e)' = HandshakeSegments(e) \ segs
      /\ \A f \in Ends \ {e} : HandshakeSegments(f)' = HandshakeSegments(f)
  BY <1>1, <1>2 DEF HandshakeSegments
<1>4. /\ sendSegments'[e] = sendSegments[e] \ segs
      /\ \A f \in Ends \ {e} : sendSegments'[f] = sendSegments[f]
  BY <1>1, <1>2
<1>. QED  BY <1>3, <1>4 DEF HandshakeInv

\* A segment is queued when none of the handshake is.
LEMMA QuietInserted ==
    ASSUME TypeOK, HandshakeInv, NEW e \in Ends, NEW seg, InsertSegment(e, seg),
           HandshakeSegments(e) = {},
           seg.type \in {"SYN", "SYN_ACK"} => ~Quiet(e)',
           \A f \in Ends \ {e} : Quiet(f)' => Quiet(f)
    PROVE  HandshakeInv'
<1>1. /\ sendSegments' = [sendSegments EXCEPT ![e] = WithSegment(@, seg)]
      /\ retrySegments' = [retrySegments EXCEPT ![e] = @ \cup {seg}]
  BY DEF InsertSegment
<1>2. sendSegments \in [Ends -> SUBSET Segment] /\ retrySegments \in [Ends -> SUBSET Segment]
  BY DEF TypeOK
<1>3. /\ \A f \in Ends \ {e} : HandshakeSegments(f)' = HandshakeSegments(f)
      /\ HandshakeSegments(e)' \subseteq {seg}
      /\ seg.type \notin {"SYN", "SYN_ACK"} => HandshakeSegments(e)' = {}
  BY <1>1, <1>2 DEF HandshakeSegments
<1>4. /\ seg \in sendSegments'[e]
      /\ \A f \in Ends \ {e} : sendSegments'[f] = sendSegments[f]
  BY <1>1, <1>2 DEF WithSegment
<1>. QED  BY <1>3, <1>4 DEF HandshakeInv

\* Clear and CancelCtrlPktFromSegments remove the segments of the handshake.
LEMMA QuietCleared ==
    ASSUME TypeOK, HandshakeInv, NEW e \in Ends, Clear(e) \/ CancelCtrlPktFromSegments(e),
           \A f \in Ends \ {e} : Quiet(f)' => Quiet(f)
    PROVE  HandshakeInv'
<1>1. CASE Clear(e)
  BY <1>1, QuietErased DEF Clear, HandshakeInv
<1>2. CASE CancelCtrlPktFromSegments(e)
  <2>. DEFINE segs == {s \in sendSegments[e] : s.type # "DATA"}
  <2>1. HandshakeSegments(e) \subseteq segs /\ segs \in SUBSET sendSegments[e]
    BY DEF HandshakeInv, HandshakeSegments
  <2>. QED  BY <1>2, <2>1, QuietErased DEF CancelCtrlPktFromSegments
<1>. QED  BY <1>1, <1>2

\* The segments of the handshake are in both lists, and in none when the handshake is over.
LEMMA HandshakeKept ==
    ASSUME MaxSyn <= 1
    PROVE  TypeOK /\ Callers /\ BeforeSyn /\ SynBound /\ HandshakeInv /\ [Next]_vars => HandshakeInv'
<1>. SUFFICES ASSUME TypeOK, Callers, BeforeSyn, SynBound, HandshakeInv, [Next]_vars
              PROVE  HandshakeInv'
  OBVIOUS
<1>. USE Numbers
<1>. /\ state \in [Ends -> {"NULL", "OPENING", "HALF_OPEN", "OPEN", "CLOSING", "CLOSE_WAIT", "CLOSED"}]
     /\ mutex \in [Ends -> {"free", "close", "force"}]
     /\ openPc \in [Ends -> {"idle", "waiting", "ok", "failed"}]
  BY DEF TypeOK
<1>1. ASSUME UNCHANGED <<state, mutex, openPc>> PROVE \A f \in Ends : Quiet(f)' = Quiet(f)
  BY <1>1 DEF Quiet
<1>2. CASE UNCHANGED vars
  BY <1>1, <1>2, QuietKept DEF vars
<1>3. CASE Opening
  <2>1. CASE OpenStart
    <3>1. HandshakeSegments(Client) = {}
      BY <2>1 DEF OpenStart, HandshakeInv, Quiet
    <3>2. ~Quiet(Client)' /\ \A f \in Ends \ {Client} : Quiet(f)' => Quiet(f)
      BY <2>1 DEF OpenStart, Quiet, Free
    <3>. QED  BY <2>1, <3>1, <3>2, QuietInserted DEF OpenStart
  <2>2. CASE OpenRefused \/ OpenFinish \/ OpenAborted \/ OpenTimeout
    <3>1. \A f \in Ends \ {Client} : Quiet(f)' => Quiet(f)
      BY <2>2 DEF OpenRefused, OpenFinish, OpenAborted, OpenTimeout, Quiet
    <3>. QED  BY <2>2, <3>1, QuietCleared DEF OpenRefused, OpenFinish, OpenAborted, OpenTimeout
  <2>. QED  BY <1>3, <2>1, <2>2 DEF Opening
<1>4. CASE Accepting
  <2>1. CASE TakeSyn
    <3>1. \A f \in Ends : Quiet(f)' => Quiet(f)
      BY <2>1 DEF TakeSyn, Quiet
    <3>. QED  BY <2>1, <3>1, QuietKept DEF TakeSyn
  <2>2. CASE HandleSyn
    <3>1. synTaken /\ synQueue \in Nat /\ synHandled \in Nat
      BY <2>2 DEF HandleSyn, TypeOK
    <3>2. synHandled = 0
      BY <3>1, NumbersAssumption DEF SynBound, SynsArrived
    <3>3. HandshakeSegments(Server) = {}
      BY <3>2 DEF BeforeSyn, HandshakeSegments
    <3>4. ~Quiet(Server)' /\ \A f \in Ends \ {Server} : Quiet(f)' => Quiet(f)
      BY <2>2, <3>2 DEF HandleSyn, BeforeSyn, Quiet
    <3>. QED  BY <2>2, <3>3, <3>4, QuietInserted DEF HandleSyn
  <2>3. CASE WaitForOpenStart \/ WaitForOpenFinish \/ WaitForOpenTimeout
    <3>1. \A f \in Ends \ {Server} : Quiet(f)' => Quiet(f)
      BY <2>3 DEF WaitForOpenStart, WaitForOpenFinish, WaitForOpenTimeout, Quiet
    <3>2. \/ CancelCtrlPktFromSegments(Server)
          \/ UNCHANGED <<sendSegments, retrySegments>> /\ (Quiet(Server)' => Quiet(Server))
      BY <2>3 DEF WaitForOpenStart, WaitForOpenFinish, WaitForOpenTimeout, Quiet
    <3>. QED  BY <3>1, <3>2, QuietCleared, QuietKept
  <2>. QED  BY <1>4, <2>1, <2>2, <2>3 DEF Accepting
<1>5. ASSUME NEW w \in Calls, Writing(w) PROVE HandshakeInv'
  <2>1. UNCHANGED <<state, mutex, openPc>>
    BY <1>5, ControlKept
  <2>2. \/ UNCHANGED <<sendSegments, retrySegments>>
        \/ EraseSegments(Caller[w], {s \in sendSegments[Caller[w]] : s.head = writeIndex[w]})
    BY <1>5 DEF Writing, WriteStart, WriteAppend, WriteSpawn, WriteSpawnRefused, WriteFinish,
       WriteAborted, WriteTimeout, CancelFromBuffers
  <2>. QED  BY <1>1, <2>1, <2>2, QuietKept, QuietErased
<1>6. ASSUME NEW e \in Ends, Reading(e) PROVE HandshakeInv'
  <2>1. UNCHANGED <<state, mutex, openPc>>
    BY <1>6, ControlKept
  <2>2. UNCHANGED <<sendSegments, retrySegments>>
    BY <1>6 DEF Reading, ReadStart, ReadWait, ReadWake, ReadFails, ReadNothing, ReadData
  <2>. QED  BY <1>1, <2>1, <2>2, QuietKept
<1>7. ASSUME NEW e \in Ends, Closing(e) PROVE HandshakeInv'
  <2>1. CASE CloseClosed(e) \/ CloseDone(e) \/ CloseTimeout(e) \/ Remove(e)
    <3>1. \A f \in Ends : Quiet(f)' => Quiet(f)
      BY <2>1 DEF CloseClosed, CloseDone, CloseTimeout, Remove, Quiet
    <3>. QED  BY <2>1, <3>1, QuietKept DEF CloseClosed, CloseDone, CloseTimeout, Remove
  <2>2. CASE CloseAfterFin(e) \/ CloseBegin(e) \/ ForceCloseBegin(e)
    <3>1. \A f \in Ends \ {e} : Quiet(f)' => Quiet(f)
      BY <2>2 DEF CloseAfterFin, CloseBegin, ForceCloseBegin, Quiet
    <3>. QED  BY <2>2, <3>1, QuietCleared DEF CloseAfterFin, CloseBegin, ForceCloseBegin, Abort
  <2>3. CASE ForceClose(e)
    <3>1. \A f \in Ends : Quiet(f)' => Quiet(f)
      BY <2>3 DEF ForceClose, Quiet
    <3>2. Clear(e) \/ UNCHANGED <<sendSegments, retrySegments>>
      BY <2>3 DEF ForceClose, Abort
    <3>. QED  BY <3>1, <3>2, QuietCleared, QuietKept
  <2>4. CASE CloseFin(e) \/ ForceCloseFin(e)
    <3>1. HandshakeSegments(e) = {}
      BY <2>4 DEF CloseFin, ForceCloseFin, HandshakeInv, Quiet
    <3>2. \A f \in Ends \ {e} : Quiet(f)' => Quiet(f)
      BY <2>4 DEF CloseFin, ForceCloseFin, Quiet
    <3>3. ControlSegment("FIN", cur_seq[e], 0).type = "FIN"
      BY DEF ControlSegment
    <3>. QED  BY <2>4, <3>1, <3>2, <3>3, QuietInserted DEF CloseFin, ForceCloseFin, SendFin
  <2>. QED  BY <1>7, <2>1, <2>2, <2>3, <2>4 DEF Closing
<1>8. ASSUME NEW e \in Ends, Working(e) PROVE HandshakeInv'
  <2>1. UNCHANGED <<state, mutex, openPc>>
    BY <1>8, ControlKept
  <2>2. CASE UNCHANGED <<sendSegments, retrySegments>>
    BY <1>1, <2>1, <2>2, QuietKept
  <2>3. CASE WriterSend(e)
    <3>1. HandshakeSegments(e) = {}
      BY <2>3 DEF WriterSend, Callers, HandshakeInv, Quiet
    <3>2. \E seg : InsertSegment(e, seg) /\ seg.type = "DATA"
      BY <2>3 DEF WriterSend
    <3>. QED  BY <1>1, <2>1, <3>1, <3>2, QuietInserted
  <2>. QED  BY <1>8, <2>2, <2>3 DEF Working, WriterExit, RetrySend
<1>9. ASSUME NEW p \in net, NEW l \in Links, Receiving(p, l) PROVE HandshakeInv'
  <2>. p.to \in Ends
    BY DEF TypeOK, Packet
  <2>1. CASE DropPacket(p, l) \/ ReceiveAckOrData(p, l) \/ ReceiveSynAck(p, l)
    <3>1. UNCHANGED <<state, mutex, openPc>>
      BY <2>1, ControlKept
    <3>. QED  BY <1>1, <2>1, <3>1, QuietKept DEF DropPacket, ReceiveAckOrData, ReceiveSynAck
  <2>2. CASE ReceiveFin(p, l) \/ ReceiveFinAck(p, l)
    <3>1. \A f \in Ends \ {p.to} : Quiet(f)' => Quiet(f)
      BY <2>2 DEF ReceiveFin, ReceiveFinAck, Quiet
    <3>. QED  BY <2>2, <3>1, QuietCleared DEF ReceiveFin, ReceiveFinAck
  <2>. QED  BY <1>9, <2>1, <2>2 DEF Receiving
<1>10. ASSUME NEW p \in net, QueueSyn(p) \/ Lose(p) \/ DropUnknown(p) PROVE HandshakeInv'
  <2>1. UNCHANGED <<state, mutex, openPc, sendSegments, retrySegments>>
    BY <1>10 DEF QueueSyn, Lose, DropUnknown
  <2>. QED  BY <1>1, <2>1, QuietKept
<1>11. ASSUME NEW h \in handling, Handle(h) PROVE HandshakeInv'
  <2>. h.pkt.to \in Ends
    BY HandledPacket, TypeGroups
  <2>1. CASE Establish(h)
    <3>1. \A f \in Ends \ {h.pkt.to} : Quiet(f)' => Quiet(f)
      BY <2>1 DEF Establish, Quiet
    <3>. QED  BY <2>1, <3>1, QuietCleared DEF Establish
  <2>2. CASE AckSegments(h)
    <3>1. UNCHANGED <<state, mutex, openPc>>
      BY <2>2, ControlKept
    <3>2. AckedSegments(sendSegments[h.pkt.to], h.pkt.ack) \in SUBSET sendSegments[h.pkt.to]
      BY DEF AckedSegments
    <3>. QED  BY <1>1, <2>2, <3>1, <3>2, QuietErased DEF AckSegments
  <2>3. CASE ThreeWayCheck(h) \/ Recheck(h) \/ AckCompare(h) \/ AckBuffers(h) \/ HandleData(h)
    <3>1. UNCHANGED <<state, mutex, openPc>>
      BY <2>3, ControlKept
    <3>. QED  BY <1>1, <2>3, <3>1, QuietKept DEF ThreeWayCheck, Recheck, AckCompare, AckBuffers,
                HandleData
  <2>. QED  BY <1>11, <2>1, <2>2, <2>3 DEF Handle
<1>. QED  BY <1>2, <1>3, <1>4, <1>5, <1>6, <1>7, <1>8, <1>9, <1>10, <1>11 DEF Next

\* What the proofs that follow have in common: callers, and the time before the SYN is answered.
EarlyInv == Callers /\ BeforeSyn /\ SynBound

\* The three facts about callers and SYNs that the handshake rests on.
LEMMA EarlyAlways == Spec => []EarlyInv
<1>1. Init => EarlyInv
  <2>. SUFFICES ASSUME Init PROVE EarlyInv
    OBVIOUS
  <2>1. Callers /\ BeforeSyn
    BY Numbers DEF Init, Callers, BeforeSyn, Ends
  <2>2. SynBound
    BY NumbersAssumption DEF Init, SynBound, SynsArrived
  <2>. QED  BY <2>1, <2>2 DEF EarlyInv
<1>2. TypeOK /\ EarlyInv /\ [Next]_vars => EarlyInv'
  BY CallersKept, BeforeSynKept, SynBoundKept DEF EarlyInv
<1>. QED  BY <1>1, <1>2, TypeCorrect, PTL DEF Spec

\* With one SYN accepted, no SYN or SYN_ACK waits to be sent again once the opening is over.
THEOREM HandshakeEnds == ASSUME MaxSyn <= 1 PROVE Spec => []HandshakeQuiet
<1>1. Init => HandshakeInv
  BY DEF Init, HandshakeInv, HandshakeSegments
<1>2. TypeOK /\ EarlyInv /\ HandshakeInv /\ [Next]_vars => HandshakeInv'
  BY HandshakeKept DEF EarlyInv
<1>3. HandshakeInv => HandshakeQuiet
  BY DEF HandshakeInv, HandshakeQuiet, HandshakeSegments, Quiet
<1>. QED  BY <1>1, <1>2, <1>3, TypeCorrect, EarlyAlways, PTL DEF Spec

-----------------------------------------------------------------------------
(* The life of a tunnel *)

\* One EndPoint thread hands the packets of a tunnel to it: the handlers of an end do not overlap.
OneLink == \A l, m \in Links : l = m

\* No two packets for one end are being worked on.
OneHandler == \A g, h \in handling : g.pkt.to = h.pkt.to => g = h

\* The last packet of the handshake finds the tunnel half open, unless it was forced to close.
HalfOpen(e) ==
    /\ state[e] \in {"HALF_OPEN", "CLOSED"} /\ openPc[e] # "ok"
    /\ forced = 0 => state[e] = "HALF_OPEN"

HandlerOpens == \A h \in handling : h.pc \in {"threeway", "establish"} => HalfOpen(h.pkt.to)

\* The states in which an end has been opened, closes, or is waited for.
StatesFit ==
    /\ \A e \in Ends :
        /\ openPc[e] = "ok" => state[e] \notin {"NULL", "OPENING", "HALF_OPEN"}
        /\ mutex[e] = "close" => state[e] \in {"OPEN", "CLOSING"}
        /\ mutex[e] = "force" => forced > 0
    /\ openPc[Server] = "waiting" => state[Server] # "NULL"
    /\ state[Server] # "OPENING"

LifeInv == forced <= MaxForce /\ OneHandler /\ HandlerOpens /\ StatesFit

\* A handler that goes on, when the last packet of the handshake is not taken yet or was never there.
LEMMA LifeAdvanced ==
    ASSUME TypeOK, LifeInv, NEW h \in handling, UNCHANGED <<state, mutex, openPc, forced>>,
           \/ Done(h)
           \/ \E pc \in {"recheck", "segments", "buffers", "data"} : Advance(h, pc)
           \/ h.pc = "threeway" /\ Advance(h, "establish")
    PROVE  LifeInv'
<1>1. h \in Handling /\ handling \in SUBSET Handling
  BY DEF TypeOK
<1>2. \A pc : [h EXCEPT !.pc = pc].pkt = h.pkt /\ [h EXCEPT !.pc = pc].pc = pc
  BY <1>1 DEF Handling
<1>3. CASE Done(h)
  BY <1>3 DEF LifeInv, OneHandler, HandlerOpens, HalfOpen, StatesFit, Done
<1>4. ASSUME NEW pc \in {"establish", "recheck", "segments", "buffers", "data"}, Advance(h, pc),
             pc = "establish" => h.pc = "threeway"
      PROVE  LifeInv'
  <2>. DEFINE g == [h EXCEPT !.pc = pc]
  <2>1. g.pkt = h.pkt /\ g.pc = pc /\ handling' = (handling \ {h}) \cup {g}
    BY <1>2, <1>4 DEF Advance
  <2>. HIDE DEF g
  <2>2. OneHandler'
    BY <2>1 DEF LifeInv, OneHandler
  <2>3. HandlerOpens'
    BY <1>4, <2>1 DEF LifeInv, HandlerOpens, HalfOpen
  <2>. QED  BY <2>2, <2>3 DEF LifeInv, StatesFit
<1>. QED  BY <1>3, <1>4

\* A step that takes no packet, and leaves a half open tunnel half open.
LEMMA OpensKept ==
    ASSUME TypeOK, LifeInv, handling' = handling, \A f \in Ends : HalfOpen(f) => HalfOpen(f)'
    PROVE  OneHandler' /\ HandlerOpens'
<1>1. \A h \in handling : h.pkt.to \in Ends
  BY HandledPacket, TypeGroups
<1>. QED  BY <1>1 DEF LifeInv, OneHandler, HandlerOpens

\* The handlers never overlap, and what they find is what they were called for.
LEMMA LifeKept ==
    ASSUME OneLink
    PROVE  TypeOK /\ EarlyInv /\ LifeInv /\ [Next]_vars => LifeInv'
<1>. SUFFICES ASSUME TypeOK, EarlyInv, LifeInv, [Next]_vars PROVE LifeInv'
  OBVIOUS
<1>. USE Numbers
<1>. /\ state \in [Ends -> {"NULL", "OPENING", "HALF_OPEN", "OPEN", "CLOSING", "CLOSE_WAIT", "CLOSED"}]
     /\ mutex \in [Ends -> {"free", "close", "force"}]
     /\ openPc \in [Ends -> {"idle", "waiting", "ok", "failed"}]
     /\ forced \in Nat /\ MaxForce \in Nat
  BY NumbersAssumption DEF TypeOK
<1>1. CASE UNCHANGED <<state, mutex, openPc, forced, handling>>
  BY <1>1 DEF LifeInv, OneHandler, HandlerOpens, HalfOpen, StatesFit
<1>2. CASE Opening
  <2>1. UNCHANGED <<mutex, forced, handling>>
    BY <1>2 DEF Opening, OpenRefused, OpenStart, OpenFinish, OpenAborted, OpenTimeout
  <2>2. CASE OpenRefused \/ OpenAborted \/ OpenTimeout
    <3>1. OneHandler' /\ HandlerOpens'
      BY <2>1, <2>2, OpensKept DEF OpenRefused, OpenAborted, OpenTimeout, HalfOpen
    <3>. QED  BY <2>1, <2>2, <3>1 DEF OpenRefused, OpenAborted, OpenTimeout, LifeInv, StatesFit
  <2>3. CASE OpenStart
    <3>1. OneHandler' /\ HandlerOpens'
      BY <2>1, <2>3, OpensKept DEF OpenStart, HalfOpen
    <3>. QED  BY <2>1, <2>3, <3>1 DEF OpenStart, Free, LifeInv, StatesFit
  <2>4. CASE OpenFinish
    <3>1. OneHandler' /\ HandlerOpens'
      BY <2>1, <2>4, OpensKept DEF OpenFinish, HalfOpen
    <3>. QED  BY <2>1, <2>4, <3>1 DEF OpenFinish, Free, LifeInv, StatesFit
  <2>. QED  BY <1>2, <2>2, <2>3, <2>4 DEF Opening
<1>3. CASE Accepting
  <2>1. UNCHANGED <<mutex, forced, handling>>
    BY <1>3 DEF Accepting, TakeSyn, HandleSyn, WaitForOpenStart, WaitForOpenFinish,
       WaitForOpenTimeout
  <2>2. CASE TakeSyn
    <3>1. OneHandler' /\ HandlerOpens'
      BY <2>1, <2>2, OpensKept DEF TakeSyn, HalfOpen
    <3>. QED  BY <2>1, <2>2, <3>1 DEF TakeSyn, LifeInv, StatesFit
  <2>3. CASE HandleSyn
    BY <1>1, <2>1, <2>3 DEF HandleSyn
  <2>4. CASE WaitForOpenStart \/ WaitForOpenFinish \/ WaitForOpenTimeout
    <3>1. state' = state
      BY <2>4 DEF WaitForOpenStart, WaitForOpenFinish, WaitForOpenTimeout
    <3>2. \/ openPc' = [openPc EXCEPT ![Server] = "waiting"] /\ state[Server] = "HALF_OPEN"
          \/ openPc' = [openPc EXCEPT ![Server] = "failed"]
          \/ /\ openPc' = [openPc EXCEPT ![Server] = "ok"]
             /\ \/ state[Server] = "OPEN"
                \/ openPc[Server] = "waiting" /\ state[Server] \notin {"HALF_OPEN", "CLOSED"}
      BY <2>4 DEF WaitForOpenStart, WaitForOpenFinish, WaitForOpenTimeout
    <3>3. OneHandler' /\ HandlerOpens'
      BY <2>1, <3>1, <3>2, OpensKept DEF HalfOpen
    <3>4. StatesFit'
      BY <2>1, <3>1, <3>2 DEF LifeInv, StatesFit
    <3>. QED  BY <2>1, <3>3, <3>4 DEF LifeInv
  <2>. QED  BY <1>3, <2>2, <2>3, <2>4 DEF Accepting
<1>4. ASSUME NEW w \in Calls, Writing(w) PROVE LifeInv'
  <2>1. handling' = handling
    BY <1>4 DEF Writing, WriteStart, WriteAppend, WriteSpawn, WriteSpawnRefused, WriteFinish,
       WriteAborted, WriteTimeout
  <2>. QED  BY <1>1, <1>4, <2>1, ControlKept
<1>5. ASSUME NEW e \in Ends, Reading(e) \/ Working(e) PROVE LifeInv'
  <2>1. handling' = handling
    BY <1>5 DEF Reading, ReadStart, ReadWait, ReadWake, ReadFails, ReadNothing, ReadData,
       Working, WriterSend, WriterExit, RetrySend
  <2>. QED  BY <1>1, <1>5, <2>1, ControlKept
<1>6. ASSUME NEW e \in Ends, Closing(e) PROVE LifeInv'
  <2>1. UNCHANGED <<openPc, handling>>
    BY <1>6 DEF Closing, CloseClosed, CloseAfterFin, CloseBegin, CloseFin, CloseDone,
       CloseTimeout, ForceClose, ForceCloseBegin, ForceCloseFin, Remove
  <2>2. closePc[e] # "idle" \/ mutex[e] = "close" => openPc[e] = "ok"
    BY DEF EarlyInv, Callers
  <2>3. CASE CloseClosed(e) \/ CloseDone(e) \/ Remove(e)
    BY <1>1, <2>3 DEF CloseClosed, CloseDone, Remove
  <2>4. CASE CloseAfterFin(e) \/ CloseBegin(e) \/ CloseFin(e) \/ CloseTimeout(e)
    <3>1. openPc[e] = "ok" /\ forced' = forced
      BY <2>2, <2>4 DEF CloseAfterFin, CloseBegin, CloseFin, CloseTimeout, MayClose
    <3>2. HandlerOpens' /\ OneHandler'
      BY <2>1, <2>4, <3>1, OpensKept DEF CloseAfterFin, CloseBegin, CloseFin, CloseTimeout, HalfOpen
    <3>3. StatesFit'
      BY <2>1, <2>4, <3>1 DEF CloseAfterFin, CloseBegin, CloseFin, CloseTimeout, MayClose, Free,
         LifeInv, StatesFit
    <3>. QED  BY <3>1, <3>2, <3>3 DEF LifeInv
  <2>5. CASE ForceClose(e) \/ ForceCloseBegin(e)
    <3>1. forced' = forced + 1 /\ forced' <= MaxForce
      BY <2>5 DEF ForceClose, ForceCloseBegin, MayForce
    <3>2. HandlerOpens' /\ OneHandler'
      BY <2>1, <2>5, <3>1, OpensKept DEF ForceClose, ForceCloseBegin, HalfOpen
    <3>3. StatesFit'
      BY <2>1, <2>5, <3>1 DEF ForceClose, ForceCloseBegin, MayForce, Free, LifeInv, StatesFit
    <3>. QED  BY <3>1, <3>2, <3>3 DEF LifeInv
  <2>6. CASE ForceCloseFin(e)
    <3>1. forced' = forced /\ forced > 0
      BY <2>6 DEF ForceCloseFin, LifeInv, StatesFit
    <3>2. HandlerOpens' /\ OneHandler'
      BY <2>1, <2>6, <3>1, OpensKept DEF ForceCloseFin, HalfOpen
    <3>3. StatesFit'
      BY <2>1, <2>6, <3>1 DEF ForceCloseFin, LifeInv, StatesFit
    <3>. QED  BY <3>1, <3>2, <3>3 DEF LifeInv
  <2>. QED  BY <1>6, <2>3, <2>4, <2>5, <2>6 DEF Closing
<1>7. ASSUME NEW p \in net, NEW l \in Links, Receiving(p, l) PROVE LifeInv'
  <2>. p.to \in Ends
    BY DEF TypeOK, Packet
  <2>1. CASE DropPacket(p, l) \/ ReceiveSynAck(p, l)
    <3>1. handling' = handling
      BY <2>1 DEF DropPacket, ReceiveSynAck
    <3>. QED  BY <1>1, <2>1, <3>1, ControlKept
  <2>2. CASE ReceiveAckOrData(p, l)
    <3>. DEFINE h == [link |-> l, pkt |-> p, pc |-> FirstStep(p.to, p.type)]
    <3>1. handling' = handling \cup {h} /\ UNCHANGED <<state, mutex, openPc, forced>>
      BY <2>2 DEF ReceiveAckOrData
    <3>2. h.pkt = p /\ (h.pc \in {"threeway", "establish"} => state[p.to] = "HALF_OPEN")
      BY DEF FirstStep
    <3>. HIDE DEF h
    <3>3. \A g \in handling : g.pkt.to # p.to
      <4>1. \A g \in handling : g.link \in Links
        BY DEF TypeOK, Handling
      <4>. QED  BY <2>2, <4>1 DEF ReceiveAckOrData, Arrives, OneLink
    <3>4. OneHandler'
      BY <3>1, <3>2, <3>3 DEF LifeInv, OneHandler
    <3>5. HandlerOpens'
      BY <3>1, <3>2 DEF LifeInv, HandlerOpens, HalfOpen, StatesFit
    <3>. QED  BY <3>1, <3>4, <3>5 DEF LifeInv, StatesFit
  <2>3. CASE ReceiveFin(p, l) \/ ReceiveFinAck(p, l)
    <3>1. UNCHANGED <<mutex, openPc, forced, handling>> /\ mutex[p.to] = "free"
      BY <2>3 DEF ReceiveFin, ReceiveFinAck, Arrives, Free
    <3>2. \/ state' = state
          \/ state[p.to] = "OPEN" /\ state' = [state EXCEPT ![p.to] = "CLOSING"]
          \/ /\ state[p.to] \in {"CLOSING", "CLOSE_WAIT"}
             /\ state' = [state EXCEPT ![p.to] = "CLOSED"]
      BY <2>3 DEF ReceiveFin, ReceiveFinAck, Accepts
    <3>3. HandlerOpens' /\ OneHandler'
      BY <3>1, <3>2, OpensKept DEF HalfOpen
    <3>4. StatesFit'
      BY <3>1, <3>2 DEF LifeInv, StatesFit
    <3>. QED  BY <3>1, <3>3, <3>4 DEF LifeInv
  <2>. QED  BY <1>7, <2>1, <2>2, <2>3 DEF Receiving
<1>8. ASSUME NEW p \in net, QueueSyn(p) \/ Lose(p) \/ DropUnknown(p) PROVE LifeInv'
  <2>1. handling' = handling
    BY <1>8 DEF QueueSyn, Lose, DropUnknown
  <2>. QED  BY <1>1, <1>8, <2>1, ControlKept
<1>9. ASSUME NEW h \in handling, Handle(h) PROVE LifeInv'
  <2>. h.pkt.to \in Ends
    BY HandledPacket, TypeGroups
  <2>1. CASE Establish(h)
    <3>. DEFINE e == h.pkt.to
    <3>1. /\ state' = [state EXCEPT ![e] = "OPEN"] /\ h.pc = "establish"
          /\ UNCHANGED <<mutex, openPc, forced>>
      BY <2>1 DEF Establish
    <3>2. \A g \in handling' : g \in handling \ {h} \/ (g.pkt = h.pkt /\ g.pc = "recheck")
      <4>1. h \in Handling
        BY DEF TypeOK
      <4>. DEFINE r == [h EXCEPT !.pc = "recheck"]
      <4>2. r.pkt = h.pkt /\ r.pc = "recheck"
        BY <4>1 DEF Handling
      <4>3. handling' = handling \ {h} \/ handling' = (handling \ {h}) \cup {r}
        BY <2>1 DEF Establish, AfterThreeWay, Advance, Done
      <4>. HIDE DEF r, e
      <4>. QED  BY <4>2, <4>3
    <3>3. OneHandler'
      <4>1. \A g \in handling \ {h} : g.pkt.to # h.pkt.to
        BY DEF LifeInv, OneHandler
      <4>2. \A g, k \in handling' : g \notin handling /\ k \notin handling => g = k
        BY <2>1 DEF Establish, AfterThreeWay, Advance, Done
      <4>3. \A g, k \in handling' :
                g.pkt.to = k.pkt.to => (g \in handling \ {h} <=> k \in handling \ {h})
        BY <3>2, <4>1
      <4>4. \A g \in handling' : g \notin handling \ {h} => g # h
        BY <3>1, <3>2
      <4>. QED  BY <3>2, <4>2, <4>3, <4>4 DEF LifeInv, OneHandler
    <3>4. HandlerOpens'
      <4>1. \A g \in handling \ {h} : g.pkt.to # e
        BY DEF LifeInv, OneHandler
      <4>2. \A g \in handling : g.pkt.to \in Ends
        BY HandledPacket, TypeGroups
      <4>. QED  BY <3>1, <3>2, <4>1, <4>2 DEF LifeInv, HandlerOpens, HalfOpen
    <3>5. StatesFit'
      BY <3>1 DEF LifeInv, StatesFit, HandlerOpens, HalfOpen
    <3>. QED  BY <3>1, <3>3, <3>4, <3>5 DEF LifeInv
  <2>2. CASE ThreeWayCheck(h) \/ Recheck(h) \/ AckCompare(h) \/ AckSegments(h) \/ AckBuffers(h)
             \/ HandleData(h)
    <3>1. UNCHANGED <<state, mutex, openPc, forced>>
      BY <2>2, ControlKept
    <3>2. \/ Done(h)
          \/ \E pc \in {"recheck", "segments", "buffers", "data"} : Advance(h, pc)
          \/ h.pc = "threeway" /\ Advance(h, "establish")
      BY <2>2 DEF ThreeWayCheck, Recheck, AckCompare, AckSegments, AckBuffers, HandleData,
         AfterThreeWay
    <3>. QED  BY <3>1, <3>2, LifeAdvanced
  <2>. QED  BY <1>9, <2>1, <2>2 DEF Handle
<1>10. CASE UNCHANGED vars
  BY <1>1, <1>10 DEF vars
<1>. QED  BY <1>2, <1>3, <1>4, <1>5, <1>6, <1>7, <1>8, <1>9, <1>10 DEF Next

\* With one link, the life of a tunnel is what it should be.
LEMMA LifeAlways == ASSUME OneLink PROVE Spec => []LifeInv
<1>1. Init => LifeInv
  <2>. SUFFICES ASSUME Init PROVE LifeInv
    OBVIOUS
  <2>. QED  BY Numbers, NumbersAssumption DEF Init, LifeInv, OneHandler, HandlerOpens, StatesFit
<1>. QED  BY <1>1, LifeKept, TypeCorrect, EarlyAlways, PTL DEF Spec

\* No step takes a tunnel back in the order of the states.
LEMMA StageKept ==
    ASSUME MaxForce = 0
    PROVE  TypeOK /\ EarlyInv /\ LifeInv /\ [Next]_vars =>
              \A e \in Ends : Stage[state'[e]] >= Stage[state[e]]
<1>. SUFFICES ASSUME TypeOK, EarlyInv, LifeInv, [Next]_vars
              PROVE  \A e \in Ends : Stage[state'[e]] >= Stage[state[e]]
  OBVIOUS
<1>. USE Numbers
<1>. state \in [Ends -> {"NULL", "OPENING", "HALF_OPEN", "OPEN", "CLOSING", "CLOSE_WAIT", "CLOSED"}]
  BY DEF TypeOK
<1>1. /\ Stage["NULL"] = 0 /\ Stage["OPENING"] = 1 /\ Stage["HALF_OPEN"] = 1 /\ Stage["OPEN"] = 2
      /\ Stage["CLOSING"] = 3 /\ Stage["CLOSE_WAIT"] = 3 /\ Stage["CLOSED"] = 4
  BY DEF Stage
<1>2. forced = 0
  BY DEF TypeOK, LifeInv
<1>3. CASE state' = state
  <2>1. \A e \in Ends : Stage[state[e]] \in Nat
    BY <1>1
  <2>. QED  BY <1>3, <2>1
<1>4. ASSUME NEW e \in Ends, NEW s, state' = [state EXCEPT ![e] = s],
             \/ state[e] = "NULL" /\ s \in {"OPENING", "HALF_OPEN"}
             \/ state[e] \in {"OPENING", "HALF_OPEN"} /\ s = "OPEN"
             \/ state[e] = "OPEN" /\ s \in {"CLOSING", "CLOSE_WAIT"}
             \/ state[e] \in {"CLOSING", "CLOSE_WAIT"} /\ s \in {"CLOSING", "CLOSE_WAIT"}
             \/ s = state[e] \/ s = "CLOSED"
      PROVE  \A f \in Ends : Stage[state'[f]] >= Stage[state[f]]
  BY <1>1, <1>4
<1>5. CASE Opening
  BY <1>3, <1>4, <1>5 DEF Opening, OpenRefused, OpenStart, OpenFinish, OpenAborted, OpenTimeout
<1>6. CASE Accepting
  BY <1>3, <1>4, <1>6 DEF Accepting, TakeSyn, HandleSyn, WaitForOpenStart, WaitForOpenFinish,
     WaitForOpenTimeout
<1>7. ASSUME NEW e \in Ends, Closing(e) PROVE \A f \in Ends : Stage[state'[f]] >= Stage[state[f]]
  <2>1. CASE CloseBegin(e)
    BY <1>4, <2>1 DEF CloseBegin
  <2>2. CASE CloseFin(e)
    <3>1. state[e] \in {"OPEN", "CLOSING"}
      BY <2>2 DEF CloseFin, LifeInv, StatesFit
    <3>. QED  BY <1>4, <2>2, <3>1 DEF CloseFin
  <2>3. CASE ForceClose(e) \/ ForceCloseBegin(e) \/ ForceCloseFin(e)
    BY <1>2, <2>3 DEF ForceClose, ForceCloseBegin, ForceCloseFin, MayForce, LifeInv, StatesFit
  <2>4. CASE CloseClosed(e) \/ CloseAfterFin(e) \/ CloseDone(e) \/ CloseTimeout(e) \/ Remove(e)
    BY <1>3, <1>4, <2>4 DEF CloseClosed, CloseAfterFin, CloseDone, CloseTimeout, Remove
  <2>. QED  BY <1>7, <2>1, <2>2, <2>3, <2>4 DEF Closing
<1>8. ASSUME NEW p \in net, NEW l \in Links, ReceiveFin(p, l) \/ ReceiveFinAck(p, l)
      PROVE  \A f \in Ends : Stage[state'[f]] >= Stage[state[f]]
  <2>1. p.to \in Ends
    BY DEF TypeOK, Packet
  <2>. QED  BY <1>3, <1>4, <1>8, <2>1 DEF ReceiveFin, ReceiveFinAck
<1>9. ASSUME NEW h \in handling, Establish(h)
      PROVE  \A f \in Ends : Stage[state'[f]] >= Stage[state[f]]
  <2>1. h.pkt.to \in Ends
    BY HandledPacket, TypeGroups
  <2>2. state[h.pkt.to] = "HALF_OPEN"
    BY <1>2, <1>9 DEF Establish, LifeInv, HandlerOpens, HalfOpen
  <2>. QED  BY <1>4, <1>9, <2>1, <2>2 DEF Establish
<1>. QED  BY <1>3, <1>5, <1>6, <1>7, <1>8, <1>9, ControlSteps DEF ControlStep

\* With one link and no ForceClose, no packet, timeout or call takes a tunnel back: nothing reopens it.
THEOREM NothingReopens == ASSUME OneLink, MaxForce = 0 PROVE Spec => NeverReopened
<1>1. TypeOK /\ EarlyInv /\ LifeInv /\ [Next]_vars =>
         [\A e \in Ends : Stage[state'[e]] >= Stage[state[e]]]_vars
  BY StageKept
<1>. QED  BY <1>1, TypeCorrect, EarlyAlways, LifeAlways, PTL DEF Spec, NeverReopened

-----------------------------------------------------------------------------
(* The data: no two packets overlap *)

\* Where writerThread goes on.
Pos(e) == currBufferIndex[e] + currBufferOffset[e]

PieceOf(s) == [seq |-> s.seq, len |-> s.len]

\* Everything that carries data of e: segments to send again, packets under way or being worked
\* on, and what its peer keeps.
DataOf(e) ==
    {PieceOf(s) : s \in {t \in retrySegments[e] : t.type = "DATA"}}
    \cup {PieceOf(p) : p \in {q \in net : q.type = "DATA" /\ q.to = Peer(e)}}
    \cup {PieceOf(h.pkt) : h \in {g \in handling : g.pkt.type = "DATA" /\ g.pkt.to = Peer(e)}}
    \cup recvSegments[Peer(e)]

\* writerThread sends each byte in one segment only: what has been cut lies below Pos, in pieces
\* that do not overlap, and what is cut next starts there.
DataInv ==
    \A e \in Ends :
        /\ openPc[e] # "ok" => DataOf(e) = {} /\ sendBuffers[e] = {}
        /\ currBufferIndex[e] <= nextBufferIndex[e]
        /\ \A b \in sendBuffers[e] : b.head_seq + b.size <= nextBufferIndex[e]
        /\ \A s \in DataOf(e) : EndOf(s) <= Pos(e)
        /\ \A s, t \in DataOf(e) : s.seq < t.seq => EndOf(s) <= t.seq
        /\ \A s, t \in recvSegments[e] : s.seq = t.seq => s = t

\* A step that creates no data, queues no buffer and moves no index but before the tunnel is open.
NoNewData(e) ==
    /\ DataOf(e)' \subseteq DataOf(e)
    /\ \A b \in sendBuffers'[e] :
        \E c \in sendBuffers[e] : c.head_seq = b.head_seq /\ c.size = b.size
    /\ openPc[e] = "ok" => openPc'[e] = "ok"
    /\ \/ /\ currBufferIndex'[e] = currBufferIndex[e] /\ currBufferOffset'[e] = currBufferOffset[e]
          /\ nextBufferIndex'[e] = nextBufferIndex[e]
       \/ /\ openPc[e] # "ok"
          /\ currBufferIndex'[e] = nextBufferIndex'[e] /\ nextBufferIndex'[e] \in Nat

\* The pieces are pieces: their numbers are numbers.
LEMMA DataTyped == ASSUME TypeOK, NEW e \in Ends PROVE DataOf(e) \subseteq Piece
<1>1. \A s \in Segment : PieceOf(s) \in Piece
  BY DEF Segment, Piece, PieceOf
<1>2. \A p \in Packet : PieceOf(p) \in Piece
  BY DEF Packet, Piece, PieceOf
<1>3. /\ retrySegments[e] \subseteq Segment /\ net \subseteq Packet
      /\ \A h \in handling : h.pkt \in Packet
      /\ recvSegments[Peer(e)] \subseteq Piece
  BY Numbers DEF TypeOK, Handling
<1>. QED  BY <1>1, <1>2, <1>3 DEF DataOf

\* A step that creates no data keeps the pieces apart.
LEMMA DataKept ==
    ASSUME TypeOK, DataInv, \A e \in Ends : NoNewData(e),
           \A e \in Ends : recvSegments'[e] \subseteq recvSegments[e]
    PROVE  DataInv'
<1>. SUFFICES ASSUME NEW e \in Ends
              PROVE  /\ openPc'[e] # "ok" => DataOf(e)' = {} /\ sendBuffers'[e] = {}
                     /\ currBufferIndex'[e] <= nextBufferIndex'[e]
                     /\ \A b \in sendBuffers'[e] : b.head_seq + b.size <= nextBufferIndex'[e]
                     /\ \A s \in DataOf(e)' : EndOf(s) <= Pos(e)'
                     /\ \A s, t \in DataOf(e)' : s.seq < t.seq => EndOf(s) <= t.seq
                     /\ \A s, t \in recvSegments'[e] : s.seq = t.seq => s = t
  BY DEF DataInv, EndOf
<1>1. NoNewData(e)
  OBVIOUS
<1>2. /\ openPc[e] # "ok" => DataOf(e) = {} /\ sendBuffers[e] = {}
      /\ currBufferIndex[e] <= nextBufferIndex[e]
      /\ \A b \in sendBuffers[e] : b.head_seq + b.size <= nextBufferIndex[e]
      /\ \A s \in DataOf(e) : EndOf(s) <= Pos(e)
      /\ \A s, t \in DataOf(e) : s.seq < t.seq => EndOf(s) <= t.seq
      /\ \A s, t \in recvSegments[e] : s.seq = t.seq => s = t
  BY DEF DataInv
<1>3. CASE openPc[e] = "ok"
  BY <1>1, <1>2, <1>3 DEF NoNewData, Pos
<1>4. CASE openPc[e] # "ok"
  BY <1>1, <1>2, <1>4 DEF NoNewData
<1>. QED  BY <1>3, <1>4

\* A step after which every list of segments and packets holds data that was in one before.
Shrinks ==
    /\ \A f \in Ends :
        /\ \A s \in retrySegments'[f] : s.type = "DATA" => s \in retrySegments[f]
        /\ recvSegments'[f] \subseteq recvSegments[f]
    /\ \A p \in net' : p.type = "DATA" => p \in net
    /\ \A h \in handling' :
        h.pkt.type = "DATA" => h.pkt \in net \/ \E g \in handling : g.pkt = h.pkt

BuffersShrink ==
    /\ \A f \in Ends : \A b \in sendBuffers'[f] :
        \E c \in sendBuffers[f] : c.head_seq = b.head_seq /\ c.size = b.size
    /\ UNCHANGED <<currBufferIndex, currBufferOffset, nextBufferIndex>>

\* Such a step creates no data.
LEMMA ShrinksData ==
    ASSUME TypeOK, Shrinks, NEW e \in Ends
    PROVE  DataOf(e)' \subseteq DataOf(e)
<1>1. SUFFICES ASSUME NEW x \in DataOf(e)' PROVE x \in DataOf(e)
  OBVIOUS
<1>2. CASE \E s \in retrySegments'[e] : s.type = "DATA" /\ x = PieceOf(s)
  BY <1>2 DEF DataOf, Shrinks
<1>3. CASE \E p \in net' : p.type = "DATA" /\ p.to = Peer(e) /\ x = PieceOf(p)
  BY <1>3 DEF DataOf, Shrinks
<1>4. CASE \E h \in handling' : h.pkt.type = "DATA" /\ h.pkt.to = Peer(e) /\ x = PieceOf(h.pkt)
  BY <1>4 DEF DataOf, Shrinks
<1>5. CASE x \in recvSegments'[Peer(e)]
  BY <1>5, Numbers DEF DataOf, Shrinks
<1>6. \/ \E s \in retrySegments'[e] : s.type = "DATA" /\ x = PieceOf(s)
      \/ \E p \in net' : p.type = "DATA" /\ p.to = Peer(e) /\ x = PieceOf(p)
      \/ \E h \in handling' : h.pkt.type = "DATA" /\ h.pkt.to = Peer(e) /\ x = PieceOf(h.pkt)
      \/ x \in recvSegments'[Peer(e)]
  BY DEF DataOf, PieceOf
<1>. QED  BY <1>2, <1>3, <1>4, <1>5, <1>6

\* It keeps the pieces apart, if it moves no buffer either.
LEMMA ShrinksKept ==
    ASSUME TypeOK, DataInv, Shrinks, BuffersShrink,
           \A e \in Ends : openPc[e] = "ok" => openPc'[e] = "ok"
    PROVE  DataInv'
<1>1. \A e \in Ends : NoNewData(e)
  BY ShrinksData DEF NoNewData, BuffersShrink
<1>2. \A e \in Ends : recvSegments'[e] \subseteq recvSegments[e]
  BY DEF Shrinks
<1>. QED  BY <1>1, <1>2, DataKept

\* What the operations on a send window do to its lists.
LEMMA WindowShrinks ==
    ASSUME TypeOK, NEW e \in Ends
    PROVE  /\ \A segs : EraseSegments(e, segs) =>
                  \A f \in Ends : retrySegments'[f] \subseteq retrySegments[f]
           /\ \A seg : seg.type # "DATA" /\ InsertSegment(e, seg) =>
                  \A f \in Ends :
                      \A s \in retrySegments'[f] : s.type = "DATA" => s \in retrySegments[f]
           /\ Clear(e) =>
                  BuffersShrink /\ \A f \in Ends : retrySegments'[f] \subseteq retrySegments[f]
           /\ \A index : CancelFromBuffers(e, index) =>
                  BuffersShrink /\ \A f \in Ends : retrySegments'[f] \subseteq retrySegments[f]
           /\ CancelCtrlPktFromSegments(e) =>
                  \A f \in Ends : retrySegments'[f] \subseteq retrySegments[f]
           /\ CancelDataPackets(e) => net' \subseteq net
<1>1. /\ retrySegments \in [Ends -> SUBSET Segment] /\ sendBuffers \in [Ends -> SUBSET Buffer]
  BY DEF TypeOK
<1>2. ASSUME NEW segs, EraseSegments(e, segs)
      PROVE  \A f \in Ends : retrySegments'[f] \subseteq retrySegments[f]
  BY <1>1, <1>2 DEF EraseSegments
<1>3. ASSUME NEW seg, seg.type # "DATA", InsertSegment(e, seg)
      PROVE  \A f \in Ends : \A s \in retrySegments'[f] : s.type = "DATA" => s \in retrySegments[f]
  BY <1>1, <1>3 DEF InsertSegment
<1>4. ASSUME Clear(e)
      PROVE  BuffersShrink /\ \A f \in Ends : retrySegments'[f] \subseteq retrySegments[f]
  <2>1. \A b \in Buffer : [b EXCEPT !.aborted = TRUE].head_seq = b.head_seq
                          /\ [b EXCEPT !.aborted = TRUE].size = b.size
    BY DEF Buffer
  <2>2. BuffersShrink
    <3>1. SUFFICES ASSUME NEW f \in Ends, NEW b \in sendBuffers'[f]
                   PROVE  \E c \in sendBuffers[f] : c.head_seq = b.head_seq /\ c.size = b.size
      BY <1>4 DEF Clear, BuffersShrink
    <3>2. CASE f = e
      <4>1. b \in {[c EXCEPT !.aborted = TRUE] : c \in sendBuffers[e]}
        BY <1>1, <1>4, <3>1, <3>2 DEF Clear
      <4>2. PICK c \in sendBuffers[e] : b = [c EXCEPT !.aborted = TRUE]
        BY <4>1
      <4>3. c \in Buffer
        BY <1>1
      <4>. QED  BY <2>1, <3>2, <4>2, <4>3
    <3>3. CASE f # e
      BY <1>1, <1>4, <3>1, <3>3 DEF Clear
    <3>. QED  BY <3>2, <3>3
  <2>. QED  BY <1>2, <1>4, <2>2 DEF Clear
<1>5. ASSUME NEW index, CancelFromBuffers(e, index)
      PROVE  BuffersShrink /\ \A f \in Ends : retrySegments'[f] \subseteq retrySegments[f]
  <2>1. BuffersShrink
    BY <1>1, <1>5 DEF CancelFromBuffers, BuffersShrink
  <2>. DEFINE segs == {s \in sendSegments[e] : s.head = index}
  <2>2. EraseSegments(e, segs)
    BY <1>5 DEF CancelFromBuffers
  <2>. HIDE DEF segs
  <2>. QED  BY <1>2, <2>1, <2>2
<1>6. ASSUME CancelCtrlPktFromSegments(e)
      PROVE  \A f \in Ends : retrySegments'[f] \subseteq retrySegments[f]
  BY <1>2, <1>6 DEF CancelCtrlPktFromSegments
<1>7. ASSUME CancelDataPackets(e) PROVE net' \subseteq net
  BY <1>7 DEF CancelDataPackets
<1>. QED  BY <1>2, <1>3, <1>4, <1>5, <1>6, <1>7

\* The steps of Open and WaitForOpen keep the pieces apart: the buffer index is set when nothing was sent.
LEMMA DataOpening ==
    ASSUME TypeOK, EarlyInv, DataInv, Opening \/ Accepting
    PROVE  DataInv'
<1>. USE Numbers
<1>. /\ openPc \in [Ends -> {"idle", "waiting", "ok", "failed"}]
     /\ currBufferIndex \in [Ends -> Nat] /\ nextBufferIndex \in [Ends -> Nat]
     /\ currBufferOffset \in [Ends -> Nat] /\ openQueue \subseteq Packet
  BY DEF TypeOK
<1>1. CASE OpenFinish
  <2>1. /\ openPc[Client] = "waiting" /\ openPc' = [openPc EXCEPT ![Client] = "ok"]
        /\ CancelCtrlPktFromSegments(Client)
        /\ UNCHANGED <<handling, recvSegments, sendBuffers>>
    BY <1>1 DEF OpenFinish, FirstSequence, ExpectFrom
  <2>2. PICK p \in openQueue :
            /\ FirstSequence(Client, p.ack)
            /\ net' = net \cup {PacketOf(Client, "ACK", p.ack, p.seq + 1, 0)}
    BY <1>1 DEF OpenFinish
  <2>3. Shrinks
    BY <2>1, <2>2, WindowShrinks DEF Shrinks, PacketOf
  <2>4. p.ack \in Nat
    BY DEF Packet
  <2>5. \A e \in Ends : NoNewData(e)
    BY <2>1, <2>2, <2>3, <2>4, ShrinksData DEF NoNewData, FirstSequence
  <2>. QED  BY <2>1, <2>5, DataKept
<1>2. CASE OpenRefused \/ OpenStart \/ OpenAborted \/ OpenTimeout
  <2>1. BuffersShrink /\ UNCHANGED <<handling, recvSegments>>
    BY <1>2 DEF OpenRefused, OpenStart, OpenAborted, OpenTimeout, BuffersShrink
  <2>2. \A e \in Ends : openPc[e] = "ok" => openPc'[e] = "ok"
    BY <1>2 DEF OpenRefused, OpenStart, OpenAborted, OpenTimeout
  <2>3. \/ CancelCtrlPktFromSegments(Client)
        \/ \E seg : seg.type # "DATA" /\ InsertSegment(Client, seg)
    BY <1>2 DEF OpenRefused, OpenStart, OpenAborted, OpenTimeout, ControlSegment
  <2>4. \A p \in net' : p.type = "DATA" => p \in net
    BY <1>2 DEF OpenRefused, OpenStart, OpenAborted, OpenTimeout, PacketOf
  <2>5. Shrinks
    BY <2>1, <2>3, <2>4, WindowShrinks DEF Shrinks
  <2>. QED  BY <2>1, <2>2, <2>5, ShrinksKept
<1>3. CASE Accepting
  <2>1. BuffersShrink /\ UNCHANGED <<handling, recvSegments>>
    BY <1>3 DEF Accepting, TakeSyn, HandleSyn, ExpectFrom, WaitForOpenStart, WaitForOpenFinish,
       WaitForOpenTimeout, BuffersShrink
  <2>2. \A e \in Ends : openPc[e] = "ok" => openPc'[e] = "ok"
    BY <1>3 DEF Accepting, TakeSyn, HandleSyn, WaitForOpenStart, WaitForOpenFinish,
       WaitForOpenTimeout
  <2>3. \/ CancelCtrlPktFromSegments(Server) \/ UNCHANGED retrySegments
        \/ \E seg : seg.type # "DATA" /\ InsertSegment(Server, seg)
    BY <1>3 DEF Accepting, TakeSyn, HandleSyn, WaitForOpenStart, WaitForOpenFinish,
       WaitForOpenTimeout, ControlSegment
  <2>4. \A p \in net' : p.type = "DATA" => p \in net
    BY <1>3 DEF Accepting, TakeSyn, HandleSyn, WaitForOpenStart, WaitForOpenFinish,
       WaitForOpenTimeout, PacketOf
  <2>5. Shrinks
    BY <2>1, <2>3, <2>4, WindowShrinks DEF Shrinks
  <2>. QED  BY <2>1, <2>2, <2>5, ShrinksKept
<1>. QED  BY <1>1, <1>2, <1>3 DEF Opening

\* AppendToBuffers: the new buffer follows the last one, and the writer may jump to it, never back.
LEMMA DataAppended ==
    ASSUME TypeOK, EarlyInv, DataInv, NEW w \in Calls, WriteAppend(w)
    PROVE  DataInv'
<1>. USE Numbers
<1>. DEFINE e == Caller[w]
<1>. /\ currBufferIndex \in [Ends -> Nat] /\ nextBufferIndex \in [Ends -> Nat]
     /\ currBufferOffset \in [Ends -> Nat] /\ sendBuffers \in [Ends -> SUBSET Buffer]
  BY DEF TypeOK
<1>1. /\ UNCHANGED <<retrySegments, net, handling, recvSegments, openPc>> /\ writePc[w] = "checked"
      /\ UNCHANGED <<sendBuffers, currBufferIndex, currBufferOffset, nextBufferIndex>>
            \/ AppendToBuffers(e, Size[w])
  BY DEF WriteAppend
<1>2. Shrinks
  BY <1>1 DEF Shrinks
<1>3. \A f \in Ends : DataOf(f)' = DataOf(f)
  BY <1>1 DEF DataOf
<1>4. CASE UNCHANGED <<sendBuffers, currBufferIndex, currBufferOffset, nextBufferIndex>>
  BY <1>1, <1>2, <1>4, ShrinksKept DEF BuffersShrink
<1>5. CASE AppendToBuffers(e, Size[w])
  <2>1. openPc[e] = "ok"
    BY <1>1 DEF EarlyInv, Callers
  <2>2. \A f \in Ends \ {e} : /\ sendBuffers'[f] = sendBuffers[f] /\ Pos(f)' = Pos(f)
                              /\ currBufferIndex'[f] = currBufferIndex[f]
                              /\ nextBufferIndex'[f] = nextBufferIndex[f]
    BY <1>5 DEF AppendToBuffers, Pos
  <2>. DEFINE b == [head_seq |-> nextBufferIndex[e], size |-> Size[w], aborted |-> FALSE]
  <2>3. /\ sendBuffers'[e] = sendBuffers[e] \cup {b}
        /\ nextBufferIndex'[e] = nextBufferIndex[e] + Size[w]
        /\ currBufferIndex'[e] \in {currBufferIndex[e], nextBufferIndex[e]}
        /\ currBufferOffset'[e] = currBufferOffset[e]
    BY <1>5 DEF AppendToBuffers
  <2>4. b.head_seq + b.size = nextBufferIndex'[e]
    BY <2>3
  <2>5. \A c \in sendBuffers[e] : c.head_seq \in Nat /\ c.size \in Nat
    BY DEF Buffer
  <2>. HIDE DEF b, e
  <2>6. e \in Ends
    BY DEF e
  <2>7. Pos(e) \in Nat /\ Pos(e)' \in Nat /\ Pos(e)' >= Pos(e)
    BY <2>3, <2>6 DEF Pos, DataInv
  <2>8. \A s \in DataOf(e) : EndOf(s) \in Nat
    BY <2>6, DataTyped DEF Piece, EndOf
  <2>9. currBufferIndex'[e] <= nextBufferIndex'[e]
    BY <2>3, <2>6 DEF DataInv
  <2>10. \A c \in sendBuffers'[e] : c.head_seq + c.size <= nextBufferIndex'[e]
    BY <2>3, <2>4, <2>5, <2>6 DEF DataInv
  <2>11. \A s \in DataOf(e)' : EndOf(s) <= Pos(e)'
    BY <1>3, <2>6, <2>7, <2>8 DEF DataInv
  <2>. QED  BY <1>1, <1>3, <2>1, <2>2, <2>9, <2>10, <2>11 DEF DataInv, EndOf
<1>. QED  BY <1>1, <1>4, <1>5

\* writerThread: the new segment begins where the last one ended.
LEMMA DataSent ==
    ASSUME TypeOK, EarlyInv, DataInv, NEW e \in Ends, WriterSend(e)
    PROVE  DataInv'
<1>. USE Numbers
<1>. /\ currBufferIndex \in [Ends -> Nat] /\ nextBufferIndex \in [Ends -> Nat]
     /\ currBufferOffset \in [Ends -> Nat] /\ sendBuffers \in [Ends -> SUBSET Buffer]
     /\ retrySegments \in [Ends -> SUBSET Segment]
  BY DEF TypeOK
<1>1. PICK b \in sendBuffers[e] :
        /\ b.head_seq = currBufferIndex[e]
        /\ LET left == b.size - currBufferOffset[e]
               len == IF left \in 0 .. SegmentSize THEN left ELSE SegmentSize
               seq == currBufferIndex[e] + currBufferOffset[e]
           IN  /\ InsertSegment(e, [type |-> "DATA", seq |-> seq, len |-> len,
                                    head |-> currBufferIndex[e], round |-> 0])
               /\ AdvanceWriter(e, b, len)
               /\ net' = net \cup {PacketOf(e, "DATA", seq, cur_ack[e], len)}
  BY DEF WriterSend
<1>2. /\ UNCHANGED <<handling, recvSegments, openPc, sendBuffers, nextBufferIndex>>
      /\ writer[e] = "running"
  BY DEF WriterSend
<1>3. openPc[e] = "ok"
  BY <1>2 DEF EarlyInv, Callers
<1>4. b.size \in Nat /\ b.head_seq \in Nat /\ b.head_seq + b.size <= nextBufferIndex[e]
  BY DEF Buffer, DataInv
<1>. DEFINE left == b.size - currBufferOffset[e]
            len == IF left \in 0 .. SegmentSize THEN left ELSE SegmentSize
            new == [seq |-> Pos(e), len |-> len]
            seg == [type |-> "DATA", seq |-> Pos(e), len |-> len, head |-> currBufferIndex[e],
                    round |-> 0]
<1>5. len \in Nat /\ Pos(e) \in Nat
  BY <1>4 DEF Pos
<1>6. /\ retrySegments' = [retrySegments EXCEPT ![e] = @ \cup {seg}]
      /\ net' = net \cup {PacketOf(e, "DATA", Pos(e), cur_ack[e], len)}
      /\ AdvanceWriter(e, b, len)
  BY <1>1 DEF InsertSegment, Pos
<1>7. PieceOf(seg) = new /\ PieceOf(PacketOf(e, "DATA", Pos(e), cur_ack[e], len)) = new
      /\ PacketOf(e, "DATA", Pos(e), cur_ack[e], len).to = Peer(e)
  BY DEF PieceOf, PacketOf
<1>8. new.seq = Pos(e) /\ EndOf(new) = Pos(e) + len
  BY DEF EndOf
<1>. HIDE DEF left, len, seg, new
<1>9. /\ Pos(e)' = Pos(e) + len /\ currBufferIndex'[e] <= nextBufferIndex'[e]
      /\ \A f \in Ends \ {e} : Pos(f)' = Pos(f) /\ currBufferIndex'[f] = currBufferIndex[f]
  <2>1. currBufferIndex[e] <= nextBufferIndex[e]
    BY DEF DataInv
  <2>2. CASE currBufferOffset[e] + len = b.size
    BY <1>1, <1>2, <1>4, <1>5, <1>6, <2>1, <2>2 DEF AdvanceWriter, Pos
  <2>3. CASE currBufferOffset[e] + len # b.size
    BY <1>1, <1>2, <1>4, <1>5, <1>6, <2>1, <2>3 DEF AdvanceWriter, Pos
  <2>. QED  BY <2>2, <2>3
<1>10. DataOf(e)' \subseteq DataOf(e) \cup {new}
  <2>1. retrySegments'[e] = retrySegments[e] \cup {seg}
    BY <1>6
  <2>. QED  BY <1>2, <1>6, <1>7, <2>1 DEF DataOf
<1>11. \A f \in Ends \ {e} : DataOf(f)' \subseteq DataOf(f)
  <2>1. \A f \in Ends \ {e} : retrySegments'[f] = retrySegments[f] /\ Peer(f) # Peer(e)
    BY <1>6 DEF Peer, Ends
  <2>. QED  BY <1>2, <1>6, <1>7, <2>1 DEF DataOf
<1>12. \A s \in DataOf(e) : s.seq \in Nat /\ EndOf(s) \in Nat /\ s.seq <= EndOf(s) /\ EndOf(s) <= Pos(e)
  BY DataTyped DEF Piece, EndOf, DataInv
<1>13. \A s \in DataOf(e)' : EndOf(s) <= Pos(e)'
  BY <1>5, <1>8, <1>9, <1>10, <1>12
<1>14. \A s, t \in DataOf(e)' : s.seq < t.seq => EndOf(s) <= t.seq
  BY <1>5, <1>8, <1>10, <1>12 DEF DataInv
<1>. QED  BY <1>2, <1>3, <1>9, <1>11, <1>13, <1>14 DEF DataInv

\* retryThread sends what is waiting to be sent again.
LEMMA DataResent ==
    ASSUME TypeOK, DataInv, NEW e \in Ends, NEW s \in retrySegments[e], RetrySend(e, s)
    PROVE  DataInv'
<1>. DEFINE p == PacketOf(e, s.type, s.seq, cur_ack[e], s.len)
<1>1. /\ net' = net \cup {p}
      /\ UNCHANGED <<retrySegments, handling, recvSegments, openPc, sendBuffers, currBufferIndex,
                     currBufferOffset, nextBufferIndex>>
  BY DEF RetrySend
<1>2. p.type = s.type /\ p.to = Peer(e) /\ PieceOf(p) = PieceOf(s)
  BY DEF PacketOf, PieceOf
<1>. HIDE DEF p
<1>3. s.type = "DATA" => PieceOf(s) \in DataOf(e)
  BY DEF DataOf
<1>4. \A f \in Ends : f # e => Peer(f) # Peer(e)
  BY Numbers DEF Peer, Ends
<1>5. \A f \in Ends : DataOf(f)' \subseteq DataOf(f)
  BY <1>1, <1>2, <1>3, <1>4 DEF DataOf
<1>6. \A f \in Ends : NoNewData(f)
  BY <1>1, <1>5 DEF NoNewData
<1>. QED  BY <1>1, <1>6, DataKept

\* A handler that is past the handshake and not at work on an ACK has DATA.
DataHandlers == \A h \in handling : h.pc \in {"recheck", "data"} => h.pkt.type = "DATA"

\* A step of a handler is its own; the others stay where they are.
LEMMA HandlerSteps ==
    ASSUME [Next]_vars
    PROVE  \/ handling' = handling
           \/ \E p \in net, l \in Links : ReceiveAckOrData(p, l)
           \/ \E h \in handling : Handle(h)
<1>1. CASE UNCHANGED vars
  BY <1>1 DEF vars
<1>2. CASE Opening \/ Accepting
  BY <1>2 DEF Opening, OpenRefused, OpenStart, OpenFinish, OpenAborted, OpenTimeout,
     Accepting, TakeSyn, HandleSyn, WaitForOpenStart, WaitForOpenFinish, WaitForOpenTimeout
<1>3. ASSUME NEW w \in Calls, Writing(w) PROVE handling' = handling
  BY <1>3 DEF Writing, WriteStart, WriteAppend, WriteSpawn, WriteSpawnRefused, WriteFinish,
     WriteAborted, WriteTimeout
<1>4. ASSUME NEW e \in Ends, Reading(e) \/ Closing(e) \/ Working(e) PROVE handling' = handling
  BY <1>4 DEF Reading, ReadStart, ReadWait, ReadWake, ReadFails, ReadNothing, ReadData,
     Closing, CloseClosed, CloseAfterFin, CloseBegin, CloseFin, CloseDone,
     CloseTimeout, ForceClose, ForceCloseBegin, ForceCloseFin, Remove,
     Working, WriterSend, WriterExit, RetrySend
<1>5. ASSUME NEW p \in net, NEW l \in Links, Receiving(p, l)
      PROVE  ReceiveAckOrData(p, l) \/ handling' = handling
  BY <1>5 DEF Receiving, DropPacket, ReceiveSynAck, ReceiveFin, ReceiveFinAck
<1>6. ASSUME NEW p \in net, QueueSyn(p) \/ Lose(p) \/ DropUnknown(p) PROVE handling' = handling
  BY <1>6 DEF QueueSyn, Lose, DropUnknown
<1>. QED  BY <1>1, <1>2, <1>3, <1>4, <1>5, <1>6 DEF Next

\* ReceivePacket hands a packet to handleData only if it carries data.
LEMMA DataHandlersKept == TypeOK /\ DataHandlers /\ [Next]_vars => DataHandlers'
<1>. SUFFICES ASSUME TypeOK, DataHandlers, [Next]_vars PROVE DataHandlers'
  OBVIOUS
<1>1. CASE handling' = handling
  BY <1>1 DEF DataHandlers
<1>2. ASSUME NEW p \in net, NEW l \in Links, ReceiveAckOrData(p, l) PROVE DataHandlers'
  BY <1>2 DEF DataHandlers, ReceiveAckOrData, FirstStep
<1>3. ASSUME NEW h \in handling, Handle(h) PROVE DataHandlers'
  <2>1. h \in Handling
    BY DEF TypeOK
  <2>2. \A pc : [h EXCEPT !.pc = pc].pkt = h.pkt /\ [h EXCEPT !.pc = pc].pc = pc
    BY <2>1 DEF Handling
  <2>3. \/ Done(h)
        \/ \E pc \in {"establish", "segments", "buffers"} : Advance(h, pc)
        \/ h.pkt.type = "DATA" /\ Advance(h, "recheck")
        \/ h.pc = "recheck" /\ Advance(h, "data")
    BY <1>3 DEF Handle, ThreeWayCheck, Establish, Recheck, AckCompare, AckSegments, AckBuffers,
       HandleData, AfterThreeWay
  <2>4. CASE Done(h)
    BY <2>4 DEF DataHandlers, Done
  <2>5. ASSUME NEW pc, Advance(h, pc), pc \in {"recheck", "data"} => h.pkt.type = "DATA"
        PROVE  DataHandlers'
    <3>. DEFINE g == [h EXCEPT !.pc = pc]
    <3>1. g.pkt = h.pkt /\ g.pc = pc /\ handling' = (handling \ {h}) \cup {g}
      BY <2>2, <2>5 DEF Advance
    <3>. HIDE DEF g
    <3>. QED  BY <2>5, <3>1 DEF DataHandlers
  <2>. QED  BY <2>3, <2>4, <2>5 DEF DataHandlers
<1>. QED  BY <1>1, <1>2, <1>3, HandlerSteps

\* handleData: the piece moves from the handler to the receive window, unless its number is there.
LEMMA DataHandled ==
    ASSUME TypeOK, DataInv, DataHandlers, NEW h \in handling, HandleData(h)
    PROVE  DataInv'
<1>. USE Numbers
<1>. recvSegments \in [Ends -> SUBSET Piece]
  BY DEF TypeOK
<1>. DEFINE e == h.pkt.to
            x == PieceOf(h.pkt)
<1>1. e \in Ends /\ h.pkt.type = "DATA"
  BY HandledPacket, TypeGroups DEF HandleData, DataHandlers
<1>2. /\ UNCHANGED <<retrySegments, openPc, sendBuffers, currBufferIndex, currBufferOffset,
                     nextBufferIndex>>
      /\ handling' \subseteq handling /\ \A p \in net' : p.type = "DATA" => p \in net
  BY DEF HandleData, Done, PacketOf
<1>3. \/ recvSegments' = recvSegments
      \/ /\ recvSegments' = [recvSegments EXCEPT ![e] = @ \cup {x}]
         /\ \A s \in recvSegments[e] : s.seq # x.seq
  <2>1. CASE IsDuplicate(e, h.pkt)
    BY <2>1 DEF HandleData
  <2>2. CASE ~IsDuplicate(e, h.pkt)
    <3>1. x.seq = h.pkt.seq /\ x = [seq |-> h.pkt.seq, len |-> h.pkt.len]
      BY DEF PieceOf
    <3>. QED  BY <2>2, <3>1 DEF HandleData, IsDuplicate
  <2>. QED  BY <2>1, <2>2
<1>4. e = Peer(Peer(e)) /\ \A f \in Ends : Peer(f) = e => f = Peer(e)
  BY <1>1 DEF Peer, Ends
<1>5. x \in DataOf(Peer(e))
  BY <1>1, <1>4 DEF DataOf
<1>. HIDE DEF x, e
<1>6. \A f \in Ends : DataOf(f)' \subseteq DataOf(f)
  <2>1. \A f \in Ends : recvSegments'[Peer(f)] \subseteq DataOf(f)
    BY <1>1, <1>3, <1>4, <1>5 DEF DataOf
  <2>. QED  BY <1>2, <2>1 DEF DataOf
<1>7. \A f \in Ends : /\ openPc[f] # "ok" => DataOf(f) = {} /\ sendBuffers[f] = {}
                      /\ currBufferIndex[f] <= nextBufferIndex[f]
                      /\ \A b \in sendBuffers[f] : b.head_seq + b.size <= nextBufferIndex[f]
                      /\ \A s \in DataOf(f) : EndOf(s) <= Pos(f)
                      /\ \A s, t \in DataOf(f) : s.seq < t.seq => EndOf(s) <= t.seq
  BY DEF DataInv
<1>8. \A f \in Ends : \A s, t \in recvSegments'[f] : s.seq = t.seq => s = t
  BY <1>1, <1>3 DEF DataInv
<1>9. \A f \in Ends : Pos(f)' = Pos(f)
  BY <1>2 DEF Pos
<1>10. \A f \in Ends :
          /\ openPc'[f] # "ok" => DataOf(f)' = {} /\ sendBuffers'[f] = {}
          /\ currBufferIndex'[f] <= nextBufferIndex'[f]
          /\ \A b \in sendBuffers'[f] : b.head_seq + b.size <= nextBufferIndex'[f]
          /\ \A s \in DataOf(f)' : EndOf(s) <= Pos(f)'
          /\ \A s, t \in DataOf(f)' : s.seq < t.seq => EndOf(s) <= t.seq
  BY <1>2, <1>6, <1>7, <1>9
<1>. QED  BY <1>8, <1>10 DEF DataInv, EndOf

\* No step sends a byte twice, in pieces that overlap.
LEMMA DataInvKept ==
    TypeOK /\ EarlyInv /\ LifeInv /\ DataHandlers /\ DataInv /\ [Next]_vars => DataInv'
<1>. SUFFICES ASSUME TypeOK, EarlyInv, LifeInv, DataHandlers, DataInv, [Next]_vars PROVE DataInv'
  OBVIOUS
<1>. USE Numbers
<1>. recvSegments \in [Ends -> SUBSET Piece] /\ readPc \in [Ends -> {"idle", "ready", "waiting"}]
  BY DEF TypeOK
<1>1. CASE UNCHANGED vars
  <2>1. Shrinks /\ BuffersShrink /\ UNCHANGED openPc
    BY <1>1 DEF vars, Shrinks, BuffersShrink
  <2>. QED  BY <2>1, ShrinksKept
<1>2. CASE Opening \/ Accepting
  BY <1>2, DataOpening
<1>3. ASSUME NEW w \in Calls, Writing(w) PROVE DataInv'
  <2>1. CASE WriteAppend(w)
    BY <2>1, DataAppended
  <2>2. CASE WriteStart(w) \/ WriteSpawn(w) \/ WriteFinish(w)
    <3>1. UNCHANGED <<retrySegments, recvSegments, handling, openPc, sendBuffers, currBufferIndex,
                      currBufferOffset, nextBufferIndex>>
      BY <2>2 DEF WriteStart, WriteSpawn, WriteFinish
    <3>2. net' \subseteq net
      BY <2>2, WindowShrinks DEF WriteStart, WriteSpawn, WriteFinish
    <3>3. Shrinks /\ BuffersShrink
      BY <3>1, <3>2 DEF Shrinks, BuffersShrink
    <3>. QED  BY <3>1, <3>3, ShrinksKept
  <2>3. CASE WriteSpawnRefused(w) \/ WriteAborted(w) \/ WriteTimeout(w)
    <3>1. UNCHANGED <<recvSegments, handling, openPc>>
      BY <2>3 DEF WriteSpawnRefused, WriteAborted, WriteTimeout
    <3>2. CancelFromBuffers(Caller[w], writeIndex[w])
      BY <2>3 DEF WriteSpawnRefused, WriteAborted, WriteTimeout
    <3>3. BuffersShrink /\ \A f \in Ends : retrySegments'[f] \subseteq retrySegments[f]
      BY <3>2, WindowShrinks
    <3>4. net' \subseteq net
      BY <2>3, WindowShrinks DEF WriteSpawnRefused, WriteAborted, WriteTimeout
    <3>5. Shrinks
      BY <3>1, <3>3, <3>4 DEF Shrinks
    <3>. QED  BY <3>1, <3>3, <3>5, ShrinksKept
  <2>. QED  BY <1>3, <2>1, <2>2, <2>3 DEF Writing
<1>4. ASSUME NEW e \in Ends, Reading(e) PROVE DataInv'
  <2>1. /\ UNCHANGED <<retrySegments, net, handling, openPc, sendBuffers, currBufferIndex,
                       currBufferOffset, nextBufferIndex>>
        /\ \A f \in Ends : recvSegments'[f] \subseteq recvSegments[f]
    BY <1>4 DEF Reading, ReadStart, ReadWait, ReadWake, ReadFails, ReadNothing, ReadData,
       ReadReturns
  <2>2. Shrinks /\ BuffersShrink
    BY <2>1 DEF Shrinks, BuffersShrink
  <2>. QED  BY <2>1, <2>2, ShrinksKept
<1>5. ASSUME NEW e \in Ends, Closing(e) PROVE DataInv'
  <2>1. UNCHANGED <<handling, openPc, recvSegments>>
    BY <1>5 DEF Closing, CloseClosed, CloseAfterFin, CloseBegin, CloseFin, CloseDone,
       CloseTimeout, ForceClose, ForceCloseBegin, ForceCloseFin, Remove, Abort
  <2>2. \A p \in net' : p.type = "DATA" => p \in net
    BY <1>5 DEF Closing, CloseClosed, CloseAfterFin, CloseBegin, CloseFin, CloseDone,
       CloseTimeout, ForceClose, ForceCloseBegin, ForceCloseFin, Remove, SendFin, PacketOf
  <2>3. \/ Clear(e)
        \/ /\ UNCHANGED bufferVars
           /\ \/ UNCHANGED retrySegments
              \/ \E seg : seg.type # "DATA" /\ InsertSegment(e, seg)
    BY <1>5 DEF Closing, CloseClosed, CloseAfterFin, CloseBegin, CloseFin, CloseDone,
       CloseTimeout, ForceClose, ForceCloseBegin, ForceCloseFin, Remove, Abort, SendFin,
       ControlSegment
  <2>4. BuffersShrink
    BY <2>3, WindowShrinks DEF BuffersShrink
  <2>5. Shrinks
    BY <2>1, <2>2, <2>3, WindowShrinks DEF Shrinks
  <2>. QED  BY <2>1, <2>4, <2>5, ShrinksKept
<1>6. ASSUME NEW e \in Ends, Working(e) PROVE DataInv'
  <2>1. CASE WriterExit(e)
    <3>1. Shrinks /\ BuffersShrink /\ UNCHANGED openPc
      BY <2>1 DEF WriterExit, Shrinks, BuffersShrink
    <3>. QED  BY <3>1, ShrinksKept
  <2>. QED  BY <1>6, <2>1, DataSent, DataResent DEF Working
<1>7. ASSUME NEW p \in net, NEW l \in Links, Receiving(p, l) PROVE DataInv'
  <2>1. p.to \in Ends
    BY DEF TypeOK, Packet
  <2>2. UNCHANGED <<openPc, recvSegments>>
    BY <1>7 DEF Receiving, DropPacket, ReceiveAckOrData, ReceiveSynAck, ReceiveFin, ReceiveFinAck
  <2>3. \A q \in net' : q.type = "DATA" => q \in net
    BY <1>7 DEF Receiving, DropPacket, ReceiveAckOrData, ReceiveSynAck, ReceiveFin,
       ReceiveFinAck, PacketOf
  <2>4. \A h \in handling' : h \in handling \/ h.pkt = p
    BY <1>7 DEF Receiving, DropPacket, ReceiveAckOrData, ReceiveSynAck, ReceiveFin, ReceiveFinAck
  <2>5. Clear(p.to) \/ UNCHANGED <<retrySegments, sendBuffers, currBufferIndex, currBufferOffset,
                                   nextBufferIndex>>
    BY <1>7 DEF Receiving, DropPacket, ReceiveAckOrData, ReceiveSynAck, ReceiveFin, ReceiveFinAck
  <2>6. BuffersShrink
    BY <2>1, <2>5, WindowShrinks DEF BuffersShrink
  <2>7. Shrinks
    BY <2>1, <2>2, <2>3, <2>4, <2>5, WindowShrinks DEF Shrinks
  <2>. QED  BY <2>2, <2>6, <2>7, ShrinksKept
<1>8. ASSUME NEW p \in net, QueueSyn(p) \/ Lose(p) \/ DropUnknown(p) PROVE DataInv'
  <2>1. Shrinks /\ BuffersShrink /\ UNCHANGED openPc
    BY <1>8 DEF QueueSyn, Lose, DropUnknown, Shrinks, BuffersShrink
  <2>. QED  BY <2>1, ShrinksKept
<1>9. ASSUME NEW h \in handling, Handle(h) PROVE DataInv'
  <2>. h.pkt.to \in Ends /\ h.pkt.ack \in Nat
    BY HandledPacket, TypeGroups
  <2>1. \A g \in handling' : g \in handling \/ g.pkt = h.pkt
    <3>1. h \in Handling
      BY DEF TypeOK
    <3>2. \A pc : [h EXCEPT !.pc = pc].pkt = h.pkt
      BY <3>1 DEF Handling
    <3>3. Done(h) \/ \E pc : Advance(h, pc)
      BY <1>9 DEF Handle, ThreeWayCheck, Establish, Recheck, AckCompare, AckSegments, AckBuffers,
         HandleData, AfterThreeWay
    <3>4. CASE Done(h)
      BY <3>4 DEF Done
    <3>5. ASSUME NEW pc, Advance(h, pc) PROVE \A g \in handling' : g \in handling \/ g.pkt = h.pkt
      <4>. DEFINE r == [h EXCEPT !.pc = pc]
      <4>1. r.pkt = h.pkt /\ handling' = (handling \ {h}) \cup {r}
        BY <3>2, <3>5 DEF Advance
      <4>. HIDE DEF r
      <4>. QED  BY <4>1
    <3>. QED  BY <3>3, <3>4, <3>5
  <2>2. CASE HandleData(h)
    BY <2>2, DataHandled
  <2>3. CASE Establish(h)
    <3>1. /\ UNCHANGED <<openPc, net, recvSegments>> /\ openPc[h.pkt.to] # "ok"
          /\ CancelCtrlPktFromSegments(h.pkt.to) /\ FirstSequence(h.pkt.to, h.pkt.ack)
      BY <2>3 DEF Establish, LifeInv, HandlerOpens, HalfOpen
    <3>2. Shrinks
      BY <2>1, <3>1, WindowShrinks DEF Shrinks
    <3>3. \A f \in Ends : DataOf(f)' \subseteq DataOf(f)
      BY <3>2, ShrinksData
    <3>. /\ currBufferIndex \in [Ends -> Nat] /\ nextBufferIndex \in [Ends -> Nat]
      BY DEF TypeOK
    <3>4. \A f \in Ends : NoNewData(f)
      BY <3>1, <3>3 DEF NoNewData, FirstSequence
    <3>. QED  BY <3>1, <3>4, DataKept
  <2>4. CASE ThreeWayCheck(h) \/ Recheck(h) \/ AckCompare(h) \/ AckSegments(h) \/ AckBuffers(h)
    <3>1. UNCHANGED <<openPc, net, recvSegments, currBufferIndex, currBufferOffset, nextBufferIndex>>
      BY <2>4 DEF ThreeWayCheck, Recheck, AckCompare, AckSegments, AckBuffers
    <3>2. UNCHANGED retrySegments \/ \E segs : EraseSegments(h.pkt.to, segs)
      BY <2>4 DEF ThreeWayCheck, Recheck, AckCompare, AckSegments, AckBuffers
    <3>. sendBuffers \in [Ends -> SUBSET Buffer]
      BY DEF TypeOK
    <3>3. \A f \in Ends : sendBuffers'[f] \subseteq sendBuffers[f]
      BY <2>4 DEF ThreeWayCheck, Recheck, AckCompare, AckSegments, AckBuffers
    <3>4. Shrinks /\ BuffersShrink
      BY <2>1, <3>1, <3>2, <3>3, WindowShrinks DEF Shrinks, BuffersShrink
    <3>. QED  BY <3>1, <3>4, ShrinksKept
  <2>. QED  BY <1>9, <2>2, <2>3, <2>4 DEF Handle
<1>. QED  BY <1>1, <1>2, <1>3, <1>4, <1>5, <1>6, <1>7, <1>8, <1>9 DEF Next

\* With one link, no byte is ever sent in two overlapping pieces.
LEMMA DataAlways == ASSUME OneLink PROVE Spec => [](DataInv /\ DataHandlers)
<1>1. Init => DataInv /\ DataHandlers
  <2>. SUFFICES ASSUME Init PROVE DataInv /\ DataHandlers
    OBVIOUS
  <2>1. \A e \in Ends : DataOf(e) = {}
    BY Numbers DEF Init, DataOf
  <2>. QED  BY <2>1 DEF Init, DataInv, DataHandlers
<1>2. TypeOK /\ EarlyInv /\ LifeInv /\ DataHandlers /\ DataInv /\ [Next]_vars
         => DataInv' /\ DataHandlers'
  BY DataInvKept, DataHandlersKept
<1>. QED  BY <1>1, <1>2, TypeCorrect, EarlyAlways, LifeAlways, PTL DEF Spec

-----------------------------------------------------------------------------
(* The reader *)

\* Every SYN_ACK has the number the server began with.
SynAckInv ==
    /\ \A s \in retrySegments[Server] : s.type = "SYN_ACK" => s.seq = ISN[Server]
    /\ \A s \in retrySegments[Client] : s.type # "SYN_ACK"
    /\ \A p \in net : p.type = "SYN_ACK" => p.seq = ISN[Server]
    /\ \A p \in openQueue : p.seq = ISN[Server]

\* The receive window of e has been given its first number.
Started(e) == IF e = Client THEN openPc[Client] = "ok" ELSE synHandled > 0

\* Until then nothing is read; after, the reader is where the bytes it was given end.
ReaderInv ==
    /\ \A e \in Ends :
        IF Started(e) THEN head_seq[e] = ISN[Peer(e)] + 1 + Len(got[e]) ELSE got[e] = <<>>
    /\ ReadsInOrder

\* A SYN is answered once.
LEMMA AnsweredOnce ==
    ASSUME MaxSyn <= 1, TypeOK, EarlyInv, HandleSyn
    PROVE  synHandled = 0 /\ cur_seq = ISN /\ \A e \in Ends : got[e] = <<>>
<1>1. synTaken
  BY DEF HandleSyn
<1>2. synQueue \in Nat /\ synHandled \in Nat /\ MaxSyn \in Nat
  BY NumbersAssumption DEF TypeOK
<1>3. synQueue + synHandled + 1 <= MaxSyn
  BY <1>1 DEF EarlyInv, SynBound, SynsArrived
<1>4. synHandled = 0
  BY <1>2, <1>3
<1>. QED  BY <1>4 DEF EarlyInv, BeforeSyn

\* The number of the SYN_ACK does not change.
LEMMA SynAckKept ==
    ASSUME MaxSyn <= 1
    PROVE  TypeOK /\ EarlyInv /\ SynAckInv /\ [Next]_vars => SynAckInv'
<1>. SUFFICES ASSUME TypeOK, EarlyInv, SynAckInv, [Next]_vars PROVE SynAckInv'
  OBVIOUS
<1>. USE Numbers
<1>. retrySegments \in [Ends -> SUBSET Segment]
  BY DEF TypeOK
<1>1. ASSUME \A f \in Ends : \A s \in retrySegments'[f] : s.type = "SYN_ACK" => s \in retrySegments[f],
             \A p \in net' : p.type = "SYN_ACK" => p \in net,
             \A p \in openQueue' : p \in openQueue \/ (p \in net /\ p.type = "SYN_ACK")
      PROVE  SynAckInv'
  BY <1>1 DEF SynAckInv
<1>2. CASE HandleSyn
  <2>1. cur_seq[Server] = ISN[Server]
    BY <1>2, AnsweredOnce
  <2>2. /\ InsertSegment(Server, ControlSegment("SYN_ACK", cur_seq[Server], synHandled))
        /\ net' = net \cup {PacketOf(Server, "SYN_ACK", cur_seq[Server], ISN[Client] + 1, 0)}
        /\ UNCHANGED openQueue
    BY <1>2 DEF HandleSyn
  <2>. QED  BY <2>1, <2>2 DEF SynAckInv, InsertSegment, ControlSegment, PacketOf
<1>3. ASSUME NEW e \in Ends, NEW s \in retrySegments[e], RetrySend(e, s) PROVE SynAckInv'
  <2>1. s.type = "SYN_ACK" => e = Server /\ s.seq = ISN[Server]
    BY DEF SynAckInv, Ends
  <2>. QED  BY <1>3, <2>1 DEF RetrySend, SynAckInv, PacketOf
<1>4. ASSUME NEW e \in Ends, NEW seg, InsertSegment(e, seg), seg.type # "SYN_ACK"
      PROVE  \A f \in Ends : \A s \in retrySegments'[f] : s.type = "SYN_ACK" => s \in retrySegments[f]
  BY <1>4 DEF InsertSegment
<1>5. CASE Opening
  <2>1. openQueue' \subseteq openQueue /\ \A p \in net' : p.type = "SYN_ACK" => p \in net
    BY <1>5 DEF Opening, OpenRefused, OpenStart, OpenFinish, OpenAborted, OpenTimeout, PacketOf
  <2>2. \/ CancelCtrlPktFromSegments(Client)
        \/ \E seg : InsertSegment(Client, seg) /\ seg.type # "SYN_ACK"
    BY <1>5 DEF Opening, OpenRefused, OpenStart, OpenFinish, OpenAborted, OpenTimeout, ControlSegment
  <2>. QED  BY <1>1, <1>4, <2>1, <2>2, WindowShrinks
<1>6. CASE TakeSyn \/ WaitForOpenStart \/ WaitForOpenFinish \/ WaitForOpenTimeout
  <2>1. UNCHANGED <<openQueue, net>>
    BY <1>6 DEF TakeSyn, WaitForOpenStart, WaitForOpenFinish, WaitForOpenTimeout
  <2>2. CancelCtrlPktFromSegments(Server) \/ UNCHANGED retrySegments
    BY <1>6 DEF TakeSyn, WaitForOpenStart, WaitForOpenFinish, WaitForOpenTimeout
  <2>. QED  BY <1>1, <2>1, <2>2, WindowShrinks
<1>7. ASSUME NEW w \in Calls, Writing(w) PROVE SynAckInv'
  <2>1. UNCHANGED openQueue
    BY <1>7 DEF Writing, WriteStart, WriteAppend, WriteSpawn, WriteSpawnRefused, WriteFinish,
       WriteAborted, WriteTimeout
  <2>2. CancelDataPackets(Caller[w]) \/ UNCHANGED net
    BY <1>7 DEF Writing, WriteStart, WriteAppend, WriteSpawn, WriteSpawnRefused, WriteFinish,
       WriteAborted, WriteTimeout
  <2>3. CancelFromBuffers(Caller[w], writeIndex[w]) \/ UNCHANGED retrySegments
    BY <1>7 DEF Writing, WriteStart, WriteAppend, WriteSpawn, WriteSpawnRefused, WriteFinish,
       WriteAborted, WriteTimeout
  <2>4. net' \subseteq net
    BY <2>2, WindowShrinks
  <2>5. \A f \in Ends : retrySegments'[f] \subseteq retrySegments[f]
    BY <2>3, WindowShrinks
  <2>. QED  BY <1>1, <2>1, <2>4, <2>5
<1>8. ASSUME NEW e \in Ends, Reading(e) PROVE SynAckInv'
  <2>1. UNCHANGED <<retrySegments, net, openQueue>>
    BY <1>8 DEF Reading, ReadStart, ReadWait, ReadWake, ReadFails, ReadNothing, ReadData
  <2>. QED  BY <1>1, <2>1
<1>9. ASSUME NEW e \in Ends, Closing(e) PROVE SynAckInv'
  <2>1. UNCHANGED openQueue
    BY <1>9 DEF Closing, CloseClosed, CloseAfterFin, CloseBegin, CloseFin, CloseDone,
       CloseTimeout, ForceClose, ForceCloseBegin, ForceCloseFin, Remove, SendFin
  <2>2. UNCHANGED net \/ SendFin(e)
    BY <1>9 DEF Closing, CloseClosed, CloseAfterFin, CloseBegin, CloseFin, CloseDone,
       CloseTimeout, ForceClose, ForceCloseBegin, ForceCloseFin, Remove
  <2>3. Clear(e) \/ UNCHANGED retrySegments \/ SendFin(e)
    BY <1>9 DEF Closing, CloseClosed, CloseAfterFin, CloseBegin, CloseFin, CloseDone,
       CloseTimeout, ForceClose, ForceCloseBegin, ForceCloseFin, Remove, Abort
  <2>4. \A p \in net' : p.type = "SYN_ACK" => p \in net
    BY <2>2 DEF SendFin, PacketOf
  <2>5. CASE Clear(e) \/ UNCHANGED retrySegments
    <3>1. \A f \in Ends : retrySegments'[f] \subseteq retrySegments[f]
      BY <2>5, WindowShrinks
    <3>. QED  BY <1>1, <2>1, <2>4, <3>1
  <2>6. CASE SendFin(e)
    <3>1. \A f \in Ends : \A s \in retrySegments'[f] : s.type = "SYN_ACK" => s \in retrySegments[f]
      BY <1>4, <2>6 DEF SendFin, ControlSegment
    <3>. QED  BY <1>1, <2>1, <2>4, <3>1
  <2>. QED  BY <2>3, <2>5, <2>6
<1>10. ASSUME NEW e \in Ends, WriterSend(e) \/ WriterExit(e) PROVE SynAckInv'
  <2>1. CASE WriterSend(e)
    <3>1. PICK len, seq, index :
            /\ InsertSegment(e, [type |-> "DATA", seq |-> seq, len |-> len, head |-> index, round |-> 0])
            /\ net' = net \cup {PacketOf(e, "DATA", seq, cur_ack[e], len)}
      BY <2>1 DEF WriterSend
    <3>2. UNCHANGED openQueue
      BY <2>1 DEF WriterSend
    <3>3. \A p \in net' : p.type = "SYN_ACK" => p \in net
      BY <3>1 DEF PacketOf
    <3>4. \A f \in Ends : \A s \in retrySegments'[f] : s.type = "SYN_ACK" => s \in retrySegments[f]
      BY <1>4, <3>1
    <3>. QED  BY <1>1, <3>2, <3>3, <3>4
  <2>2. CASE WriterExit(e)
    BY <1>1, <2>2 DEF WriterExit
  <2>. QED  BY <1>10, <2>1, <2>2
<1>11. ASSUME NEW p \in net, NEW l \in Links, Receiving(p, l) PROVE SynAckInv'
  <2>1. p.to \in Ends
    BY DEF TypeOK, Packet
  <2>2. \A q \in net' : q.type = "SYN_ACK" => q \in net
    BY <1>11 DEF Receiving, DropPacket, ReceiveAckOrData, ReceiveSynAck, ReceiveFin,
       ReceiveFinAck, PacketOf
  <2>3. \A q \in openQueue' : q \in openQueue \/ (q \in net /\ q.type = "SYN_ACK")
    BY <1>11 DEF Receiving, DropPacket, ReceiveAckOrData, ReceiveSynAck, ReceiveFin, ReceiveFinAck
  <2>4. Clear(p.to) \/ UNCHANGED retrySegments
    BY <1>11 DEF Receiving, DropPacket, ReceiveAckOrData, ReceiveSynAck, ReceiveFin, ReceiveFinAck
  <2>5. Clear(p.to) => \A f \in Ends : retrySegments'[f] \subseteq retrySegments[f]
    BY <2>1, WindowShrinks
  <2>. QED  BY <1>1, <2>2, <2>3, <2>4, <2>5
<1>12. ASSUME NEW p \in net, QueueSyn(p) \/ Lose(p) \/ DropUnknown(p) PROVE SynAckInv'
  BY <1>1, <1>12 DEF QueueSyn, Lose, DropUnknown
<1>13. ASSUME NEW h \in handling, Handle(h) PROVE SynAckInv'
  <2>1. h.pkt.to \in Ends
    BY HandledPacket, TypeGroups
  <2>2. UNCHANGED openQueue /\ \A q \in net' : q.type = "SYN_ACK" => q \in net
    BY <1>13 DEF Handle, ThreeWayCheck, Establish, Recheck, AckCompare, AckSegments, AckBuffers,
       HandleData, PacketOf
  <2>3. \/ UNCHANGED retrySegments \/ CancelCtrlPktFromSegments(h.pkt.to)
        \/ \E segs : EraseSegments(h.pkt.to, segs)
    BY <1>13 DEF Handle, ThreeWayCheck, Establish, Recheck, AckCompare, AckSegments, AckBuffers,
       HandleData
  <2>4. \A f \in Ends : retrySegments'[f] \subseteq retrySegments[f]
    BY <2>1, <2>3, WindowShrinks
  <2>. QED  BY <1>1, <2>2, <2>4
<1>14. CASE UNCHANGED vars
  BY <1>1, <1>14 DEF vars
<1>. QED  BY <1>2, <1>3, <1>5, <1>6, <1>7, <1>8, <1>9, <1>10, <1>11, <1>12, <1>13, <1>14
          DEF Next, Accepting, Working

\* What moves the reader: its window is opened, or Read returns.
LEMMA ReaderSteps ==
    ASSUME [Next]_vars, TypeOK
    PROVE  \/ OpenFinish \/ HandleSyn
           \/ \E e \in Ends : ReadNothing(e) \/ \E len \in ReadLens : ReadData(e, len)
           \/ /\ UNCHANGED <<head_seq, got, synHandled>>
              /\ openPc'[Client] = "ok" <=> openPc[Client] = "ok"
<1>. openPc \in [Ends -> {"idle", "waiting", "ok", "failed"}] /\ Client \in Ends /\ Server # Client
  BY Numbers DEF TypeOK
<1>1. CASE UNCHANGED vars
  BY <1>1 DEF vars
<1>2. CASE OpenRefused \/ OpenStart \/ OpenAborted \/ OpenTimeout
  BY <1>2 DEF OpenRefused, OpenStart, OpenAborted, OpenTimeout
<1>3. CASE TakeSyn \/ WaitForOpenStart \/ WaitForOpenFinish \/ WaitForOpenTimeout
  BY <1>3 DEF TakeSyn, WaitForOpenStart, WaitForOpenFinish, WaitForOpenTimeout
<1>4. ASSUME NEW w \in Calls, Writing(w) PROVE UNCHANGED <<head_seq, got, synHandled, openPc>>
  BY <1>4 DEF Writing, WriteStart, WriteAppend, WriteSpawn, WriteSpawnRefused, WriteFinish,
     WriteAborted, WriteTimeout
<1>5. ASSUME NEW e \in Ends, ReadStart(e) \/ ReadWait(e) \/ ReadWake(e) \/ ReadFails(e)
      PROVE  UNCHANGED <<head_seq, got, synHandled, openPc>>
  BY <1>5 DEF ReadStart, ReadWait, ReadWake, ReadFails
<1>6. ASSUME NEW e \in Ends, Closing(e) \/ Working(e)
      PROVE  UNCHANGED <<head_seq, got, synHandled, openPc>>
  BY <1>6 DEF Closing, CloseClosed, CloseAfterFin, CloseBegin, CloseFin, CloseDone, Abort,
     CloseTimeout, ForceClose, ForceCloseBegin, ForceCloseFin, Remove,
     Working, WriterSend, WriterExit, RetrySend
<1>7. ASSUME NEW p \in net, NEW l \in Links, Receiving(p, l)
      PROVE  UNCHANGED <<head_seq, got, synHandled, openPc>>
  BY <1>7 DEF Receiving, DropPacket, ReceiveAckOrData, ReceiveSynAck, ReceiveFin, ReceiveFinAck
<1>8. ASSUME NEW p \in net, QueueSyn(p) \/ Lose(p) \/ DropUnknown(p)
      PROVE  UNCHANGED <<head_seq, got, synHandled, openPc>>
  BY <1>8 DEF QueueSyn, Lose, DropUnknown
<1>9. ASSUME NEW h \in handling, Handle(h) PROVE UNCHANGED <<head_seq, got, synHandled, openPc>>
  BY <1>9 DEF Handle, ThreeWayCheck, Establish, Recheck, AckCompare, AckSegments,
     AckBuffers, HandleData
<1>. QED  BY <1>1, <1>2, <1>3, <1>4, <1>5, <1>6, <1>7, <1>8, <1>9 DEF Next, Opening, Accepting, Reading

\* The run that Read copies ends at or after the place of the reader.
LEMMA RunEndsAfter ==
    ASSUME TypeOK, DataInv, NEW e \in Ends, NEW first \in ReadableFrom(e),
           NEW stop \in Boundaries(recvSegments[e], first.seq),
           IsRunEnd(recvSegments[e], first.seq, stop)
    PROVE  stop \in Nat /\ stop >= head_seq[e]
<1>1. recvSegments[e] \subseteq Piece /\ head_seq[e] \in Nat
  BY DEF TypeOK
<1>2. /\ first \in recvSegments[e] /\ first.seq \in Nat /\ EndOf(first) \in Nat
      /\ head_seq[e] <= EndOf(first)
  BY <1>1 DEF ReadableFrom, Piece, EndOf
<1>3. stop # first.seq
  BY <1>2 DEF IsRunEnd
<1>4. PICK s \in recvSegments[e] : s.seq >= first.seq /\ stop = EndOf(s)
  BY <1>3 DEF Boundaries
<1>5. s.seq \in Nat /\ s.len \in Nat /\ EndOf(s) = s.seq + s.len
  BY <1>1 DEF Piece, EndOf
<1>6. CASE s.seq = first.seq
  <2>1. s = first
    BY <1>2, <1>6 DEF DataInv
  <2>. QED  BY <1>2, <1>4, <2>1
<1>7. CASE s.seq # first.seq
  <2>1. Peer(e) \in Ends /\ Peer(Peer(e)) = e
    BY Numbers DEF Peer, Ends
  <2>2. first \in DataOf(Peer(e)) /\ s \in DataOf(Peer(e))
    BY <1>2, <2>1 DEF DataOf
  <2>3. first.seq < s.seq
    BY <1>2, <1>4, <1>5, <1>7
  <2>4. EndOf(first) <= s.seq
    BY <2>1, <2>2, <2>3 DEF DataInv
  <2>. QED  BY <1>1, <1>2, <1>4, <1>5, <2>4
<1>. QED  BY <1>6, <1>7

\* Numbers that follow one another, and those that follow them.
LEMMA InOrderAppended ==
    ASSUME NEW s \in Seq(Nat), NEW more \in Seq(Nat), NEW base \in Nat,
           \A i \in 1..Len(s) : s[i] = base + i,
           \A i \in 1..Len(more) : more[i] = base + Len(s) + i
    PROVE  \A i \in 1..Len(s \o more) : (s \o more)[i] = base + i
<1>1. Len(s) \in Nat /\ Len(more) \in Nat
  BY LenProperties
<1>2. /\ Len(s \o more) = Len(s) + Len(more)
      /\ \A i \in 1..(Len(s) + Len(more)) :
            (s \o more)[i] = IF i <= Len(s) THEN s[i] ELSE more[i - Len(s)]
  BY ConcatProperties
<1>3. SUFFICES ASSUME NEW i \in 1..(Len(s) + Len(more)) PROVE (s \o more)[i] = base + i
  BY <1>2
<1>4. CASE i <= Len(s)
  <2>1. (s \o more)[i] = s[i] /\ i \in 1..Len(s)
    BY <1>1, <1>2, <1>4
  <2>. QED  BY <2>1
<1>5. CASE ~(i <= Len(s))
  <2>1. (s \o more)[i] = more[i - Len(s)] /\ i - Len(s) \in 1..Len(more)
    BY <1>1, <1>2, <1>5
  <2>2. more[i - Len(s)] = base + Len(s) + (i - Len(s))
    BY <2>1
  <2>. QED  BY <1>1, <2>1, <2>2
<1>. QED  BY <1>4, <1>5

\* A Read that returns moves the reader over the bytes it returns, and those follow the last ones.
LEMMA ReaderReturns ==
    ASSUME TypeOK, ReaderInv, NEW e \in Ends, Started(e),
           NEW upto \in Nat, upto >= head_seq[e],
           head_seq' = [head_seq EXCEPT ![e] = upto],
           got' = [got EXCEPT ![e] = @ \o [i \in 1..(upto - head_seq[e]) |-> head_seq[e] + i - 1]],
           UNCHANGED <<openPc, synHandled>>
    PROVE  ReaderInv'
<1>. USE Numbers
<1>1. head_seq \in [Ends -> Nat] /\ got \in [Ends -> Seq(Nat)]
  BY DEF TypeOK
<1>2. /\ head_seq[e] = ISN[Peer(e)] + 1 + Len(got[e])
      /\ \A i \in DOMAIN got[e] : got[e][i] = ISN[Peer(e)] + i
  BY DEF ReaderInv, ReadsInOrder
<1>3. /\ upto - head_seq[e] \in Nat /\ ISN[Peer(e)] \in Nat /\ head_seq[e] \in Nat
      /\ Len(got[e]) \in Nat
  BY <1>1, LenProperties
<1>4. /\ Len(got'[e]) = Len(got[e]) + (upto - head_seq[e])
      /\ \A i \in DOMAIN got'[e] : got'[e][i] = ISN[Peer(e)] + i
  <2>. DEFINE n == upto - head_seq[e]
              more == [i \in 1..n |-> head_seq[e] + i - 1]
  <2>1. got'[e] = got[e] \o more
    BY <1>1
  <2>2. more \in [1..n -> Nat] /\ \A i \in 1..n : more[i] = head_seq[e] + i - 1
    <3>1. \A i \in 1..n : head_seq[e] + i - 1 \in Nat
      BY <1>3
    <3>2. more = [i \in 1..n |-> head_seq[e] + i - 1]
      OBVIOUS
    <3>. HIDE DEF n, more
    <3>. QED  BY ONLY <3>1, <3>2
  <2>3. got[e] \in Seq(Nat) /\ n \in Nat
    BY <1>1, <1>3
  <2>. HIDE DEF n, more
  <2>4. more \in Seq(Nat) /\ DOMAIN more = 1..n
    BY <2>2, <2>3, SeqDef
  <2>5. Len(more) = n
    BY <2>3, <2>4, LenProperties
  <2>6. /\ got'[e] \in Seq(Nat) /\ DOMAIN got'[e] = 1..Len(got'[e])
        /\ Len(got'[e]) = Len(got[e]) + n
        /\ DOMAIN got[e] = 1..Len(got[e])
    <3>1. got'[e] \in Seq(Nat) /\ Len(got'[e]) = Len(got[e]) + n
      BY ONLY <2>1, <2>3, <2>4, <2>5, ConcatProperties
    <3>. QED  BY ONLY <2>3, <3>1, LenProperties
  <2>7. \A i \in 1..Len(more) : more[i] = ISN[Peer(e)] + Len(got[e]) + i
    BY ONLY <1>2, <1>3, <2>2, <2>5
  <2>8. \A i \in 1..Len(got'[e]) : got'[e][i] = ISN[Peer(e)] + i
    <3>1. \A i \in 1..Len(got[e]) : got[e][i] = ISN[Peer(e)] + i
      BY ONLY <1>2, <2>6
    <3>2. ISN[Peer(e)] \in Nat /\ got[e] \in Seq(Nat) /\ more \in Seq(Nat)
      BY ONLY <1>3, <2>3, <2>4
    <3>3. \A i \in 1..Len(got[e] \o more) : (got[e] \o more)[i] = ISN[Peer(e)] + i
      BY ONLY <2>7, <3>1, <3>2, InOrderAppended, Zenon
    <3>. QED  BY ONLY <2>1, <3>3, Zenon
  <2>. QED  BY <2>6, <2>8 DEF n
<1>5. head_seq'[e] = upto /\ \A f \in Ends \ {e} : got'[f] = got[f] /\ head_seq'[f] = head_seq[f]
  BY <1>1
<1>6. head_seq'[e] = ISN[Peer(e)] + 1 + Len(got'[e])
  BY ONLY <1>2, <1>3, <1>4, <1>5, upto \in Nat
<1>7. \A f \in Ends : Started(f)' = Started(f)
  BY DEF Started
<1>8. \A f \in Ends : IF Started(f) THEN head_seq[f] = ISN[Peer(f)] + 1 + Len(got[f]) ELSE got[f] = <<>>
  BY DEF ReaderInv
<1>9. \A f \in Ends :
        IF Started(f)' THEN head_seq'[f] = ISN[Peer(f)] + 1 + Len(got'[f]) ELSE got'[f] = <<>>
  BY <1>5, <1>6, <1>7, <1>8
<1>10. \A f \in Ends : \A i \in DOMAIN got'[f] : got'[f][i] = ISN[Peer(f)] + i
  <2>1. \A f \in Ends : \A i \in DOMAIN got[f] : got[f][i] = ISN[Peer(f)] + i
    BY DEF ReaderInv, ReadsInOrder
  <2>2. SUFFICES ASSUME NEW f \in Ends PROVE \A i \in DOMAIN got'[f] : got'[f][i] = ISN[Peer(f)] + i
    OBVIOUS
  <2>3. CASE f = e
    BY <1>4, <2>3
  <2>4. CASE f # e
    BY <1>5, <2>1, <2>4
  <2>. QED  BY <2>3, <2>4
<1>. QED  BY <1>9, <1>10 DEF ReaderInv, ReadsInOrder

\* A Read that returns does so at a place not before the reader's.
LEMMA ReaderReads ==
    ASSUME TypeOK, EarlyInv, DataInv, NEW e \in Ends,
           ReadNothing(e) \/ \E len \in ReadLens : ReadData(e, len)
    PROVE  /\ Started(e) /\ UNCHANGED <<openPc, synHandled>>
           /\ \E upto \in Nat : upto >= head_seq[e] /\ \E fault : ReadReturns(e, upto, fault)
<1>. USE Numbers
<1>0. openPc \in [Ends -> {"idle", "waiting", "ok", "failed"}] /\ synHandled \in Nat
  BY DEF TypeOK
<1>1. readPc[e] = "ready" /\ UNCHANGED <<openPc, synHandled>>
  BY DEF ReadNothing, ReadData, MayRead
<1>2. openPc[e] = "ok"
  BY <1>1 DEF EarlyInv, Callers
<1>3. Started(e)
  BY <1>0, <1>2 DEF Started, EarlyInv, BeforeSyn, Ends
<1>4. head_seq[e] \in Nat /\ cur_ack[e] \in Nat
  BY DEF TypeOK
<1>5. \E upto \in Nat : upto >= head_seq[e] /\ \E fault : ReadReturns(e, upto, fault)
  <2>1. CASE ReadNothing(e)
    <3>1. \E fault : ReadReturns(e, head_seq[e], fault)
      BY <2>1 DEF ReadNothing
    <3>. QED  BY <1>4, <3>1
  <2>2. ASSUME NEW len \in ReadLens, ReadData(e, len)
        PROVE  \E upto \in Nat : upto >= head_seq[e] /\ \E fault : ReadReturns(e, upto, fault)
    <3>1. PICK first \in ReadableFrom(e) : \E stop \in Boundaries(recvSegments[e], first.seq) :
            LET limit == IF head_seq[e] + len < cur_ack[e] THEN head_seq[e] + len ELSE cur_ack[e]
                upto == IF limit < stop THEN limit ELSE stop
            IN  /\ IsRunEnd(recvSegments[e], first.seq, stop)
                /\ \E fault : ReadReturns(e, upto, fault)
      BY <2>2 DEF ReadData
    <3>2. PICK stop \in Boundaries(recvSegments[e], first.seq) :
            LET limit == IF head_seq[e] + len < cur_ack[e] THEN head_seq[e] + len ELSE cur_ack[e]
                upto == IF limit < stop THEN limit ELSE stop
            IN  /\ IsRunEnd(recvSegments[e], first.seq, stop)
                /\ \E fault : ReadReturns(e, upto, fault)
      BY <3>1
    <3>. DEFINE limit == IF head_seq[e] + len < cur_ack[e] THEN head_seq[e] + len ELSE cur_ack[e]
                upto == IF limit < stop THEN limit ELSE stop
    <3>3. stop \in Nat /\ stop >= head_seq[e]
      BY <3>2, RunEndsAfter
    <3>4. len \in Nat /\ cur_ack[e] > head_seq[e]
      BY <2>2, NumbersAssumption DEF ReadData
    <3>5. upto \in Nat /\ upto >= head_seq[e]
      BY <1>4, <3>3, <3>4
    <3>6. \E fault : ReadReturns(e, upto, fault)
      BY <3>2
    <3>. QED  BY <3>5, <3>6
  <2>. QED  BY <2>1, <2>2
<1>. QED  BY <1>1, <1>3, <1>5

\* The reader stays in step with the numbers of the data, through the opening and every Read.
LEMMA ReaderKept ==
    ASSUME MaxSyn <= 1
    PROVE  TypeOK /\ EarlyInv /\ DataInv /\ SynAckInv /\ ReaderInv /\ [Next]_vars => ReaderInv'
<1>. SUFFICES ASSUME TypeOK, EarlyInv, DataInv, SynAckInv, ReaderInv, [Next]_vars PROVE ReaderInv'
  OBVIOUS
<1>. USE Numbers
<1>1. head_seq \in [Ends -> Nat] /\ got \in [Ends -> Seq(Nat)] /\ synHandled \in Nat
      /\ openPc \in [Ends -> {"idle", "waiting", "ok", "failed"}]
  BY DEF TypeOK
<1>2. \A f \in Ends : IF Started(f) THEN head_seq[f] = ISN[Peer(f)] + 1 + Len(got[f]) ELSE got[f] = <<>>
  BY DEF ReaderInv
<1>3. Len(<<>>) = 0 /\ Peer(Client) = Server /\ Peer(Server) = Client
  BY EmptySeq DEF Peer
<1>4. CASE OpenFinish
  <2>1. PICK p \in openQueue : ExpectFrom(Client, p.seq)
    BY <1>4 DEF OpenFinish
  <2>2. p.seq = ISN[Server]
    BY DEF SynAckInv
  <2>3. ~Started(Client) /\ openPc' = [openPc EXCEPT ![Client] = "ok"] /\ UNCHANGED <<got, synHandled>>
    BY <1>4 DEF OpenFinish, Started
  <2>4. got[Client] = <<>>
    BY <1>2, <2>3
  <2>5. head_seq' = [head_seq EXCEPT ![Client] = ISN[Server] + 1]
    BY <2>1, <2>2 DEF ExpectFrom
  <2>6. head_seq'[Client] = ISN[Server] + 1 + Len(got'[Client])
    BY <1>1, <1>3, <2>3, <2>4, <2>5
  <2>7. Started(Server)' = Started(Server) /\ head_seq'[Server] = head_seq[Server]
    BY <1>1, <2>3, <2>5 DEF Started
  <2>8. Started(Client)'
    BY <1>1, <2>3 DEF Started
  <2>9. ReadsInOrder'
    BY <2>3 DEF ReaderInv, ReadsInOrder
  <2>10. Ends = {Client, Server}
    BY DEF Ends
  <2>. QED  BY <1>2, <1>3, <2>3, <2>6, <2>7, <2>8, <2>9, <2>10 DEF ReaderInv
<1>5. CASE HandleSyn
  <2>1. synHandled = 0 /\ got[Server] = <<>> /\ UNCHANGED <<got, openPc>> /\ synHandled' = synHandled + 1
    BY <1>5, AnsweredOnce DEF HandleSyn
  <2>2. head_seq' = [head_seq EXCEPT ![Server] = ISN[Client] + 1]
    BY <1>5 DEF HandleSyn, ExpectFrom
  <2>3. head_seq'[Server] = ISN[Client] + 1 + Len(got'[Server])
    BY <1>1, <1>3, <2>1, <2>2
  <2>4. Started(Client)' = Started(Client) /\ head_seq'[Client] = head_seq[Client]
    BY <1>1, <2>1, <2>2 DEF Started
  <2>5. Started(Server)'
    BY <1>1, <2>1 DEF Started
  <2>6. ReadsInOrder'
    BY <2>1 DEF ReaderInv, ReadsInOrder
  <2>7. Ends = {Client, Server}
    BY DEF Ends
  <2>. QED  BY <1>2, <1>3, <2>1, <2>3, <2>4, <2>5, <2>6, <2>7 DEF ReaderInv
<1>6. ASSUME NEW e \in Ends, ReadNothing(e) \/ \E len \in ReadLens : ReadData(e, len)
      PROVE  ReaderInv'
  <2>1. Started(e) /\ UNCHANGED <<openPc, synHandled>>
    BY <1>6, ReaderReads
  <2>6. PICK upto \in Nat : upto >= head_seq[e] /\ \E fault : ReadReturns(e, upto, fault)
    BY <1>6, ReaderReads
  <2>7. /\ head_seq' = [head_seq EXCEPT ![e] = upto]
        /\ got' = [got EXCEPT ![e] = @ \o [i \in 1..(upto - head_seq[e]) |-> head_seq[e] + i - 1]]
    BY <2>6 DEF ReadReturns
  <2>. QED  BY <2>1, <2>6, <2>7, ReaderReturns
<1>7. CASE UNCHANGED <<head_seq, got, synHandled>> /\ (openPc'[Client] = "ok" <=> openPc[Client] = "ok")
  <2>1. \A f \in Ends : Started(f)' <=> Started(f)
    BY <1>7 DEF Started
  <2>. QED  BY <1>2, <1>7, <2>1 DEF ReaderInv, ReadsInOrder
<1>. QED  BY <1>4, <1>5, <1>6, <1>7, ReaderSteps

\* Every SYN_ACK has the number of the server, always.
LEMMA SynAckAlways == ASSUME MaxSyn <= 1 PROVE Spec => []SynAckInv
<1>1. Init => SynAckInv
  BY Numbers DEF Init, SynAckInv
<1>2. TypeOK /\ EarlyInv /\ SynAckInv /\ [Next]_vars => SynAckInv'
  BY SynAckKept
<1>. QED  BY <1>1, <1>2, TypeCorrect, EarlyAlways, PTL DEF Spec

\* The reader is always where the bytes it was given end.
LEMMA ReaderAlways == ASSUME OneLink, MaxSyn <= 1 PROVE Spec => []ReaderInv
<1>1. Init => ReaderInv
  <2>. SUFFICES ASSUME Init PROVE ReaderInv
    OBVIOUS
  <2>1. \A e \in Ends : got[e] = <<>> /\ ~Started(e)
    BY Numbers DEF Init, Started
  <2>2. ReadsInOrder
    BY <2>1, EmptySeq DEF ReadsInOrder
  <2>. QED  BY <2>1, <2>2 DEF ReaderInv
<1>2. TypeOK /\ EarlyInv /\ DataInv /\ SynAckInv /\ ReaderInv /\ [Next]_vars => ReaderInv'
  BY ReaderKept
<1>. QED  BY <1>1, <1>2, TypeCorrect, EarlyAlways, DataAlways, SynAckAlways, PTL DEF Spec

\* With one link and one SYN, what Read has returned is a prefix of what the peer has written.
THEOREM ReadsAreInOrder == ASSUME OneLink, MaxSyn <= 1 PROVE Spec => []ReadsInOrder
<1>1. ReaderInv => ReadsInOrder
  BY DEF ReaderInv
<1>. QED  BY <1>1, ReaderAlways, PTL

-----------------------------------------------------------------------------
(* An orderly end: its application makes one call at a time *)

\* One EndPoint thread and one SYN, no ForceClose, no overlapping calls, no Write that times out.
Orderly == OneLink /\ MaxSyn <= 1 /\ MaxForce = 0 /\ ~Concurrent /\ "write" \notin Timeouts

\* The tunnel is not open yet; it is not open yet or open.
Early(e) == state[e] \in {"NULL", "OPENING", "HALF_OPEN"}
Healthy(e) == Early(e) \/ state[e] = "OPEN"

\* Close or WaitForClose was called for e.
CloseBegun(e) == mutex[e] = "close" \/ closePc[e] # "idle"

\* One call of Write at a time, and none when Close is called.
CallsInv ==
    /\ \A v, w \in Calls : Caller[v] = Caller[w] /\ ~Resting(v) /\ ~Resting(w) => v = w
    /\ \A e \in Ends : CloseBegun(e) => NoWrite(e)

\* The numbers of the send window are the first ones until the tunnel opens, and larger after.
OpenedInv ==
    /\ \A e \in Ends :
        IF Early(e) THEN nextBufferIndex[e] = 0 /\ cur_seq[e] = ISN[e]
        ELSE nextBufferIndex[e] > ISN[e] /\ Pos(e) > ISN[e]
    /\ \A h \in handling :
        /\ h.pc = "establish" => h.pkt.ack = ISN[h.pkt.to] + 1
        /\ h.pc \in {"ack", "segments", "buffers"} => ~Early(h.pkt.to)

\* The one buffer of e is that of the call under way and the last one; writerThread stands in it
\* or is done with it.
BuffersOk(e) ==
    /\ \A b \in sendBuffers[e] :
        /\ \E w \in Calls :
            /\ Caller[w] = e /\ writePc[w] \in {"appended", "waiting"}
            /\ writeIndex[w] = b.head_seq /\ Size[w] = b.size
        /\ b.head_seq + b.size = nextBufferIndex[e]
        /\ \/ currBufferIndex[e] = b.head_seq /\ currBufferOffset[e] < b.size
           \/ currBufferIndex[e] = nextBufferIndex[e] /\ currBufferOffset[e] = 0
        /\ b.aborted => ~Healthy(e)
    /\ /\ sendBuffers[e] = {}
       /\ Healthy(e) \/ \E w \in Calls : Caller[w] = e /\ writePc[w] = "checked"
       => currBufferIndex[e] = nextBufferIndex[e] /\ currBufferOffset[e] = 0

\* The segments of data lie in that buffer and are in both lists.
SegmentsOk(e) ==
    /\ \A s \in sendSegments[e] \cup retrySegments[e] : s.type = "DATA" =>
        s.len > 0 /\ \E b \in sendBuffers[e] : s.head = b.head_seq /\ EndOf(s) <= nextBufferIndex[e]
    /\ \A s : s.type = "DATA" => (s \in sendSegments[e] <=> s \in retrySegments[e])
    /\ \A s, t \in sendSegments[e] :
        s.type = "DATA" /\ t.type = "DATA" /\ s.seq = t.seq => s = t
    /\ \A s \in sendSegments[e] : s.type # "DATA" => s.len = 0

\* The first number e has not sent.
Limit(e) == IF Early(e) THEN ISN[e] + 1 ELSE Pos(e)

\* Until it closes, nobody acknowledges to e what it has not sent.
AcksOk(e) ==
    ~CloseBegun(e) =>
        /\ cur_ack[Peer(e)] <= Limit(e)
        /\ \A p \in net : p.to = e => p.ack <= Limit(e)
        /\ \A h \in handling : h.pkt.to = e => h.pkt.ack <= Limit(e)
        /\ \A p \in net : p.type = "FIN" => p.to # Peer(e)
        /\ \A s \in retrySegments[e] : s.type # "FIN"

\* Between the two locks of handleAck no segment is left that the packet acknowledges.
AckedOk ==
    \A h \in handling : h.pc = "buffers" =>
        \A s \in sendSegments[h.pkt.to] : s.type = "DATA" => EndOf(s) > h.pkt.ack

OrderlyInv ==
    /\ CallsInv /\ OpenedInv /\ AckedOk
    /\ \A e \in Ends : BuffersOk(e) /\ SegmentsOk(e) /\ AcksOk(e)

\* What does not happen to an orderly end: it is not forced to close, and does not go back.
LEMMA OrderlySteps ==
    ASSUME Orderly, TypeOK, EarlyInv, LifeInv, [Next]_vars
    PROVE  /\ \A e \in Ends : (Early(e)' => Early(e)) /\ (Healthy(e)' => Healthy(e))
           /\ \A e \in Ends : ~ForceClose(e) /\ ~ForceCloseBegin(e) /\ ~ForceCloseFin(e)
           /\ \A e \in Ends : openPc[e] = "ok" => ~Early(e)
           /\ \A w \in Calls : ~WriteTimeout(w)
<1>1. /\ state \in [Ends -> {"NULL", "OPENING", "HALF_OPEN", "OPEN", "CLOSING", "CLOSE_WAIT", "CLOSED"}]
      /\ state' \in [Ends -> {"NULL", "OPENING", "HALF_OPEN", "OPEN", "CLOSING", "CLOSE_WAIT", "CLOSED"}]
  BY NextTyped DEF TypeOK
<1>2. \A e \in Ends : Stage[state'[e]] >= Stage[state[e]]
  BY StageKept DEF Orderly
<1>3. /\ Stage["NULL"] = 0 /\ Stage["OPENING"] = 1 /\ Stage["HALF_OPEN"] = 1 /\ Stage["OPEN"] = 2
      /\ Stage["CLOSING"] = 3 /\ Stage["CLOSE_WAIT"] = 3 /\ Stage["CLOSED"] = 4
  BY DEF Stage
<1>4. \A e \in Ends : (Early(e)' => Early(e)) /\ (Healthy(e)' => Healthy(e))
  BY <1>1, <1>2, <1>3 DEF Early, Healthy
<1>5. forced = 0
  BY DEF TypeOK, LifeInv, Orderly
<1>6. \A e \in Ends : ~ForceClose(e) /\ ~ForceCloseBegin(e) /\ ~ForceCloseFin(e)
  BY <1>5 DEF ForceClose, ForceCloseBegin, ForceCloseFin, MayForce, LifeInv, StatesFit, Orderly
<1>7. \A e \in Ends : openPc[e] = "ok" => ~Early(e)
  BY DEF LifeInv, StatesFit, Early
<1>. QED  BY <1>4, <1>6, <1>7 DEF WriteTimeout, Orderly

\* Only a call of Write moves a call of Write.
LEMMA WriteSteps ==
    ASSUME [Next]_vars
    PROVE  (\E w \in Calls : Writing(w)) \/ UNCHANGED writeVars
<1>1. CASE UNCHANGED vars
  BY <1>1 DEF vars
<1>2. CASE Opening \/ Accepting
  BY <1>2 DEF Opening, OpenRefused, OpenStart, OpenFinish, OpenAborted, OpenTimeout,
     Accepting, TakeSyn, HandleSyn, WaitForOpenStart, WaitForOpenFinish, WaitForOpenTimeout
<1>3. ASSUME NEW e \in Ends, Reading(e) \/ Closing(e) \/ Working(e) PROVE UNCHANGED writeVars
  BY <1>3 DEF Reading, ReadStart, ReadWait, ReadWake, ReadFails, ReadNothing, ReadData,
     Closing, CloseClosed, CloseAfterFin, CloseBegin, CloseFin, CloseDone,
     CloseTimeout, ForceClose, ForceCloseBegin, ForceCloseFin, Remove,
     Working, WriterSend, WriterExit, RetrySend
<1>4. ASSUME NEW p \in net, NEW l \in Links, Receiving(p, l) PROVE UNCHANGED writeVars
  BY <1>4 DEF Receiving, DropPacket, ReceiveAckOrData, ReceiveSynAck, ReceiveFin, ReceiveFinAck
<1>5. ASSUME NEW p \in net, QueueSyn(p) \/ Lose(p) \/ DropUnknown(p) PROVE UNCHANGED writeVars
  BY <1>5 DEF QueueSyn, Lose, DropUnknown
<1>6. ASSUME NEW h \in handling, Handle(h) PROVE UNCHANGED writeVars
  BY <1>6 DEF Handle, ThreeWayCheck, Establish, Recheck, AckCompare, AckSegments, AckBuffers,
     HandleData
<1>. QED  BY <1>1, <1>2, <1>3, <1>4, <1>5, <1>6 DEF Next

\* Only writerThread gives up writing.
LEMMA WriterExits ==
    ASSUME TypeOK, [Next]_vars, NEW e \in Ends, writer'[e] = "exited"
    PROVE  writer[e] = "exited" \/ WriterExit(e)
<1>. USE Numbers
<1>. writer \in [Ends -> {"idle", "running", "exited", "joined"}]
  BY DEF TypeOK
<1>1. CASE UNCHANGED vars
  BY <1>1 DEF vars
<1>2. CASE Opening \/ Accepting
  BY <1>2 DEF Opening, OpenRefused, OpenStart, OpenFinish, OpenAborted, OpenTimeout,
     Accepting, TakeSyn, HandleSyn, WaitForOpenStart, WaitForOpenFinish, WaitForOpenTimeout, workerVars
<1>3. ASSUME NEW w \in Calls, Writing(w) PROVE writer[e] = "exited"
  BY <1>3 DEF Writing, WriteStart, WriteAppend, WriteSpawn, WriteSpawnRefused, WriteFinish,
     WriteAborted, WriteTimeout, workerVars
<1>4. ASSUME NEW f \in Ends, Reading(f) \/ Closing(f) PROVE writer[e] = "exited"
  BY <1>4 DEF Reading, ReadStart, ReadWait, ReadWake, ReadFails, ReadNothing, ReadData,
     Closing, CloseClosed, CloseAfterFin, CloseBegin, CloseFin, CloseDone, CloseTimeout, ForceClose,
     ForceCloseBegin, ForceCloseFin, Remove, StopWorkerThreads, Joined, workerVars
<1>5. ASSUME NEW f \in Ends, Working(f) PROVE writer[e] = "exited" \/ WriterExit(e)
  <2>1. CASE WriterExit(f)
    <3>1. writer' = [writer EXCEPT ![f] = "exited"]
      BY <2>1 DEF WriterExit
    <3>. QED  BY <2>1, <3>1
  <2>. QED  BY <1>5, <2>1 DEF Working, WriterSend, RetrySend, workerVars
<1>6. ASSUME NEW p \in net, NEW l \in Links, Receiving(p, l) PROVE writer[e] = "exited"
  BY <1>6 DEF Receiving, DropPacket, ReceiveAckOrData, ReceiveSynAck, ReceiveFin, ReceiveFinAck,
     StopWorkerThreads, Joined, workerVars
<1>7. ASSUME NEW p \in net, QueueSyn(p) \/ Lose(p) \/ DropUnknown(p) PROVE writer[e] = "exited"
  BY <1>7 DEF QueueSyn, Lose, DropUnknown, workerVars
<1>8. ASSUME NEW h \in handling, Handle(h) PROVE writer[e] = "exited"
  BY <1>8 DEF Handle, ThreeWayCheck, Establish, Recheck, AckCompare, AckSegments, AckBuffers,
     HandleData, workerVars
<1>. QED  BY <1>1, <1>2, <1>3, <1>4, <1>5, <1>6, <1>7, <1>8 DEF Next

\* The calls of an orderly end do not overlap.
LEMMA CallsKept ==
    ASSUME Orderly
    PROVE  TypeOK /\ CallsInv /\ [Next]_vars => CallsInv'
<1>. SUFFICES ASSUME TypeOK, CallsInv, [Next]_vars PROVE CallsInv'
  OBVIOUS
<1>. USE Numbers
<1>. /\ writePc \in [Calls -> {"idle", "checked", "appended", "waiting", "ok", "failed"}]
     /\ mutex \in [Ends -> {"free", "close", "force"}]
     /\ closePc \in [Ends -> {"idle", "waiting", "woken", "done"}]
  BY DEF TypeOK
<1>1. ASSUME NEW w \in Calls, Writing(w) PROVE CallsInv'
  <2>1. UNCHANGED <<mutex, closePc>>
    BY <1>1, ControlKept
  <2>2. CASE WriteStart(w)
    <3>1. writePc' = [writePc EXCEPT ![w] = "checked"] /\ NoWrite(Caller[w]) /\ ~CloseBegun(Caller[w])
      BY <2>2 DEF WriteStart, Free, CloseBegun, Orderly
    <3>. QED  BY <2>1, <3>1 DEF CallsInv, NoWrite, Resting, CloseBegun
  <2>3. CASE ~WriteStart(w)
    <3>1. /\ ~Resting(w)
          /\ \E pc \in {"appended", "waiting", "ok", "failed"} : writePc' = [writePc EXCEPT ![w] = pc]
      BY <1>1, <2>3 DEF Writing, WriteAppend, WriteSpawn, WriteSpawnRefused, WriteFinish,
         WriteAborted, WriteTimeout, Resting
    <3>2. \A v \in Calls : ~Resting(v)' => ~Resting(v)
      BY <3>1 DEF Resting
    <3>. QED  BY <2>1, <3>2 DEF CallsInv, NoWrite, CloseBegun
  <2>. QED  BY <2>2, <2>3
<1>2. CASE UNCHANGED writePc
  <2>1. SUFFICES ASSUME NEW e \in Ends, CloseBegun(e)', ~CloseBegun(e) PROVE NoWrite(e)
    BY <1>2 DEF CallsInv, NoWrite, Resting
  <2>2. CASE UNCHANGED <<state, mutex, openPc, closePc, forced>>
    BY <2>1, <2>2 DEF CloseBegun
  <2>3. CASE Opening \/ Accepting
    BY <2>1, <2>3 DEF CloseBegun, Opening, OpenRefused, OpenStart, OpenFinish, OpenAborted, OpenTimeout,
       Accepting, TakeSyn, HandleSyn, WaitForOpenStart, WaitForOpenFinish, WaitForOpenTimeout
  <2>4. ASSUME NEW f \in Ends, Closing(f) PROVE NoWrite(e)
    BY <2>1, <2>4 DEF CloseBegun, Closing, CloseClosed, CloseAfterFin, CloseBegin, CloseFin, CloseDone,
       CloseTimeout, ForceClose, ForceCloseBegin, ForceCloseFin, Remove, MayClose, Orderly
  <2>5. ASSUME NEW p \in net, NEW l \in Links, ReceiveFin(p, l) \/ ReceiveFinAck(p, l)
        PROVE  NoWrite(e)
    BY <2>1, <2>5 DEF CloseBegun, ReceiveFin, ReceiveFinAck, WakeCloser
  <2>6. ASSUME NEW h \in handling, Establish(h) PROVE NoWrite(e)
    BY <2>1, <2>6 DEF CloseBegun, Establish
  <2>. QED  BY <2>2, <2>3, <2>4, <2>5, <2>6, ControlSteps DEF ControlStep
<1>. QED  BY <1>1, <1>2, WriteSteps

\* A packet that is being worked on was so before, has just arrived, or its handler has gone on.
LEMMA HandlerMoves ==
    ASSUME TypeOK, [Next]_vars, NEW g \in handling'
    PROVE  \/ g \in handling
           \/ \E p \in net, l \in Links :
                /\ ReceiveAckOrData(p, l)
                /\ g.link = l /\ g.pkt = p /\ g.pc = FirstStep(p.to, p.type)
           \/ \E h \in handling :
                /\ g.link = h.link /\ g.pkt = h.pkt
                /\ \/ g.pc = "establish" /\ ThreeWayCheck(h) /\ h.pkt.ack = cur_seq[h.pkt.to] + 1
                   \/ g.pc = "recheck" /\ h.pkt.type = "DATA" /\ (ThreeWayCheck(h) \/ Establish(h))
                   \/ g.pc = "data" /\ Recheck(h)
                   \/ g.pc = "segments" /\ AckCompare(h) /\ NewAck(h.pkt.to, h.pkt.ack)
                   \/ g.pc = "buffers" /\ AckSegments(h)
<1>1. CASE handling' = handling
  BY <1>1
<1>2. ASSUME NEW p \in net, NEW l \in Links, ReceiveAckOrData(p, l), g \notin handling
      PROVE  g.link = l /\ g.pkt = p /\ g.pc = FirstStep(p.to, p.type)
  BY <1>2 DEF ReceiveAckOrData
<1>3. ASSUME NEW h \in handling, Handle(h), g \notin handling
      PROVE  /\ g.link = h.link /\ g.pkt = h.pkt
             /\ \/ g.pc = "establish" /\ ThreeWayCheck(h) /\ h.pkt.ack = cur_seq[h.pkt.to] + 1
                \/ g.pc = "recheck" /\ h.pkt.type = "DATA" /\ (ThreeWayCheck(h) \/ Establish(h))
                \/ g.pc = "data" /\ Recheck(h)
                \/ g.pc = "segments" /\ AckCompare(h) /\ NewAck(h.pkt.to, h.pkt.ack)
                \/ g.pc = "buffers" /\ AckSegments(h)
  <2>1. h \in Handling
    BY DEF TypeOK
  <2>2. \A pc : /\ [h EXCEPT !.pc = pc].pkt = h.pkt /\ [h EXCEPT !.pc = pc].pc = pc
                /\ [h EXCEPT !.pc = pc].link = h.link
    BY <2>1 DEF Handling
  <2>3. ~Done(h)
    BY <1>3 DEF Done
  <2>4. ASSUME NEW pc, Advance(h, pc) PROVE g.link = h.link /\ g.pkt = h.pkt /\ g.pc = pc
    <3>. DEFINE r == [h EXCEPT !.pc = pc]
    <3>1. r.link = h.link /\ r.pkt = h.pkt /\ r.pc = pc
      BY <2>2
    <3>2. handling' = (handling \ {h}) \cup {r}
      BY <2>4 DEF Advance
    <3>. HIDE DEF r
    <3>3. g = r
      BY <1>3, <3>2
    <3>. QED  BY <3>1, <3>3
  <2>5. CASE ThreeWayCheck(h)
    <3>1. \/ h.pkt.ack = cur_seq[h.pkt.to] + 1 /\ Advance(h, "establish")
          \/ h.pkt.type = "DATA" /\ Advance(h, "recheck")
      BY <2>3, <2>5 DEF ThreeWayCheck, AfterThreeWay
    <3>. QED  BY <2>4, <2>5, <3>1
  <2>6. CASE Establish(h)
    <3>1. h.pkt.type = "DATA" /\ Advance(h, "recheck")
      BY <2>3, <2>6 DEF Establish, AfterThreeWay
    <3>. QED  BY <2>4, <2>6, <3>1
  <2>7. CASE Recheck(h)
    BY <2>3, <2>4, <2>7 DEF Recheck
  <2>8. CASE AckCompare(h)
    BY <2>3, <2>4, <2>8 DEF AckCompare
  <2>9. CASE AckSegments(h)
    BY <2>4, <2>9 DEF AckSegments
  <2>10. ~AckBuffers(h) /\ ~HandleData(h)
    BY <2>3 DEF AckBuffers, HandleData
  <2>. QED  BY <1>3, <2>5, <2>6, <2>7, <2>8, <2>9, <2>10 DEF Handle
<1>4. CASE \E p \in net, l \in Links : ReceiveAckOrData(p, l)
  BY <1>2, <1>4
<1>5. CASE \E h \in handling : Handle(h)
  BY <1>3, <1>5
<1>. QED  BY <1>1, <1>4, <1>5, HandlerSteps

\* What moves the numbers of a send window.
LEMMA NumberSteps ==
    ASSUME [Next]_vars
    PROVE  \/ OpenFinish
           \/ \E h \in handling : Establish(h) \/ AckSegments(h)
           \/ \E w \in Calls : WriteAppend(w)
           \/ \E e \in Ends : WriterSend(e)
           \/ UNCHANGED <<cur_seq, nextBufferIndex, currBufferIndex, currBufferOffset>>
<1>1. CASE UNCHANGED vars
  BY <1>1 DEF vars
<1>2. CASE Accepting \/ OpenRefused \/ OpenStart \/ OpenAborted \/ OpenTimeout
  BY <1>2 DEF OpenRefused, OpenStart, OpenAborted, OpenTimeout,
     Accepting, TakeSyn, HandleSyn, WaitForOpenStart, WaitForOpenFinish, WaitForOpenTimeout
<1>3. ASSUME NEW w \in Calls, Writing(w), ~WriteAppend(w)
      PROVE  UNCHANGED <<cur_seq, nextBufferIndex, currBufferIndex, currBufferOffset>>
  BY <1>3 DEF Writing, WriteStart, WriteSpawn, WriteSpawnRefused, WriteFinish,
     WriteAborted, WriteTimeout, CancelFromBuffers
<1>4. ASSUME NEW e \in Ends, Reading(e) \/ Closing(e) \/ Working(e), ~WriterSend(e)
      PROVE  UNCHANGED <<cur_seq, nextBufferIndex, currBufferIndex, currBufferOffset>>
  BY <1>4 DEF Reading, ReadStart, ReadWait, ReadWake, ReadFails, ReadNothing, ReadData,
     Closing, CloseClosed, CloseAfterFin, CloseBegin, CloseFin, CloseDone, Abort, Clear,
     CloseTimeout, ForceClose, ForceCloseBegin, ForceCloseFin, Remove,
     Working, WriterExit, RetrySend
<1>5. ASSUME NEW p \in net, NEW l \in Links, Receiving(p, l)
      PROVE  UNCHANGED <<cur_seq, nextBufferIndex, currBufferIndex, currBufferOffset>>
  BY <1>5 DEF Receiving, DropPacket, ReceiveAckOrData, ReceiveSynAck, ReceiveFin, ReceiveFinAck, Clear
<1>6. ASSUME NEW p \in net, QueueSyn(p) \/ Lose(p) \/ DropUnknown(p)
      PROVE  UNCHANGED <<cur_seq, nextBufferIndex, currBufferIndex, currBufferOffset>>
  BY <1>6 DEF QueueSyn, Lose, DropUnknown
<1>7. ASSUME NEW h \in handling, Handle(h), ~Establish(h), ~AckSegments(h)
      PROVE  UNCHANGED <<cur_seq, nextBufferIndex, currBufferIndex, currBufferOffset>>
  BY <1>7 DEF Handle, ThreeWayCheck, Recheck, AckCompare, AckBuffers, HandleData
<1>. QED  BY <1>1, <1>2, <1>3, <1>4, <1>5, <1>6, <1>7 DEF Next, Opening

\* A tunnel that is not forced to close is opened by the SYN_ACK or the last packet of the handshake.
LEMMA EarlyEnds ==
    ASSUME Orderly, TypeOK, EarlyInv, LifeInv, [Next]_vars, NEW e \in Ends, Early(e), ~Early(e)'
    PROVE  (e = Client /\ OpenFinish) \/ \E h \in handling : Establish(h) /\ h.pkt.to = e
<1>. USE Numbers
<1>. state \in [Ends -> {"NULL", "OPENING", "HALF_OPEN", "OPEN", "CLOSING", "CLOSE_WAIT", "CLOSED"}]
  BY DEF TypeOK
<1>0. openPc[e] # "ok"
  BY OrderlySteps
<1>1. CASE UNCHANGED <<state, mutex, openPc, closePc, forced>>
  BY <1>1 DEF Early
<1>2. CASE Opening
  BY <1>2 DEF Early, Opening, OpenRefused, OpenStart, OpenFinish, OpenAborted, OpenTimeout
<1>3. CASE Accepting
  BY <1>3 DEF Early, Accepting, TakeSyn, HandleSyn, WaitForOpenStart, WaitForOpenFinish,
     WaitForOpenTimeout
<1>4. ASSUME NEW f \in Ends, Closing(f) PROVE FALSE
  <2>1. closePc[e] = "idle" /\ mutex[e] # "close"
    BY <1>0 DEF EarlyInv, Callers
  <2>. QED  BY <1>0, <1>4, <2>1, OrderlySteps DEF Early, Closing, CloseClosed, CloseAfterFin, CloseBegin,
            CloseFin, CloseDone, CloseTimeout, Remove, MayClose
<1>5. ASSUME NEW p \in net, NEW l \in Links, ReceiveFin(p, l) \/ ReceiveFinAck(p, l) PROVE FALSE
  BY <1>5 DEF Early, ReceiveFin, ReceiveFinAck, Accepts
<1>6. ASSUME NEW h \in handling, Establish(h) PROVE h.pkt.to = e
  <2>1. h.pkt.to \in Ends
    BY HandledPacket, TypeGroups
  <2>. QED  BY <1>6, <2>1 DEF Early, Establish
<1>. QED  BY <1>1, <1>2, <1>3, <1>4, <1>5, <1>6, ControlSteps DEF ControlStep

\* One turn of writerThread: `len' bytes of buffer b are cut off at Pos.
WriterSent(e, b, len) ==
    /\ b.head_seq = currBufferIndex[e] /\ Pos(e) < nextBufferIndex[e]
    /\ InsertSegment(e, [type |-> "DATA", seq |-> Pos(e), len |-> len, head |-> currBufferIndex[e],
                         round |-> 0])
    /\ net' = net \cup {PacketOf(e, "DATA", Pos(e), cur_ack[e], len)}
    /\ AdvanceWriter(e, b, len)
    /\ Pos(e)' = Pos(e) + len
    /\ currBufferOffset[e] < b.size => len > 0 /\ currBufferOffset[e] + len <= b.size

\* writerThread sends a part of a buffer, and stands behind it then.
LEMMA WriterSends ==
    ASSUME TypeOK, EarlyInv, NEW e \in Ends, WriterSend(e)
    PROVE  /\ \E b \in sendBuffers[e] : \E len \in Nat : WriterSent(e, b, len)
           /\ openPc[e] = "ok" /\ \A f \in Ends \ {e} : Pos(f)' = Pos(f)
           /\ UNCHANGED <<state, cur_seq, sendBuffers, nextBufferIndex, cur_ack, openPc, closePc, mutex,
                          writeVars, handling>>
<1>. USE Numbers
<1>. /\ currBufferIndex \in [Ends -> Nat] /\ nextBufferIndex \in [Ends -> Nat]
     /\ currBufferOffset \in [Ends -> Nat] /\ sendBuffers \in [Ends -> SUBSET Buffer]
  BY DEF TypeOK
<1>1. PICK b \in sendBuffers[e] :
        /\ b.head_seq = currBufferIndex[e]
        /\ LET left == b.size - currBufferOffset[e]
               len == IF left \in 0 .. SegmentSize THEN left ELSE SegmentSize
               seq == currBufferIndex[e] + currBufferOffset[e]
           IN  /\ InsertSegment(e, [type |-> "DATA", seq |-> seq, len |-> len,
                                    head |-> currBufferIndex[e], round |-> 0])
               /\ AdvanceWriter(e, b, len)
               /\ net' = net \cup {PacketOf(e, "DATA", seq, cur_ack[e], len)}
  BY DEF WriterSend
<1>2. UNCHANGED <<state, cur_seq, sendBuffers, nextBufferIndex, cur_ack, openPc, closePc, mutex,
                  writeVars, handling>>
  BY DEF WriterSend
<1>3. openPc[e] = "ok" /\ Pos(e) < nextBufferIndex[e]
  <2>1. writer[e] = "running" /\ isAvailableBufferToSend(e)
    BY DEF WriterSend
  <2>. QED  BY <2>1 DEF EarlyInv, Callers, isAvailableBufferToSend, Pos
<1>4. b.size \in Nat
  BY DEF Buffer
<1>. DEFINE left == b.size - currBufferOffset[e]
            len == IF left \in 0 .. SegmentSize THEN left ELSE SegmentSize
<1>5. len \in Nat /\ (currBufferOffset[e] < b.size => len > 0 /\ currBufferOffset[e] + len <= b.size)
  BY <1>4
<1>6. /\ InsertSegment(e, [type |-> "DATA", seq |-> Pos(e), len |-> len, head |-> currBufferIndex[e],
                           round |-> 0])
      /\ net' = net \cup {PacketOf(e, "DATA", Pos(e), cur_ack[e], len)}
      /\ AdvanceWriter(e, b, len)
  BY <1>1 DEF Pos
<1>. HIDE DEF left, len
<1>7. Pos(e)' = Pos(e) + len /\ \A f \in Ends \ {e} : Pos(f)' = Pos(f)
  <2>1. CASE currBufferOffset[e] + len = b.size
    BY <1>4, <1>5, <1>6, <2>1 DEF AdvanceWriter, Pos
  <2>2. CASE currBufferOffset[e] + len # b.size
    BY <1>4, <1>5, <1>6, <2>2 DEF AdvanceWriter, Pos
  <2>. QED  BY <2>1, <2>2
<1>8. WriterSent(e, b, len)
  BY <1>1, <1>3, <1>5, <1>6, <1>7 DEF WriterSent
<1>. QED  BY <1>2, <1>3, <1>5, <1>7, <1>8

\* A window that is opened starts from the number after its SYN.
LEMMA FirstNumbers ==
    ASSUME TypeOK, OpenedInv, LifeInv, Orderly, NEW e \in Ends,
           (e = Client /\ OpenFinish) \/ \E h \in handling : Establish(h) /\ h.pkt.to = e
    PROVE  Early(e) /\ FirstSequence(e, ISN[e] + 1)
<1>. USE Numbers
<1>1. CASE e = Client /\ OpenFinish
  <2>1. Early(Client)
    BY <1>1 DEF OpenFinish, Early
  <2>2. PICK p \in openQueue : p.ack = cur_seq[Client] + 1 /\ FirstSequence(Client, p.ack)
    BY <1>1 DEF OpenFinish
  <2>. QED  BY <1>1, <2>1, <2>2 DEF OpenedInv
<1>2. ASSUME NEW h \in handling, Establish(h), h.pkt.to = e
      PROVE  Early(e) /\ FirstSequence(e, ISN[e] + 1)
  <2>1. forced = 0
    BY DEF TypeOK, LifeInv, Orderly
  <2>2. h.pc = "establish" /\ FirstSequence(e, h.pkt.ack)
    BY <1>2 DEF Establish
  <2>3. state[e] = "HALF_OPEN"
    BY <1>2, <2>1, <2>2 DEF LifeInv, HandlerOpens, HalfOpen
  <2>. QED  BY <1>2, <2>2, <2>3 DEF OpenedInv, Early
<1>. QED  BY <1>1, <1>2

\* AppendToBuffers moves the writer to the last number or not at all.
LEMMA Appended ==
    ASSUME TypeOK, EarlyInv, NEW w \in Calls, WriteAppend(w)
    PROVE  LET e == Caller[w] IN
           /\ writePc[w] = "checked" /\ openPc[e] = "ok"
           /\ UNCHANGED <<state, mutex, openPc, closePc, segmentVars, cur_seq, cur_ack, net, handling>>
           /\ \A f \in Ends \ {e} :
                sendBuffers'[f] = sendBuffers[f] /\ nextBufferIndex'[f] = nextBufferIndex[f]
                /\ currBufferIndex'[f] = currBufferIndex[f]
           /\ currBufferOffset' = currBufferOffset
           /\ \/ /\ \E b \in sendBuffers[e] : b.head_seq = nextBufferIndex[e]
                 /\ sendBuffers' = sendBuffers /\ nextBufferIndex' = nextBufferIndex
                 /\ currBufferIndex' = currBufferIndex
                 /\ writePc' = [writePc EXCEPT ![w] = "failed"] /\ writeIndex' = writeIndex
              \/ /\ sendBuffers'[e] = sendBuffers[e] \cup
                        {[head_seq |-> nextBufferIndex[e], size |-> Size[w], aborted |-> FALSE]}
                 /\ nextBufferIndex'[e] = nextBufferIndex[e] + Size[w]
                 /\ currBufferIndex'[e] \in {currBufferIndex[e], nextBufferIndex[e]}
                 /\ writePc' = [writePc EXCEPT ![w] = "appended"]
                 /\ writeIndex' = [writeIndex EXCEPT ![w] = nextBufferIndex[e]]
<1>. USE Numbers
<1>. /\ currBufferIndex \in [Ends -> Nat] /\ nextBufferIndex \in [Ends -> Nat]
     /\ sendBuffers \in [Ends -> SUBSET Buffer]
  BY DEF TypeOK
<1>1. writePc[w] = "checked" /\ openPc[Caller[w]] = "ok"
  BY DEF WriteAppend, EarlyInv, Callers
<1>2. UNCHANGED <<state, mutex, openPc, closePc, segmentVars, cur_seq, cur_ack, net, handling>>
  BY DEF WriteAppend
<1>3. CASE \E b \in sendBuffers[Caller[w]] : b.head_seq = nextBufferIndex[Caller[w]]
  BY <1>1, <1>2, <1>3 DEF WriteAppend
<1>4. CASE ~\E b \in sendBuffers[Caller[w]] : b.head_seq = nextBufferIndex[Caller[w]]
  <2>1. /\ AppendToBuffers(Caller[w], Size[w])
        /\ writeIndex' = [writeIndex EXCEPT ![w] = nextBufferIndex[Caller[w]]]
        /\ writePc' = [writePc EXCEPT ![w] = "appended"]
    BY <1>4 DEF WriteAppend
  <2>. QED  BY <1>1, <1>2, <2>1 DEF AppendToBuffers
<1>. QED  BY <1>3, <1>4

\* The place of writerThread is a number, before and after a step.
LEMMA PosTyped ==
    ASSUME TypeOK, [Next]_vars
    PROVE  \A e \in Ends : Pos(e) \in Nat /\ Pos(e)' \in Nat
<1>1. currBufferIndex \in [Ends -> Nat] /\ currBufferOffset \in [Ends -> Nat]
  BY DEF TypeOK
<1>2. currBufferIndex' \in [Ends -> Nat] /\ currBufferOffset' \in [Ends -> Nat]
  BY NextTyped DEF TypeOK
<1>. QED  BY <1>1, <1>2 DEF Pos

\* The numbers of a window are set when its tunnel opens, and only grow.
LEMMA OpenedKept ==
    ASSUME Orderly
    PROVE  TypeOK /\ EarlyInv /\ LifeInv /\ OpenedInv /\ [Next]_vars => OpenedInv'
<1>. SUFFICES ASSUME TypeOK, EarlyInv, LifeInv, OpenedInv, [Next]_vars PROVE OpenedInv'
  OBVIOUS
<1>. USE Numbers
<1>. /\ currBufferIndex \in [Ends -> Nat] /\ nextBufferIndex \in [Ends -> Nat]
     /\ currBufferOffset \in [Ends -> Nat] /\ cur_seq \in [Ends -> Nat]
  BY DEF TypeOK
<1>. \A e \in Ends : Pos(e) \in Nat /\ Pos(e)' \in Nat
  BY PosTyped
<1>0. /\ \A e \in Ends : (Early(e)' => Early(e)) /\ (openPc[e] = "ok" => ~Early(e))
      /\ \A h \in handling : h.pkt.to \in Ends
  BY OrderlySteps, HandledPacket, TypeGroups
<1>1. ASSUME NEW e \in Ends
      PROVE  IF Early(e)' THEN nextBufferIndex'[e] = 0 /\ cur_seq'[e] = ISN[e]
             ELSE nextBufferIndex'[e] > ISN[e] /\ Pos(e)' > ISN[e]
  <2>1. CASE (e = Client /\ OpenFinish) \/ \E h \in handling : Establish(h) /\ h.pkt.to = e
    <3>1. FirstSequence(e, ISN[e] + 1)
      BY <2>1, FirstNumbers
    <3>2. ~Early(e)'
      <4>. state \in [Ends -> {"NULL", "OPENING", "HALF_OPEN", "OPEN", "CLOSING", "CLOSE_WAIT", "CLOSED"}]
        BY DEF TypeOK
      <4>. QED  BY <2>1 DEF OpenFinish, Establish, Early
    <3>3. /\ nextBufferIndex'[e] = ISN[e] + 1 /\ currBufferIndex'[e] = ISN[e] + 1
          /\ currBufferOffset' = currBufferOffset
      BY <3>1 DEF FirstSequence
    <3>. QED  BY <3>2, <3>3 DEF Pos
  <2>2. CASE ~((e = Client /\ OpenFinish) \/ \E h \in handling : Establish(h) /\ h.pkt.to = e)
    <3>1. Early(e)' <=> Early(e)
      BY <1>0, <2>2, EarlyEnds
    <3>2. CASE UNCHANGED <<cur_seq, nextBufferIndex, currBufferIndex, currBufferOffset>>
      BY <3>1, <3>2 DEF OpenedInv, Pos
    <3>3. CASE OpenFinish
      <4>1. FirstSequence(Client, ISN[Client] + 1) /\ e # Client
        BY <2>2, <3>3, FirstNumbers
      <4>. QED  BY <3>1, <4>1 DEF FirstSequence, OpenedInv, Pos
    <3>4. ASSUME NEW h \in handling, Establish(h)
          PROVE  IF Early(e)' THEN nextBufferIndex'[e] = 0 /\ cur_seq'[e] = ISN[e]
                 ELSE nextBufferIndex'[e] > ISN[e] /\ Pos(e)' > ISN[e]
      <4>1. FirstSequence(h.pkt.to, h.pkt.ack) /\ e # h.pkt.to
        BY <2>2, <3>4 DEF Establish
      <4>. QED  BY <3>1, <4>1 DEF FirstSequence, OpenedInv, Pos
    <3>5. ASSUME NEW h \in handling, AckSegments(h)
          PROVE  IF Early(e)' THEN nextBufferIndex'[e] = 0 /\ cur_seq'[e] = ISN[e]
                 ELSE nextBufferIndex'[e] > ISN[e] /\ Pos(e)' > ISN[e]
      <4>1. /\ h.pc = "segments" /\ cur_seq' = [cur_seq EXCEPT ![h.pkt.to] = h.pkt.ack]
            /\ UNCHANGED <<nextBufferIndex, currBufferIndex, currBufferOffset>>
        BY <3>5 DEF AckSegments
      <4>2. ~Early(h.pkt.to)
        BY <4>1 DEF OpenedInv
      <4>. QED  BY <3>1, <4>1, <4>2 DEF OpenedInv, Pos
    <3>6. ASSUME NEW w \in Calls, WriteAppend(w)
          PROVE  IF Early(e)' THEN nextBufferIndex'[e] = 0 /\ cur_seq'[e] = ISN[e]
                 ELSE nextBufferIndex'[e] > ISN[e] /\ Pos(e)' > ISN[e]
      <4>1. cur_seq' = cur_seq /\ currBufferOffset' = currBufferOffset
        BY <3>6, Appended
      <4>2. CASE e # Caller[w]
        <5>1. nextBufferIndex'[e] = nextBufferIndex[e] /\ currBufferIndex'[e] = currBufferIndex[e]
          BY <3>6, <4>2, Appended
        <5>. QED  BY <3>1, <4>1, <5>1 DEF OpenedInv, Pos
      <4>3. CASE e = Caller[w]
        <5>1. ~Early(e)
          BY <1>0, <3>6, <4>3, Appended
        <5>2. /\ nextBufferIndex'[e] \in {nextBufferIndex[e], nextBufferIndex[e] + Size[w]}
              /\ currBufferIndex'[e] \in {currBufferIndex[e], nextBufferIndex[e]}
          BY <3>6, <4>3, Appended
        <5>. QED  BY <3>1, <4>1, <5>1, <5>2 DEF OpenedInv, Pos
      <4>. QED  BY <4>2, <4>3
    <3>7. ASSUME NEW f \in Ends, WriterSend(f)
          PROVE  IF Early(e)' THEN nextBufferIndex'[e] = 0 /\ cur_seq'[e] = ISN[e]
                 ELSE nextBufferIndex'[e] > ISN[e] /\ Pos(e)' > ISN[e]
      <4>1. /\ UNCHANGED <<cur_seq, nextBufferIndex>> /\ Pos(e)' >= Pos(e)
        <5>1. PICK b \in sendBuffers[f] : \E len \in Nat : WriterSent(f, b, len)
          BY <3>7, WriterSends
        <5>2. PICK len \in Nat : WriterSent(f, b, len)
          BY <5>1
        <5>3. Pos(f)' = Pos(f) + len
          BY <5>2 DEF WriterSent
        <5>4. \A g \in Ends \ {f} : Pos(g)' = Pos(g)
          BY <3>7, WriterSends
        <5>5. Pos(e)' >= Pos(e)
          BY <5>3, <5>4
        <5>. QED  BY <3>7, <5>5, WriterSends
      <4>. QED  BY <3>1, <4>1 DEF OpenedInv
    <3>. QED  BY <3>2, <3>3, <3>4, <3>5, <3>6, <3>7, NumberSteps
  <2>. QED  BY <2>1, <2>2
<1>2. ASSUME NEW g \in handling'
      PROVE  /\ g.pc = "establish" => g.pkt.ack = ISN[g.pkt.to] + 1
             /\ g.pc \in {"ack", "segments", "buffers"} => ~Early(g.pkt.to)'
  <2>1. CASE g \in handling
    BY <1>0, <2>1 DEF OpenedInv
  <2>2. ASSUME NEW p \in net, NEW l \in Links, ReceiveAckOrData(p, l), g.pkt = p,
               g.pc = FirstStep(p.to, p.type)
        PROVE  /\ g.pc = "establish" => g.pkt.ack = ISN[g.pkt.to] + 1
               /\ g.pc \in {"ack", "segments", "buffers"} => ~Early(g.pkt.to)'
    <3>1. p.to \in Ends
      BY DEF TypeOK, Packet
    <3>2. g.pc # "establish" /\ (g.pc \in {"ack", "segments", "buffers"} => ~Early(p.to))
      BY <2>2 DEF ReceiveAckOrData, FirstStep, Accepts, Early
    <3>. QED  BY <1>0, <2>2, <3>1, <3>2
  <2>3. ASSUME NEW h \in handling, g.pkt = h.pkt, g.pc \in {"establish", "segments", "buffers"},
               \/ g.pc = "establish" /\ ThreeWayCheck(h) /\ h.pkt.ack = cur_seq[h.pkt.to] + 1
               \/ AckCompare(h) /\ g.pc = "segments"
               \/ AckSegments(h) /\ g.pc = "buffers"
        PROVE  /\ g.pc = "establish" => g.pkt.ack = ISN[g.pkt.to] + 1
               /\ g.pc \in {"ack", "segments", "buffers"} => ~Early(g.pkt.to)'
    <3>1. CASE ThreeWayCheck(h) /\ h.pkt.ack = cur_seq[h.pkt.to] + 1
      <4>1. forced = 0 /\ h.pc = "threeway"
        BY <3>1 DEF TypeOK, LifeInv, Orderly, ThreeWayCheck
      <4>2. Early(h.pkt.to)
        BY <4>1 DEF LifeInv, HandlerOpens, HalfOpen, Early
      <4>3. cur_seq[h.pkt.to] = ISN[h.pkt.to]
        BY <1>0, <4>2 DEF OpenedInv
      <4>. QED  BY <2>3, <3>1, <4>1, <4>3 DEF AckCompare, AckSegments
    <3>2. CASE AckCompare(h) \/ AckSegments(h)
      BY <1>0, <2>3, <3>2 DEF OpenedInv, AckCompare, AckSegments, ThreeWayCheck
    <3>. QED  BY <2>3, <3>1, <3>2
  <2>4. CASE g.pc \in {"recheck", "data"}
    BY <2>4
  <2>5. \/ g \in handling
        \/ \E p \in net, l \in Links :
              ReceiveAckOrData(p, l) /\ g.pkt = p /\ g.pc = FirstStep(p.to, p.type)
        \/ g.pc \in {"recheck", "data"}
        \/ \E h \in handling :
              /\ g.pkt = h.pkt /\ g.pc \in {"establish", "segments", "buffers"}
              /\ \/ g.pc = "establish" /\ ThreeWayCheck(h) /\ h.pkt.ack = cur_seq[h.pkt.to] + 1
                 \/ AckCompare(h) /\ g.pc = "segments"
                 \/ AckSegments(h) /\ g.pc = "buffers"
    BY HandlerMoves
  <2>6. CASE \E h \in handling :
              /\ g.pkt = h.pkt /\ g.pc \in {"establish", "segments", "buffers"}
              /\ \/ g.pc = "establish" /\ ThreeWayCheck(h) /\ h.pkt.ack = cur_seq[h.pkt.to] + 1
                 \/ AckCompare(h) /\ g.pc = "segments"
                 \/ AckSegments(h) /\ g.pc = "buffers"
    BY <2>3, <2>6
  <2>7. CASE \E p \in net, l \in Links :
              ReceiveAckOrData(p, l) /\ g.pkt = p /\ g.pc = FirstStep(p.to, p.type)
    <3>1. PICK p \in net, l \in Links :
              ReceiveAckOrData(p, l) /\ g.pkt = p /\ g.pc = FirstStep(p.to, p.type)
      BY <2>7
    <3>. QED  BY <3>1, <2>2
  <2>. QED  BY <2>1, <2>4, <2>5, <2>6, <2>7
<1>. QED  BY <1>1, <1>2 DEF OpenedInv

\* Who sends a packet, and what it acknowledges: what its sender has received, before or after the step.
NewPacket(p, f) ==
    /\ p.to = Peer(f)
    /\ \/ p.type = "SYN" /\ f = Client /\ OpenStart /\ p.ack = cur_ack[f]
       \/ p.type = "ACK" /\ f = Client /\ OpenFinish /\ p.ack = cur_ack'[f]
       \/ p.type = "SYN_ACK" /\ f = Server /\ HandleSyn /\ p.ack = cur_ack'[f]
       \/ /\ WriterSend(f) /\ p.ack = cur_ack[f] /\ p.type = "DATA"
          /\ \E s \in retrySegments'[f] : s.type = "DATA" /\ p.len = s.len
       \/ /\ \E s \in retrySegments[f] :
                RetrySend(f, s) /\ p.type = s.type /\ p.seq = s.seq /\ p.len = s.len
          /\ p.ack = cur_ack[f]
       \/ /\ CloseFin(f) \/ ForceCloseFin(f)
          /\ p.type = "FIN" /\ p.seq = cur_seq[f] /\ p.ack = cur_ack[f]
       \/ /\ \E q \in net, l \in Links : ReceiveFin(q, l) /\ q.to = f /\ p.ack = q.seq + 1
          /\ p.type = "FIN_ACK" /\ p.ack = cur_ack'[f]
       \/ /\ \E h \in handling : HandleData(h) /\ h.pkt.to = f
          /\ p.type = "ACK" /\ p.ack = cur_ack'[f]

\* Every packet was under way before, or its sender has just sent it.
LEMMA NewPackets ==
    ASSUME TypeOK, [Next]_vars, NEW p \in net'
    PROVE  p \in net \/ \E f \in Ends : NewPacket(p, f)
<1>. SUFFICES ASSUME p \notin net PROVE \E f \in Ends : NewPacket(p, f)
  OBVIOUS
<1>. USE Numbers
<1>. cur_ack \in [Ends -> Nat] /\ retrySegments \in [Ends -> SUBSET Segment]
  BY DEF TypeOK
<1>1. CASE OpenStart
  <2>1. p = PacketOf(Client, "SYN", cur_seq[Client], cur_ack[Client], 0)
    BY <1>1 DEF OpenStart
  <2>. QED  BY <1>1, <2>1 DEF PacketOf, NewPacket
<1>2. CASE OpenFinish
  <2>1. PICK q \in openQueue :
            ExpectFrom(Client, q.seq) /\ net' = net \cup {PacketOf(Client, "ACK", q.ack, q.seq + 1, 0)}
    BY <1>2 DEF OpenFinish
  <2>2. p = PacketOf(Client, "ACK", q.ack, q.seq + 1, 0) /\ cur_ack'[Client] = q.seq + 1
    BY <2>1 DEF ExpectFrom
  <2>. QED  BY <1>2, <2>2 DEF PacketOf, NewPacket
<1>3. CASE HandleSyn
  BY <1>3 DEF HandleSyn, ExpectFrom, PacketOf, NewPacket
<1>4. ASSUME NEW e \in Ends, WriterSend(e) PROVE NewPacket(p, e)
  <2>1. PICK len, seq, index :
            /\ InsertSegment(e, [type |-> "DATA", seq |-> seq, len |-> len, head |-> index, round |-> 0])
            /\ net' = net \cup {PacketOf(e, "DATA", seq, cur_ack[e], len)}
    BY <1>4 DEF WriterSend
  <2>2. p = PacketOf(e, "DATA", seq, cur_ack[e], len)
    BY <2>1
  <2>3. \E s \in retrySegments'[e] : s.type = "DATA" /\ len = s.len
    <3>. DEFINE seg == [type |-> "DATA", seq |-> seq, len |-> len, head |-> index, round |-> 0]
    <3>1. seg.type = "DATA" /\ seg.len = len /\ retrySegments' = [retrySegments EXCEPT ![e] = @ \cup {seg}]
      BY <2>1 DEF InsertSegment
    <3>. HIDE DEF seg
    <3>2. seg \in retrySegments'[e]
      BY <3>1
    <3>. QED  BY <3>1, <3>2
  <2>. QED  BY <1>4, <2>2, <2>3 DEF PacketOf, NewPacket
<1>5. ASSUME NEW e \in Ends, NEW s \in retrySegments[e], RetrySend(e, s) PROVE NewPacket(p, e)
  <2>1. p = PacketOf(e, s.type, s.seq, cur_ack[e], s.len)
    BY <1>5 DEF RetrySend
  <2>. QED  BY <1>5, <2>1 DEF PacketOf, NewPacket
<1>6. ASSUME NEW e \in Ends, CloseFin(e) \/ ForceCloseFin(e) PROVE NewPacket(p, e)
  <2>1. p = PacketOf(e, "FIN", cur_seq[e], cur_ack[e], 0)
    BY <1>6 DEF CloseFin, ForceCloseFin, SendFin
  <2>. QED  BY <1>6, <2>1 DEF PacketOf, NewPacket
<1>7. ASSUME NEW q \in net, NEW l \in Links, ReceiveFin(q, l) PROVE \E f \in Ends : NewPacket(p, f)
  <2>1. q.to \in Ends
    BY DEF TypeOK, Packet
  <2>2. p = PacketOf(q.to, "FIN_ACK", cur_seq[q.to], q.seq + 1, 0) /\ cur_ack'[q.to] = q.seq + 1
    BY <1>7, <2>1 DEF ReceiveFin
  <2>. QED  BY <1>7, <2>1, <2>2 DEF PacketOf, NewPacket
<1>8. ASSUME NEW h \in handling, HandleData(h) PROVE \E f \in Ends : NewPacket(p, f)
  <2>1. h.pkt.to \in Ends
    BY HandledPacket, TypeGroups
  <2>2. p = PacketOf(h.pkt.to, "ACK", cur_seq[h.pkt.to], cur_ack'[h.pkt.to], 0)
    BY <1>8 DEF HandleData
  <2>. QED  BY <1>8, <2>1, <2>2 DEF PacketOf, NewPacket
<1>9. CASE UNCHANGED vars
  BY <1>9 DEF vars
<1>10. ~(OpenRefused \/ OpenAborted \/ OpenTimeout \/ TakeSyn \/ WaitForOpenStart
         \/ WaitForOpenFinish \/ WaitForOpenTimeout)
  BY DEF OpenRefused, OpenAborted, OpenTimeout, TakeSyn, WaitForOpenStart, WaitForOpenFinish,
     WaitForOpenTimeout
<1>11. ASSUME NEW w \in Calls PROVE ~Writing(w)
  <2>1. Writing(w) => net' = net \/ CancelDataPackets(Caller[w])
    BY DEF Writing, WriteStart, WriteAppend, WriteSpawn, WriteSpawnRefused, WriteFinish,
       WriteAborted, WriteTimeout
  <2>. QED  BY <2>1, WindowShrinks
<1>12. ASSUME NEW e \in Ends
       PROVE  /\ ~Reading(e) /\ ~WriterExit(e)
              /\ Closing(e) => CloseFin(e) \/ ForceCloseFin(e)
  BY DEF Reading, ReadStart, ReadWait, ReadWake, ReadFails, ReadNothing, ReadData, WriterExit,
     Closing, CloseClosed, CloseAfterFin, CloseBegin, CloseDone, CloseTimeout, ForceClose,
     ForceCloseBegin, Remove
<1>13. ASSUME NEW q \in net
       PROVE  /\ ~QueueSyn(q) /\ ~Lose(q) /\ ~DropUnknown(q)
              /\ \A l \in Links : Receiving(q, l) => ReceiveFin(q, l)
  BY DEF QueueSyn, Lose, DropUnknown, Receiving, DropPacket, ReceiveAckOrData, ReceiveSynAck,
     ReceiveFinAck
<1>14. ASSUME NEW h \in handling PROVE Handle(h) => HandleData(h)
  BY DEF Handle, ThreeWayCheck, Establish, Recheck, AckCompare, AckSegments, AckBuffers
<1>. QED  BY <1>1, <1>2, <1>3, <1>4, <1>5, <1>6, <1>7, <1>8, <1>9, <1>10, <1>11, <1>12, <1>13, <1>14
          DEF Next, Opening, Accepting, Working

\* What moves the acknowledgement number of an end.
LEMMA AckSteps ==
    ASSUME [Next]_vars
    PROVE  \/ OpenFinish \/ HandleSyn
           \/ \E p \in net, l \in Links : ReceiveFin(p, l)
           \/ \E h \in handling : HandleData(h)
           \/ cur_ack' = cur_ack
<1>1. CASE UNCHANGED vars
  BY <1>1 DEF vars
<1>2. CASE OpenRefused \/ OpenStart \/ OpenAborted \/ OpenTimeout
  BY <1>2 DEF OpenRefused, OpenStart, OpenAborted, OpenTimeout
<1>3. CASE TakeSyn \/ WaitForOpenStart \/ WaitForOpenFinish \/ WaitForOpenTimeout
  BY <1>3 DEF TakeSyn, WaitForOpenStart, WaitForOpenFinish, WaitForOpenTimeout
<1>4. ASSUME NEW w \in Calls, Writing(w) PROVE cur_ack' = cur_ack
  BY <1>4 DEF Writing, WriteStart, WriteAppend, WriteSpawn, WriteSpawnRefused, WriteFinish,
     WriteAborted, WriteTimeout
<1>5. ASSUME NEW e \in Ends, Reading(e) \/ Closing(e) \/ Working(e) PROVE cur_ack' = cur_ack
  BY <1>5 DEF Reading, ReadStart, ReadWait, ReadWake, ReadFails, ReadNothing, ReadData, Abort,
     Closing, CloseClosed, CloseAfterFin, CloseBegin, CloseFin, CloseDone,
     CloseTimeout, ForceClose, ForceCloseBegin, ForceCloseFin, Remove,
     Working, WriterSend, WriterExit, RetrySend
<1>6. ASSUME NEW p \in net, NEW l \in Links, Receiving(p, l), ~ReceiveFin(p, l)
      PROVE  cur_ack' = cur_ack
  BY <1>6 DEF Receiving, DropPacket, ReceiveAckOrData, ReceiveSynAck, ReceiveFinAck
<1>7. ASSUME NEW p \in net, QueueSyn(p) \/ Lose(p) \/ DropUnknown(p) PROVE cur_ack' = cur_ack
  BY <1>7 DEF QueueSyn, Lose, DropUnknown
<1>8. ASSUME NEW h \in handling, Handle(h), ~HandleData(h) PROVE cur_ack' = cur_ack
  BY <1>8 DEF Handle, ThreeWayCheck, Establish, Recheck, AckCompare, AckSegments, AckBuffers
<1>. QED  BY <1>1, <1>2, <1>3, <1>4, <1>5, <1>6, <1>7, <1>8 DEF Next, Opening, Accepting

\* What clears a send window: a close, a FIN, a FIN_ACK.
ClearStep(e) ==
    \/ CloseAfterFin(e) \/ CloseBegin(e) \/ ForceClose(e) \/ ForceCloseBegin(e)
    \/ \E p \in net, l \in Links : p.to = e /\ (ReceiveFin(p, l) \/ ReceiveFinAck(p, l))

\* A call of Write that gives up.
GiveUp(w) == WriteSpawnRefused(w) \/ WriteAborted(w) \/ WriteTimeout(w)

\* What changes the lists of segments.
LEMMA SegmentSteps ==
    ASSUME TypeOK, LifeInv, [Next]_vars
    PROVE  \/ OpenStart \/ HandleSyn
           \/ \E e \in Ends : CloseFin(e) \/ ForceCloseFin(e) \/ WriterSend(e)
           \/ \E h \in handling : AckSegments(h)
           \/ \E w \in Calls : GiveUp(w)
           \/ \E e \in Ends : ClearStep(e) /\ Clear(e)
           \/ \E e \in Ends : CancelCtrlPktFromSegments(e) /\ openPc[e] # "ok"
           \/ UNCHANGED segmentVars
<1>. USE Numbers
<1>1. CASE UNCHANGED vars
  BY <1>1 DEF vars
<1>2. CASE OpenRefused \/ OpenFinish \/ OpenAborted \/ OpenTimeout
  BY <1>2 DEF OpenRefused, OpenFinish, OpenAborted, OpenTimeout
<1>3. CASE TakeSyn \/ WaitForOpenStart \/ WaitForOpenFinish \/ WaitForOpenTimeout
  BY <1>3 DEF TakeSyn, WaitForOpenStart, WaitForOpenFinish, WaitForOpenTimeout
<1>4. ASSUME NEW w \in Calls, Writing(w), ~GiveUp(w) PROVE UNCHANGED segmentVars
  BY <1>4 DEF GiveUp, Writing, WriteStart, WriteAppend, WriteSpawn, WriteFinish
<1>5. ASSUME NEW e \in Ends, Reading(e) PROVE UNCHANGED segmentVars
  BY <1>5 DEF Reading, ReadStart, ReadWait, ReadWake, ReadFails, ReadNothing, ReadData
<1>6. ASSUME NEW e \in Ends, Closing(e), ~CloseFin(e), ~ForceCloseFin(e)
      PROVE  (ClearStep(e) /\ Clear(e)) \/ UNCHANGED segmentVars
  BY <1>6 DEF Closing, CloseClosed, CloseAfterFin, CloseBegin, CloseDone,
     CloseTimeout, ForceClose, ForceCloseBegin, Remove, Abort, ClearStep
<1>7. ASSUME NEW e \in Ends, Working(e), ~WriterSend(e)
      PROVE  UNCHANGED segmentVars
  BY <1>7 DEF Working, WriterExit, RetrySend
<1>8. ASSUME NEW p \in net, NEW l \in Links, Receiving(p, l)
      PROVE  (\E e \in Ends : ClearStep(e) /\ Clear(e)) \/ UNCHANGED segmentVars
  <2>1. p.to \in Ends
    BY DEF TypeOK, Packet
  <2>2. CASE ReceiveFin(p, l) \/ ReceiveFinAck(p, l)
    <3>1. Clear(p.to)
      BY <2>2 DEF ReceiveFin, ReceiveFinAck
    <3>2. ClearStep(p.to)
      BY <2>2 DEF ClearStep
    <3>. QED  BY <2>1, <3>1, <3>2
  <2>. QED  BY <1>8, <2>2 DEF Receiving, DropPacket, ReceiveAckOrData, ReceiveSynAck
<1>9. ASSUME NEW p \in net, QueueSyn(p) \/ Lose(p) \/ DropUnknown(p)
      PROVE  UNCHANGED segmentVars
  BY <1>9 DEF QueueSyn, Lose, DropUnknown
<1>10. ASSUME NEW h \in handling, Handle(h), ~AckSegments(h)
       PROVE  \/ \E e \in Ends : CancelCtrlPktFromSegments(e) /\ openPc[e] # "ok"
              \/ UNCHANGED segmentVars
  <2>1. CASE Establish(h)
    <3>1. h.pkt.to \in Ends
      BY HandledPacket, TypeGroups
    <3>2. openPc[h.pkt.to] # "ok" /\ CancelCtrlPktFromSegments(h.pkt.to)
      BY <2>1 DEF Establish, LifeInv, HandlerOpens, HalfOpen
    <3>. QED  BY <3>1, <3>2
  <2>. QED  BY <1>10, <2>1 DEF Handle, ThreeWayCheck, Recheck, AckCompare, AckBuffers, HandleData
<1>. QED  BY <1>1, <1>2, <1>3, <1>4, <1>5, <1>6, <1>7, <1>8, <1>9, <1>10
          DEF Next, Opening, Accepting

\* What changes the buffers.
LEMMA BufferSteps ==
    ASSUME TypeOK, [Next]_vars
    PROVE  \/ \E w \in Calls : WriteAppend(w) \/ GiveUp(w)
           \/ \E h \in handling : AckBuffers(h)
           \/ \E e \in Ends : ClearStep(e) /\ Clear(e)
           \/ sendBuffers' = sendBuffers
<1>. USE Numbers
<1>1. CASE UNCHANGED vars
  BY <1>1 DEF vars
<1>2. CASE Opening
  BY <1>2 DEF Opening, OpenRefused, OpenStart, OpenFinish, OpenAborted, OpenTimeout, FirstSequence
<1>3. CASE Accepting
  BY <1>3 DEF Accepting, TakeSyn, HandleSyn, WaitForOpenStart, WaitForOpenFinish, WaitForOpenTimeout
<1>4. ASSUME NEW w \in Calls, Writing(w), ~GiveUp(w), ~WriteAppend(w) PROVE sendBuffers' = sendBuffers
  BY <1>4 DEF GiveUp, Writing, WriteStart, WriteSpawn, WriteFinish
<1>5. ASSUME NEW e \in Ends, Reading(e) \/ Working(e) PROVE sendBuffers' = sendBuffers
  BY <1>5 DEF Reading, ReadStart, ReadWait, ReadWake, ReadFails, ReadNothing, ReadData,
     Working, WriterSend, WriterExit, RetrySend
<1>6. ASSUME NEW e \in Ends, Closing(e)
      PROVE  (ClearStep(e) /\ Clear(e)) \/ sendBuffers' = sendBuffers
  BY <1>6 DEF Closing, CloseClosed, CloseAfterFin, CloseBegin, CloseDone, CloseFin, ForceCloseFin,
     CloseTimeout, ForceClose, ForceCloseBegin, Remove, Abort, ClearStep
<1>7. ASSUME NEW p \in net, NEW l \in Links, Receiving(p, l)
      PROVE  (\E e \in Ends : ClearStep(e) /\ Clear(e)) \/ sendBuffers' = sendBuffers
  <2>1. p.to \in Ends
    BY DEF TypeOK, Packet
  <2>2. CASE ReceiveFin(p, l) \/ ReceiveFinAck(p, l)
    <3>1. Clear(p.to)
      BY <2>2 DEF ReceiveFin, ReceiveFinAck
    <3>2. ClearStep(p.to)
      BY <2>2 DEF ClearStep
    <3>. QED  BY <2>1, <3>1, <3>2
  <2>. QED  BY <1>7, <2>2 DEF Receiving, DropPacket, ReceiveAckOrData, ReceiveSynAck
<1>8. ASSUME NEW p \in net, QueueSyn(p) \/ Lose(p) \/ DropUnknown(p) PROVE sendBuffers' = sendBuffers
  BY <1>8 DEF QueueSyn, Lose, DropUnknown
<1>9. ASSUME NEW h \in handling, Handle(h), ~AckBuffers(h) PROVE sendBuffers' = sendBuffers
  BY <1>9 DEF Handle, ThreeWayCheck, Establish, FirstSequence, Recheck, AckCompare, AckSegments, HandleData
<1>. QED  BY <1>1, <1>2, <1>3, <1>4, <1>5, <1>6, <1>7, <1>8, <1>9 DEF Next

\* The numbers an end may be told it sent only grow.
LEMMA LimitGrows ==
    ASSUME Orderly, TypeOK, EarlyInv, LifeInv, DataInv, OpenedInv, [Next]_vars, NEW e \in Ends
    PROVE  /\ Limit(e) \in Nat /\ Limit(e)' \in Nat
           /\ Limit(e)' >= Limit(e) /\ Limit(e) >= ISN[e] + 1
<1>. USE Numbers
<1>. /\ currBufferIndex \in [Ends -> Nat] /\ nextBufferIndex \in [Ends -> Nat]
     /\ currBufferOffset \in [Ends -> Nat]
  BY DEF TypeOK
<1>. \A f \in Ends : Pos(f) \in Nat /\ Pos(f)' \in Nat
  BY PosTyped
<1>1. Limit(e) \in Nat /\ Limit(e)' \in Nat /\ Limit(e) >= ISN[e] + 1
  BY DEF Limit, OpenedInv
<1>2. Limit(e)' >= ISN[e] + 1
  BY OpenedKept DEF Limit, OpenedInv
<1>3. Early(e) => Limit(e) = ISN[e] + 1
  BY DEF Limit
<1>4. SUFFICES ASSUME ~Early(e) PROVE Pos(e)' >= Pos(e)
  <2>1. ~Early(e) => ~Early(e)'
    BY OrderlySteps
  <2>. QED  BY <1>1, <1>2, <1>3, <1>4, <2>1 DEF Limit
<1>5. CASE UNCHANGED <<cur_seq, nextBufferIndex, currBufferIndex, currBufferOffset>>
  BY <1>5 DEF Pos
<1>6. CASE OpenFinish
  <2>1. e # Client
    BY <1>4, <1>6, FirstNumbers
  <2>2. FirstSequence(Client, ISN[Client] + 1)
    BY <1>6, FirstNumbers
  <2>. QED  BY <2>1, <2>2 DEF FirstSequence, Pos
<1>7. ASSUME NEW h \in handling, Establish(h) \/ AckSegments(h) PROVE Pos(e)' >= Pos(e)
  <2>1. h.pkt.to # e \/ AckSegments(h)
    BY <1>4, <1>7, FirstNumbers
  <2>. QED  BY <1>7, <2>1 DEF Establish, AckSegments, FirstSequence, Pos
<1>8. ASSUME NEW w \in Calls, WriteAppend(w) PROVE Pos(e)' >= Pos(e)
  <2>1. currBufferIndex'[e] \in {currBufferIndex[e], nextBufferIndex[e]}
    BY <1>8, Appended
  <2>2. currBufferOffset' = currBufferOffset
    BY <1>8, Appended
  <2>. QED  BY <2>1, <2>2 DEF Pos, DataInv
<1>9. ASSUME NEW f \in Ends, WriterSend(f) PROVE Pos(e)' >= Pos(e)
  <2>1. PICK b \in sendBuffers[f] : \E len \in Nat : WriterSent(f, b, len)
    BY <1>9, WriterSends
  <2>2. PICK len \in Nat : WriterSent(f, b, len)
    BY <2>1
  <2>3. Pos(f)' = Pos(f) + len
    BY <2>2 DEF WriterSent
  <2>4. \A g \in Ends \ {f} : Pos(g)' = Pos(g)
    BY <1>9, WriterSends
  <2>. QED  BY <2>3, <2>4
<1>. QED  BY <1>5, <1>6, <1>7, <1>8, <1>9, NumberSteps

\* A close that was begun stays begun.
LEMMA CloseStays ==
    ASSUME TypeOK, [Next]_vars, NEW e \in Ends, CloseBegun(e)
    PROVE  CloseBegun(e)'
<1>. /\ mutex \in [Ends -> {"free", "close", "force"}]
     /\ closePc \in [Ends -> {"idle", "waiting", "woken", "done"}]
  BY DEF TypeOK
<1>1. CASE UNCHANGED <<state, mutex, openPc, closePc, forced>>
  BY <1>1 DEF CloseBegun
<1>2. CASE Opening \/ Accepting
  BY <1>2 DEF CloseBegun, Opening, OpenRefused, OpenStart, OpenFinish, OpenAborted, OpenTimeout,
     Accepting, TakeSyn, HandleSyn, WaitForOpenStart, WaitForOpenFinish, WaitForOpenTimeout
<1>3. ASSUME NEW f \in Ends, Closing(f) PROVE CloseBegun(e)'
  BY <1>3 DEF CloseBegun, Closing, CloseClosed, CloseAfterFin, CloseBegin, CloseFin, CloseDone,
     CloseTimeout, ForceClose, ForceCloseBegin, ForceCloseFin, Remove, MayClose, MayForce, Free
<1>4. ASSUME NEW p \in net, NEW l \in Links, ReceiveFin(p, l) \/ ReceiveFinAck(p, l)
      PROVE  CloseBegun(e)'
  BY <1>4 DEF CloseBegun, ReceiveFin, ReceiveFinAck, WakeCloser
<1>5. ASSUME NEW h \in handling, Establish(h) PROVE CloseBegun(e)'
  BY <1>5 DEF CloseBegun, Establish
<1>. QED  BY <1>1, <1>2, <1>3, <1>4, <1>5, ControlSteps DEF ControlStep

\* handleData moves the acknowledgement over data that was sent.
LEMMA HandledAck ==
    ASSUME TypeOK, DataInv, DataHandlers, NEW h \in handling, HandleData(h)
    PROVE  LET f == h.pkt.to IN
           /\ h.pkt.type = "DATA" /\ PieceOf(h.pkt) \in DataOf(Peer(f))
           /\ \A g \in Ends \ {f} : cur_ack'[g] = cur_ack[g]
           /\ cur_ack'[f] = cur_ack[f] \/ cur_ack'[f] <= Pos(Peer(f))
<1>. USE Numbers
<1>. DEFINE f == h.pkt.to
            e == Peer(f)
            x == PieceOf(h.pkt)
            segs == recvSegments[f] \cup {[seq |-> h.pkt.seq, len |-> h.pkt.len]}
<1>1. f \in Ends /\ e \in Ends /\ Peer(e) = f
  BY HandledPacket, TypeGroups DEF Peer, Ends
<1>2. h.pkt.type = "DATA"
  BY DEF HandleData, DataHandlers
<1>3. x \in DataOf(e)
  BY <1>1, <1>2 DEF DataOf
<1>4. segs \subseteq DataOf(e)
  BY <1>1, <1>3 DEF DataOf, PieceOf
<1>5. DataOf(e) \subseteq Piece
  BY <1>1, DataTyped
<1>6. \A s \in segs : EndOf(s) <= Pos(e) /\ s.seq \in Nat /\ EndOf(s) \in Nat /\ s.seq <= EndOf(s)
  BY <1>1, <1>4, <1>5 DEF DataInv, Piece, EndOf
<1>7. Pos(e) \in Nat
  <2>1. currBufferIndex \in [Ends -> Nat] /\ currBufferOffset \in [Ends -> Nat]
    BY DEF TypeOK
  <2>. QED  BY <1>1, <2>1 DEF Pos
<1>8. h.pkt.seq <= Pos(e) /\ h.pkt.seq \in Nat
  <2>. DEFINE r == [seq |-> h.pkt.seq, len |-> h.pkt.len]
  <2>1. r \in segs /\ r.seq = h.pkt.seq
    OBVIOUS
  <2>. HIDE DEF r, segs, e, x, f
  <2>2. EndOf(r) <= Pos(e) /\ r.seq \in Nat /\ EndOf(r) \in Nat /\ r.seq <= EndOf(r)
    BY <1>6, <2>1
  <2>. QED  BY <1>7, <2>1, <2>2
<1>9. cur_ack' = cur_ack \/ ExpectAfter(f, h.pkt, segs)
  BY DEF HandleData
<1>10. ASSUME ExpectAfter(f, h.pkt, segs)
       PROVE  cur_ack' = cur_ack \/ \E to \in Boundaries(segs, h.pkt.seq) :
                                        cur_ack' = [cur_ack EXCEPT ![f] = to]
  BY <1>10 DEF ExpectAfter
<1>. HIDE DEF segs, x, f, e
<1>11. \A to \in Boundaries(segs, h.pkt.seq) : to <= Pos(e)
  BY <1>6, <1>8 DEF Boundaries
<1>. cur_ack \in [Ends -> Nat]
  BY DEF TypeOK
<1>12. /\ \A g \in Ends \ {f} : cur_ack'[g] = cur_ack[g]
       /\ cur_ack'[f] = cur_ack[f] \/ cur_ack'[f] <= Pos(e)
  BY <1>1, <1>9, <1>10, <1>11
<1>. QED  BY <1>2, <1>3, <1>12 DEF f, e, x

\* Until it closes, an end is not told that it sent what it did not.
LEMMA AcksKept ==
    ASSUME Orderly
    PROVE  TypeOK /\ EarlyInv /\ LifeInv /\ DataInv /\ DataHandlers /\ SynAckInv /\ OrderlyInv
              /\ [Next]_vars => \A e \in Ends : AcksOk(e)'
<1>. SUFFICES ASSUME TypeOK, EarlyInv, LifeInv, DataInv, DataHandlers, SynAckInv, OrderlyInv,
                     [Next]_vars, NEW e \in Ends, ~CloseBegun(e)'
              PROVE  /\ cur_ack'[Peer(e)] <= Limit(e)'
                     /\ \A p \in net' : p.to = e => p.ack <= Limit(e)'
                     /\ \A h \in handling' : h.pkt.to = e => h.pkt.ack <= Limit(e)'
                     /\ \A p \in net' : p.type = "FIN" => p.to # Peer(e)
                     /\ \A s \in retrySegments'[e] : s.type # "FIN"
  BY DEF AcksOk
<1>. USE Numbers
<1>. DEFINE f == Peer(e)
<1>0. f \in Ends /\ f # e /\ Peer(f) = e /\ \A g \in Ends : Peer(g) = e => g = f
  BY DEF Peer, Ends
<1>. HIDE DEF f
<1>1. /\ cur_ack[f] <= Limit(e)
      /\ \A p \in net : p.to = e => p.ack <= Limit(e)
      /\ \A h \in handling : h.pkt.to = e => h.pkt.ack <= Limit(e)
      /\ \A p \in net : p.type = "FIN" => p.to # f
      /\ \A s \in retrySegments[e] : s.type # "FIN"
  <2>1. ~CloseBegun(e)
    BY CloseStays
  <2>. QED  BY <2>1 DEF OrderlyInv, AcksOk, f
<1>2. Limit(e) \in Nat /\ Limit(e)' \in Nat /\ Limit(e)' >= Limit(e) /\ Limit(e) >= ISN[e] + 1
  BY LimitGrows DEF OrderlyInv
<1>. /\ cur_ack \in [Ends -> Nat] /\ cur_ack' \in [Ends -> Nat]
     /\ retrySegments \in [Ends -> SUBSET Segment]
  BY NextTyped DEF TypeOK
<1>3. /\ \A p \in Packet : p.ack \in Nat /\ p.to \in Ends
      /\ net \subseteq Packet /\ \A h \in handling : h.pkt \in Packet
  <2>1. \A p \in Packet : p.ack \in Nat /\ p.to \in Ends
    BY DEF Packet
  <2>2. net \subseteq Packet /\ handling \subseteq Handling
    BY DEF TypeOK
  <2>3. \A h \in Handling : h.pkt \in Packet
    BY DEF Handling
  <2>. QED  BY <2>1, <2>2, <2>3
<1>4. cur_ack'[f] <= Limit(e)
  <2>1. CASE cur_ack' = cur_ack
    BY <1>1, <2>1
  <2>2. CASE OpenFinish
    <3>1. PICK p \in openQueue : ExpectFrom(Client, p.seq)
      BY <2>2 DEF OpenFinish
    <3>2. cur_ack' = [cur_ack EXCEPT ![Client] = ISN[Server] + 1]
      BY <3>1 DEF SynAckInv, ExpectFrom
    <3>. QED  BY <1>0, <1>1, <1>2, <3>2 DEF Peer
  <2>3. CASE HandleSyn
    <3>1. cur_ack' = [cur_ack EXCEPT ![Server] = ISN[Client] + 1]
      BY <2>3 DEF HandleSyn, ExpectFrom
    <3>. QED  BY <1>0, <1>1, <1>2, <3>1 DEF Peer, Ends
  <2>4. ASSUME NEW p \in net, NEW l \in Links, ReceiveFin(p, l) PROVE cur_ack'[f] <= Limit(e)
    <3>1. p.to # f /\ cur_ack' = [cur_ack EXCEPT ![p.to] = p.seq + 1]
      BY <1>1, <2>4 DEF ReceiveFin
    <3>. QED  BY <1>0, <1>1, <3>1
  <2>5. ASSUME NEW h \in handling, HandleData(h) PROVE cur_ack'[f] <= Limit(e)
    <3>1. CASE h.pkt.to # f
      BY <1>0, <1>1, <2>5, <3>1, HandledAck
    <3>2. CASE h.pkt.to = f
      <4>1. cur_ack'[f] = cur_ack[f] \/ cur_ack'[f] <= Pos(e)
        BY <1>0, <2>5, <3>2, HandledAck
      <4>2. DataOf(e) # {}
        BY <1>0, <2>5, <3>2, HandledAck
      <4>3. openPc[e] = "ok"
        BY <4>2 DEF DataInv
      <4>4. Limit(e) = Pos(e)
        BY <4>3, OrderlySteps DEF Limit
      <4>. QED  BY <1>1, <4>1, <4>4
    <3>. QED  BY <3>1, <3>2
  <2>. QED  BY <2>1, <2>2, <2>3, <2>4, <2>5, AckSteps
<1>5. ASSUME NEW p \in net' PROVE (p.to = e => p.ack <= Limit(e)) /\ ~(p.type = "FIN" /\ p.to = f)
  <2>1. CASE p \in net
    BY <1>1, <2>1
  <2>2. ASSUME NEW g \in Ends, NewPacket(p, g)
        PROVE  (p.to = e => p.ack <= Limit(e)) /\ ~(p.type = "FIN" /\ p.to = f)
    <3>1. p.to = Peer(g)
      BY <2>2 DEF NewPacket
    <3>2. p.to = e => p.ack <= Limit(e)
      <4>1. p.ack = cur_ack[g] \/ p.ack = cur_ack'[g]
        BY <2>2 DEF NewPacket
      <4>. QED  BY <1>0, <1>1, <1>4, <3>1, <4>1
    <3>3. ASSUME p.type = "FIN", p.to = f PROVE FALSE
      <4>1. g = e
        BY <1>0, <3>1, <3>3 DEF Peer, Ends
      <4>2. \/ \E s \in retrySegments[e] : p.type = s.type
            \/ CloseFin(e) \/ ForceCloseFin(e)
        BY <2>2, <3>3, <4>1 DEF NewPacket
      <4>3. ~CloseFin(e)
        <5>1. CloseFin(e) => CloseBegun(e)
          BY DEF CloseFin, CloseBegun
        <5>. QED  BY <5>1, CloseStays
      <4>. QED  BY <1>1, <3>3, <4>2, <4>3, OrderlySteps
    <3>. QED  BY <3>2, <3>3
  <2>. QED  BY <2>1, <2>2, NewPackets
<1>6. ASSUME NEW g \in handling', g.pkt.to = e PROVE g.pkt.ack <= Limit(e) /\ g.pkt.ack \in Nat
  <2>1. g \in handling \/ g.pkt \in net \/ \E h \in handling : g.pkt = h.pkt
    BY HandlerMoves
  <2>. QED  BY <1>1, <1>3, <1>6, <2>1
<1>7. ASSUME NEW s \in retrySegments'[e], s.type = "FIN" PROVE FALSE
  <2>1. s \in retrySegments[e] => FALSE
    BY <1>1, <1>7
  <2>2. CASE OpenStart \/ HandleSyn
    <3>1. \E g \in Ends : \E seg : seg.type # "FIN" /\ InsertSegment(g, seg)
      BY <2>2 DEF OpenStart, HandleSyn, ControlSegment
    <3>. QED  BY <1>7, <2>1, <3>1 DEF InsertSegment
  <2>3. ASSUME NEW g \in Ends, WriterSend(g) PROVE FALSE
    <3>1. PICK b \in sendBuffers[g] : \E len \in Nat : WriterSent(g, b, len)
      BY <2>3, WriterSends
    <3>2. \E seg : seg.type # "FIN" /\ InsertSegment(g, seg)
      BY <3>1 DEF WriterSent
    <3>. QED  BY <1>7, <2>1, <3>2 DEF InsertSegment
  <2>4. ASSUME NEW g \in Ends, CloseFin(g) \/ ForceCloseFin(g) PROVE FALSE
    <3>1. CloseFin(g) /\ CloseBegun(g)
      BY <2>4, OrderlySteps DEF CloseFin, CloseBegun
    <3>2. g # e
      BY <3>1, CloseStays
    <3>3. retrySegments'[e] = retrySegments[e]
      BY <3>1, <3>2 DEF CloseFin, SendFin, InsertSegment
    <3>. QED  BY <1>7, <2>1, <3>3
  <2>5. ASSUME NEW g \in Ends, \E segs : EraseSegments(g, segs) PROVE FALSE
    BY <1>7, <2>1, <2>5 DEF EraseSegments
  <2>6. ASSUME NEW h \in handling, AckSegments(h) PROVE \E g \in Ends : \E segs : EraseSegments(g, segs)
    BY <2>6, HandledPacket, TypeGroups DEF AckSegments
  <2>7. ASSUME NEW w \in Calls, GiveUp(w) PROVE \E g \in Ends : \E segs : EraseSegments(g, segs)
    <3>1. CancelFromBuffers(Caller[w], writeIndex[w])
      BY <2>7 DEF GiveUp, WriteSpawnRefused, WriteAborted, WriteTimeout
    <3>. QED  BY <3>1 DEF CancelFromBuffers
  <2>8. ASSUME NEW g \in Ends, Clear(g) \/ CancelCtrlPktFromSegments(g)
        PROVE  \E segs : EraseSegments(g, segs)
    BY <2>8 DEF Clear, CancelCtrlPktFromSegments
  <2>9. CASE UNCHANGED <<sendSegments, retrySegments>>
    BY <1>7, <2>1, <2>9
  <2>. QED  BY <2>2, <2>3, <2>4, <2>5, <2>6, <2>7, <2>8, <2>9, SegmentSteps
<1>8. \A p \in net' : p.to = e => p.ack \in Nat
  <2>1. net' \subseteq Packet
    BY NextTyped DEF TypeOK
  <2>. QED  BY <1>3, <2>1
<1>9. /\ cur_ack'[f] <= Limit(e)'
      /\ \A p \in net' : p.to = e => p.ack <= Limit(e)'
      /\ \A h \in handling' : h.pkt.to = e => h.pkt.ack <= Limit(e)'
  BY <1>0, <1>2, <1>4, <1>5, <1>6, <1>8
<1>. QED  BY <1>5, <1>7, <1>9 DEF f

\* A call of Write that has appended its buffer and not returned.
Pending(w) == writePc[w] \in {"appended", "waiting"}

\* An end has the buffer of one call at most, and then it is open, not closing, and no other
\* call is on its way to append one.
LEMMA OneBuffer ==
    ASSUME TypeOK, OrderlyInv, NEW e \in Ends, NEW b \in sendBuffers[e]
    PROVE  /\ \A c \in sendBuffers[e] : c.head_seq = b.head_seq /\ c.size = b.size
           /\ b.head_seq \in Nat /\ b.size \in Nat \ {0}
           /\ ~Early(e) /\ ~CloseBegun(e)
           /\ \A w \in Calls : Caller[w] = e /\ ~Resting(w) => Pending(w) /\ writeIndex[w] = b.head_seq
<1>. USE Numbers
<1>1. sendBuffers[e] \subseteq Buffer
  BY DEF TypeOK
<1>2. b.head_seq \in Nat
  BY <1>1 DEF Buffer
<1>3. PICK w \in Calls : /\ Caller[w] = e /\ Pending(w)
                         /\ writeIndex[w] = b.head_seq /\ Size[w] = b.size
  BY DEF OrderlyInv, BuffersOk, Pending
<1>4. b.size \in Nat \ {0}
  BY <1>3, CallsAssumption
<1>5. \A v \in Calls : Pending(v) => ~Resting(v)
  BY DEF Pending, Resting
<1>6. \A v \in Calls : Caller[v] = e /\ ~Resting(v) => v = w
  BY <1>3, <1>5 DEF OrderlyInv, CallsInv
<1>7. \A c \in sendBuffers[e] : c.head_seq = b.head_seq /\ c.size = b.size
  <2>1. ASSUME NEW c \in sendBuffers[e] PROVE c.head_seq = b.head_seq /\ c.size = b.size
    <3>1. PICK v \in Calls : /\ Caller[v] = e /\ Pending(v)
                             /\ writeIndex[v] = c.head_seq /\ Size[v] = c.size
      BY DEF OrderlyInv, BuffersOk, Pending
    <3>. QED  BY <1>3, <1>5, <1>6, <3>1
  <2>. QED  BY <2>1
<1>8. ~Early(e)
  <2>1. b.head_seq + b.size = nextBufferIndex[e]
    BY DEF OrderlyInv, BuffersOk
  <2>. QED  BY <1>2, <1>4, <2>1 DEF OrderlyInv, OpenedInv
<1>9. ~CloseBegun(e)
  BY <1>3, <1>5 DEF OrderlyInv, CallsInv, NoWrite
<1>. QED  BY <1>2, <1>3, <1>4, <1>6, <1>7, <1>8, <1>9

\* A step that leaves the buffers and the writer of e where they are.
LEMMA BuffersSame ==
    ASSUME NEW e \in Ends, BuffersOk(e), Healthy(e)' => Healthy(e),
           sendBuffers'[e] = sendBuffers[e], nextBufferIndex'[e] = nextBufferIndex[e],
           currBufferIndex'[e] = currBufferIndex[e], currBufferOffset'[e] = currBufferOffset[e],
           \A w \in Calls : Caller[w] = e /\ Pending(w) /\ BufferOf(w) # {} =>
                Pending(w)' /\ writeIndex'[w] = writeIndex[w],
           \A w \in Calls : Caller[w] = e /\ writePc'[w] = "checked" =>
                writePc[w] = "checked" \/ Healthy(e)
    PROVE  BuffersOk(e)'
<1>1. ASSUME NEW b \in sendBuffers[e]
      PROVE  \E w \in Calls : /\ Caller[w] = e /\ Pending(w)'
                              /\ writeIndex'[w] = b.head_seq /\ Size[w] = b.size
  <2>1. PICK w \in Calls : /\ Caller[w] = e /\ Pending(w)
                           /\ writeIndex[w] = b.head_seq /\ Size[w] = b.size
    BY DEF BuffersOk, Pending
  <2>2. BufferOf(w) # {}
    BY <2>1 DEF BufferOf
  <2>. QED  BY <2>1, <2>2
<1>2. /\ sendBuffers'[e] = {}
      /\ Healthy(e)' \/ \E w \in Calls : Caller[w] = e /\ writePc'[w] = "checked"
      => currBufferIndex'[e] = nextBufferIndex'[e] /\ currBufferOffset'[e] = 0
  BY DEF BuffersOk
<1>3. ASSUME NEW b \in sendBuffers[e]
      PROVE  /\ b.head_seq + b.size = nextBufferIndex'[e]
             /\ \/ currBufferIndex'[e] = b.head_seq /\ currBufferOffset'[e] < b.size
                \/ currBufferIndex'[e] = nextBufferIndex'[e] /\ currBufferOffset'[e] = 0
             /\ b.aborted => ~Healthy(e)'
  BY DEF BuffersOk
<1>. QED  BY <1>1, <1>2, <1>3 DEF BuffersOk, Pending

\* Write appends to an empty window, with writerThread at its end.
LEMMA BuffersAppended ==
    ASSUME TypeOK, EarlyInv, OrderlyInv, NEW w \in Calls, WriteAppend(w), NEW e \in Ends
    PROVE  BuffersOk(e)'
<1>. USE Numbers
<1>. /\ currBufferIndex \in [Ends -> Nat] /\ nextBufferIndex \in [Ends -> Nat]
     /\ writePc \in [Calls -> {"idle", "checked", "appended", "waiting", "ok", "failed"}]
     /\ currBufferOffset \in [Ends -> Nat] /\ writeIndex \in [Calls -> Nat]
  BY DEF TypeOK
<1>1. writePc[w] = "checked" /\ state' = state /\ currBufferOffset' = currBufferOffset
  BY Appended
<1>2. Healthy(e)' <=> Healthy(e)
  BY <1>1 DEF Healthy, Early
<1>3. BuffersOk(e)
  BY DEF OrderlyInv
<1>4. \A v \in Calls \ {w} : writePc'[v] = writePc[v] /\ writeIndex'[v] = writeIndex[v]
  BY Appended
<1>5. CASE e # Caller[w]
  <2>1. /\ sendBuffers'[e] = sendBuffers[e] /\ nextBufferIndex'[e] = nextBufferIndex[e]
        /\ currBufferIndex'[e] = currBufferIndex[e] /\ currBufferOffset'[e] = currBufferOffset[e]
    BY <1>1, <1>5, Appended
  <2>2. \A v \in Calls : Caller[v] = e => v # w
    BY <1>5
  <2>. QED  BY <1>2, <1>3, <1>4, <2>1, <2>2, BuffersSame DEF Pending
<1>6. CASE e = Caller[w]
  <2>1. sendBuffers[e] = {}
    <3>1. ~Resting(w) /\ ~Pending(w)
      BY <1>1 DEF Resting, Pending
    <3>. QED  BY <1>6, <3>1, OneBuffer
  <2>2. currBufferIndex[e] = nextBufferIndex[e] /\ currBufferOffset[e] = 0
    BY <1>1, <1>3, <1>6, <2>1 DEF BuffersOk
  <2>. DEFINE b == [head_seq |-> nextBufferIndex[e], size |-> Size[w], aborted |-> FALSE]
  <2>3. b.head_seq = nextBufferIndex[e] /\ b.size = Size[w] /\ ~b.aborted
    OBVIOUS
  <2>4. /\ sendBuffers'[e] = {b}
        /\ nextBufferIndex'[e] = nextBufferIndex[e] + Size[w]
        /\ currBufferIndex'[e] = nextBufferIndex[e]
        /\ writePc'[w] = "appended" /\ writeIndex'[w] = nextBufferIndex[e]
    BY <1>6, <2>1, <2>2, Appended
  <2>. HIDE DEF b
  <2>5. Size[w] \in Nat \ {0}
    BY CallsAssumption
  <2>. QED  BY <1>1, <1>6, <2>2, <2>3, <2>4, <2>5 DEF BuffersOk
<1>. QED  BY <1>5, <1>6

\* A call that gives up takes its buffer away, and does so on a tunnel that is no longer open.
LEMMA BuffersGivenUp ==
    ASSUME Orderly, TypeOK, EarlyInv, LifeInv, OrderlyInv, [Next]_vars,
           NEW w \in Calls, GiveUp(w), NEW e \in Ends
    PROVE  BuffersOk(e)'
<1>. USE Numbers
<1>. /\ sendBuffers \in [Ends -> SUBSET Buffer]
     /\ writePc \in [Calls -> {"idle", "checked", "appended", "waiting", "ok", "failed"}]
  BY DEF TypeOK
<1>0. ~WriteTimeout(w) /\ (Healthy(e)' => Healthy(e)) /\ BuffersOk(e)
  BY OrderlySteps DEF OrderlyInv
<1>1. /\ Pending(w) /\ writePc' = [writePc EXCEPT ![w] = "failed"] /\ writeIndex' = writeIndex
      /\ CancelFromBuffers(Caller[w], writeIndex[w])
  BY <1>0 DEF GiveUp, WriteSpawnRefused, WriteAborted, Pending
<1>2. /\ sendBuffers' = [sendBuffers EXCEPT ![Caller[w]] = {b \in @ : b.head_seq # writeIndex[w]}]
      /\ UNCHANGED <<currBufferIndex, currBufferOffset, nextBufferIndex>>
  BY <1>1 DEF CancelFromBuffers
<1>3. \A v \in Calls \ {w} : writePc'[v] = writePc[v]
  BY <1>1
<1>4. CASE e # Caller[w]
  <2>1. sendBuffers'[e] = sendBuffers[e]
    BY <1>2, <1>4
  <2>2. \A v \in Calls : Caller[v] = e => v # w
    BY <1>4
  <2>. QED  BY <1>0, <1>1, <1>2, <1>3, <2>1, <2>2, BuffersSame DEF Pending
<1>5. CASE e = Caller[w]
  <2>1. ~Resting(w)
    BY <1>1 DEF Pending, Resting
  <2>2. sendBuffers'[e] = {}
    <3>1. \A b \in sendBuffers[e] : writeIndex[w] = b.head_seq
      BY <1>5, <2>1, OneBuffer
    <3>. QED  BY <1>2, <1>5, <3>1
  <2>3. ~Healthy(e)
    <3>1. CASE WriteSpawnRefused(w)
      <4>1. openPc[e] = "ok"
        BY <1>1, <1>5 DEF Pending, EarlyInv, Callers
      <4>2. ~Early(e)
        BY <4>1, OrderlySteps
      <4>. QED  BY <1>5, <3>1, <4>2 DEF WriteSpawnRefused, Healthy
    <3>2. CASE WriteAborted(w)
      <4>1. \E b \in sendBuffers[e] : b.aborted
        BY <1>5, <3>2 DEF WriteAborted, BufferOf
      <4>. QED  BY <1>0, <4>1 DEF BuffersOk
    <3>. QED  BY <1>0, <3>1, <3>2 DEF GiveUp
  <2>4. \A v \in Calls : Caller[v] = e => writePc'[v] # "checked"
    <3>1. \A v \in Calls : Caller[v] = e /\ v # w => Resting(v)
      BY <1>5, <2>1 DEF OrderlyInv, CallsInv
    <3>. QED  BY <1>1, <1>3, <3>1 DEF Resting
  <2>. QED  BY <1>0, <2>2, <2>3, <2>4 DEF BuffersOk
<1>. QED  BY <1>4, <1>5

\* handleAck removes a buffer only when writerThread is through with it.
LEMMA BuffersAcked ==
    ASSUME Orderly, TypeOK, EarlyInv, LifeInv, OrderlyInv, [Next]_vars,
           NEW h \in handling, AckBuffers(h), NEW e \in Ends
    PROVE  BuffersOk(e)'
<1>. USE Numbers
<1>. DEFINE f == h.pkt.to
<1>. /\ sendBuffers \in [Ends -> SUBSET Buffer] /\ nextBufferIndex \in [Ends -> Nat]
     /\ currBufferIndex \in [Ends -> Nat] /\ currBufferOffset \in [Ends -> Nat]
  BY DEF TypeOK
<1>0. (Healthy(e)' => Healthy(e)) /\ BuffersOk(e) /\ f \in Ends /\ h.pkt.ack \in Nat
  <2>1. h.pkt \in Packet /\ f \in Ends
    BY HandledPacket, TypeGroups
  <2>2. h.pkt.ack \in Nat
    BY <2>1 DEF Packet
  <2>. QED  BY <2>1, <2>2, OrderlySteps DEF OrderlyInv
<1>1. /\ h.pc = "buffers"
      /\ sendBuffers' = [sendBuffers EXCEPT ![f] = @ \ AckedBuffers(sendBuffers[f], h.pkt.ack)]
      /\ UNCHANGED <<currBufferIndex, currBufferOffset, nextBufferIndex, writePc, writeIndex>>
  BY DEF AckBuffers, writeVars
<1>. HIDE DEF f
<1>2. CASE sendBuffers'[e] = sendBuffers[e]
  BY <1>0, <1>1, <1>2, BuffersSame DEF Pending
<1>3. CASE sendBuffers'[e] # sendBuffers[e]
  <2>1. f = e
    BY <1>0, <1>1, <1>3
  <2>2. PICK b \in sendBuffers[e] : b \in AckedBuffers(sendBuffers[e], h.pkt.ack)
    BY <1>1, <1>3, <2>1
  <2>3. b.head_seq + b.size <= h.pkt.ack /\ b.head_seq \in Nat /\ b.size \in Nat
    <3>1. b.head_seq \in Nat /\ b.size \in Nat
      BY OneBuffer
    <3>2. b.head_seq <= b.head_seq => b.head_seq + b.size <= h.pkt.ack
      BY <2>2 DEF AckedBuffers
    <3>. QED  BY <3>1, <3>2
  <2>4. h.pkt.ack <= Pos(e)
    <3>1. ~CloseBegun(e) /\ ~Early(e)
      BY OneBuffer
    <3>2. h.pkt.ack <= Limit(e)
      BY <2>1, <3>1 DEF f, OrderlyInv, AcksOk
    <3>. QED  BY <3>1, <3>2 DEF Limit
  <2>5. currBufferIndex[e] = nextBufferIndex[e] /\ currBufferOffset[e] = 0
    <3>1. \/ currBufferIndex[e] = b.head_seq /\ currBufferOffset[e] < b.size
          \/ currBufferIndex[e] = nextBufferIndex[e] /\ currBufferOffset[e] = 0
      BY <1>0 DEF BuffersOk
    <3>2. ~(currBufferIndex[e] = b.head_seq /\ currBufferOffset[e] < b.size)
      BY <1>0, <2>3, <2>4 DEF Pos
    <3>. QED  BY <3>1, <3>2
  <2>6. sendBuffers'[e] \subseteq sendBuffers[e]
    BY <1>1, <2>1
  <2>. QED  BY <1>0, <1>1, <2>5, <2>6 DEF BuffersOk
<1>. QED  BY <1>2, <1>3

\* A window is cleared when the tunnel is open no more, or has no buffer.
LEMMA BuffersCleared ==
    ASSUME Orderly, TypeOK, EarlyInv, LifeInv, OrderlyInv, [Next]_vars,
           NEW f \in Ends, ClearStep(f), Clear(f), NEW e \in Ends
    PROVE  BuffersOk(e)'
<1>. USE Numbers
<1>. /\ sendBuffers \in [Ends -> SUBSET Buffer]
     /\ state \in [Ends -> {"NULL", "OPENING", "HALF_OPEN", "OPEN", "CLOSING", "CLOSE_WAIT", "CLOSED"}]
  BY DEF TypeOK
<1>0. (Healthy(e)' => Healthy(e)) /\ BuffersOk(e)
  BY OrderlySteps DEF OrderlyInv
<1>1. UNCHANGED <<currBufferIndex, currBufferOffset, nextBufferIndex>>
  BY DEF Clear
<1>2. UNCHANGED <<writePc, writeIndex>>
  BY DEF ClearStep, writeVars, CloseAfterFin, CloseBegin, ForceClose, ForceCloseBegin, ReceiveFin,
         ReceiveFinAck
<1>3. CASE sendBuffers'[e] = sendBuffers[e]
  BY <1>0, <1>1, <1>2, <1>3, BuffersSame DEF Pending
<1>4. CASE sendBuffers'[e] # sendBuffers[e]
  <2>1. f = e /\ sendBuffers'[e] = {[b EXCEPT !.aborted = TRUE] : b \in sendBuffers[e]}
    BY <1>4 DEF Clear
  <2>2. sendBuffers[e] # {}
    BY <1>4, <2>1
  <2>3. ~Early(e) /\ ~NoWrite(e)
    <3>1. PICK b \in sendBuffers[e] : TRUE
      BY <2>2
    <3>2. PICK w \in Calls : Caller[w] = e /\ Pending(w)
      BY <1>0, <3>1 DEF BuffersOk, Pending
    <3>. QED  BY <3>1, <3>2, OneBuffer DEF NoWrite, Pending, Resting
  <2>4. ~Healthy(e)'
    <3>1. ~CloseBegin(e) /\ ~ForceClose(e) /\ ~ForceCloseBegin(e)
      BY <2>3, OrderlySteps DEF CloseBegin, MayClose, Orderly
    <3>2. CASE CloseAfterFin(e)
      BY <3>2 DEF CloseAfterFin, Healthy, Early
    <3>3. ASSUME NEW p \in net, NEW l \in Links, p.to = e, ReceiveFin(p, l) \/ ReceiveFinAck(p, l)
          PROVE  ~Healthy(e)'
      BY <2>3, <3>3 DEF ReceiveFin, ReceiveFinAck, Healthy, Early
    <3>. QED  BY <2>1, <3>1, <3>2, <3>3 DEF ClearStep
  <2>5. \A c \in sendBuffers'[e] : \E b \in sendBuffers[e] : c.head_seq = b.head_seq /\ c.size = b.size
    <3>1. \A b \in Buffer : LET c == [b EXCEPT !.aborted = TRUE] IN
                                c.head_seq = b.head_seq /\ c.size = b.size
      BY DEF Buffer
    <3>. QED  BY <2>1, <3>1
  <2>6. sendBuffers'[e] # {}
    <3>1. PICK b \in sendBuffers[e] : TRUE
      BY <2>2
    <3>2. [b EXCEPT !.aborted = TRUE] \in sendBuffers'[e]
      BY <2>1
    <3>. QED  BY <3>2
  <2>. QED  BY <1>0, <1>1, <1>2, <2>4, <2>5, <2>6 DEF BuffersOk
<1>. QED  BY <1>3, <1>4

\* writerThread goes through the buffer and ends where it ends.
LEMMA BuffersSent ==
    ASSUME Orderly, TypeOK, EarlyInv, LifeInv, OrderlyInv, [Next]_vars,
           NEW f \in Ends, WriterSend(f), NEW e \in Ends
    PROVE  BuffersOk(e)'
<1>. USE Numbers
<1>. /\ nextBufferIndex \in [Ends -> Nat] /\ currBufferIndex \in [Ends -> Nat]
     /\ currBufferOffset \in [Ends -> Nat]
  BY DEF TypeOK
<1>0. (Healthy(e)' => Healthy(e)) /\ BuffersOk(e)
  BY OrderlySteps DEF OrderlyInv
<1>1. UNCHANGED <<sendBuffers, nextBufferIndex, writePc, writeIndex>>
  BY WriterSends DEF writeVars
<1>2. PICK b \in sendBuffers[f] : \E len \in Nat : WriterSent(f, b, len)
  BY WriterSends
<1>3. PICK len \in Nat : WriterSent(f, b, len)
  BY <1>2
<1>4. CASE f # e
  <2>1. currBufferIndex'[e] = currBufferIndex[e] /\ currBufferOffset'[e] = currBufferOffset[e]
    BY <1>3, <1>4 DEF WriterSent, AdvanceWriter
  <2>. QED  BY <1>0, <1>1, <2>1, BuffersSame DEF Pending
<1>5. CASE f = e
  <2>1. b.head_seq \in Nat /\ b.size \in Nat \ {0}
    BY <1>5, OneBuffer
  <2>2. b.head_seq + b.size = nextBufferIndex[e] /\ b.head_seq = currBufferIndex[e]
    BY <1>0, <1>3, <1>5 DEF BuffersOk, WriterSent
  <2>3. currBufferOffset[e] < b.size
    <3>1. currBufferIndex[e] + currBufferOffset[e] < nextBufferIndex[e]
      BY <1>3, <1>5 DEF WriterSent, Pos
    <3>. QED  BY <2>1, <2>2, <3>1
  <2>4. len > 0 /\ currBufferOffset[e] + len <= b.size
    BY <1>3, <1>5, <2>3 DEF WriterSent
  <2>5. \/ currBufferIndex'[e] = b.head_seq /\ currBufferOffset'[e] < b.size
        \/ currBufferIndex'[e] = nextBufferIndex[e] /\ currBufferOffset'[e] = 0
    <3>1. AdvanceWriter(e, b, len)
      BY <1>3, <1>5 DEF WriterSent
    <3>2. CASE currBufferOffset[e] + len = b.size
      BY <2>1, <2>2, <3>1, <3>2 DEF AdvanceWriter
    <3>3. CASE currBufferOffset[e] + len # b.size
      BY <2>1, <2>2, <2>4, <3>1, <3>3 DEF AdvanceWriter
    <3>. QED  BY <3>2, <3>3
  <2>6. \A c \in sendBuffers[e] : c.head_seq = b.head_seq /\ c.size = b.size
    BY <1>5, OneBuffer
  <2>7. sendBuffers[e] # {}
    BY <1>5
  <2>. QED  BY <1>0, <1>1, <2>5, <2>6, <2>7 DEF BuffersOk
<1>. QED  BY <1>4, <1>5

\* A tunnel that opens has no buffer, and its writer is put at the first number.
LEMMA BuffersOpened ==
    ASSUME Orderly, TypeOK, EarlyInv, LifeInv, OrderlyInv, [Next]_vars, NEW e \in Ends,
           OpenFinish \/ \E h \in handling : Establish(h)
    PROVE  BuffersOk(e)'
<1>. USE Numbers
<1>0. (Healthy(e)' => Healthy(e)) /\ BuffersOk(e)
  BY OrderlySteps DEF OrderlyInv
<1>1. UNCHANGED <<sendBuffers, currBufferOffset, writePc, writeIndex>>
  BY DEF OpenFinish, Establish, FirstSequence, writeVars
<1>2. CASE (e = Client /\ OpenFinish) \/ \E h \in handling : Establish(h) /\ h.pkt.to = e
  <2>1. Early(e) /\ FirstSequence(e, ISN[e] + 1)
    BY <1>2, FirstNumbers DEF OrderlyInv
  <2>2. sendBuffers[e] = {}
    BY <2>1, OneBuffer
  <2>3. currBufferOffset[e] = 0
    BY <1>0, <2>1, <2>2 DEF BuffersOk, Healthy
  <2>4. currBufferIndex'[e] = nextBufferIndex'[e]
    <3>. /\ nextBufferIndex \in [Ends -> Nat] /\ currBufferIndex \in [Ends -> Nat]
      BY DEF TypeOK
    <3>. QED  BY <2>1 DEF FirstSequence
  <2>. QED  BY <1>1, <2>2, <2>3, <2>4 DEF BuffersOk
<1>3. CASE ~((e = Client /\ OpenFinish) \/ \E h \in handling : Establish(h) /\ h.pkt.to = e)
  <2>1. PICK f \in Ends \ {e} : \E ack : FirstSequence(f, ack)
    <3>1. CASE OpenFinish
      BY <1>3, <3>1 DEF OpenFinish
    <3>2. ASSUME NEW h \in handling, Establish(h)
          PROVE  \E f \in Ends \ {e} : \E ack : FirstSequence(f, ack)
      <4>1. h.pkt.to \in Ends
        BY HandledPacket, TypeGroups
      <4>. QED  BY <1>3, <3>2, <4>1 DEF Establish
    <3>. QED  BY <3>1, <3>2
  <2>2. nextBufferIndex'[e] = nextBufferIndex[e] /\ currBufferIndex'[e] = currBufferIndex[e]
    <3>. /\ nextBufferIndex \in [Ends -> Nat] /\ currBufferIndex \in [Ends -> Nat]
      BY DEF TypeOK
    <3>. QED  BY <2>1 DEF FirstSequence
  <2>. QED  BY <1>0, <1>1, <2>2, BuffersSame DEF Pending
<1>. QED  BY <1>2, <1>3

\* The other steps of Write: none starts on a tunnel that is not open, and a call that succeeds
\* has no buffer left.
LEMMA BuffersWritten ==
    ASSUME Orderly, TypeOK, EarlyInv, LifeInv, OrderlyInv, [Next]_vars, NEW w \in Calls,
           Writing(w), ~WriteAppend(w), ~GiveUp(w), NEW e \in Ends
    PROVE  BuffersOk(e)'
<1>. USE Numbers
<1>. writePc \in [Calls -> {"idle", "checked", "appended", "waiting", "ok", "failed"}]
  BY DEF TypeOK
<1>0. (Healthy(e)' => Healthy(e)) /\ BuffersOk(e)
  BY OrderlySteps DEF OrderlyInv
<1>1. /\ UNCHANGED <<sendBuffers, currBufferIndex, currBufferOffset, nextBufferIndex, writeIndex>>
      /\ \/ writePc' = [writePc EXCEPT ![w] = "checked"] /\ ~Pending(w) /\ Healthy(Caller[w])
         \/ writePc' = [writePc EXCEPT ![w] = "waiting"]
         \/ writePc' = [writePc EXCEPT ![w] = "ok"] /\ BufferOf(w) = {}
  <2>1. WriteStart(w) \/ WriteSpawn(w) \/ WriteFinish(w)
    BY DEF Writing, GiveUp
  <2>2. CASE WriteStart(w)
    BY <2>2 DEF WriteStart, bufferVars, Pending, Healthy
  <2>3. CASE WriteSpawn(w)
    BY <2>3 DEF WriteSpawn, bufferVars
  <2>4. CASE WriteFinish(w)
    BY <2>4 DEF WriteFinish, bufferVars
  <2>. QED  BY <2>1, <2>2, <2>3, <2>4
<1>2. \A v \in Calls : Pending(v) /\ BufferOf(v) # {} => Pending(v)' /\ writeIndex'[v] = writeIndex[v]
  BY <1>1 DEF Pending
<1>3. \A v \in Calls : Caller[v] = e /\ writePc'[v] = "checked" => writePc[v] = "checked" \/ Healthy(e)
  BY <1>1
<1>. QED  BY <1>0, <1>1, <1>2, <1>3, BuffersSame

\* Every buffer belongs to the call that waits for it, and writerThread is never off the buffers.
LEMMA BuffersKept ==
    ASSUME Orderly, TypeOK, EarlyInv, LifeInv, OrderlyInv, [Next]_vars, NEW e \in Ends
    PROVE  BuffersOk(e)'
<1>. USE Numbers
<1>0. (Healthy(e)' => Healthy(e)) /\ BuffersOk(e)
  BY OrderlySteps DEF OrderlyInv
<1>1. CASE \E w \in Calls : Writing(w)
  BY <1>1, BuffersAppended, BuffersGivenUp, BuffersWritten
<1>2. CASE OpenFinish \/ \E h \in handling : Establish(h)
  BY <1>2, BuffersOpened
<1>3. CASE \E f \in Ends : WriterSend(f)
  BY <1>3, BuffersSent
<1>4. CASE \E h \in handling : AckBuffers(h)
  BY <1>4, BuffersAcked
<1>5. CASE \E f \in Ends : ClearStep(f) /\ Clear(f)
  BY <1>5, BuffersCleared
<1>6. CASE UNCHANGED writeVars /\ sendBuffers' = sendBuffers
           /\ UNCHANGED <<nextBufferIndex, currBufferIndex, currBufferOffset>>
  BY <1>0, <1>6, BuffersSame DEF Pending, writeVars
<1>7. CASE \E h \in handling : AckSegments(h)
  <2>1. UNCHANGED writeVars /\ UNCHANGED bufferVars
    BY <1>7 DEF AckSegments
  <2>. QED  BY <1>6, <2>1 DEF bufferVars
<1>8. /\ \A w \in Calls : WriteAppend(w) => Writing(w)
      /\ \A w \in Calls : GiveUp(w) => Writing(w)
  BY DEF Writing, GiveUp
<1>. QED  BY <1>1, <1>2, <1>3, <1>4, <1>5, <1>6, <1>7, <1>8, WriteSteps, BufferSteps, NumberSteps

\* A list that only loses segments stays in order, if the buffers of the data that is left stay.
LEMMA SegmentsShrink ==
    ASSUME NEW e \in Ends, SegmentsOk(e), NEW segs,
           sendSegments'[e] = sendSegments[e] \ segs, retrySegments'[e] = retrySegments[e] \ segs,
           \A s \in sendSegments'[e] : s.type = "DATA" =>
                \E b \in sendBuffers'[e] : s.head = b.head_seq /\ EndOf(s) <= nextBufferIndex'[e]
    PROVE  SegmentsOk(e)'
<1>1. ASSUME NEW s \in sendSegments'[e] \cup retrySegments'[e], s.type = "DATA"
      PROVE  s.len > 0 /\ \E b \in sendBuffers'[e] : s.head = b.head_seq /\ EndOf(s) <= nextBufferIndex'[e]
  <2>1. s \in sendSegments[e] /\ s \notin segs
    BY <1>1 DEF SegmentsOk
  <2>2. s \in sendSegments'[e]
    BY <2>1
  <2>3. s.len > 0
    BY <1>1, <2>1 DEF SegmentsOk
  <2>. QED  BY <1>1, <2>2, <2>3
<1>2. \A s : s.type = "DATA" => (s \in sendSegments'[e] <=> s \in retrySegments'[e])
  BY DEF SegmentsOk
<1>3. /\ \A s, t \in sendSegments'[e] :
            s.type = "DATA" /\ t.type = "DATA" /\ s.seq = t.seq => s = t
      /\ \A s \in sendSegments'[e] : s.type # "DATA" => s.len = 0
  BY DEF SegmentsOk
<1>. QED  BY <1>1, <1>2, <1>3 DEF SegmentsOk, EndOf

\* Without a buffer there is no data in the lists.
LEMMA NoDataLeft ==
    ASSUME OrderlyInv, NEW e \in Ends, sendBuffers[e] = {}
    PROVE  \A s \in sendSegments[e] \cup retrySegments[e] : s.type # "DATA"
BY DEF OrderlyInv, SegmentsOk

\* What writerThread cuts off is in its buffer, and lies behind all data that was sent.
LEMMA SentBehind ==
    ASSUME TypeOK, EarlyInv, DataInv, OrderlyInv, NEW e \in Ends, WriterSend(e)
    PROVE  \E b \in sendBuffers[e] : \E seg :
            /\ seg.type = "DATA" /\ seg.seq = Pos(e) /\ seg.len \in Nat /\ seg.len > 0
            /\ seg.head = b.head_seq /\ EndOf(seg) <= nextBufferIndex[e]
            /\ InsertSegment(e, seg)
            /\ \A s \in sendSegments[e] : s.type = "DATA" => s.seq # seg.seq
<1>. USE Numbers
<1>. /\ nextBufferIndex \in [Ends -> Nat] /\ currBufferIndex \in [Ends -> Nat]
     /\ currBufferOffset \in [Ends -> Nat] /\ retrySegments \in [Ends -> SUBSET Segment]
  BY DEF TypeOK
<1>1. PICK b \in sendBuffers[e] : \E len \in Nat : WriterSent(e, b, len)
  BY WriterSends
<1>2. PICK len \in Nat : WriterSent(e, b, len)
  BY <1>1
<1>3. b.head_seq \in Nat /\ b.size \in Nat \ {0}
  BY OneBuffer
<1>4. /\ b.head_seq + b.size = nextBufferIndex[e]
      /\ \/ currBufferIndex[e] = b.head_seq /\ currBufferOffset[e] < b.size
         \/ currBufferIndex[e] = nextBufferIndex[e] /\ currBufferOffset[e] = 0
  BY DEF OrderlyInv, BuffersOk
<1>5. b.head_seq = currBufferIndex[e] /\ Pos(e) < nextBufferIndex[e]
  BY <1>2 DEF WriterSent
<1>6. currBufferOffset[e] < b.size
  BY <1>3, <1>4, <1>5 DEF Pos
<1>7. len > 0 /\ currBufferOffset[e] + len <= b.size
  BY <1>2, <1>6 DEF WriterSent
<1>. DEFINE seg == [type |-> "DATA", seq |-> Pos(e), len |-> len, head |-> currBufferIndex[e], round |-> 0]
<1>8. /\ seg.type = "DATA" /\ seg.seq = Pos(e) /\ seg.len = len /\ seg.head = b.head_seq
      /\ InsertSegment(e, seg)
  BY <1>2, <1>5 DEF WriterSent
<1>. HIDE DEF seg
<1>9. EndOf(seg) <= nextBufferIndex[e]
  BY <1>3, <1>4, <1>5, <1>7, <1>8 DEF EndOf, Pos
<1>10. ASSUME NEW s \in sendSegments[e], s.type = "DATA" PROVE s.seq # seg.seq
  <2>1. s \in retrySegments[e] /\ s.len > 0
    BY <1>10 DEF OrderlyInv, SegmentsOk
  <2>2. s.seq \in Nat /\ s.len \in Nat
    BY <2>1 DEF Segment
  <2>3. PieceOf(s) \in DataOf(e)
    BY <1>10, <2>1 DEF DataOf
  <2>4. EndOf(PieceOf(s)) <= Pos(e)
    BY <2>3 DEF DataInv
  <2>5. s.seq + s.len <= Pos(e)
    BY <2>4 DEF EndOf, PieceOf
  <2>. QED  BY <1>8, <2>1, <2>2, <2>5 DEF Pos
<1>. QED  BY <1>7, <1>8, <1>9, <1>10

\* Data that is not given up and not cleared keeps its buffer: handleAck takes a buffer away
\* after its last segment only.
LEMMA BufferStays ==
    ASSUME Orderly, TypeOK, EarlyInv, LifeInv, OrderlyInv, [Next]_vars,
           NEW e \in Ends, NEW s \in sendSegments[e], s.type = "DATA",
           \A w \in Calls : ~GiveUp(w), \A f \in Ends : ~Clear(f)
    PROVE  \E b \in sendBuffers'[e] : s.head = b.head_seq /\ EndOf(s) <= nextBufferIndex'[e]
<1>. USE Numbers
<1>. /\ nextBufferIndex \in [Ends -> Nat] /\ sendBuffers \in [Ends -> SUBSET Buffer]
     /\ currBufferIndex \in [Ends -> Nat] /\ sendSegments \in [Ends -> SUBSET Segment]
  BY DEF TypeOK
<1>1. PICK b \in sendBuffers[e] : s.head = b.head_seq /\ EndOf(s) <= nextBufferIndex[e]
  BY DEF OrderlyInv, SegmentsOk
<1>2. ~Early(e) /\ b.head_seq \in Nat /\ b.size \in Nat \ {0}
  BY OneBuffer
<1>3. ASSUME NEW w \in Calls, WriteAppend(w) PROVE Caller[w] # e
  <2>1. ~Resting(w) /\ ~Pending(w)
    BY <1>3, Appended DEF Resting, Pending
  <2>. QED  BY <1>1, <2>1, OneBuffer
<1>4. nextBufferIndex'[e] = nextBufferIndex[e]
  <2>1. CASE OpenFinish
    <3>1. e # Client /\ FirstSequence(Client, ISN[Client] + 1)
      BY <1>2, <2>1, FirstNumbers DEF OrderlyInv
    <3>. QED  BY <3>1 DEF FirstSequence
  <2>2. ASSUME NEW h \in handling, Establish(h) PROVE nextBufferIndex'[e] = nextBufferIndex[e]
    <3>1. e # h.pkt.to
      BY <1>2, <2>2, FirstNumbers DEF OrderlyInv
    <3>. QED  BY <2>2, <3>1 DEF Establish, FirstSequence
  <2>3. ASSUME NEW h \in handling, AckSegments(h) PROVE nextBufferIndex'[e] = nextBufferIndex[e]
    BY <2>3 DEF AckSegments, bufferVars
  <2>4. ASSUME NEW w \in Calls, WriteAppend(w) PROVE nextBufferIndex'[e] = nextBufferIndex[e]
    BY <1>3, <2>4, Appended
  <2>5. ASSUME NEW f \in Ends, WriterSend(f) PROVE nextBufferIndex'[e] = nextBufferIndex[e]
    BY <2>5, WriterSends
  <2>. QED  BY <2>1, <2>2, <2>3, <2>4, <2>5, NumberSteps
<1>5. b \in sendBuffers'[e]
  <2>1. ASSUME NEW w \in Calls, WriteAppend(w) PROVE b \in sendBuffers'[e]
    BY <1>3, <2>1, Appended
  <2>2. ASSUME NEW h \in handling, AckBuffers(h) PROVE b \in sendBuffers'[e]
    <3>1. /\ h.pc = "buffers"
          /\ sendBuffers' =
               [sendBuffers EXCEPT ![h.pkt.to] = @ \ AckedBuffers(sendBuffers[h.pkt.to], h.pkt.ack)]
      BY <2>2 DEF AckBuffers
    <3>2. CASE h.pkt.to # e
      BY <3>1, <3>2
    <3>3. CASE h.pkt.to = e
      <4>1. h.pkt.ack \in Nat
        <5>1. h.pkt \in Packet
          BY HandledPacket, TypeGroups
        <5>. QED  BY <5>1 DEF Packet
      <4>2. EndOf(s) > h.pkt.ack
        BY <3>1, <3>3 DEF OrderlyInv, AckedOk
      <4>3. EndOf(s) \in Nat
        BY DEF Segment, EndOf
      <4>4. nextBufferIndex[e] > h.pkt.ack
        BY <1>1, <4>1, <4>2, <4>3
      <4>5. b.head_seq + b.size = nextBufferIndex[e]
        BY DEF OrderlyInv, BuffersOk
      <4>6. b \notin AckedBuffers(sendBuffers[e], h.pkt.ack)
        BY <1>2, <4>1, <4>4, <4>5 DEF AckedBuffers
      <4>. QED  BY <3>1, <3>3, <4>6
    <3>. QED  BY <3>2, <3>3
  <2>. QED  BY <2>1, <2>2, BufferSteps
<1>. QED  BY <1>1, <1>4, <1>5

\* A control segment is queued when there is no data.
LEMMA ControlQueued ==
    ASSUME Orderly, TypeOK, EarlyInv, LifeInv, DataInv, OrderlyInv, [Next]_vars,
           OpenStart \/ HandleSyn \/ \E f \in Ends : CloseFin(f) \/ ForceCloseFin(f)
    PROVE  /\ \E f \in Ends : \E seg :
                /\ sendBuffers[f] = {} /\ seg.type # "DATA" /\ seg.len = 0
                /\ InsertSegment(f, seg)
           /\ UNCHANGED <<sendBuffers, nextBufferIndex, handling>>
<1>. USE Numbers
<1>1. CASE OpenStart
  <2>1. openPc[Client] # "ok"
    BY <1>1 DEF OpenStart
  <2>2. sendBuffers[Client] = {}
    BY <2>1 DEF DataInv
  <2>3. \E seg : seg.type # "DATA" /\ seg.len = 0 /\ InsertSegment(Client, seg)
    BY <1>1 DEF OpenStart, ControlSegment
  <2>. QED  BY <1>1, <2>2, <2>3 DEF OpenStart, bufferVars
<1>2. CASE HandleSyn
  <2>1. openPc[Server] = "idle"
    BY <1>2, AnsweredOnce DEF Orderly, EarlyInv, BeforeSyn
  <2>2. sendBuffers[Server] = {}
    BY <2>1 DEF DataInv
  <2>3. \E seg : seg.type # "DATA" /\ seg.len = 0 /\ InsertSegment(Server, seg)
    BY <1>2 DEF HandleSyn, ControlSegment
  <2>. QED  BY <1>2, <2>2, <2>3 DEF HandleSyn, bufferVars
<1>3. ASSUME NEW f \in Ends, CloseFin(f)
      PROVE  /\ sendBuffers[f] = {} /\ UNCHANGED <<sendBuffers, nextBufferIndex, handling>>
             /\ \E seg : seg.type # "DATA" /\ seg.len = 0 /\ InsertSegment(f, seg)
  <2>1. CloseBegun(f)
    BY <1>3 DEF CloseFin, CloseBegun
  <2>2. sendBuffers[f] = {}
    BY <2>1, OneBuffer
  <2>. QED  BY <1>3, <2>2 DEF CloseFin, SendFin, ControlSegment, bufferVars
<1>. QED  BY <1>1, <1>2, <1>3, OrderlySteps

\* The lists of segments stay in order: data is in both, and in a buffer that is there.
LEMMA SegmentsKept ==
    ASSUME Orderly, TypeOK, EarlyInv, LifeInv, DataInv, OrderlyInv, [Next]_vars, NEW e \in Ends
    PROVE  SegmentsOk(e)'
<1>. USE Numbers
<1>. /\ sendSegments \in [Ends -> SUBSET Segment] /\ retrySegments \in [Ends -> SUBSET Segment]
     /\ sendBuffers \in [Ends -> SUBSET Buffer]
  BY DEF TypeOK
<1>0. SegmentsOk(e)
  BY DEF OrderlyInv
<1>1. ASSUME NEW f \in Ends, NEW segs, EraseSegments(f, segs),
             \A w \in Calls : ~GiveUp(w), \A g \in Ends : ~Clear(g)
      PROVE  SegmentsOk(e)'
  <2>. DEFINE mine == IF e = f THEN segs ELSE {}
  <2>1. sendSegments'[e] = sendSegments[e] \ mine /\ retrySegments'[e] = retrySegments[e] \ mine
    BY <1>1 DEF EraseSegments
  <2>. HIDE DEF mine
  <2>2. ASSUME NEW s \in sendSegments'[e], s.type = "DATA"
        PROVE  \E b \in sendBuffers'[e] : s.head = b.head_seq /\ EndOf(s) <= nextBufferIndex'[e]
    BY <1>1, <2>1, <2>2, BufferStays
  <2>. QED  BY <1>0, <2>1, <2>2, SegmentsShrink
<1>2. CASE UNCHANGED <<sendSegments, retrySegments>> /\ (\A w \in Calls : ~GiveUp(w))
           /\ (\A g \in Ends : ~Clear(g))
  <2>1. sendSegments'[e] = sendSegments[e] \ {} /\ retrySegments'[e] = retrySegments[e] \ {}
    BY <1>2
  <2>2. ASSUME NEW s \in sendSegments'[e], s.type = "DATA"
        PROVE  \E b \in sendBuffers'[e] : s.head = b.head_seq /\ EndOf(s) <= nextBufferIndex'[e]
    BY <1>2, <2>2, BufferStays
  <2>. QED  BY <1>0, <2>1, <2>2, SegmentsShrink
<1>3. ASSUME NEW f \in Ends, NEW segs, EraseSegments(f, segs), nextBufferIndex' = nextBufferIndex,
             \A g \in Ends \ {f} : sendBuffers'[g] = sendBuffers[g],
             \A s \in sendSegments[f] : s.type = "DATA" => s \in segs
      PROVE  SegmentsOk(e)'
  <2>. DEFINE mine == IF e = f THEN segs ELSE {}
  <2>1. sendSegments'[e] = sendSegments[e] \ mine /\ retrySegments'[e] = retrySegments[e] \ mine
    BY <1>3 DEF EraseSegments
  <2>2. ASSUME NEW s \in sendSegments'[e], s.type = "DATA"
        PROVE  \E b \in sendBuffers'[e] : s.head = b.head_seq /\ EndOf(s) <= nextBufferIndex'[e]
    <3>1. e # f
      BY <1>3, <2>1, <2>2
    <3>2. \E b \in sendBuffers[e] : s.head = b.head_seq /\ EndOf(s) <= nextBufferIndex[e]
      BY <1>0, <2>1, <2>2 DEF SegmentsOk
    <3>. QED  BY <1>3, <3>1, <3>2
  <2>. HIDE DEF mine
  <2>. QED  BY <1>0, <2>1, <2>2, SegmentsShrink
<1>4. ASSUME NEW w \in Calls, GiveUp(w) PROVE SegmentsOk(e)'
  <2>1. Caller[w] \in Ends /\ Pending(w) /\ CancelFromBuffers(Caller[w], writeIndex[w])
    BY <1>4 DEF GiveUp, WriteSpawnRefused, WriteAborted, WriteTimeout, Pending
  <2>2. \A s \in sendSegments[Caller[w]] : s.type = "DATA" =>
            s \in {t \in sendSegments[Caller[w]] : t.head = writeIndex[w]}
    <3>1. ASSUME NEW s \in sendSegments[Caller[w]], s.type = "DATA" PROVE s.head = writeIndex[w]
      <4>1. PICK b \in sendBuffers[Caller[w]] : s.head = b.head_seq
        BY <2>1, <3>1 DEF OrderlyInv, SegmentsOk
      <4>. QED  BY <2>1, <4>1, OneBuffer DEF Pending, Resting
    <3>. QED  BY <3>1
  <2>3. /\ EraseSegments(Caller[w], {t \in sendSegments[Caller[w]] : t.head = writeIndex[w]})
        /\ nextBufferIndex' = nextBufferIndex
        /\ \A g \in Ends \ {Caller[w]} : sendBuffers'[g] = sendBuffers[g]
    BY <2>1 DEF CancelFromBuffers
  <2>. QED  BY <1>3, <2>1, <2>2, <2>3
<1>5. ASSUME NEW f \in Ends, Clear(f) PROVE SegmentsOk(e)'
  <2>1. /\ EraseSegments(f, sendSegments[f]) /\ nextBufferIndex' = nextBufferIndex
        /\ \A g \in Ends \ {f} : sendBuffers'[g] = sendBuffers[g]
    BY <1>5 DEF Clear
  <2>. QED  BY <1>3, <2>1
<1>6. CASE OpenStart \/ HandleSyn \/ \E f \in Ends : CloseFin(f) \/ ForceCloseFin(f)
  <2>1. UNCHANGED <<sendBuffers, nextBufferIndex>>
    BY <1>6, ControlQueued
  <2>2. PICK f \in Ends : \E seg : /\ sendBuffers[f] = {} /\ seg.type # "DATA" /\ seg.len = 0
                                   /\ InsertSegment(f, seg)
    BY <1>6, ControlQueued
  <2>3. PICK seg : /\ sendBuffers[f] = {} /\ seg.type # "DATA" /\ seg.len = 0
                   /\ InsertSegment(f, seg)
    BY <2>2
  <2>4. CASE e # f
    <3>1. sendSegments'[e] = sendSegments[e] /\ retrySegments'[e] = retrySegments[e]
      BY <2>3, <2>4 DEF InsertSegment
    <3>. QED  BY <1>0, <2>1, <3>1 DEF SegmentsOk
  <2>5. CASE e = f
    <3>1. /\ sendSegments'[e] \subseteq sendSegments[e] \cup {seg}
          /\ retrySegments'[e] = retrySegments[e] \cup {seg}
      BY <2>3, <2>5 DEF InsertSegment, WithSegment
    <3>2. \A s \in sendSegments[e] \cup retrySegments[e] : s.type # "DATA"
      BY <2>3, <2>5, NoDataLeft
    <3>3. \A s \in sendSegments'[e] \cup retrySegments'[e] : s.type # "DATA"
      BY <2>3, <3>1, <3>2
    <3>4. \A s \in sendSegments'[e] : s.len = 0
      BY <1>0, <2>3, <3>1, <3>2 DEF SegmentsOk
    <3>. QED  BY <3>3, <3>4 DEF SegmentsOk
  <2>. QED  BY <2>4, <2>5
<1>7. ASSUME NEW f \in Ends, WriterSend(f) PROVE SegmentsOk(e)'
  <2>1. UNCHANGED <<sendBuffers, nextBufferIndex>>
    BY <1>7, WriterSends
  <2>2. PICK b \in sendBuffers[f] : \E seg :
            /\ seg.type = "DATA" /\ seg.seq = Pos(f) /\ seg.len \in Nat /\ seg.len > 0
            /\ seg.head = b.head_seq /\ EndOf(seg) <= nextBufferIndex[f]
            /\ InsertSegment(f, seg)
            /\ \A s \in sendSegments[f] : s.type = "DATA" => s.seq # seg.seq
    BY <1>7, SentBehind
  <2>3. PICK seg :
            /\ seg.type = "DATA" /\ seg.seq = Pos(f) /\ seg.len \in Nat /\ seg.len > 0
            /\ seg.head = b.head_seq /\ EndOf(seg) <= nextBufferIndex[f]
            /\ InsertSegment(f, seg)
            /\ \A s \in sendSegments[f] : s.type = "DATA" => s.seq # seg.seq
    BY <2>2
  <2>4. CASE e # f
    <3>1. sendSegments'[e] = sendSegments[e] /\ retrySegments'[e] = retrySegments[e]
      BY <2>3, <2>4 DEF InsertSegment
    <3>. QED  BY <1>0, <2>1, <3>1 DEF SegmentsOk
  <2>5. CASE e = f
    <3>1. /\ sendSegments'[e] = {s \in sendSegments[e] : s.seq # seg.seq} \cup {seg}
          /\ retrySegments'[e] = retrySegments[e] \cup {seg}
      BY <2>3, <2>5 DEF InsertSegment, WithSegment
    <3>2. ASSUME NEW s \in sendSegments'[e] \cup retrySegments'[e], s.type = "DATA"
          PROVE  s.len > 0
                 /\ \E c \in sendBuffers'[e] : s.head = c.head_seq /\ EndOf(s) <= nextBufferIndex'[e]
      BY <1>0, <2>1, <2>3, <2>5, <3>1, <3>2 DEF SegmentsOk
    <3>3. \A s : s.type = "DATA" => (s \in sendSegments'[e] <=> s \in retrySegments'[e])
      BY <1>0, <2>3, <2>5, <3>1 DEF SegmentsOk
    <3>4. /\ \A s, t \in sendSegments'[e] :
                s.type = "DATA" /\ t.type = "DATA" /\ s.seq = t.seq => s = t
          /\ \A s \in sendSegments'[e] : s.type # "DATA" => s.len = 0
      BY <1>0, <2>3, <3>1 DEF SegmentsOk
    <3>5. \A s \in sendSegments'[e] \cup retrySegments'[e] : s.type = "DATA" =>
            s.len > 0 /\ \E c \in sendBuffers'[e] : s.head = c.head_seq /\ EndOf(s) <= nextBufferIndex'[e]
      BY <3>2
    <3>. QED  BY <3>3, <3>4, <3>5 DEF SegmentsOk, EndOf
  <2>. QED  BY <2>4, <2>5
<1>8. ASSUME NEW h \in handling, AckSegments(h) PROVE \E f \in Ends : \E segs : EraseSegments(f, segs)
  BY <1>8, HandledPacket, TypeGroups DEF AckSegments
<1>9. ASSUME NEW f \in Ends, CancelCtrlPktFromSegments(f) PROVE \E segs : EraseSegments(f, segs)
  BY <1>9 DEF CancelCtrlPktFromSegments
<1>. QED  BY <1>1, <1>2, <1>4, <1>5, <1>6, <1>7, <1>8, <1>9, SegmentSteps

\* The data in a list was there before, or writerThread has just cut it off.
LEMMA SentBefore ==
    ASSUME Orderly, TypeOK, EarlyInv, LifeInv, DataInv, OrderlyInv, [Next]_vars,
           NEW e \in Ends, NEW s \in sendSegments'[e], s.type = "DATA"
    PROVE  \/ s \in sendSegments[e]
           \/ sendBuffers[e] # {} /\ handling' = handling /\ s.seq = Pos(e) /\ s.len \in Nat /\ s.len > 0
<1>. USE Numbers
<1>. sendSegments \in [Ends -> SUBSET Segment]
  BY DEF TypeOK
<1>1. CASE OpenStart \/ HandleSyn \/ \E f \in Ends : CloseFin(f) \/ ForceCloseFin(f)
  <2>1. \E f \in Ends : \E seg : seg.type # "DATA" /\ InsertSegment(f, seg)
    BY <1>1, ControlQueued
  <2>. QED  BY <2>1 DEF InsertSegment, WithSegment
<1>2. ASSUME NEW f \in Ends, WriterSend(f), s \notin sendSegments[e]
      PROVE  sendBuffers[e] # {} /\ handling' = handling /\ s.seq = Pos(e) /\ s.len \in Nat /\ s.len > 0
  <2>1. PICK b \in sendBuffers[f] : \E seg :
            /\ seg.seq = Pos(f) /\ seg.len \in Nat /\ seg.len > 0 /\ InsertSegment(f, seg)
    BY <1>2, SentBehind
  <2>2. PICK seg : seg.seq = Pos(f) /\ seg.len \in Nat /\ seg.len > 0 /\ InsertSegment(f, seg)
    BY <2>1
  <2>3. e = f /\ s = seg
    BY <1>2, <2>2 DEF InsertSegment, WithSegment
  <2>4. handling' = handling
    BY <1>2, WriterSends
  <2>. QED  BY <2>1, <2>2, <2>3, <2>4
<1>3. ASSUME NEW f \in Ends, NEW segs, EraseSegments(f, segs) PROVE s \in sendSegments[e]
  BY <1>3 DEF EraseSegments
<1>4. ASSUME NEW h \in handling, AckSegments(h) PROVE \E f \in Ends : \E segs : EraseSegments(f, segs)
  BY <1>4, HandledPacket, TypeGroups DEF AckSegments
<1>5. ASSUME NEW w \in Calls, GiveUp(w) PROVE \E f \in Ends : \E segs : EraseSegments(f, segs)
  <2>1. CancelFromBuffers(Caller[w], writeIndex[w])
    BY <1>5 DEF GiveUp, WriteSpawnRefused, WriteAborted, WriteTimeout
  <2>. QED  BY <2>1 DEF CancelFromBuffers
<1>6. ASSUME NEW f \in Ends, Clear(f) \/ CancelCtrlPktFromSegments(f)
      PROVE  \E segs : EraseSegments(f, segs)
  BY <1>6 DEF Clear, CancelCtrlPktFromSegments
<1>7. CASE UNCHANGED <<sendSegments, retrySegments>>
  BY <1>7
<1>. QED  BY <1>1, <1>2, <1>3, <1>4, <1>5, <1>6, <1>7, SegmentSteps

\* handleAck leaves no data below the number it was given, and none is sent there later.
LEMMA AckedKept ==
    ASSUME Orderly
    PROVE  TypeOK /\ EarlyInv /\ LifeInv /\ DataInv /\ OrderlyInv /\ [Next]_vars => AckedOk'
<1>. SUFFICES ASSUME TypeOK, EarlyInv, LifeInv, DataInv, OrderlyInv, [Next]_vars,
                     NEW g \in handling', g.pc = "buffers",
                     NEW s \in sendSegments'[g.pkt.to], s.type = "DATA"
              PROVE  EndOf(s) > g.pkt.ack
  BY DEF AckedOk
<1>. USE Numbers
<1>. DEFINE e == g.pkt.to
<1>0. e \in Ends /\ g.pkt.ack \in Nat
  <2>1. handling' \subseteq Handling
    BY NextTyped DEF TypeOK
  <2>2. g.pkt \in Packet
    BY <2>1 DEF Handling
  <2>. QED  BY <2>2 DEF Packet
<1>. sendSegments \in [Ends -> SUBSET Segment]
  BY DEF TypeOK
<1>1. CASE s \notin sendSegments[e]
  <2>1. /\ sendBuffers[e] # {} /\ handling' = handling
        /\ s.seq = Pos(e) /\ s.len \in Nat /\ s.len > 0
    BY <1>0, <1>1, SentBefore
  <2>2. ~Early(e) /\ ~CloseBegun(e)
    BY <1>0, <2>1, OneBuffer
  <2>3. g.pkt.ack <= Pos(e)
    BY <1>0, <2>1, <2>2 DEF OrderlyInv, AcksOk, Limit
  <2>4. Pos(e) \in Nat
    BY <1>0, PosTyped
  <2>. HIDE DEF e
  <2>. QED  BY <1>0, <2>1, <2>3, <2>4 DEF EndOf, e
<1>2. CASE s \in sendSegments[e] /\ g \in handling
  BY <1>2 DEF OrderlyInv, AckedOk
<1>3. ASSUME NEW h \in handling, g.pkt = h.pkt, AckSegments(h), s \in sendSegments[e]
      PROVE  EndOf(s) > g.pkt.ack
  <2>1. s \notin AckedSegments(sendSegments[e], g.pkt.ack)
    BY <1>0, <1>3 DEF AckSegments, EraseSegments
  <2>2. PICK t \in sendSegments[e] : t.seq <= s.seq /\ ~(EndOf(t) <= g.pkt.ack)
    BY <1>3, <2>1 DEF AckedSegments
  <2>3. s \in Segment /\ t \in Segment
    BY <1>0, <1>3
  <2>4. s.seq \in Nat /\ s.len \in Nat /\ t.seq \in Nat /\ t.len \in Nat
    BY <2>3 DEF Segment
  <2>5. SegmentsOk(e)
    BY <1>0 DEF OrderlyInv
  <2>6. EndOf(t) <= EndOf(s)
    <3>1. CASE t.type # "DATA"
      <4>1. t.len = 0
        BY <2>5, <3>1 DEF SegmentsOk
      <4>. QED  BY <2>2, <2>4, <4>1 DEF EndOf
    <3>2. CASE t.type = "DATA" /\ t.seq = s.seq
      <4>1. t = s
        BY <1>3, <2>5, <3>2 DEF SegmentsOk
      <4>. QED  BY <2>4, <4>1 DEF EndOf
    <3>3. CASE t.type = "DATA" /\ t.seq # s.seq
      <4>1. s \in retrySegments[e] /\ t \in retrySegments[e]
        BY <1>3, <2>5, <3>3 DEF SegmentsOk
      <4>2. PieceOf(s) \in DataOf(e) /\ PieceOf(t) \in DataOf(e)
        BY <3>3, <4>1 DEF DataOf
      <4>3. PieceOf(t).seq < PieceOf(s).seq => EndOf(PieceOf(t)) <= PieceOf(s).seq
        BY <1>0, <4>2 DEF DataInv
      <4>4. t.seq + t.len <= s.seq
        BY <2>2, <2>4, <3>3, <4>3 DEF PieceOf, EndOf
      <4>. QED  BY <2>4, <4>4 DEF EndOf
    <3>. QED  BY <3>1, <3>2, <3>3
  <2>. HIDE DEF e
  <2>. QED  BY <1>0, <2>2, <2>4, <2>6 DEF EndOf
<1>4. ASSUME NEW p \in net, g.pc = FirstStep(p.to, p.type) PROVE FALSE
  BY <1>4 DEF FirstStep
<1>. QED  BY <1>1, <1>2, <1>3, <1>4, HandlerMoves

\* The send windows of orderly ends stay in order.
LEMMA OrderlyAlways == ASSUME Orderly PROVE Spec => []OrderlyInv
<1>. USE Numbers
<1>1. Init => OrderlyInv
  <2>. SUFFICES ASSUME Init PROVE OrderlyInv
    OBVIOUS
  <2>1. CallsInv
    BY DEF Init, CallsInv, CloseBegun, NoWrite, Resting
  <2>2. OpenedInv
    BY DEF Init, OpenedInv, Early
  <2>3. AckedOk
    BY DEF Init, AckedOk
  <2>4. ASSUME NEW e \in Ends PROVE BuffersOk(e) /\ SegmentsOk(e) /\ AcksOk(e)
    <3>1. /\ sendBuffers[e] = {} /\ sendSegments[e] = {} /\ retrySegments[e] = {}
          /\ nextBufferIndex[e] = 0 /\ currBufferIndex[e] = 0 /\ currBufferOffset[e] = 0
          /\ net = {} /\ handling = {} /\ state[e] = "NULL" /\ cur_ack = [f \in Ends |-> 0]
      BY DEF Init
    <3>2. BuffersOk(e) /\ SegmentsOk(e)
      BY <3>1 DEF BuffersOk, SegmentsOk
    <3>3. AcksOk(e)
      BY <3>1 DEF AcksOk, Limit, Early, Peer
    <3>. QED  BY <3>2, <3>3
  <2>. QED  BY <2>1, <2>2, <2>3, <2>4 DEF OrderlyInv
<1>2. TypeOK /\ EarlyInv /\ LifeInv /\ DataInv /\ DataHandlers /\ SynAckInv /\ OrderlyInv /\ [Next]_vars
         => OrderlyInv'
  <2>. SUFFICES ASSUME TypeOK, EarlyInv, LifeInv, DataInv, DataHandlers, SynAckInv, OrderlyInv, [Next]_vars
                PROVE  OrderlyInv'
    OBVIOUS
  <2>1. CallsInv' /\ OpenedInv'
    BY CallsKept, OpenedKept DEF OrderlyInv
  <2>2. AckedOk'
    BY AckedKept
  <2>3. \A e \in Ends : BuffersOk(e)' /\ SegmentsOk(e)'
    BY BuffersKept, SegmentsKept
  <2>4. \A e \in Ends : AcksOk(e)'
    BY AcksKept
  <2>. QED  BY <2>1, <2>2, <2>3, <2>4 DEF OrderlyInv
<1>3. OneLink /\ MaxSyn <= 1
  BY DEF Orderly
<1>4. Spec => [](DataInv /\ DataHandlers)
  BY <1>3, DataAlways
<1>5. Spec => []LifeInv
  BY <1>3, LifeAlways
<1>6. Spec => []SynAckInv
  BY <1>3, SynAckAlways
<1>. QED  BY <1>1, <1>2, <1>4, <1>5, <1>6, TypeCorrect, EarlyAlways, PTL DEF Spec

\* A segment never outlives the buffer it points into: while the applications of a connection make
\* one call at a time, no thread finds the data of a call that has returned.
THEOREM SegmentsHaveBuffers == ASSUME Orderly PROVE Spec => []BufferOutlivesSegments
<1>1. TypeOK /\ OrderlyInv => BufferOutlivesSegments
  <2>. SUFFICES ASSUME TypeOK, OrderlyInv, NEW e \in Ends,
                       NEW s \in sendSegments[e] \cup retrySegments[e], s.type = "DATA"
                PROVE  \E w \in Calls :
                            /\ Caller[w] = e /\ writePc[w] \in {"appended", "waiting"}
                            /\ writeIndex[w] = s.head /\ EndOf(s) <= writeIndex[w] + Size[w]
    BY DEF BufferOutlivesSegments
  <2>1. PICK b \in sendBuffers[e] : s.head = b.head_seq /\ EndOf(s) <= nextBufferIndex[e]
    BY DEF OrderlyInv, SegmentsOk
  <2>2. /\ b.head_seq + b.size = nextBufferIndex[e]
        /\ \E w \in Calls : /\ Caller[w] = e /\ writePc[w] \in {"appended", "waiting"}
                            /\ writeIndex[w] = b.head_seq /\ Size[w] = b.size
    BY DEF OrderlyInv, BuffersOk
  <2>. QED  BY <2>1, <2>2
<1>. QED  BY <1>1, OrderlyAlways, TypeCorrect, PTL

\* writerThread gives up only when the tunnel is open no more.
WriterInv == \A e \in Ends : writer[e] = "exited" => ~Healthy(e)

\* "Cannot find current buffer to send" does not happen to writerThread on an open tunnel whose
\* application makes one call at a time.
THEOREM WriterFindsBuffer == ASSUME Orderly PROVE Spec => []WriterKeepsUp
<1>. USE Numbers
<1>1. Init => WriterInv
  BY DEF Init, WriterInv
<1>2. TypeOK /\ EarlyInv /\ LifeInv /\ OrderlyInv /\ WriterInv /\ [Next]_vars => WriterInv'
  <2>. SUFFICES ASSUME TypeOK, EarlyInv, LifeInv, OrderlyInv, WriterInv, [Next]_vars,
                       NEW e \in Ends, writer'[e] = "exited", Healthy(e)'
                PROVE  FALSE
    BY DEF WriterInv
  <2>. writer \in [Ends -> {"idle", "running", "exited", "joined"}]
    BY DEF TypeOK
  <2>1. Healthy(e) /\ writer[e] # "exited"
    BY OrderlySteps DEF WriterInv
  <2>2. WriterExit(e)
    BY <2>1, WriterExits
  <2>3. /\ currBufferIndex[e] + currBufferOffset[e] < nextBufferIndex[e]
        /\ \A b \in sendBuffers[e] : b.head_seq # currBufferIndex[e]
    <3>. /\ nextBufferIndex \in [Ends -> Nat] /\ currBufferIndex \in [Ends -> Nat]
         /\ currBufferOffset \in [Ends -> Nat]
      BY DEF TypeOK
    <3>. QED  BY <2>2 DEF WriterExit, isAvailableBufferToSend
  <2>4. currBufferIndex[e] = nextBufferIndex[e] /\ currBufferOffset[e] = 0
    BY <2>1, <2>3 DEF OrderlyInv, BuffersOk
  <2>5. nextBufferIndex[e] \in Nat
    BY DEF TypeOK
  <2>. QED  BY <2>3, <2>4, <2>5
<1>3. WriterInv => WriterKeepsUp
  BY DEF WriterInv, WriterKeepsUp, Healthy
<1>4. OneLink
  BY DEF Orderly
<1>5. Spec => []LifeInv
  BY <1>4, LifeAlways
<1>. QED  BY <1>1, <1>2, <1>3, <1>5, TypeCorrect, EarlyAlways, OrderlyAlways, PTL DEF Spec
=============================================================================
