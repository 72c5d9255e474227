---------------------------- MODULE TunnelWindow ----------------------------
(***************************************************************************)
(* The window arithmetic of Transport/src/Vtunnel.cpp: what the loops over *)
(* the segment and buffer maps of a sendWindow and a recvWindow compute.   *)
(*                                                                         *)
(* A C++ map keyed by a sequence number is a set of records with at most   *)
(* one record for each key.  A sequence number counts bytes and a segment  *)
(* [seq, len] stands for the bytes seq .. seq + len - 1, so the payload of *)
(* a segment is its numbers: a byte is known by its place in the stream.   *)
(***************************************************************************)
EXTENDS Naturals, FiniteSetsExt

\* First number after a segment: the acknowledgement that covers it.
EndOf(seg) == seg.seq + seg.len

\* map::operator[]= on a map keyed by seq: the record with that key is replaced.
WithSegment(segs, seg) == {s \in segs : s.seq # seg.seq} \cup {seg}

\* Bytes of a set of segments.
Bytes(segs) == MapThenSumSet(LAMBDA s : s.len, segs)

-----------------------------------------------------------------------------
(* The receiving side *)

\* Where the loop of handleData may stop: at `from', or at the end of a later segment.
Boundaries(segs, from) == {from} \cup {EndOf(s) : s \in {t \in segs : t.seq >= from}}

\* The loop `while (recvSegments.find(cur_ack) != end) cur_ack += size' started at
\* `from' leaves cur_ack at `to': every boundary before `to' starts a segment, `to' does not.
IsRunEnd(segs, from, to) ==
    /\ to \in Boundaries(segs, from)
    /\ \A s \in segs : s.seq # to
    /\ \A b \in Boundaries(segs, from) : b < to => \E s \in segs : s.seq = b

-----------------------------------------------------------------------------
(* The sending side *)

\* Faulty variant: the segment that ends at the acknowledged number is kept.
PassedSegments(segs, ack) ==
    {s \in segs : \A t \in segs : t.seq <= s.seq => EndOf(t) < ack}

\* The segments handleAck removes: in key order, up to the first one that `ack' does not cover.
AckedSegments(segs, ack) ==
    {s \in segs : \A t \in segs : t.seq <= s.seq => EndOf(t) <= ack}

\* Faulty variant: the completion test is off by one.
NearlyAckedBuffers(bufs, ack) ==
    {b \in bufs : \A c \in bufs : c.head_seq <= b.head_seq => c.head_seq + c.size <= ack + 1}

\* The write buffers handleAck completes, by the same rule.
AckedBuffers(bufs, ack) ==
    {b \in bufs : \A c \in bufs : c.head_seq <= b.head_seq => c.head_seq + c.size <= ack}
=============================================================================
