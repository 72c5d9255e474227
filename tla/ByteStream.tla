----------------------------- MODULE ByteStream -----------------------------
(***************************************************************************)
(* What a tunnel promises the two applications: in each direction, a       *)
(* stream of bytes.  A call of Write submits its bytes; the call succeeds  *)
(* only after the other end has received all of them (ts_client.hpp,       *)
(* TS_Write); Read returns the bytes that were received, in their order.   *)
(* A call may fail at any time before it has succeeded.                    *)
(*                                                                         *)
(* A byte is known by its place in the stream, from 1 on.                  *)
(***************************************************************************)
EXTENDS Naturals, Sequences

CONSTANTS Ends, Calls, Caller, Size

VARIABLES
    written,    \* written[e]: the bytes end e has submitted
    received,   \* received[e]: those of them that the other end has
    output,     \* output[e]: those that Read has returned there
    outcome,    \* outcome[w]: of call w
    place       \* place[w]: the last byte of call w

streamVars == <<written, received, output, outcome, place>>

Init ==
    /\ written = [e \in Ends |-> 0]
    /\ received = [e \in Ends |-> 0]
    /\ output = [e \in Ends |-> <<>>]
    /\ outcome = [w \in Calls |-> "idle"]
    /\ place = [w \in Calls |-> 0]

Submit(w) ==
    /\ outcome[w] = "idle"
    /\ written' = [written EXCEPT ![Caller[w]] = @ + Size[w]]
    /\ place' = [place EXCEPT ![w] = written'[Caller[w]]]
    /\ outcome' = [outcome EXCEPT ![w] = "pending"]
    /\ UNCHANGED <<received, output>>

Receive(e) ==
    /\ received[e] < written[e]
    /\ \E n \in (received[e] + 1)..written[e] : received' = [received EXCEPT ![e] = n]
    /\ UNCHANGED <<written, output, outcome, place>>

Confirm(w) ==
    /\ outcome[w] = "pending" /\ place[w] <= received[Caller[w]]
    /\ outcome' = [outcome EXCEPT ![w] = "ok"]
    /\ UNCHANGED <<written, received, output, place>>

Fail(w) ==
    /\ outcome[w] \in {"idle", "pending"}
    /\ outcome' = [outcome EXCEPT ![w] = "failed"]
    /\ UNCHANGED <<written, received, output, place>>

Consume(e) ==
    /\ Len(output[e]) < received[e]
    /\ \E n \in (Len(output[e]) + 1)..received[e] : output' = [output EXCEPT ![e] = [i \in 1..n |-> i]]
    /\ UNCHANGED <<written, received, outcome, place>>

Next ==
    \/ \E w \in Calls : Submit(w) \/ Confirm(w) \/ Fail(w)
    \/ \E e \in Ends : Receive(e) \/ Consume(e)

Spec == Init /\ [][Next]_streamVars
=============================================================================
