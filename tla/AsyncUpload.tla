---------------------------- MODULE AsyncUpload ----------------------------
(***************************************************************************)
(* The asynchronous uploads of the CCD: a table of requests in sqlite      *)
(* (AsyncUploadQueue.cpp), and the agent whose worker thread takes them    *)
(* from the table one by one (HttpSvc_Ccd_AsyncAgent.cpp), while the HTTP  *)
(* handlers add, cancel and query them.                                    *)
(*                                                                         *)
(* Every call of the queue is made under the agent's mutex, and the mutex  *)
(* is released between two of them: a step is one such section.  The CCD   *)
(* makes a new agent at each start of its HTTP service; the worker of the  *)
(* one it stopped may still be running, and both use the same table.       *)
(*                                                                         *)
(* Left out: errors of sqlite, of memory and of starting a thread; the     *)
(* size sent so far while a file is being read; other users' rows.         *)
(***************************************************************************)
EXTENDS Integers, FiniteSets

CONSTANTS
    MaxRequests,    \* bound: uploads clients ask for, each to a path of its own
    Clients,        \* the threads of the HTTP service that run a handler
    MaxAgents,      \* bound: starts of the service, the last of which is not stopped
    None            \* no agent

ASSUME UploadConstants == MaxRequests \in Nat /\ MaxAgents \in Nat /\ None \notin Nat

Agents == 1 .. MaxAgents
Requests == 1 .. MaxRequests     \* in the order in which they are added

\* UploadStatusType; "querying" is set only in the worker's copy of a row.
Active == {"pending", "processing"}
Status == Active \cup {"complete", "failed", "cancelling", "cancelled"}

VARIABLES
    db,         \* the rows of async_upload: id, request, status, whether sent = size; and
                \* history: whether the running agent found the row or was signalled for it
    agent,      \* Handler_rf::asyncAgent_shared, the agent of the service that runs
    w,          \* AsyncAgent: its worker's place, cancelState, emptyDbOnDestroy, current stream
    cl,         \* the call of CancelRequest or GetRequestStatus of each client
    stores,     \* how often the server has stored the file of a request
    issued,     \* history: the ids given out, with the request each was given for
    overlapped  \* history: two workers have been alive at once

vars == <<db, agent, w, cl, stores, issued, overlapped>>

Row == [id : Nat, req : Requests, status : Status, whole : BOOLEAN, told : BOOLEAN]

IdleClient == [pc |-> "idle", agent |-> None, id |-> 0, req |-> None]

\* An agent before it is made; id and req are the worker's stream_transaction.
NoAgent == [pc |-> "none", cancel |-> FALSE, empty |-> FALSE, id |-> 0, req |-> None,
            hs |-> FALSE, stopped |-> FALSE]

Init ==
    /\ db = {}
    /\ agent = None
    /\ w = [a \in Agents |-> NoAgent]
    /\ cl = [c \in Clients |-> IdleClient]
    /\ stores = [r \in Requests |-> 0]
    /\ issued = {} /\ overlapped = FALSE

-----------------------------------------------------------------------------
(* The table *)

Waiting == {row \in db : row.status \in Active}

IsOldest(row) == row \in Waiting /\ \A other \in Waiting : row.id <= other.id

Ids == {row.id : row \in db}

\* Mutant: the id of the last row.
IsNewId_Last(i) == IF db = {} THEN i = 1 ELSE i \in Ids /\ \A other \in Ids : other <= i

\* "INTEGER PRIMARY KEY" without AUTOINCREMENT: one more than the largest id in the table, so
\* that the id of the last row is given out again once the row is deleted.
IsNewId(i) == IF db = {} THEN i = 1 ELSE i - 1 \in Ids /\ \A other \in Ids : other < i

SetStatus(i, s) == db' = {IF row.id = i THEN [row EXCEPT !.status = s] ELSE row : row \in db}

Told(b) == {[row EXCEPT !.told = b] : row \in db}

Delete(i) == db' = {row \in db : row.id # i}

-----------------------------------------------------------------------------
(* The service *)

WorkerDone == {"none", "exited", "gone"}

Alive(a) == w[a].pc \notin WorkerDone

\* An agent with its worker.  Its init and startProcessing keep what is in the table.
Start ==
    /\ agent = None
    /\ \E a \in Agents :
        /\ w[a].pc = "none" /\ \A b \in 1 .. a - 1 : w[b].pc # "none"
        /\ agent' = a
        /\ w' = [w EXCEPT ![a] = [NoAgent EXCEPT !.pc = "loop"]]
    /\ db' = Told(TRUE)
    /\ overlapped' = (overlapped \/ \E a \in Agents : Alive(a))
    /\ UNCHANGED <<cl, stores, issued>>

\* VPLCond_Signal of has_req_cond.
Wake(a) == IF w[a].pc = "asleep" THEN "loop" ELSE w[a].pc

\* Mutant: AsyncStop sets cancelState and does not signal.
AsyncStop_Silent(logout) ==
    /\ agent \notin {None, MaxAgents}
    /\ w' = [w EXCEPT ![agent].cancel = TRUE, ![agent].stopped = @ \/ w[agent].hs,
                      ![agent].empty = logout]
    /\ agent' = None /\ db' = Told(FALSE)
    /\ UNCHANGED <<cl, stores, issued, overlapped>>

AsyncStop(logout) ==
    /\ agent \notin {None, MaxAgents}
    /\ w' = [w EXCEPT ![agent].cancel = TRUE, ![agent].pc = Wake(agent),
                      ![agent].stopped = @ \/ w[agent].hs, ![agent].empty = logout]
    /\ agent' = None /\ db' = Told(FALSE)
    /\ UNCHANGED <<cl, stores, issued, overlapped>>

\* The last reference goes: the service's, the worker's or a handler's.  After a logout the
\* destructor empties the table.
Destroy(a) ==
    /\ agent # a /\ w[a].pc = "exited"
    /\ \A c \in Clients : cl[c].agent # a
    /\ w' = [w EXCEPT ![a] = [NoAgent EXCEPT !.pc = "gone"]]
    /\ db' = IF w[a].empty THEN {} ELSE db
    /\ UNCHANGED <<agent, cl, stores, issued, overlapped>>

\* The process dies; the table remains.
Crash ==
    /\ agent # MaxAgents
    /\ \E a \in Agents : w[a].pc \notin {"none", "gone"}
    /\ agent' = None /\ db' = Told(FALSE)
    /\ w' = [a \in Agents |-> IF w[a].pc = "none" THEN w[a] ELSE [NoAgent EXCEPT !.pc = "gone"]]
    /\ cl' = [c \in Clients |-> IdleClient]
    /\ UNCHANGED <<stores, issued, overlapped>>

-----------------------------------------------------------------------------
(* The handlers: each holds a reference of the agent it found when it began. *)

Held(a) == w[a].pc \notin {"none", "gone"}

\* Mutant: the worker is not signalled.
Signalled_Nobody(a) == w[a].pc

Signalled(a) == Wake(a)

\* AddRequest: a row, then the signal.
AddRequest(c, a, r) ==
    /\ cl[c].pc = "idle" /\ Held(a)
    /\ r = Cardinality(issued) + 1
    /\ \E i \in 1 .. r :
        /\ IsNewId(i)
        /\ db' = db \cup {[id |-> i, req |-> r, status |-> "pending", whole |-> FALSE,
                           told |-> a = agent]}
        /\ issued' = issued \cup {<<i, r>>}
    /\ w' = [w EXCEPT ![a].pc = Signalled(a)]
    /\ UNCHANGED <<agent, cl, stores, overlapped>>

Goto(c, pc) == cl' = [cl EXCEPT ![c] = IF pc = "idle" THEN IdleClient ELSE [@ EXCEPT !.pc = pc]]

\* QueryTransaction, the first section of both calls; what the row was is all they go by.
Query(c, a, row, pc) ==
    /\ cl[c].pc = "idle" /\ Held(a)
    /\ row \in db
    /\ cl' = [cl EXCEPT ![c] = [pc |-> pc, agent |-> a, id |-> row.id, req |-> row.req]]
    /\ UNCHANGED <<db, agent, w, stores, issued, overlapped>>

\* A finished or cancelling request is in the wrong state to cancel: nothing is done.
CancelRequest(c, a, row) ==
    \/ row.status = "pending" /\ Query(c, a, row, "dequeue")
    \/ row.status = "processing" /\ Query(c, a, row, "cancel")

\* "Dequeue finished request on first query."
GetRequestStatus(c, a, row) ==
    /\ \/ row.status = "complete" /\ row.whole
       \/ row.status \in {"cancelled", "failed"}
    /\ Query(c, a, row, "dequeue")

Dequeue(c) ==
    /\ cl[c].pc = "dequeue"
    /\ Delete(cl[c].id)
    /\ Goto(c, "idle")
    /\ UNCHANGED <<agent, w, stores, issued, overlapped>>

CancelMark(c) ==
    /\ cl[c].pc = "cancel"
    /\ SetStatus(cl[c].id, "cancelling")
    /\ Goto(c, "stop")
    /\ UNCHANGED <<agent, w, stores, issued, overlapped>>

\* Mutant: whatever stream is current is stopped.
IsCurrent_Any(a, i) == w[a].hs

\* curHs && curReqId == requestId
IsCurrent(a, i) == w[a].hs /\ w[a].id = i

CancelStop(c) ==
    /\ cl[c].pc = "stop"
    /\ w' = [w EXCEPT ![cl[c].agent].stopped = @ \/ IsCurrent(cl[c].agent, cl[c].id)]
    /\ Goto(c, "idle")
    /\ UNCHANGED <<db, agent, stores, issued, overlapped>>

-----------------------------------------------------------------------------
(* The worker *)

\* The worker goes on at pc.
At(a, pc) == w[a].pc = pc
Go(a, pc) == w' = [w EXCEPT ![a].pc = pc]

\* thread_main: the worker ends, or waits for has_req_cond ...
Loop(a) ==
    /\ At(a, "loop")
    /\ w[a].cancel \/ Waiting = {}
    /\ Go(a, IF w[a].cancel THEN "exited" ELSE "asleep")
    /\ UNCHANGED <<db, agent, cl, stores, issued, overlapped>>

\* ... or takes the oldest row.  tryGetRequest looks again at all thread_main has looked at
\* before it unlocked the mutex, and goes back to the loop when that has changed.
TryGetRequest(a) ==
    /\ At(a, "loop")
    /\ ~w[a].cancel
    /\ \E row \in db :
        /\ IsOldest(row)
        /\ w' = [w EXCEPT ![a].pc = "check", ![a].id = row.id, ![a].req = row.req]
    /\ UNCHANGED <<db, agent, cl, stores, issued, overlapped>>

\* The worker is done with a row and its status is written.  The stream is deleted a section
\* later; in between StopIo could only stop a stream that is not used any more.
Done(a, status) ==
    /\ SetStatus(w[a].id, status)
    /\ w' = [w EXCEPT ![a] = [NoAgent EXCEPT !.pc = "loop", !.cancel = w[a].cancel,
                                             !.empty = w[a].empty]]

\* checkNoExistence: the server is asked for the file with a stream that can be stopped ...
Check(a) ==
    /\ At(a, "check")
    /\ w' = [w EXCEPT ![a].pc = "checking", ![a].hs = TRUE, ![a].stopped = FALSE]
    /\ UNCHANGED <<db, agent, cl, stores, issued, overlapped>>

\* Mutant: any answer of the server will do.
NotThere_Any(r) == TRUE

\* The answer is 404.
NotThere(r) == stores[r] = 0

\* ... and the answer is that it is not there; it may have come before the stream was stopped.
Checked(a) ==
    /\ At(a, "checking") /\ NotThere(w[a].req)
    /\ w' = [w EXCEPT ![a].pc = "upload", ![a].hs = FALSE]
    /\ UNCHANGED <<db, agent, cl, stores, issued, overlapped>>

\* Or the request is malformed, there is no session, the answer is another one, or none.
CheckFailed(a) ==
    /\ At(a, "check") \/ At(a, "checking")
    /\ Done(a, "failed")
    /\ UNCHANGED <<agent, cl, stores, issued, overlapped>>

\* Mutant: only a cancelled upload is no success.
FinalStatus_NotCanceled(err) == IF err = "canceled" THEN "cancelled" ELSE "complete"

FinalStatus(err) ==
    CASE err = "none" -> "complete" [] err = "canceled" -> "cancelled" [] OTHER -> "failed"

\* uploadFile: the source file or the session is gone ...
UploadFails(a) ==
    /\ At(a, "upload")
    /\ Done(a, FinalStatus("other"))
    /\ UNCHANGED <<agent, cl, stores, issued, overlapped>>

\* ... or there is a new stream, and then the row is marked.
Upload(a) ==
    /\ At(a, "upload")
    /\ w' = [w EXCEPT ![a].pc = "mark", ![a].hs = TRUE, ![a].stopped = FALSE]
    /\ UNCHANGED <<db, agent, cl, stores, issued, overlapped>>

MarkProcessing(a) ==
    /\ At(a, "mark")
    /\ SetStatus(w[a].id, "processing")
    /\ Go(a, "uploading")
    /\ UNCHANGED <<agent, cl, stores, issued, overlapped>>

\* Dispatch sends the file, and the server stores it.
Store(a) ==
    /\ At(a, "uploading")
    /\ stores' = [stores EXCEPT ![w[a].req] = @ + 1]
    /\ Go(a, "stored")
    /\ UNCHANGED <<db, agent, cl, issued, overlapped>>

\* Dispatch returns with status 200, and UpdateSentSoFar sets what was read of the file; it may
\* have changed since its size was taken.
UpdateSentSoFar(a) ==
    /\ At(a, "stored")
    /\ \E whole \in BOOLEAN :
        db' = {IF row.id = w[a].id THEN [row EXCEPT !.whole = whole] ELSE row : row \in db}
    /\ Go(a, "sent")
    /\ UNCHANGED <<agent, cl, stores, issued, overlapped>>

Uploaded(a) ==
    /\ At(a, "sent")
    /\ Done(a, FinalStatus("none"))
    /\ UNCHANGED <<agent, cl, stores, issued, overlapped>>

\* Dispatch returns with an error, VPL_ERR_CANCELED only if the stream was stopped; the server
\* may have stored the file though its answer was not read.
NotUploaded(a) ==
    /\ At(a, "uploading") \/ At(a, "stored")
    /\ \E err \in {"other"} \cup IF w[a].stopped THEN {"canceled"} ELSE {} :
        Done(a, FinalStatus(err))
    /\ UNCHANGED <<agent, cl, stores, issued, overlapped>>

Worker(a) ==
    \/ Loop(a) \/ TryGetRequest(a)
    \/ Check(a) \/ Checked(a) \/ CheckFailed(a)
    \/ UploadFails(a) \/ Upload(a) \/ MarkProcessing(a)
    \/ Store(a) \/ UpdateSentSoFar(a) \/ Uploaded(a) \/ NotUploaded(a)

-----------------------------------------------------------------------------
Handler(c) ==
    \/ \E a \in Agents :
        \/ \E r \in Requests : AddRequest(c, a, r)
        \/ \E row \in db : CancelRequest(c, a, row) \/ GetRequestStatus(c, a, row)
    \/ Dequeue(c) \/ CancelMark(c) \/ CancelStop(c)

Next ==
    \/ Start \/ Crash
    \/ \E logout \in BOOLEAN : AsyncStop(logout)
    \/ \E a \in Agents : Worker(a) \/ Destroy(a)
    \/ \E c \in Clients : Handler(c)

Spec == Init /\ [][Next]_vars

\* The scheduler runs a worker that can run, and Dispatch returns: the sockets below have
\* timeouts.  Nothing makes clients call, or the service start or stop.
FairSpec == Spec /\ \A a \in Agents : WF_vars(Worker(a))
=============================================================================
