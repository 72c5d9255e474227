-------------------------- MODULE AsyncUploadProps --------------------------
(* What should hold of the asynchronous uploads. *)
EXTENDS AsyncUpload

\* An id that was given out for two requests.
Reused(i) == \E p, q \in issued : p[1] = i /\ q[1] = i /\ p[2] # q[2]

AgentType ==
    [pc : {"none", "loop", "asleep", "check", "checking", "upload", "mark", "uploading",
           "stored", "sent", "exited", "gone"},
     cancel : BOOLEAN, empty : BOOLEAN, id : Nat, req : Requests \cup {None},
     hs : BOOLEAN, stopped : BOOLEAN]

ClientType ==
    [pc : {"idle", "dequeue", "cancel", "stop"}, agent : Agents \cup {None}, id : Nat,
     req : Requests \cup {None}]

\* Every variable has its type, and an id names one row of the table.
TypeOK ==
    /\ db \subseteq Row
    /\ \A x, y \in db : x.id = y.id => x = y
    /\ agent \in Agents \cup {None}
    /\ w \in [Agents -> AgentType]
    /\ cl \in [Clients -> ClientType]
    /\ stores \in [Requests -> Nat]
    /\ issued \subseteq Nat \X Requests
    /\ overlapped \in BOOLEAN

\* uploadFile, GetRequestStatus: a client that reads "done" has its file at the server,
\* whatever was cancelled, stopped or resumed, if the id of its request was given out once.
CompleteMeansStored ==
    \A row \in db : row.status = "complete" /\ ~Reused(row.id) => stores[row.req] > 0

\* checkNoExistence: no file is written over by the resumption of a request that was stored
\* before a crash, while no worker outlives its service.
StoredOnce == ~overlapped => \A r \in Requests : stores[r] <= 1

\* CancelRequest: "If the current HttpStream obj is for this async request, cancel it": the
\* stream a client is about to stop serves the request whose row it has marked, though the
\* worker has gone on meanwhile, if the id was given out once.
CancelStopsItsOwn ==
    \A c \in Clients :
        cl[c].pc = "stop" /\ IsCurrent(cl[c].agent, cl[c].id) /\ ~Reused(cl[c].id)
            => w[cl[c].agent].req = cl[c].req

\* Enqueue, thread_main: a request the running agent knows of does not stay in the queue.
Queued(r) == \E row \in db : row.req = r /\ row.status \in Active

RequestServed ==
    \A r \in Requests :
        (\E row \in db : row.req = r /\ row.told /\ row.status \in Active) ~> (~Queued(r) \/ agent = None)

\* AsyncStop: the worker of an agent that is stopped ends.
StopEnds == \A a \in Agents : w[a].cancel ~> ~Alive(a)
=============================================================================
