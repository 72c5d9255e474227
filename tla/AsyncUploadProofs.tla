-------------------------- MODULE AsyncUploadProofs --------------------------
(***************************************************************************)
(* Proofs about the asynchronous uploads, for any number of requests,      *)
(* clients and starts of the service.                                      *)
(*                                                                         *)
(* Everyone who holds an id (a row, a worker, a client in a call) holds it *)
(* with a request it was given out for; while an id was given out once,    *)
(* they all mean the same request.                                         *)
(***************************************************************************)
EXTENDS AsyncUploadProps, TLAPS

Busy == {"check", "checking", "upload", "mark", "uploading", "stored", "sent"}

RowsIssued == \A row \in db : <<row.id, row.req>> \in issued

\* A worker that goes on to report success has stored the file.
WorkerOK(a) ==
    /\ w[a].pc \in Busy => <<w[a].id, w[a].req>> \in issued
    /\ w[a].hs => w[a].pc \in Busy
    /\ w[a].pc \in {"stored", "sent"} => stores[w[a].req] > 0

ClientsIssued ==
    \A c \in Clients : cl[c].pc # "idle" =>
        cl[c].agent \in Agents /\ <<cl[c].id, cl[c].req>> \in issued

IInv ==
    /\ TypeOK
    /\ RowsIssued /\ (\A a \in Agents : WorkerOK(a)) /\ ClientsIssued
    /\ CompleteMeansStored

\* The record of an agent that is not there is typed, and no worker is busy in it.
LEMMA NoAgentTyped == NoAgent \in AgentType /\ NoAgent.pc \notin Busy /\ ~NoAgent.hs
  BY DEF NoAgent, AgentType, Busy

\* The record of a caller between two calls is typed.
LEMMA IdleClientTyped == IdleClient \in ClientType /\ IdleClient.pc = "idle"
  BY DEF IdleClient, ClientType

\* The invariant holds when the service comes up with an empty queue.
LEMMA InitIInv == Init => IInv
  <1> SUFFICES ASSUME Init PROVE IInv
    OBVIOUS
  <1>1. TypeOK
    BY NoAgentTyped, IdleClientTyped DEF Init, TypeOK
  <1>2. RowsIssued /\ (\A a \in Agents : WorkerOK(a)) /\ ClientsIssued /\ CompleteMeansStored
    BY NoAgentTyped, IdleClientTyped
       DEF Init, RowsIssued, WorkerOK, ClientsIssued, CompleteMeansStored, Busy
  <1> QED
    BY <1>1, <1>2 DEF IInv

-----------------------------------------------------------------------------
(* The history *)

\* Two requests under one id: the id was reused.
LEMMA OneRequest ==
  ASSUME NEW i, NEW r, NEW q, <<i, r>> \in issued, <<i, q>> \in issued, ~Reused(i)
  PROVE  r = q
  BY DEF Reused

\* An id that is not reused after a step was not before.
LEMMA ReusedStays ==
  ASSUME NEW i, issued \subseteq issued', Reused(i)
  PROVE  Reused(i)'
  BY DEF Reused

\* A step keeps what was given out and what was stored.
HistoryGrows ==
    /\ issued \subseteq issued' /\ issued' \subseteq Nat \X Requests
    /\ stores' \in [Requests -> Nat]
    /\ \A r \in Requests : stores[r] > 0 => stores'[r] > 0

\* A step that issues no id and stores no file keeps the history.
LEMMA HistoryKept == IInv /\ UNCHANGED <<issued, stores>> => HistoryGrows
  BY DEF HistoryGrows, IInv, TypeOK

-----------------------------------------------------------------------------
(* The table: a step may give a row another status, and complete only if its request is stored *)

RowsTyped == db' \subseteq Row /\ \A x, y \in db' : x.id = y.id => x = y

RowsFrom ==
    \A row \in db' : \E old \in db :
        /\ old.id = row.id /\ old.req = row.req
        /\ row.status = "complete" => old.status = "complete" \/ stores[row.req] > 0 \/ Reused(row.id)

\* What a new value of the rows must satisfy for the parts of the invariant about rows.
LEMMA RowsPreserve ==
  ASSUME IInv, RowsFrom, HistoryGrows
  PROVE  RowsIssued' /\ CompleteMeansStored'
  <1>1. RowsIssued'
    BY DEF RowsFrom, IInv, RowsIssued, HistoryGrows
  <1>2. CompleteMeansStored'
    <2> SUFFICES ASSUME NEW row \in db', row.status = "complete", ~Reused(row.id)'
                 PROVE  stores'[row.req] > 0
      BY DEF CompleteMeansStored
    <2>1. ~Reused(row.id)
      BY ReusedStays DEF HistoryGrows
    <2>2. PICK old \in db : /\ old.id = row.id /\ old.req = row.req
                            /\ old.status = "complete" \/ stores[row.req] > 0
      BY <2>1 DEF RowsFrom
    <2>3. row.req \in Requests
      BY <2>2 DEF IInv, TypeOK, Row
    <2>4. stores[row.req] > 0
      BY <2>1, <2>2 DEF IInv, CompleteMeansStored
    <2> QED
      BY <2>3, <2>4 DEF HistoryGrows
  <1> QED
    BY <1>1, <1>2

\* UPDATE ... SET status WHERE id
LEMMA SetStatusRows ==
  ASSUME IInv, NEW i \in Nat, NEW s \in Status, SetStatus(i, s),
         s = "complete" => \A row \in db : row.id = i => stores[row.req] > 0 \/ Reused(row.id)
  PROVE  RowsTyped /\ RowsFrom
  <1> DEFINE F(row) == IF row.id = i THEN [row EXCEPT !.status = s] ELSE row
  <1>1. db' = {F(row) : row \in db}
    BY DEF SetStatus
  <1>2. \A row \in db : /\ F(row) \in Row /\ F(row).id = row.id /\ F(row).req = row.req
                        /\ F(row).status = IF row.id = i THEN s ELSE row.status
    BY DEF IInv, TypeOK, Row
  <1> HIDE DEF F
  <1>3. RowsTyped
    <2>1. db' \subseteq Row
      BY <1>1, <1>2
    <2>2. ASSUME NEW x \in db', NEW y \in db', x.id = y.id PROVE x = y
      <3>1. PICK p \in db, q \in db : x = F(p) /\ y = F(q)
        BY <1>1
      <3>2. p = q
        BY <1>2, <2>2, <3>1 DEF IInv, TypeOK
      <3> QED
        BY <3>1, <3>2
    <2> QED
      BY <2>1, <2>2 DEF RowsTyped
  <1>4. RowsFrom
    BY <1>1, <1>2 DEF RowsFrom
  <1> QED
    BY <1>3, <1>4

\* The history of the rows.
LEMMA ToldRows ==
  ASSUME IInv, NEW b \in BOOLEAN, db' = Told(b)
  PROVE  RowsTyped /\ RowsFrom
  <1> DEFINE F(row) == [row EXCEPT !.told = b]
  <1>1. db' = {F(row) : row \in db}
    BY DEF Told
  <1>2. \A row \in db : /\ F(row) \in Row /\ F(row).id = row.id /\ F(row).req = row.req
                        /\ F(row).status = row.status
    BY DEF IInv, TypeOK, Row
  <1> HIDE DEF F
  <1>3. RowsTyped
    BY <1>1, <1>2 DEF RowsTyped, IInv, TypeOK
  <1>4. RowsFrom
    BY <1>1, <1>2 DEF RowsFrom
  <1> QED
    BY <1>3, <1>4

\* UPDATE ... SET sent WHERE id
LEMMA SentRows ==
  ASSUME IInv, NEW i \in Nat, NEW b \in BOOLEAN,
         db' = {IF row.id = i THEN [row EXCEPT !.whole = b] ELSE row : row \in db}
  PROVE  RowsTyped /\ RowsFrom
  <1> DEFINE F(row) == IF row.id = i THEN [row EXCEPT !.whole = b] ELSE row
  <1>1. db' = {F(row) : row \in db}
    OBVIOUS
  <1>2. \A row \in db : /\ F(row) \in Row /\ F(row).id = row.id /\ F(row).req = row.req
                        /\ F(row).status = row.status
    BY DEF IInv, TypeOK, Row
  <1> HIDE DEF F
  <1>3. RowsTyped
    BY <1>1, <1>2 DEF RowsTyped, IInv, TypeOK
  <1>4. RowsFrom
    BY <1>1, <1>2 DEF RowsFrom
  <1> QED
    BY <1>3, <1>4

\* DELETE, and no change at all.
LEMMA SubsetRows ==
  ASSUME IInv, db' \subseteq db
  PROVE  RowsTyped /\ RowsFrom
  BY DEF RowsFrom, RowsTyped, IInv, TypeOK

-----------------------------------------------------------------------------
(* The workers *)

WorkersTyped == w' \in [Agents -> AgentType]

\* A worker that a step leaves as it is, or out of work, or busy with what it was busy with.
WorkerKept(a) ==
    \/ w'[a].pc \notin Busy /\ ~w'[a].hs
    \/ /\ w'[a].pc = w[a].pc /\ w'[a].id = w[a].id /\ w'[a].req = w[a].req /\ w'[a].hs = w[a].hs

\* What new values of the agents must satisfy for the parts of the invariant about workers.
LEMMA WorkersPreserve ==
  ASSUME IInv, HistoryGrows, NEW a \in Agents, WorkerKept(a)
  PROVE  WorkerOK(a)'
  <1>1. WorkerOK(a) /\ (w[a].pc \in Busy => w[a].req \in Requests)
    BY DEF IInv, WorkerOK, TypeOK
  <1> QED
    BY <1>1 DEF WorkerKept, WorkerOK, HistoryGrows, Busy

\* All that IInv says after a step.
LEMMA Together ==
  ASSUME IInv, HistoryGrows, RowsTyped, RowsFrom, WorkersTyped, \A a \in Agents : WorkerOK(a)',
         agent' \in Agents \cup {None}, overlapped' \in BOOLEAN,
         cl' \in [Clients -> ClientType], ClientsIssued'
  PROVE  IInv'
  <1>1. TypeOK'
    BY DEF TypeOK, RowsTyped, WorkersTyped, HistoryGrows
  <1> QED
    BY <1>1, RowsPreserve DEF IInv

\* A step of a client leaves the others' calls.
LEMMA ClientsKept ==
  ASSUME IInv, HistoryGrows, NEW c \in Clients, NEW v \in ClientType, cl' = [cl EXCEPT ![c] = v],
         v.pc # "idle" => v.agent \in Agents /\ <<v.id, v.req>> \in issued
  PROVE  cl' \in [Clients -> ClientType] /\ ClientsIssued'
  BY DEF IInv, TypeOK, ClientsIssued, HistoryGrows

\* A step that leaves the callers alone, and takes no agent from them, keeps their part.
LEMMA ClientsUnchanged ==
  ASSUME IInv, HistoryGrows, UNCHANGED cl
  PROVE  cl' \in [Clients -> ClientType] /\ ClientsIssued'
  BY DEF IInv, TypeOK, ClientsIssued, HistoryGrows

-----------------------------------------------------------------------------
(* The service *)

\* AsyncAgent::Start keeps the invariant.
LEMMA StartStep == IInv /\ Start => IInv'
  <1> SUFFICES ASSUME IInv, Start PROVE IInv'
    OBVIOUS
  <1>1. PICK a \in Agents : agent' = a /\ w' = [w EXCEPT ![a] = [NoAgent EXCEPT !.pc = "loop"]]
    BY DEF Start
  <1>2. HistoryGrows /\ RowsTyped /\ RowsFrom /\ cl' = cl /\ overlapped' \in BOOLEAN
    BY HistoryKept, ToldRows DEF Start, IInv, TypeOK
  <1>3. [NoAgent EXCEPT !.pc = "loop"] \in AgentType
    BY DEF NoAgent, AgentType
  <1>4. WorkersTyped
    BY <1>1, <1>3 DEF WorkersTyped, IInv, TypeOK
  <1>5. ASSUME NEW b \in Agents PROVE WorkerKept(b)
    BY <1>1 DEF WorkerKept, IInv, TypeOK, NoAgent, Busy
  <1> QED
    BY <1>1, <1>2, <1>4, <1>5, WorkersPreserve, ClientsUnchanged, Together

\* AsyncAgent::AsyncStop keeps the invariant, at a logout or not.
LEMMA StopStep == ASSUME IInv, NEW logout \in BOOLEAN, AsyncStop(logout) PROVE IInv'
  <1>1. HistoryGrows /\ RowsTyped /\ RowsFrom
    BY HistoryKept, ToldRows DEF AsyncStop
  <1>2. agent \in Agents /\ w[agent] \in AgentType
    BY DEF AsyncStop, IInv, TypeOK
  <1>3. w' = [w EXCEPT ![agent] = [w[agent] EXCEPT !.cancel = TRUE, !.pc = Wake(agent),
                                       !.stopped = w[agent].stopped \/ w[agent].hs, !.empty = logout]]
    BY DEF AsyncStop, IInv, TypeOK
  <1>4. w'[agent] \in AgentType
    BY <1>2, <1>3 DEF AgentType, Wake, IInv, TypeOK
  <1>5. WorkersTyped
    BY <1>2, <1>3, <1>4 DEF WorkersTyped, IInv, TypeOK
  <1>6. ASSUME NEW b \in Agents PROVE WorkerOK(b)'
    <2>1. CASE b # agent \/ w[agent].pc # "asleep"
      BY <1>1, <1>2, <1>3, <2>1, WorkersPreserve DEF WorkerKept, IInv, TypeOK, Wake, AgentType
    <2>2. CASE b = agent /\ w[agent].pc = "asleep"
      BY <1>1, <1>2, <1>3, <2>2 DEF WorkerOK, IInv, TypeOK, Wake, AgentType, Busy
    <2> QED
      BY <2>1, <2>2
  <1> QED
    BY <1>1, <1>5, <1>6, ClientsUnchanged, Together DEF AsyncStop, IInv, TypeOK

\* AsyncAgent::Destroy keeps the invariant.
LEMMA DestroyStep == ASSUME IInv, NEW a \in Agents, Destroy(a) PROVE IInv'
  <1>1. HistoryGrows /\ RowsTyped /\ RowsFrom
    BY HistoryKept, SubsetRows DEF Destroy
  <1>2. [NoAgent EXCEPT !.pc = "gone"] \in AgentType
    BY DEF NoAgent, AgentType
  <1>3. WorkersTyped
    BY <1>2 DEF Destroy, WorkersTyped, IInv, TypeOK
  <1>4. ASSUME NEW b \in Agents PROVE WorkerKept(b)
    BY DEF Destroy, WorkerKept, IInv, TypeOK, NoAgent, Busy
  <1> QED
    BY <1>1, <1>3, <1>4, WorkersPreserve, ClientsUnchanged, Together DEF Destroy, IInv, TypeOK

\* A crash of the daemon keeps the invariant: the rows stay, the threads go.
LEMMA CrashStep == IInv /\ Crash => IInv'
  <1> SUFFICES ASSUME IInv, Crash PROVE IInv'
    OBVIOUS
  <1>1. HistoryGrows /\ RowsTyped /\ RowsFrom
    BY HistoryKept, ToldRows DEF Crash
  <1>2. [NoAgent EXCEPT !.pc = "gone"] \in AgentType
    BY DEF NoAgent, AgentType
  <1>3. WorkersTyped
    BY <1>2 DEF Crash, WorkersTyped, IInv, TypeOK
  <1>4. ASSUME NEW b \in Agents PROVE WorkerKept(b)
    BY DEF Crash, WorkerKept, IInv, TypeOK, NoAgent, Busy
  <1>5. cl' \in [Clients -> ClientType] /\ ClientsIssued'
    BY IdleClientTyped DEF Crash, ClientsIssued
  <1> QED
    BY <1>1, <1>3, <1>4, <1>5, WorkersPreserve, Together DEF Crash, IInv, TypeOK

-----------------------------------------------------------------------------
(* The handlers *)

\* AddRequest keeps the invariant.
LEMMA AddStep ==
  ASSUME IInv, NEW c \in Clients, NEW a \in Agents, NEW r \in Requests, AddRequest(c, a, r)
  PROVE  IInv'
  <1>1. PICK i \in 1 .. r : /\ IsNewId(i)
                            /\ db' = db \cup {[id |-> i, req |-> r, status |-> "pending",
                                               whole |-> FALSE, told |-> a = agent]}
                            /\ issued' = issued \cup {<<i, r>>}
    BY DEF AddRequest
  <1>2. i \in Nat
    BY UploadConstants DEF Requests
  <1>3. HistoryGrows
    BY <1>1, <1>2 DEF AddRequest, HistoryGrows, IInv, TypeOK
  <1> DEFINE new == [id |-> i, req |-> r, status |-> "pending", whole |-> FALSE, told |-> a = agent]
  <1>4. new \in Row /\ new.id = i /\ new.req = r /\ new.status = "pending"
    BY <1>2 DEF Row, Status, Active
  <1>5. \A row \in db : row.id # i
    <2> SUFFICES ASSUME NEW row \in db PROVE row.id # i
      OBVIOUS
    <2>1. row.id \in Ids /\ row.id \in Nat
      BY DEF Ids, IInv, TypeOK, Row
    <2>2. \A other \in Ids : other < i
      BY <1>1 DEF IsNewId
    <2>3. row.id < i
      BY <2>1, <2>2
    <2> QED
      BY <1>2, <2>1, <2>3
  <1>6. db' = db \cup {new}
    BY <1>1
  <1> HIDE DEF new
  <1>7. RowsTyped
    BY <1>4, <1>5, <1>6 DEF RowsTyped, IInv, TypeOK
  <1>8. RowsIssued'
    BY <1>1, <1>4, <1>6 DEF RowsIssued, IInv
  <1>9. CompleteMeansStored'
    <2> SUFFICES ASSUME NEW row \in db', row.status = "complete", ~Reused(row.id)'
                 PROVE  stores'[row.req] > 0
      BY DEF CompleteMeansStored
    <2>1. row \in db
      BY <1>4, <1>6
    <2>2. ~Reused(row.id)
      BY <1>3, ReusedStays DEF HistoryGrows
    <2> QED
      BY <2>1, <2>2 DEF AddRequest, IInv, CompleteMeansStored
  <1>10. w' = [w EXCEPT ![a] = [w[a] EXCEPT !.pc = Wake(a)]] /\ w[a] \in AgentType
    BY DEF AddRequest, Signalled, IInv, TypeOK
  <1>11. WorkersTyped
    <2>1. [w[a] EXCEPT !.pc = Wake(a)] \in AgentType
      BY <1>10 DEF Wake, AgentType
    <2> QED
      BY <1>10, <2>1 DEF WorkersTyped, IInv, TypeOK
  <1>12. ASSUME NEW b \in Agents PROVE WorkerOK(b)'
    <2>1. CASE b # a \/ w[a].pc # "asleep"
      BY <1>3, <1>10, <2>1, WorkersPreserve DEF WorkerKept, IInv, TypeOK, Wake, AgentType
    <2>2. CASE b = a /\ w[a].pc = "asleep"
      BY <1>10, <2>2 DEF WorkerOK, IInv, TypeOK, Wake, AgentType, Busy
    <2> QED
      BY <2>1, <2>2
  <1>13. cl' \in [Clients -> ClientType] /\ ClientsIssued'
    BY <1>3, ClientsUnchanged DEF AddRequest
  <1>14. TypeOK'
    BY <1>3, <1>7, <1>11, <1>13 DEF TypeOK, RowsTyped, WorkersTyped, HistoryGrows, AddRequest, IInv
  <1> QED
    BY <1>8, <1>9, <1>12, <1>13, <1>14 DEF IInv

\* The steps of a call that leave the workers.
LEMMA WorkersUnchanged ==
  ASSUME IInv, HistoryGrows, UNCHANGED w
  PROVE  WorkersTyped /\ \A a \in Agents : WorkerOK(a)'
  BY WorkersPreserve DEF WorkerKept, WorkersTyped, IInv, TypeOK

\* The look at a row with which CancelRequest and GetRequestStatus begin keeps the invariant.
LEMMA QueryStep ==
  ASSUME IInv, NEW c \in Clients, NEW a \in Agents, NEW row \in db,
         NEW pc \in {"dequeue", "cancel"}, Query(c, a, row, pc)
  PROVE  IInv'
  <1>1. HistoryGrows /\ RowsTyped /\ RowsFrom /\ UNCHANGED <<w, agent, overlapped>>
    BY HistoryKept, SubsetRows DEF Query
  <1>2. row \in Row /\ <<row.id, row.req>> \in issued
    BY DEF IInv, TypeOK, RowsIssued
  <1> DEFINE v == [pc |-> pc, agent |-> a, id |-> row.id, req |-> row.req]
  <1>3. v \in ClientType /\ v.agent \in Agents /\ <<v.id, v.req>> \in issued
    BY <1>2 DEF ClientType, Row
  <1>4. cl' = [cl EXCEPT ![c] = v]
    BY DEF Query
  <1> HIDE DEF v
  <1>5. cl' \in [Clients -> ClientType] /\ ClientsIssued'
    BY <1>1, <1>3, <1>4, ClientsKept
  <1> QED
    BY <1>1, <1>5, WorkersUnchanged, Together DEF IInv, TypeOK

\* The later steps of a call.
LEMMA GotoClients ==
  ASSUME IInv, HistoryGrows, NEW c \in Clients, NEW pc \in {"idle", "stop"}, cl[c].pc # "idle",
         Goto(c, pc)
  PROVE  cl' \in [Clients -> ClientType] /\ ClientsIssued'
  <1>1. cl[c] \in ClientType /\ cl[c].agent \in Agents /\ <<cl[c].id, cl[c].req>> \in issued
    BY DEF IInv, TypeOK, ClientsIssued
  <1>2. CASE pc = "idle"
    <2>1. cl' = [cl EXCEPT ![c] = IdleClient]
      BY <1>2 DEF Goto, IInv, TypeOK
    <2> QED
      BY <2>1, IdleClientTyped, ClientsKept
  <1>3. CASE pc = "stop"
    <2> DEFINE v == [cl[c] EXCEPT !.pc = "stop"]
    <2>1. cl' = [cl EXCEPT ![c] = v]
      BY <1>3 DEF Goto, IInv, TypeOK
    <2>2. v \in ClientType /\ v.agent \in Agents /\ <<v.id, v.req>> \in issued
      BY <1>1 DEF ClientType
    <2> HIDE DEF v
    <2> QED
      BY <2>1, <2>2, ClientsKept
  <1> QED
    BY <1>2, <1>3

\* The other steps of a call keep the invariant.
LEMMA CallStep ==
  ASSUME IInv, NEW c \in Clients, Dequeue(c) \/ CancelMark(c) \/ CancelStop(c)
  PROVE  IInv'
  <1>0. cl[c] \in ClientType
    BY DEF IInv, TypeOK
  <1>1. CASE Dequeue(c)
    <2>1. HistoryGrows /\ RowsTyped /\ RowsFrom
      BY <1>1, HistoryKept, SubsetRows DEF Dequeue, Delete
    <2>2. cl' \in [Clients -> ClientType] /\ ClientsIssued'
      BY <1>1, <2>1, GotoClients DEF Dequeue
    <2> QED
      BY <1>1, <2>1, <2>2, WorkersUnchanged, Together DEF Dequeue, IInv, TypeOK
  <1>2. CASE CancelMark(c)
    <2>1. cl[c].id \in Nat /\ "cancelling" \in Status
      BY <1>0 DEF ClientType, Status
    <2>2. HistoryGrows /\ RowsTyped /\ RowsFrom
      BY <1>2, <2>1, HistoryKept, SetStatusRows DEF CancelMark
    <2>3. cl' \in [Clients -> ClientType] /\ ClientsIssued'
      BY <1>2, <2>2, GotoClients DEF CancelMark
    <2> QED
      BY <1>2, <2>2, <2>3, WorkersUnchanged, Together DEF CancelMark, IInv, TypeOK
  <1>3. CASE CancelStop(c)
    <2>1. HistoryGrows /\ RowsTyped /\ RowsFrom
      BY <1>3, HistoryKept, SubsetRows DEF CancelStop
    <2>2. cl' \in [Clients -> ClientType] /\ ClientsIssued'
      BY <1>3, <2>1, GotoClients DEF CancelStop
    <2> DEFINE a == cl[c].agent
    <2>3. a \in Agents /\ w[a] \in AgentType
      BY <1>3 DEF CancelStop, IInv, TypeOK, ClientsIssued
    <2>4. w' = [w EXCEPT ![a] = [w[a] EXCEPT !.stopped = w[a].stopped \/ IsCurrent(a, cl[c].id)]]
      BY <1>3, <2>3 DEF CancelStop, IInv, TypeOK
    <2>5. [w[a] EXCEPT !.stopped = w[a].stopped \/ IsCurrent(a, cl[c].id)] \in AgentType
      BY <2>3 DEF AgentType
    <2>6. WorkersTyped
      BY <2>3, <2>4, <2>5 DEF WorkersTyped, IInv, TypeOK
    <2>7. ASSUME NEW b \in Agents PROVE WorkerKept(b)
      BY <2>3, <2>4 DEF WorkerKept, IInv, TypeOK, AgentType
    <2> QED
      BY <1>3, <2>1, <2>2, <2>6, <2>7, WorkersPreserve, Together DEF CancelStop, IInv, TypeOK
  <1> QED
    BY <1>1, <1>2, <1>3

-----------------------------------------------------------------------------
(* The worker *)

\* A step of the worker of a that changes nothing but w[a], the table and stores.
LEMMA WorkerStep ==
  ASSUME IInv, HistoryGrows, RowsTyped, RowsFrom, NEW a \in Agents, NEW v \in AgentType,
         w' = [w EXCEPT ![a] = v],
         UNCHANGED <<agent, cl, overlapped>>,
         v.pc \in Busy => <<v.id, v.req>> \in issued,
         v.hs => v.pc \in Busy,
         v.pc \in {"stored", "sent"} => stores'[v.req] > 0
  PROVE  IInv'
  <1>1. WorkersTyped
    BY DEF WorkersTyped, IInv, TypeOK
  <1>2. ASSUME NEW b \in Agents PROVE WorkerOK(b)'
    <2>1. CASE b = a
      BY <2>1 DEF WorkerOK, HistoryGrows, IInv, TypeOK
    <2>2. CASE b # a
      BY <2>2, WorkersPreserve DEF WorkerKept, IInv, TypeOK
    <2> QED
      BY <2>1, <2>2
  <1> QED
    BY <1>1, <1>2, ClientsUnchanged, Together DEF IInv, TypeOK

\* The worker moves to another place, with its id and its request.
LEMMA MoveStep ==
  ASSUME IInv, HistoryGrows, RowsTyped, RowsFrom, NEW a \in Agents,
         NEW pc \in {"loop", "asleep", "checking", "upload", "mark", "uploading", "stored", "sent",
                     "exited"},
         NEW hs \in BOOLEAN, NEW stopped \in BOOLEAN,
         w' = [w EXCEPT ![a] = [w[a] EXCEPT !.pc = pc, !.hs = hs, !.stopped = stopped]],
         UNCHANGED <<agent, cl, overlapped>>,
         pc \in Busy => w[a].pc \in Busy,
         hs => pc \in Busy,
         pc \in {"stored", "sent"} => stores'[w[a].req] > 0
  PROVE  IInv'
  <1> DEFINE v == [w[a] EXCEPT !.pc = pc, !.hs = hs, !.stopped = stopped]
  <1>1. w[a] \in AgentType /\ WorkerOK(a)
    BY DEF IInv, TypeOK
  <1>2. /\ v \in AgentType /\ v.pc = pc /\ v.hs = hs /\ v.id = w[a].id /\ v.req = w[a].req
    BY <1>1 DEF AgentType
  <1>3. v.pc \in Busy => <<v.id, v.req>> \in issued
    BY <1>1, <1>2 DEF WorkerOK
  <1>4. w' = [w EXCEPT ![a] = v]
    OBVIOUS
  <1> HIDE DEF v
  <1> QED
    BY <1>2, <1>3, <1>4, WorkerStep

\* The worker is done with its row.
LEMMA DoneStep ==
  ASSUME IInv, NEW a \in Agents, NEW s \in Status, Done(a, s),
         UNCHANGED <<agent, cl, stores, issued, overlapped>>,
         s = "complete" => w[a].pc = "sent"
  PROVE  IInv'
  <1>1. w[a] \in AgentType /\ WorkerOK(a)
    BY DEF IInv, TypeOK
  <1>2. w[a].id \in Nat
    BY <1>1 DEF AgentType
  <1>3. ASSUME s = "complete", NEW row \in db, row.id = w[a].id, ~Reused(row.id)
        PROVE  stores[row.req] > 0
    <2>1. <<w[a].id, w[a].req>> \in issued /\ stores[w[a].req] > 0
      BY <1>1, <1>3 DEF WorkerOK, Busy
    <2>2. <<row.id, row.req>> \in issued
      BY DEF IInv, RowsIssued
    <2>3. row.req = w[a].req
      BY <1>3, <2>1, <2>2, OneRequest
    <2> QED
      BY <2>1, <2>3
  <1>4. HistoryGrows /\ RowsTyped /\ RowsFrom
    BY <1>2, <1>3, HistoryKept, SetStatusRows DEF Done
  <1> DEFINE v == [NoAgent EXCEPT !.pc = "loop", !.cancel = w[a].cancel, !.empty = w[a].empty]
  <1>5. v \in AgentType /\ v.pc = "loop" /\ ~v.hs
    BY <1>1 DEF NoAgent, AgentType
  <1>6. w' = [w EXCEPT ![a] = v]
    BY DEF Done
  <1> HIDE DEF v
  <1> QED
    BY <1>4, <1>5, <1>6, WorkerStep DEF Busy

\* The types of the places a worker is found at.
LEMMA AtFacts ==
  ASSUME IInv, NEW a \in Agents
  PROVE  /\ w[a] \in AgentType /\ w[a].hs \in BOOLEAN /\ w[a].stopped \in BOOLEAN
         /\ w[a].id \in Nat /\ WorkerOK(a)
  BY DEF IInv, TypeOK, AgentType

\* Every step of a worker keeps the invariant.
LEMMA WorkerKeepsInv ==
  ASSUME IInv, NEW a \in Agents, Worker(a)
  PROVE  IInv'
  <1>0. /\ w[a] \in AgentType /\ w[a].hs \in BOOLEAN /\ w[a].stopped \in BOOLEAN
        /\ w[a].id \in Nat /\ WorkerOK(a) /\ w \in [Agents -> AgentType]
    BY AtFacts DEF IInv, TypeOK
  <1>1. CASE Loop(a)
    <2>1. HistoryGrows /\ RowsTyped /\ RowsFrom
      BY <1>1, HistoryKept, SubsetRows DEF Loop
    <2>2. PICK pc \in {"exited", "asleep"} : w' = [w EXCEPT ![a].pc = pc]
      BY <1>1 DEF Loop, Go
    <2>3. w' = [w EXCEPT ![a] = [w[a] EXCEPT !.pc = pc, !.hs = w[a].hs, !.stopped = w[a].stopped]]
      BY <1>0, <2>2 DEF AgentType
    <2>4. ~w[a].hs
      BY <1>0, <1>1 DEF Loop, At, WorkerOK, Busy
    <2> QED
      BY <1>0, <1>1, <2>1, <2>3, <2>4, MoveStep DEF Loop, Busy
  <1>2. CASE TryGetRequest(a)
    <2>1. HistoryGrows /\ RowsTyped /\ RowsFrom
      BY <1>2, HistoryKept, SubsetRows DEF TryGetRequest
    <2>2. PICK row \in db : w' = [w EXCEPT ![a].pc = "check", ![a].id = row.id, ![a].req = row.req]
      BY <1>2 DEF TryGetRequest
    <2>3. row \in Row /\ <<row.id, row.req>> \in issued
      BY DEF IInv, TypeOK, RowsIssued
    <2> DEFINE v == [w[a] EXCEPT !.pc = "check", !.id = row.id, !.req = row.req]
    <2>4. v \in AgentType /\ v.pc = "check" /\ <<v.id, v.req>> \in issued
      BY <1>0, <2>3 DEF AgentType, Row
    <2>5. w' = [w EXCEPT ![a] = v]
      BY <1>0, <2>2
    <2> HIDE DEF v
    <2> QED
      BY <1>2, <2>1, <2>4, <2>5, WorkerStep DEF TryGetRequest, Busy
  <1>3. CASE Check(a) \/ Upload(a)
    <2>1. HistoryGrows /\ RowsTyped /\ RowsFrom
      BY <1>3, HistoryKept, SubsetRows DEF Check, Upload
    <2>2. PICK pc \in {"checking", "mark"} :
            w' = [w EXCEPT ![a].pc = pc, ![a].hs = TRUE, ![a].stopped = FALSE]
      BY <1>3 DEF Check, Upload
    <2>3. w' = [w EXCEPT ![a] = [w[a] EXCEPT !.pc = pc, !.hs = TRUE, !.stopped = FALSE]]
      BY <1>0, <2>2
    <2>4. w[a].pc \in Busy /\ UNCHANGED <<agent, cl, overlapped>>
      BY <1>3 DEF Check, Upload, At, Busy
    <2> QED
      BY <2>1, <2>3, <2>4, MoveStep DEF Busy
  <1>4. CASE Checked(a)
    <2>1. HistoryGrows /\ RowsTyped /\ RowsFrom
      BY <1>4, HistoryKept, SubsetRows DEF Checked
    <2>2. w' = [w EXCEPT ![a] = [w[a] EXCEPT !.pc = "upload", !.hs = FALSE, !.stopped = w[a].stopped]]
      BY <1>0, <1>4 DEF Checked, AgentType
    <2>3. w[a].pc \in Busy
      BY <1>4 DEF Checked, At, Busy
    <2> QED
      BY <1>0, <1>4, <2>1, <2>2, <2>3, MoveStep DEF Checked, Busy
  <1>5. CASE CheckFailed(a)
    BY <1>5, DoneStep DEF CheckFailed, Status
  <1>6. CASE UploadFails(a)
    BY <1>6, DoneStep DEF UploadFails, Status, FinalStatus
  <1>7. CASE MarkProcessing(a)
    <2>1. HistoryGrows /\ RowsTyped /\ RowsFrom
      BY <1>0, <1>7, HistoryKept, SetStatusRows DEF MarkProcessing, Status, Active
    <2>2. w' = [w EXCEPT ![a] = [w[a] EXCEPT !.pc = "uploading", !.hs = w[a].hs,
                                                   !.stopped = w[a].stopped]]
      BY <1>0, <1>7 DEF MarkProcessing, Go, AgentType
    <2>3. w[a].pc \in Busy
      BY <1>7 DEF MarkProcessing, At, Busy
    <2> QED
      BY <1>0, <1>7, <2>1, <2>2, <2>3, MoveStep DEF MarkProcessing, Busy
  <1>8. CASE Store(a)
    <2>1. w[a].req \in Requests
      BY <1>0, <1>8 DEF Store, At, WorkerOK, Busy, IInv, TypeOK
    <2>2. HistoryGrows /\ stores'[w[a].req] > 0
      BY <1>8, <2>1 DEF Store, HistoryGrows, IInv, TypeOK
    <2>3. RowsTyped /\ RowsFrom
      BY <1>8, SubsetRows DEF Store
    <2>4. w' = [w EXCEPT ![a] = [w[a] EXCEPT !.pc = "stored", !.hs = w[a].hs,
                                                   !.stopped = w[a].stopped]]
      BY <1>0, <1>8 DEF Store, Go, AgentType
    <2>5. w[a].pc \in Busy
      BY <1>8 DEF Store, At, Busy
    <2> QED
      BY <1>0, <1>8, <2>2, <2>3, <2>4, <2>5, MoveStep DEF Store, Busy
  <1>9. CASE UpdateSentSoFar(a)
    <2>1. HistoryGrows /\ RowsTyped /\ RowsFrom
      BY <1>0, <1>9, HistoryKept, SentRows DEF UpdateSentSoFar
    <2>2. w' = [w EXCEPT ![a] = [w[a] EXCEPT !.pc = "sent", !.hs = w[a].hs,
                                                   !.stopped = w[a].stopped]]
      BY <1>0, <1>9 DEF UpdateSentSoFar, Go, AgentType
    <2>3. w[a].pc \in Busy /\ stores'[w[a].req] > 0
      BY <1>0, <1>9 DEF UpdateSentSoFar, At, Busy, WorkerOK
    <2> QED
      BY <1>0, <1>9, <2>1, <2>2, <2>3, MoveStep DEF UpdateSentSoFar, Busy
  <1>10. CASE Uploaded(a)
    BY <1>10, DoneStep DEF Uploaded, At, Status, FinalStatus
  <1>11. CASE NotUploaded(a)
    <2>1. PICK err \in {"other", "canceled"} : Done(a, FinalStatus(err))
      BY <1>11 DEF NotUploaded
    <2>2. FinalStatus(err) \in {"cancelled", "failed"}
      BY DEF FinalStatus
    <2> QED
      BY <1>11, <2>1, <2>2, DoneStep DEF NotUploaded, Status
  <1> QED
    BY <1>1, <1>2, <1>3, <1>4, <1>5, <1>6, <1>7, <1>8, <1>9, <1>10, <1>11 DEF Worker

-----------------------------------------------------------------------------
\* So does every step of the system.
LEMMA NextKeepsInv == IInv /\ [Next]_vars => IInv'
  <1> SUFFICES ASSUME IInv, [Next]_vars PROVE IInv'
    OBVIOUS
  <1>1. CASE UNCHANGED vars
    <2>1. HistoryGrows /\ RowsTyped /\ RowsFrom
      BY <1>1, HistoryKept, SubsetRows DEF vars
    <2> QED
      BY <1>1, <2>1, WorkersUnchanged, ClientsUnchanged, Together DEF vars, IInv, TypeOK
  <1>2. ASSUME NEW c \in Clients, Handler(c) PROVE IInv'
    <2>1. ASSUME NEW a \in Agents, NEW row \in db, CancelRequest(c, a, row) \/ GetRequestStatus(c, a, row)
          PROVE  IInv'
      BY <2>1, QueryStep DEF CancelRequest, GetRequestStatus
    <2> QED
      BY <1>2, <2>1, AddStep, CallStep DEF Handler
  <1> QED
    BY <1>1, <1>2, StartStep, StopStep, DestroyStep, CrashStep, WorkerKeepsInv DEF Next

\* What the proofs below rest on: IInv holds of every state.
THEOREM Invariance == Spec => []IInv
  BY InitIInv, NextKeepsInv, PTL DEF Spec

\* Every variable keeps its type and an id names one row.
THEOREM TypeCorrect == Spec => []TypeOK
  <1>1. IInv => TypeOK
    BY DEF IInv
  <1> QED
    BY <1>1, Invariance, PTL

\* uploadFile: "done" is never read of a request that was not stored, through cancels, stops,
\* crashes and overlapping workers, if its id was given out once.
THEOREM CompleteIsStored == Spec => []CompleteMeansStored
  <1>1. IInv => CompleteMeansStored
    BY DEF IInv
  <1> QED
    BY <1>1, Invariance, PTL

\* CancelRequest: the stream it stops is its own, if its id was given out once.
THEOREM StopsItsOwn == Spec => []CancelStopsItsOwn
  <1>1. IInv => CancelStopsItsOwn
    <2> SUFFICES ASSUME IInv, NEW c \in Clients, cl[c].pc = "stop",
                        IsCurrent(cl[c].agent, cl[c].id), ~Reused(cl[c].id)
                 PROVE  w[cl[c].agent].req = cl[c].req
      BY DEF CancelStopsItsOwn
    <2>1. cl[c].agent \in Agents /\ <<cl[c].id, cl[c].req>> \in issued
      BY DEF IInv, ClientsIssued
    <2>2. WorkerOK(cl[c].agent)
      BY <2>1 DEF IInv
    <2>3. <<cl[c].id, w[cl[c].agent].req>> \in issued
      BY <2>2 DEF IsCurrent, WorkerOK
    <2> QED
      BY <2>1, <2>3, OneRequest
  <1> QED
    BY <1>1, Invariance, PTL

-----------------------------------------------------------------------------
(* No file is stored twice while one worker runs at a time *)

\* The places between the answer that the file is not there and its storing.
Cleared == {"upload", "mark", "uploading"}

\* While no two workers have been alive at once, one is at most, and the file it goes on to
\* send is not at the server.
OnceInv ==
    ~overlapped =>
        /\ \A a, b \in Agents : Alive(a) /\ Alive(b) => a = b
        /\ \A a \in Agents : w[a].pc \in Cleared => stores[w[a].req] = 0
        /\ \A r \in Requests : stores[r] <= 1

\* The worker of a neither comes to life nor is cleared to send what is stored already.
NoneNew(a) ==
    /\ Alive(a)' => Alive(a)
    /\ w'[a].pc \in Cleared =>
        \/ w[a].pc \in Cleared /\ w'[a].req = w[a].req
        \/ stores[w'[a].req] = 0

\* A step that stores nothing and clears nobody keeps OnceInv.
LEMMA OnceKept ==
  ASSUME OnceInv, UNCHANGED <<stores, overlapped>>, \A a \in Agents : NoneNew(a)
  PROVE  OnceInv'
  BY DEF OnceInv, NoneNew

\* A step that replaces the record of one agent by another.
LEMMA OneChanged ==
  ASSUME IInv, NEW a \in Agents, NEW v, w' = [w EXCEPT ![a] = v],
         v.pc \notin WorkerDone => Alive(a),
         v.pc \in Cleared => \/ w[a].pc \in Cleared /\ v.req = w[a].req
                             \/ stores[v.req] = 0
  PROVE  \A b \in Agents : NoneNew(b)
  BY DEF NoneNew, Alive, IInv, TypeOK

\* Start is remembered as an overlap when a worker is alive.
LEMMA StartOnce == IInv /\ OnceInv /\ Start => OnceInv'
  <1> SUFFICES ASSUME IInv, OnceInv, Start, ~overlapped' PROVE OnceInv'
    BY DEF OnceInv
  <1>1. PICK a \in Agents : w' = [w EXCEPT ![a] = [NoAgent EXCEPT !.pc = "loop"]]
    BY DEF Start
  <1>2. ~overlapped /\ (\A b \in Agents : ~Alive(b)) /\ stores' = stores
    BY DEF Start
  <1>3. w'[a].pc = "loop" /\ \A b \in Agents : b # a => w'[b] = w[b]
    BY <1>1 DEF IInv, TypeOK, NoAgent
  <1>4. \A b \in Agents : Alive(b)' => b = a
    BY <1>2, <1>3 DEF Alive
  <1>5. \A b \in Agents : w'[b].pc \notin Cleared
    BY <1>2, <1>3 DEF Alive, WorkerDone, Cleared
  <1> QED
    BY <1>2, <1>4, <1>5 DEF OnceInv

\* The other steps of the service end workers or wake them.
LEMMA ServiceOnce ==
  ASSUME IInv, OnceInv,
         Crash \/ (\E logout \in BOOLEAN : AsyncStop(logout)) \/ (\E a \in Agents : Destroy(a))
  PROVE  OnceInv'
  <1>1. CASE Crash
    <2>1. \A a \in Agents : w'[a].pc \in WorkerDone
      BY <1>1 DEF Crash, NoAgent, WorkerDone
    <2>2. \A a \in Agents : NoneNew(a)
      BY <2>1 DEF NoneNew, Alive, WorkerDone, Cleared
    <2> QED
      BY <1>1, <2>2, OnceKept DEF Crash
  <1>2. ASSUME NEW logout \in BOOLEAN, AsyncStop(logout) PROVE OnceInv'
    <2>1. agent \in Agents /\ w[agent] \in AgentType
      BY <1>2 DEF AsyncStop, IInv, TypeOK
    <2> DEFINE v == [w[agent] EXCEPT !.cancel = TRUE, !.pc = Wake(agent),
                                     !.stopped = w[agent].stopped \/ w[agent].hs, !.empty = logout]
    <2>2. w' = [w EXCEPT ![agent] = v]
      BY <1>2 DEF AsyncStop, IInv, TypeOK
    <2>3. v.pc = Wake(agent) /\ v.req = w[agent].req
      BY <2>1 DEF AgentType
    <2> HIDE DEF v
    <2>4. \A a \in Agents : NoneNew(a)
      BY <2>1, <2>2, <2>3, OneChanged DEF Wake, Alive, WorkerDone, Cleared
    <2> QED
      BY <1>2, <2>4, OnceKept DEF AsyncStop
  <1>3. ASSUME NEW a \in Agents, Destroy(a) PROVE OnceInv'
    <2> DEFINE v == [NoAgent EXCEPT !.pc = "gone"]
    <2>1. v.pc = "gone" /\ w' = [w EXCEPT ![a] = v]
      BY <1>3 DEF Destroy, NoAgent
    <2> HIDE DEF v
    <2>2. \A b \in Agents : NoneNew(b)
      BY <2>1, OneChanged DEF WorkerDone, Cleared
    <2> QED
      BY <1>3, <2>2, OnceKept DEF Destroy
  <1> QED
    BY <1>1, <1>2, <1>3

\* No step of a handler stores a file or lets a worker go on.
LEMMA HandlerOnce ==
  ASSUME IInv, OnceInv, NEW c \in Clients, Handler(c)
  PROVE  OnceInv'
  <1>1. ASSUME NEW a \in Agents, NEW r \in Requests, AddRequest(c, a, r) PROVE OnceInv'
    <2> DEFINE v == [w[a] EXCEPT !.pc = Wake(a)]
    <2>1. w[a] \in AgentType /\ w' = [w EXCEPT ![a] = v]
      BY <1>1 DEF AddRequest, Signalled, IInv, TypeOK
    <2>2. v.pc = Wake(a) /\ v.req = w[a].req
      BY <2>1 DEF AgentType
    <2> HIDE DEF v
    <2>3. \A b \in Agents : NoneNew(b)
      BY <2>1, <2>2, OneChanged DEF Wake, Alive, WorkerDone, Cleared
    <2> QED
      BY <1>1, <2>3, OnceKept DEF AddRequest
  <1>2. CASE CancelStop(c)
    <2> DEFINE a == cl[c].agent
               v == [w[a] EXCEPT !.stopped = w[a].stopped \/ IsCurrent(a, cl[c].id)]
    <2>1. a \in Agents /\ w[a] \in AgentType
      BY <1>2 DEF CancelStop, IInv, TypeOK, ClientsIssued
    <2>2. w' = [w EXCEPT ![a] = v]
      BY <1>2, <2>1 DEF CancelStop, IInv, TypeOK
    <2>3. v.pc = w[a].pc /\ v.req = w[a].req
      BY <2>1 DEF AgentType
    <2> HIDE DEF v
    <2>4. \A b \in Agents : NoneNew(b)
      BY <2>1, <2>2, <2>3, OneChanged DEF Alive
    <2> QED
      BY <1>2, <2>4, OnceKept DEF CancelStop
  <1>3. CASE UNCHANGED <<w, stores, overlapped>>
    <2>1. \A a \in Agents : NoneNew(a)
      BY <1>3 DEF NoneNew, Alive
    <2> QED
      BY <1>3, <2>1, OnceKept
  <1> QED
    BY <1>1, <1>2, <1>3
       DEF Handler, CancelRequest, GetRequestStatus, Query, Dequeue, CancelMark

\* A worker is cleared to send by the server's answer alone, and when it has sent the file no
\* other worker is cleared to send it.
LEMMA WorkerOnce ==
  ASSUME IInv, OnceInv, NEW a \in Agents, Worker(a)
  PROVE  OnceInv'
  <1>0. w[a] \in AgentType /\ w \in [Agents -> AgentType] /\ overlapped' = overlapped
    BY DEF IInv, TypeOK, Worker, Loop, TryGetRequest, Check, Checked, CheckFailed, UploadFails,
           Upload, MarkProcessing, Store, UpdateSentSoFar, Uploaded, NotUploaded
  <1>1. CASE Store(a)
    <2> SUFFICES ASSUME ~overlapped PROVE OnceInv'
      BY <1>0 DEF OnceInv
    <2>1. /\ w[a].pc = "uploading" /\ w' = [w EXCEPT ![a] = [w[a] EXCEPT !.pc = "stored"]]
          /\ stores' = [stores EXCEPT ![w[a].req] = stores[w[a].req] + 1]
      BY <1>0, <1>1 DEF Store, At, Go, IInv, TypeOK
    <2>2. w'[a].pc = "stored" /\ \A b \in Agents : b # a => w'[b] = w[b]
      BY <1>0, <2>1 DEF AgentType
    <2>3. w[a].req \in Requests /\ Alive(a)
      BY <2>1 DEF IInv, TypeOK, WorkerOK, Busy, Alive, WorkerDone
    <2>4. \A b \in Agents : Alive(b)' => Alive(b)
      BY <2>2, <2>3 DEF Alive
    <2>5. \A b \in Agents : w'[b].pc \notin Cleared
      <3> SUFFICES ASSUME NEW b \in Agents, b # a PROVE w'[b].pc \notin Cleared
        BY <2>2 DEF Cleared
      <3>1. ~Alive(b)
        BY <2>3 DEF OnceInv
      <3> QED
        BY <2>2, <3>1 DEF Alive, WorkerDone, Cleared
    <2>6. stores[w[a].req] = 0 /\ stores \in [Requests -> Nat]
      BY <2>1 DEF OnceInv, Cleared, IInv, TypeOK
    <2>7. \A r \in Requests : stores'[r] <= 1
      BY <2>1, <2>3, <2>6 DEF OnceInv
    <2> QED
      BY <2>4, <2>5, <2>7 DEF OnceInv
  <1>2. CASE TryGetRequest(a)
    <2>1. PICK row \in db : w' = [w EXCEPT ![a].pc = "check", ![a].id = row.id, ![a].req = row.req]
      BY <1>2 DEF TryGetRequest
    <2> DEFINE v == [w[a] EXCEPT !.pc = "check", !.id = row.id, !.req = row.req]
    <2>2. v.pc = "check" /\ w' = [w EXCEPT ![a] = v]
      BY <1>0, <2>1 DEF AgentType
    <2> HIDE DEF v
    <2>3. \A b \in Agents : NoneNew(b)
      BY <1>2, <2>2, OneChanged DEF TryGetRequest, At, Alive, WorkerDone, Cleared
    <2> QED
      BY <1>2, <2>3, OnceKept DEF TryGetRequest
  <1>3. ASSUME NEW s, Done(a, s), stores' = stores, Alive(a) PROVE OnceInv'
    <2> DEFINE v == [NoAgent EXCEPT !.pc = "loop", !.cancel = w[a].cancel, !.empty = w[a].empty]
    <2>1. v.pc = "loop" /\ w' = [w EXCEPT ![a] = v]
      BY <1>3 DEF Done, NoAgent
    <2> HIDE DEF v
    <2>2. \A b \in Agents : NoneNew(b)
      BY <1>3, <2>1, OneChanged DEF Cleared
    <2> QED
      BY <1>0, <1>3, <2>2, OnceKept
  <1>4. CASE CheckFailed(a) \/ UploadFails(a) \/ Uploaded(a) \/ NotUploaded(a)
    BY <1>3, <1>4
       DEF CheckFailed, UploadFails, Uploaded, NotUploaded, At, Alive, WorkerDone
  <1>5. ASSUME NEW pc \in Busy \cup {"loop", "asleep", "exited"},
               NEW hs \in BOOLEAN, NEW stopped \in BOOLEAN, stores' = stores, Alive(a),
               w' = [w EXCEPT ![a] = [w[a] EXCEPT !.pc = pc, !.hs = hs, !.stopped = stopped]],
               pc \in Cleared => w[a].pc \in Cleared \/ stores[w[a].req] = 0
        PROVE  OnceInv'
    <2> DEFINE v == [w[a] EXCEPT !.pc = pc, !.hs = hs, !.stopped = stopped]
    <2>1. v.pc = pc /\ v.req = w[a].req /\ w' = [w EXCEPT ![a] = v]
      BY <1>0, <1>5 DEF AgentType
    <2> HIDE DEF v
    <2>2. \A b \in Agents : NoneNew(b)
      BY <1>5, <2>1, OneChanged
    <2> QED
      BY <1>0, <1>5, <2>2, OnceKept
  <1>6. ASSUME NEW pc \in Busy \cup {"loop", "asleep", "exited"}, w' = [w EXCEPT ![a].pc = pc], stores' = stores, Alive(a),
               pc \in Cleared => w[a].pc \in Cleared
        PROVE  OnceInv'
    <2>1. w' = [w EXCEPT ![a] = [w[a] EXCEPT !.pc = pc, !.hs = w[a].hs, !.stopped = w[a].stopped]]
      BY <1>0, <1>6 DEF AgentType
    <2> QED
      BY <1>0, <1>5, <1>6, <2>1 DEF AgentType
  <1>7. CASE Loop(a) \/ MarkProcessing(a) \/ UpdateSentSoFar(a)
    BY <1>6, <1>7
       DEF Loop, MarkProcessing, UpdateSentSoFar, Go, At, Alive, WorkerDone, Cleared, Busy
  <1>8. CASE Check(a) \/ Upload(a)
    <2>1. PICK pc \in {"checking", "mark"} :
            /\ w' = [w EXCEPT ![a].pc = pc, ![a].hs = TRUE, ![a].stopped = FALSE]
            /\ pc = "mark" => w[a].pc \in Cleared
      BY <1>8 DEF Check, Upload, At, Cleared
    <2>2. w' = [w EXCEPT ![a] = [w[a] EXCEPT !.pc = pc, !.hs = TRUE, !.stopped = FALSE]]
      BY <1>0, <2>1
    <2>3. Alive(a) /\ stores' = stores
      BY <1>8 DEF Check, Upload, At, Alive, WorkerDone
    <2> QED
      BY <1>5, <2>1, <2>2, <2>3 DEF Cleared, Busy
  <1>9. CASE Checked(a)
    <2>1. w' = [w EXCEPT ![a] = [w[a] EXCEPT !.pc = "upload", !.hs = FALSE, !.stopped = w[a].stopped]]
      BY <1>0, <1>9 DEF Checked, AgentType
    <2>2. Alive(a) /\ stores' = stores /\ stores[w[a].req] = 0
      BY <1>9 DEF Checked, NotThere, At, Alive, WorkerDone
    <2> QED
      BY <1>0, <1>5, <2>1, <2>2 DEF AgentType, Busy
  <1> QED
    BY <1>1, <1>2, <1>4, <1>7, <1>8, <1>9 DEF Worker

\* checkNoExistence: a crash between the storing of a file and the writing of its status makes
\* no worker store it again, as long as no worker outlives the service it was started by.
THEOREM StoresOnce == Spec => []StoredOnce
  <1>1. Init => OnceInv
    BY NoAgentTyped DEF Init, OnceInv, Alive, WorkerDone, NoAgent, Cleared
  <1>2. IInv /\ OnceInv /\ [Next]_vars => OnceInv'
    <2> SUFFICES ASSUME IInv, OnceInv, [Next]_vars PROVE OnceInv'
      OBVIOUS
    <2>1. CASE UNCHANGED vars
      BY <2>1 DEF OnceInv, Alive, vars
    <2> QED
      BY <2>1, StartOnce, ServiceOnce, HandlerOnce, WorkerOnce DEF Next
  <1>3. OnceInv => StoredOnce
    BY DEF OnceInv, StoredOnce
  <1> QED
    BY <1>1, <1>2, <1>3, Invariance, PTL DEF Spec
=============================================================================
