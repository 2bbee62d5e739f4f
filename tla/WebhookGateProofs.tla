------------------------- MODULE WebhookGateProofs -------------------------
(***************************************************************************)
(* Proofs about WebhookGate for any number of events, requests, workers,   *)
(* retries and faults: with one dedup key per event there is one task per  *)
(* event, and the endpoint with the worker's gate implements EventFeed.    *)
(***************************************************************************)
EXTENDS WebhookGate, RowLemmas

(* Every delivery of an event carries the same x-razorpay-event-id.        *)
HeaderSent == \A ev \in Events : \E k \in Keys : KeysOf[ev] = {k}

-----------------------------------------------------------------------------
(* The inductive invariant                                                 *)

Rows(ev) == {i \in DOMAIN rows : rows[i].ev = ev}

\* Rows carry a key of their event, and no two rows the same key.
KeysFit ==
  /\ \A i \in DOMAIN rows : rows[i].key \in KeysOf[rows[i].ev]
  /\ \A i, j \in DOMAIN rows : rows[i].key = rows[j].key => i = j
  /\ \A h \in Handlers : req[h].at # "idle" => req[h].key \in KeysOf[req[h].ev]

\* A task belongs to the request that inserted the row, and there is one.
RequestsApart ==
  /\ \A h \in Handlers : req[h].at = "recorded" =>
       Rows(req[h].ev) # {} /\ TasksOf(req[h].ev) = {}
  /\ \A g, h \in Handlers :
       req[g].at = "recorded" /\ req[h].at = "recorded" /\ req[g].ev = req[h].ev => g = h

TasksHaveRows == \A t \in DOMAIN tasks : Rows(tasks[t].ev) # {}

\* No two workers run the same task, and a handler runs for an event whose
\* row is not marked.
WorkersApart ==
  /\ \A w \in Workers : work[w].at # "idle" =>
       work[w].task \in DOMAIN tasks /\ tasks[work[w].task].state = "running"
  /\ \A v, w \in Workers :
       work[v].at # "idle" /\ work[w].at # "idle" /\ work[v].task = work[w].task => v = w
  /\ \A w \in Workers : work[w].at \in {"working", "applied"} =>
       /\ work[w].row \in Rows(tasks[work[w].task].ev)
       /\ ~rows[work[w].row].processed

Inv == TypeOK /\ KeysFit /\ RequestsApart /\ TasksHaveRows /\ OneTaskPerEvent /\ WorkersApart

-----------------------------------------------------------------------------
(* Consequences of one key per event                                       *)

LEMMA BusyRequest ==
  ASSUME TypeOK, NEW h \in Handlers, req[h].at # "idle"
  PROVE  req[h] \in Request
BY DEF TypeOK, Resting

LEMMA BusyWorker ==
  ASSUME TypeOK, NEW w \in Workers, work[w].at # "idle"
  PROVE  work[w] \in Work
BY DEF TypeOK, Resting

(* An event has one row at most.                                           *)
LEMMA OneRow ==
  ASSUME HeaderSent, TypeOK, KeysFit, NEW i \in DOMAIN rows, NEW j \in DOMAIN rows,
         rows[i].ev = rows[j].ev
  PROVE  i = j
<1>1. rows[i] \in Row /\ rows[j] \in Row
  BY RowIds DEF TypeOK
<1>2. PICK k \in Keys : KeysOf[rows[i].ev] = {k}
  BY <1>1 DEF HeaderSent, Row
<1>3. QED
  BY <1>2 DEF KeysFit

(* A key is known exactly when its event has a row.                        *)
LEMMA KnownKey ==
  ASSUME HeaderSent, TypeOK, KeysFit, NEW ev \in Events, NEW key \in KeysOf[ev]
  PROVE  Known(key) <=> Rows(ev) # {}
<1>1. \A i \in DOMAIN rows : rows[i] \in Row
  BY RowIds DEF TypeOK
<1>2. ASSUME NEW i \in DOMAIN rows, rows[i].key = key PROVE rows[i].ev = ev
  BY <1>1, <1>2, GateAssumption DEF KeysFit, Row
<1>3. ASSUME NEW i \in DOMAIN rows, rows[i].ev = ev PROVE rows[i].key = key
  BY <1>1, <1>3 DEF KeysFit, HeaderSent, Row
<1>4. QED
  BY <1>2, <1>3 DEF Known, Rows

(* The worker's lookup finds the event's row.                              *)
LEMMA LookupFinds ==
  ASSUME HeaderSent, TypeOK, KeysFit, NEW ev, Rows(ev) # {}
  PROVE  NewestRow(ev) \in Rows(ev)
<1>1. PICK i \in Rows(ev) : TRUE
  OBVIOUS
<1>2. \A j \in Rows(ev) : j = i
  BY <1>1, OneRow DEF Rows
<1>3. \E k \in Rows(ev) : \A j \in Rows(ev) : j <= k
  <2>1. i \in Nat
    BY <1>1, RowIds DEF TypeOK, Rows
  <2>2. QED
    BY <1>1, <1>2, <2>1
<1>4. QED
  BY <1>3 DEF NewestRow, Rows
-----------------------------------------------------------------------------
(* Type correctness                                                        *)

LEMMA InsertType ==
  ASSUME TypeOK, NEW h \in Handlers, req[h].at # "idle", Insert(h)
  PROVE  rows' \in Seq(Row)
<1>1. [key |-> req[h].key, ev |-> req[h].ev, processed |-> FALSE] \in Row
  BY BusyRequest DEF Request, Row
<1>2. QED
  BY <1>1, SeqAppend DEF Insert, TypeOK

LEMMA AddTaskType ==
  ASSUME TypeOK, NEW h \in Handlers, req[h].at # "idle", AddTask(h)
  PROVE  tasks' \in Seq(Task)
<1>1. [ev |-> req[h].ev, state |-> "queued", retried |-> 0] \in Task
  BY BusyRequest, GateAssumption DEF Request, Task
<1>2. QED
  BY <1>1, SeqAppend DEF AddTask, TypeOK

LEMMA TaskStateType ==
  ASSUME TypeOK, NEW t \in DOMAIN tasks, NEW s \in {"queued", "running", "done", "archived"}
  PROVE  [tasks EXCEPT ![t].state = s] \in Seq(Task)
<1>1. tasks[t] \in Task
  BY RowIds DEF TypeOK
<1>2. [tasks[t] EXCEPT !.state = s] \in Task
  BY <1>1 DEF Task
<1>3. QED
  BY <1>2, SeqExcept DEF TypeOK

LEMMA RespondType ==
  ASSUME TypeOK, NEW h \in Handlers, req[h].at # "idle", NEW ok \in BOOLEAN, Respond(h, ok)
  PROVE  /\ req' \in [Handlers -> {Resting} \cup Request]
         /\ answered' \subseteq Events
BY BusyRequest DEF Respond, TypeOK, Request

(* Every step keeps the shapes of rows, tasks, requests and workers.       *)
LEMMA TypeStep ==
  ASSUME HeaderSent, TypeOK, KeysFit, WorkersApart, [Next]_vars
  PROVE  TypeOK'
<1>1. CASE UNCHANGED vars
  BY <1>1 DEF TypeOK, vars, httpVars
<1>2. ASSUME NEW ev \in Events, Emit(ev) PROVE TypeOK'
  BY <1>2 DEF TypeOK, Emit
<1>3. ASSUME NEW h \in Handlers, NEW ev \in Events, Deliver(h, ev) PROVE TypeOK'
  <2>1. PICK key \in KeysOf[ev] :
          req' = [req EXCEPT ![h] = [at |-> "keyed", ev |-> ev, key |-> key]]
    BY <1>3 DEF Deliver
  <2>2. [at |-> "keyed", ev |-> ev, key |-> key] \in Request
    BY <2>1, GateAssumption DEF Request
  <2>3. req' \in [Handlers -> {Resting} \cup Request]
    BY <2>1, <2>2 DEF TypeOK
  <2>4. repeats' \in 0..MaxRepeats
    BY <1>3, GateAssumption DEF Deliver, TypeOK
  <2>5. QED
    BY <1>3, <2>3, <2>4 DEF Deliver, TypeOK
<1>4. ASSUME NEW h \in Handlers, RecordNew(h) PROVE TypeOK'
  <2>1. rows' \in Seq(Row)
    BY <1>4, InsertType DEF RecordNew
  <2>2. req' \in [Handlers -> {Resting} \cup Request]
    BY <1>4, BusyRequest DEF RecordNew, TypeOK, Request
  <2>3. QED
    BY <1>4, <2>1, <2>2 DEF RecordNew, TypeOK
<1>5. ASSUME NEW h \in Handlers, IgnoreKnown(h) PROVE TypeOK'
  <2>1. req' \in [Handlers -> {Resting} \cup Request] /\ answered' \subseteq Events
    BY <1>5, RespondType DEF IgnoreKnown
  <2>2. QED
    BY <1>5, <2>1 DEF IgnoreKnown, Respond, TypeOK
<1>6. ASSUME NEW h \in Handlers, RecordFails(h) PROVE TypeOK'
  <2>1. req' \in [Handlers -> {Resting} \cup Request] /\ answered' \subseteq Events
    BY <1>6, RespondType DEF RecordFails
  <2>2. rows' \in Seq(Row)
    BY <1>6, InsertType DEF RecordFails, TypeOK
  <2>3. alerted' \subseteq Events
    BY <1>6, BusyRequest DEF RecordFails, TypeOK, Request
  <2>4. faults' \in 0..MaxFaults
    BY <1>6, GateAssumption DEF RecordFails, Fault, TypeOK
  <2>5. QED
    BY <1>6, <2>1, <2>2, <2>3, <2>4 DEF RecordFails, Respond, TypeOK
<1>7. ASSUME NEW h \in Handlers, Enqueue(h) PROVE TypeOK'
  <2>1. req' \in [Handlers -> {Resting} \cup Request] /\ answered' \subseteq Events
    BY <1>7, RespondType DEF Enqueue
  <2>2. tasks' \in Seq(Task)
    BY <1>7, AddTaskType DEF Enqueue
  <2>3. QED
    BY <1>7, <2>1, <2>2 DEF Enqueue, Respond, TypeOK
<1>8. ASSUME NEW h \in Handlers, EnqueueFails(h) PROVE TypeOK'
  <2>1. req' \in [Handlers -> {Resting} \cup Request] /\ answered' \subseteq Events
    BY <1>8, RespondType DEF EnqueueFails
  <2>2. tasks' \in Seq(Task)
    BY <1>8, AddTaskType DEF EnqueueFails, TypeOK
  <2>3. alerted' \subseteq Events
    BY <1>8, BusyRequest DEF EnqueueFails, TypeOK, Request
  <2>4. faults' \in 0..MaxFaults
    BY <1>8, GateAssumption DEF EnqueueFails, Fault, TypeOK
  <2>5. QED
    BY <1>8, <2>1, <2>2, <2>3, <2>4 DEF EnqueueFails, Respond, TypeOK
<1>9. ASSUME NEW h \in Handlers, RequestCut(h) PROVE TypeOK'
  <2>1. cut' \subseteq Events
    BY <1>9, BusyRequest DEF RequestCut, TypeOK, Request
  <2>2. faults' \in 0..MaxFaults
    BY <1>9, GateAssumption DEF RequestCut, Fault, TypeOK
  <2>3. QED
    BY <1>9, <2>1, <2>2 DEF RequestCut, TypeOK
<1>10. ASSUME NEW w \in Workers, NEW t \in DOMAIN tasks, TakeTask(w, t) PROVE TypeOK'
  <2>1. tasks' \in Seq(Task)
    BY <1>10, TaskStateType DEF TakeTask
  <2>2. NewestRow(tasks[t].ev) \in Nat
    <3>1. CASE Rows(tasks[t].ev) = {}
      BY <3>1 DEF NewestRow, Rows
    <3>2. CASE Rows(tasks[t].ev) # {}
      BY <3>2, LookupFinds, RowIds DEF Rows, TypeOK
    <3>3. QED
      BY <3>1, <3>2
  <2>3. t \in Nat \ {0}
    BY RowIds DEF TypeOK
  <2>4. \A at \in {"acked", "working"} :
          [at |-> at, task |-> t, row |-> NewestRow(tasks[t].ev)] \in Work
    BY <2>2, <2>3 DEF Work
  <2>5. work' \in [Workers -> {Resting} \cup Work]
    BY <1>10, <2>4 DEF TakeTask, TypeOK
  <2>6. QED
    BY <1>10, <2>1, <2>5 DEF TakeTask, TypeOK, httpVars
<1>11. ASSUME NEW w \in Workers, Apply(w) PROVE TypeOK'
  <2>1. work' \in [Workers -> {Resting} \cup Work]
    BY <1>11, BusyWorker DEF Apply, TypeOK, Work
  <2>2. QED
    BY <1>11, <2>1 DEF Apply, TypeOK, httpVars
<1>12. ASSUME NEW w \in Workers, MarkProcessed(w) PROVE TypeOK'
  <2>1. work' \in [Workers -> {Resting} \cup Work]
    BY <1>12, BusyWorker DEF MarkProcessed, TypeOK, Work
  <2>2. work[w].row \in DOMAIN rows /\ rows[work[w].row] \in Row
    BY <1>12, RowIds DEF MarkProcessed, WorkersApart, Rows, TypeOK
  <2>3. [rows[work[w].row] EXCEPT !.processed = TRUE] \in Row
    BY <2>2 DEF Row
  <2>4. rows' \in Seq(Row)
    <3>1. [rows EXCEPT ![work[w].row] = [rows[work[w].row] EXCEPT !.processed = TRUE]] \in Seq(Row)
      BY <2>2, <2>3, SeqExcept DEF TypeOK
    <3>2. QED
      BY <1>12, <3>1 DEF MarkProcessed, TypeOK
  <2>5. QED
    BY <1>12, <2>1, <2>4 DEF MarkProcessed, TypeOK, httpVars
<1>13. ASSUME NEW w \in Workers, Ack(w) PROVE TypeOK'
  <2>1. tasks' \in Seq(Task)
    BY <1>13, TaskStateType DEF Ack, WorkersApart
  <2>2. QED
    BY <1>13, <2>1 DEF Ack, TypeOK, httpVars
<1>14. ASSUME NEW w \in Workers, TaskFails(w) PROVE TypeOK'
  <2>1. work[w].task \in DOMAIN tasks /\ tasks[work[w].task] \in Task
    BY <1>14, RowIds DEF TaskFails, WorkersApart, TypeOK
  <2>2. ASSUME tasks[work[w].task].retried # MaxRetries
        PROVE  [tasks[work[w].task] EXCEPT !.state = "queued", !.retried = @ + 1] \in Task
    <3>1. tasks[work[w].task].retried \in 0..MaxRetries
      BY <2>1 DEF Task
    <3>2. tasks[work[w].task].retried + 1 \in 0..MaxRetries
      BY <2>2, <3>1, GateAssumption
    <3>3. QED
      BY <2>1, <3>2 DEF Task
  <2>3. tasks' \in Seq(Task)
    <3>1. CASE tasks[work[w].task].retried = MaxRetries
      BY <1>14, <2>1, <3>1, TaskStateType DEF TaskFails
    <3>2. CASE tasks[work[w].task].retried # MaxRetries
      <4>1. [tasks EXCEPT ![work[w].task] =
               [tasks[work[w].task] EXCEPT !.state = "queued", !.retried = @ + 1]] \in Seq(Task)
        BY <2>1, <2>2, <3>2, SeqExcept DEF TypeOK
      <4>2. QED
        BY <1>14, <2>1, <3>2, <4>1 DEF TaskFails, TypeOK
    <3>3. QED
      BY <3>1, <3>2
  <2>4. faults' \in 0..MaxFaults
    BY <1>14, GateAssumption DEF TaskFails, Fault, TypeOK
  <2>5. QED
    BY <1>14, <2>3, <2>4 DEF TaskFails, TypeOK, httpVars
<1>15. QED
  BY <1>1, <1>2, <1>3, <1>4, <1>5, <1>6, <1>7, <1>8, <1>9, <1>10, <1>11, <1>12, <1>13,
     <1>14 DEF Next, Serve, Run
-----------------------------------------------------------------------------
(* How rows and tasks change                                               *)

LEMMA InsertFacts ==
  ASSUME TypeOK, NEW h \in Handlers, req[h].at # "idle", Insert(h)
  PROVE  LET new == Len(rows) + 1 IN
         /\ DOMAIN rows' = DOMAIN rows \cup {new} /\ new \notin DOMAIN rows
         /\ \A i \in DOMAIN rows : rows'[i] = rows[i]
         /\ rows'[new].key = req[h].key /\ rows'[new].ev = req[h].ev
         /\ ~rows'[new].processed
<1>1. [key |-> req[h].key, ev |-> req[h].ev, processed |-> FALSE] \in Row
  BY BusyRequest DEF Request, Row
<1>2. QED
  BY <1>1, SeqAppend DEF Insert, TypeOK

LEMMA AddTaskFacts ==
  ASSUME TypeOK, NEW h \in Handlers, req[h].at # "idle", AddTask(h)
  PROVE  LET new == Len(tasks) + 1 IN
         /\ DOMAIN tasks' = DOMAIN tasks \cup {new} /\ new \notin DOMAIN tasks
         /\ \A t \in DOMAIN tasks : tasks'[t] = tasks[t]
         /\ tasks'[new].ev = req[h].ev /\ tasks'[new].state = "queued"
<1>1. [ev |-> req[h].ev, state |-> "queued", retried |-> 0] \in Task
  BY BusyRequest, GateAssumption DEF Request, Task
<1>2. QED
  BY <1>1, SeqAppend DEF AddTask, TypeOK

LEMMA MarkFacts ==
  ASSUME TypeOK, WorkersApart, NEW w \in Workers, MarkProcessed(w)
  PROVE  /\ DOMAIN rows' = DOMAIN rows
         /\ work[w].row \in DOMAIN rows
         /\ \A i \in DOMAIN rows :
              /\ rows'[i].key = rows[i].key /\ rows'[i].ev = rows[i].ev
              /\ rows'[i].processed <=> i = work[w].row \/ rows[i].processed
<1>1. work[w].row \in DOMAIN rows /\ DOMAIN rows \subseteq Nat \ {0}
  BY RowIds DEF MarkProcessed, WorkersApart, Rows, TypeOK
<1>2. \A i \in DOMAIN rows : rows[i] \in Row
  BY RowIds DEF TypeOK
<1>3. rows' = [rows EXCEPT ![work[w].row].processed = TRUE]
  BY <1>1 DEF MarkProcessed
<1>4. QED
  BY <1>1, <1>2, <1>3 DEF Row

(* A worker's step changes no task but its own, and no task's event.       *)
LEMMA TaskFacts ==
  ASSUME TypeOK, WorkersApart, NEW w \in Workers, NEW t \in DOMAIN tasks,
         TakeTask(w, t) \/ (work[w].task = t /\ (Ack(w) \/ TaskFails(w)))
  PROVE  /\ DOMAIN tasks' = DOMAIN tasks
         /\ \A s \in DOMAIN tasks : tasks'[s].ev = tasks[s].ev
         /\ \A s \in DOMAIN tasks \ {t} : tasks'[s].state = tasks[s].state
         /\ TakeTask(w, t) => tasks'[t].state = "running"
<1>1. \A s \in DOMAIN tasks : tasks[s] \in Task
  BY RowIds DEF TypeOK
<1>2. CASE TakeTask(w, t)
  BY <1>1, <1>2 DEF TakeTask, Task
<1>3. CASE work[w].task = t /\ Ack(w)
  BY <1>1, <1>3 DEF Ack, TakeTask, Task
<1>4. CASE work[w].task = t /\ TaskFails(w)
  BY <1>1, <1>4 DEF TaskFails, TakeTask, Task
<1>5. QED
  BY <1>2, <1>3, <1>4
-----------------------------------------------------------------------------
(* The rows keep one key each                                              *)

LEMMA KeysStep ==
  ASSUME TypeOK, KeysFit, WorkersApart, [Next]_vars
  PROVE  KeysFit'
<1>1. ASSUME NEW h \in Handlers, req[h].at = "keyed", ~Known(req[h].key), Insert(h),
             \/ req' = [req EXCEPT ![h].at = "recorded"]
             \/ req' = [req EXCEPT ![h] = Resting]
      PROVE  KeysFit'
  <2>1. req[h] \in Request
    BY <1>1, BusyRequest
  <2>2. \A i \in DOMAIN rows : rows[i].key # req[h].key
    BY <1>1 DEF Known
  <2>3. \A g \in Handlers : req'[g].at # "idle" =>
          req[g].at # "idle" /\ req'[g].key = req[g].key /\ req'[g].ev = req[g].ev
    BY <1>1, <2>1 DEF TypeOK, Request, Resting
  <2>4. QED
    BY <1>1, <2>2, <2>3, InsertFacts DEF KeysFit
<1>2. ASSUME NEW h \in Handlers, req' = [req EXCEPT ![h] = Resting], UNCHANGED rows
      PROVE  KeysFit'
  BY <1>2 DEF KeysFit, TypeOK, Resting
<1>3. ASSUME NEW w \in Workers, MarkProcessed(w) PROVE KeysFit'
  BY <1>3, MarkFacts DEF KeysFit, MarkProcessed, httpVars
<1>4. ASSUME NEW h \in Handlers, NEW ev \in Events, Deliver(h, ev) PROVE KeysFit'
  BY <1>4 DEF Deliver, KeysFit, TypeOK
<1>5. CASE UNCHANGED <<rows, req>>
  BY <1>5 DEF KeysFit
<1>6. QED
  <2>1. ASSUME NEW h \in Handlers, RecordNew(h) PROVE KeysFit'
    BY <1>1, <2>1 DEF RecordNew
  <2>2. ASSUME NEW h \in Handlers, RecordFails(h) PROVE KeysFit'
    BY <1>1, <1>2, <2>2 DEF RecordFails, Respond
  <2>3. ASSUME NEW h \in Handlers,
               IgnoreKnown(h) \/ Enqueue(h) \/ EnqueueFails(h) \/ RequestCut(h)
        PROVE  KeysFit'
    BY <1>2, <2>3 DEF IgnoreKnown, Enqueue, EnqueueFails, RequestCut, Respond
  <2>4. ASSUME NEW w \in Workers, NEW t \in DOMAIN tasks,
               TakeTask(w, t) \/ Apply(w) \/ Ack(w) \/ TaskFails(w)
        PROVE  KeysFit'
    BY <1>5, <2>4 DEF TakeTask, Apply, Ack, TaskFails, httpVars
  <2>5. ASSUME NEW w \in Workers, Apply(w) \/ Ack(w) \/ TaskFails(w) PROVE KeysFit'
    BY <1>5, <2>5 DEF Apply, Ack, TaskFails, httpVars
  <2>6. ASSUME NEW ev \in Events, Emit(ev) PROVE KeysFit'
    BY <1>5, <2>6 DEF Emit
  <2>7. CASE UNCHANGED vars
    BY <1>5, <2>7 DEF vars, httpVars
  <2>8. QED
    BY <1>3, <1>4, <2>1, <2>2, <2>3, <2>4, <2>5, <2>6, <2>7 DEF Next, Serve, Run

-----------------------------------------------------------------------------
(* One request per event holds the right to enqueue, and uses it once      *)

\* What RequestsApart, TasksHaveRows and OneTaskPerEvent have in common.
OneTicket == RequestsApart /\ TasksHaveRows /\ OneTaskPerEvent

LEMMA TicketStep ==
  ASSUME HeaderSent, TypeOK, KeysFit, OneTicket, WorkersApart, [Next]_vars
  PROVE  OneTicket'
<1>1. ASSUME NEW h \in Handlers, RecordNew(h) PROVE OneTicket'
  <2>1. req[h] \in Request
    BY <1>1, BusyRequest DEF RecordNew
  <2>2. Rows(req[h].ev) = {}
    BY <1>1, <2>1, KnownKey DEF RecordNew, KeysFit, Request
  <2>3. TasksOf(req[h].ev) = {}
    BY <2>2 DEF OneTicket, TasksHaveRows, TasksOf
  <2>4. \A g \in Handlers : req[g].at = "recorded" => req[g].ev # req[h].ev
    BY <2>2 DEF OneTicket, RequestsApart
  <2>5. /\ UNCHANGED tasks
        /\ \A g \in Handlers : /\ req'[g].at = "recorded" => req[g].at = "recorded" \/ g = h
                               /\ g # h => req'[g] = req[g]
        /\ req'[h].ev = req[h].ev
    BY <1>1, <2>1 DEF RecordNew, TypeOK, Request
  <2>6. /\ \A ev : Rows(ev) # {} => Rows(ev)' # {}
        /\ Rows(req[h].ev)' # {}
    BY <1>1, InsertFacts DEF RecordNew, Rows
  <2>7. QED
    BY <2>3, <2>4, <2>5, <2>6 DEF OneTicket, RequestsApart, TasksHaveRows, OneTaskPerEvent, TasksOf
<1>2. ASSUME NEW h \in Handlers, req[h].at # "idle", req' = [req EXCEPT ![h] = Resting],
             UNCHANGED tasks, UNCHANGED rows \/ Insert(h)
      PROVE  OneTicket'
  <2>1. \A ev : Rows(ev) # {} => Rows(ev)' # {}
    BY <1>2, InsertFacts DEF Rows
  <2>2. \A g \in Handlers : req'[g].at = "recorded" => req'[g] = req[g]
    BY <1>2 DEF TypeOK, Resting
  <2>3. QED
    BY <1>2, <2>1, <2>2 DEF OneTicket, RequestsApart, TasksHaveRows, OneTaskPerEvent, TasksOf
<1>3. ASSUME NEW h \in Handlers, req[h].at = "recorded", AddTask(h), UNCHANGED rows,
             req' = [req EXCEPT ![h] = Resting]
      PROVE  OneTicket'
  <2>1. TasksOf(req[h].ev) = {} /\ Rows(req[h].ev) # {}
    BY <1>3 DEF OneTicket, RequestsApart
  <2>2. \A g \in Handlers : req'[g].at = "recorded" => req'[g] = req[g] /\ g # h
    BY <1>3 DEF TypeOK, Resting
  <2>3. \A ev : ev # req[h].ev => TasksOf(ev)' = TasksOf(ev)
    BY <1>3, AddTaskFacts DEF TasksOf
  <2>4. \A ev : Rows(ev)' = Rows(ev)
    BY <1>3 DEF Rows
  <2>5. RequestsApart'
    BY <1>3, <2>2, <2>3, <2>4 DEF OneTicket, RequestsApart
  <2>6. TasksHaveRows' /\ OneTaskPerEvent'
    BY <1>3, <2>1, <2>4, AddTaskFacts DEF OneTicket, TasksHaveRows, OneTaskPerEvent, TasksOf
  <2>7. QED
    BY <2>5, <2>6 DEF OneTicket
<1>4. ASSUME NEW h \in Handlers, NEW ev \in Events, Deliver(h, ev) PROVE OneTicket'
  <2>1. \A g \in Handlers : req'[g].at = "recorded" => req'[g] = req[g]
    BY <1>4 DEF Deliver, TypeOK
  <2>2. UNCHANGED <<rows, tasks>>
    BY <1>4 DEF Deliver
  <2>3. QED
    BY <2>1, <2>2 DEF OneTicket, RequestsApart, TasksHaveRows, OneTaskPerEvent, TasksOf, Rows
<1>5. ASSUME NEW w \in Workers, MarkProcessed(w) PROVE OneTicket'
  <2>1. DOMAIN rows' = DOMAIN rows /\ \A i \in DOMAIN rows : rows'[i].ev = rows[i].ev
    BY <1>5, MarkFacts
  <2>2. UNCHANGED <<req, tasks>>
    BY <1>5 DEF MarkProcessed, httpVars
  <2>3. \A ev : Rows(ev)' = Rows(ev)
    BY <2>1 DEF Rows
  <2>4. QED
    BY <2>2, <2>3 DEF OneTicket, RequestsApart, TasksHaveRows, OneTaskPerEvent, TasksOf
<1>6. ASSUME NEW w \in Workers, NEW t \in DOMAIN tasks,
             TakeTask(w, t) \/ (work[w].task = t /\ (Ack(w) \/ TaskFails(w)))
      PROVE  OneTicket'
  <2>1. /\ DOMAIN tasks' = DOMAIN tasks
        /\ \A s \in DOMAIN tasks : tasks'[s].ev = tasks[s].ev
    BY <1>6, TaskFacts
  <2>2. UNCHANGED <<req, rows>>
    BY <1>6 DEF TakeTask, Ack, TaskFails, httpVars
  <2>3. \A ev : TasksOf(ev)' = TasksOf(ev) /\ Rows(ev)' = Rows(ev)
    BY <2>1, <2>2 DEF TasksOf, Rows
  <2>4. QED
    BY <2>1, <2>2, <2>3 DEF OneTicket, RequestsApart, TasksHaveRows, OneTaskPerEvent
<1>7. CASE UNCHANGED <<rows, req, tasks>>
  BY <1>7 DEF OneTicket, RequestsApart, TasksHaveRows, OneTaskPerEvent, TasksOf, Rows
<1>8. QED
  <2>1. ASSUME NEW h \in Handlers, RecordFails(h) \/ IgnoreKnown(h) \/ RequestCut(h)
        PROVE  OneTicket'
    BY <1>2, <2>1 DEF RecordFails, IgnoreKnown, RequestCut, Respond
  <2>2. ASSUME NEW h \in Handlers, Enqueue(h) \/ EnqueueFails(h) PROVE OneTicket'
    BY <1>2, <1>3, <2>2 DEF Enqueue, EnqueueFails, Respond
  <2>3. ASSUME NEW w \in Workers, Ack(w) \/ TaskFails(w) PROVE OneTicket'
    BY <1>6, <2>3 DEF Ack, TaskFails, WorkersApart
  <2>4. ASSUME NEW w \in Workers, Apply(w) PROVE OneTicket'
    BY <1>7, <2>4 DEF Apply, httpVars
  <2>5. ASSUME NEW ev \in Events, Emit(ev) PROVE OneTicket'
    BY <1>7, <2>5 DEF Emit
  <2>6. CASE UNCHANGED vars
    BY <1>7, <2>6 DEF vars, httpVars
  <2>7. QED
    BY <1>1, <1>4, <1>5, <1>6, <2>1, <2>2, <2>3, <2>4, <2>5, <2>6 DEF Next, Serve, Run
-----------------------------------------------------------------------------
(* Workers run different tasks, of events that are not marked              *)

LEMMA WorkersStep ==
  ASSUME HeaderSent, TypeOK, KeysFit, OneTicket, WorkersApart, [Next]_vars
  PROVE  WorkersApart'
<1> DEFINE Held(w) == work[w].at \in {"working", "applied"}
<1>1. ASSUME NEW h \in Handlers, req[h].at # "idle", Insert(h), UNCHANGED <<tasks, work>>
      PROVE  WorkersApart'
  <2>1. \A i \in DOMAIN rows : i \in DOMAIN rows' /\ rows'[i] = rows[i]
    BY <1>1, InsertFacts
  <2>2. QED
    BY <1>1, <2>1 DEF WorkersApart, Rows
<1>2. ASSUME NEW h \in Handlers, req[h].at # "idle", AddTask(h), UNCHANGED <<rows, work>>
      PROVE  WorkersApart'
  <2>1. \A t \in DOMAIN tasks : t \in DOMAIN tasks' /\ tasks'[t] = tasks[t]
    BY <1>2, AddTaskFacts
  <2>2. QED
    BY <1>2, <2>1 DEF WorkersApart, Rows
<1>3. ASSUME NEW w \in Workers, NEW t \in DOMAIN tasks, TakeTask(w, t) PROVE WorkersApart'
  <2>1. Rows(tasks[t].ev) # {}
    BY DEF OneTicket, TasksHaveRows
  <2>2. NewestRow(tasks[t].ev) \in Rows(tasks[t].ev)
    BY <2>1, LookupFinds
  <2>3. NewestRow(tasks[t].ev) \in Nat \ {0}
    BY <2>2, RowIds DEF Rows, TypeOK
  <2>4. /\ work'[w].task = t /\ work'[w].row = NewestRow(tasks[t].ev)
        /\ work'[w].at \in {"working", "applied"} => ~rows[work'[w].row].processed
        /\ \A v \in Workers \ {w} : work'[v] = work[v]
        /\ UNCHANGED rows
    BY <1>3, <2>3 DEF TakeTask, TypeOK
  <2>5. \A v \in Workers : work[v].at # "idle" => work[v].task # t
    BY <1>3 DEF TakeTask, WorkersApart
  <2>6. /\ DOMAIN tasks' = DOMAIN tasks
        /\ \A s \in DOMAIN tasks : tasks'[s].ev = tasks[s].ev
        /\ \A s \in DOMAIN tasks \ {t} : tasks'[s].state = tasks[s].state
        /\ tasks'[t].state = "running"
    BY <1>3, TaskFacts
  <2>7. \A ev : Rows(ev)' = Rows(ev)
    BY <2>4 DEF Rows
  <2>8. QED
    BY <2>2, <2>4, <2>5, <2>6, <2>7 DEF WorkersApart
<1>4. ASSUME NEW w \in Workers, Apply(w) PROVE WorkersApart'
  <2>1. work[w] \in Work
    BY <1>4, BusyWorker DEF Apply
  <2>2. /\ \A v \in Workers \ {w} : work'[v] = work[v]
        /\ work'[w].task = work[w].task /\ work'[w].row = work[w].row
        /\ work[w].at = "working"
    BY <1>4, <2>1 DEF Apply, TypeOK, Work
  <2>3. UNCHANGED <<rows, tasks>>
    BY <1>4 DEF Apply
  <2>4. QED
    BY <2>2, <2>3 DEF WorkersApart, Rows
<1>5. ASSUME NEW w \in Workers, MarkProcessed(w) PROVE WorkersApart'
  <2>1. work[w] \in Work
    BY <1>5, BusyWorker DEF MarkProcessed
  <2>2. /\ \A v \in Workers \ {w} : work'[v] = work[v]
        /\ work'[w].task = work[w].task /\ work'[w].at = "acked" /\ work[w].at = "applied"
        /\ UNCHANGED tasks
    BY <1>5, <2>1 DEF MarkProcessed, TypeOK, Work
  <2>3. /\ DOMAIN rows' = DOMAIN rows
        /\ \A i \in DOMAIN rows : rows'[i].ev = rows[i].ev
        /\ \A i \in DOMAIN rows \ {work[w].row} : rows'[i].processed <=> rows[i].processed
    BY <1>5, MarkFacts
  <2>4. ASSUME NEW v \in Workers \ {w}, Held(v) PROVE work[v].row # work[w].row
    <3>1. work[v].task \in DOMAIN tasks /\ work[w].task \in DOMAIN tasks
      BY <2>2, <2>4 DEF WorkersApart
    <3>2. work[v].task # work[w].task
      BY <2>2, <2>4 DEF WorkersApart
    <3>3. tasks[work[v].task].ev # tasks[work[w].task].ev
      BY <3>1, <3>2 DEF OneTicket, OneTaskPerEvent
    <3>4. QED
      BY <2>2, <2>4, <3>3 DEF WorkersApart, Rows
  <2>5. \A ev : Rows(ev)' = Rows(ev)
    BY <2>3 DEF Rows
  <2>6. QED
    BY <2>2, <2>3, <2>4, <2>5 DEF WorkersApart, Rows
<1>6. ASSUME NEW w \in Workers, Ack(w) \/ TaskFails(w) PROVE WorkersApart'
  <2>1. work[w].at # "idle" /\ work[w].task \in DOMAIN tasks
    BY <1>6 DEF Ack, TaskFails, WorkersApart
  <2>2. /\ DOMAIN tasks' = DOMAIN tasks
        /\ \A s \in DOMAIN tasks : tasks'[s].ev = tasks[s].ev
        /\ \A s \in DOMAIN tasks \ {work[w].task} : tasks'[s].state = tasks[s].state
    BY <1>6, <2>1, TaskFacts
  <2>3. /\ \A v \in Workers \ {w} : work'[v] = work[v]
        /\ work'[w].at = "idle"
        /\ UNCHANGED rows
    BY <1>6 DEF Ack, TaskFails, TypeOK, Resting
  <2>4. \A v \in Workers \ {w} : work[v].at # "idle" => work[v].task # work[w].task
    BY <2>1 DEF WorkersApart
  <2>5. QED
    BY <2>2, <2>3, <2>4 DEF WorkersApart, Rows
<1>7. CASE UNCHANGED <<rows, tasks, work>>
  BY <1>7 DEF WorkersApart, Rows
<1>8. QED
  <2>1. ASSUME NEW h \in Handlers,
               \/ RecordNew(h) \/ RecordFails(h) \/ IgnoreKnown(h)
               \/ Enqueue(h) \/ EnqueueFails(h) \/ RequestCut(h)
        PROVE  WorkersApart'
    BY <1>1, <1>2, <1>7, <2>1
       DEF RecordNew, RecordFails, IgnoreKnown, Enqueue, EnqueueFails, RequestCut
  <2>2. ASSUME NEW h \in Handlers, NEW ev \in Events, Deliver(h, ev) \/ Emit(ev)
        PROVE  WorkersApart'
    BY <1>7, <2>2 DEF Deliver, Emit
  <2>3. CASE UNCHANGED vars
    BY <1>7, <2>3 DEF vars
  <2>4. ASSUME NEW ev \in Events, Emit(ev) PROVE WorkersApart'
    BY <1>7, <2>4 DEF Emit
  <2>5. QED
    BY <1>3, <1>4, <1>5, <1>6, <2>1, <2>2, <2>3, <2>4 DEF Next, Serve, Run

-----------------------------------------------------------------------------
(* The invariant holds                                                     *)

LEMMA InvInit == Init => Inv
<1>1. DOMAIN <<>> = {}
  OBVIOUS
<1>2. QED
  BY <1>1, GateAssumption DEF Init, Inv, TypeOK, KeysFit, RequestsApart, TasksHaveRows,
     OneTaskPerEvent, WorkersApart, Resting

LEMMA InvStep == ASSUME HeaderSent, Inv, [Next]_vars PROVE Inv'
BY TypeStep, KeysStep, TicketStep, WorkersStep DEF Inv, OneTicket

LEMMA InvHolds == ASSUME HeaderSent PROVE Spec => []Inv
<1>1. Inv /\ [Next]_vars => Inv'
  BY InvStep
<1>2. QED
  BY <1>1, InvInit, PTL DEF Spec

(* TypeOK: requests, rows, tasks and workers keep the shapes of the code's *)
(* records.                                                                *)
THEOREM GateTypes == ASSUME HeaderSent PROVE Spec => []TypeOK
BY InvHolds, PTL DEF Inv

(* OneTaskPerEvent: with the event-id header RazorpayWebhook enqueues one  *)
(* task per event at most, for any number of concurrent deliveries,        *)
(* failures and crashes.                                                   *)
THEOREM OneTask == ASSUME HeaderSent PROVE Spec => []OneTaskPerEvent
BY InvHolds, PTL DEF Inv
-----------------------------------------------------------------------------
(* The gate implements EventFeed                                           *)

Held == [w \in Workers |-> Holding(w)]

LEMMA FeedTake ==
  ASSUME HeaderSent, Inv, NEW w \in Workers, NEW t \in DOMAIN tasks, TakeTask(w, t)
  PROVE  [Feed!Next]_(Feed!feedVars)
<1> DEFINE ev == tasks[t].ev
<1>1. ev \in Events
  <2>1. tasks[t] \in Task
    BY RowIds DEF Inv, TypeOK
  <2>2. QED
    BY <2>1 DEF Task
<1>2. NewestRow(ev) \in Rows(ev)
  BY LookupFinds DEF Inv, TasksHaveRows
<1>3. NewestRow(ev) # 0
  BY <1>2, RowIds DEF Rows, Inv, TypeOK
<1>4. /\ DOMAIN tasks' = DOMAIN tasks
      /\ \A s \in DOMAIN tasks : tasks'[s].ev = tasks[s].ev
  BY TaskFacts DEF Inv
<1>5. Queued' = Queued /\ Processed' = Processed
  <2>1. UNCHANGED rows
    BY DEF TakeTask
  <2>2. QED
    BY <1>4, <2>1 DEF Queued, Processed
<1>6. \A v \in Workers \ {w} : work'[v] = work[v] /\ Holding(v)' = Holding(v)
  <2>1. \A v \in Workers \ {w} : work'[v] = work[v]
    BY DEF TakeTask, Inv, TypeOK
  <2>2. QED
    BY <1>4, <2>1 DEF Holding, Inv, WorkersApart
<1>7. Holding(w) = NoEvent
  BY DEF TakeTask, Holding
<1>8. CASE rows[NewestRow(ev)].processed
  <2>1. work'[w].at = "acked"
    BY <1>3, <1>8 DEF TakeTask, Inv, TypeOK
  <2>2. Holding(w)' = NoEvent
    BY <2>1 DEF Holding
  <2>3. UNCHANGED Held
    BY <1>6, <1>7, <2>2 DEF Held
  <2>4. QED
    BY <1>5, <2>3 DEF Feed!feedVars, Held
<1>9. CASE ~rows[NewestRow(ev)].processed
  <2>1. work'[w].at = "working" /\ work'[w].task = t
    BY <1>3, <1>9 DEF TakeTask, Inv, TypeOK
  <2>2. Holding(w)' = ev
    BY <1>4, <2>1 DEF Holding
  <2>3. ev \in Queued
    BY DEF Queued
  <2>4. ev \notin Processed
    BY <1>2, <1>9, OneRow DEF Processed, Rows, Inv
  <2>5. ASSUME NEW v \in Workers PROVE Holding(v) # ev
    <3>1. CASE work[v].at \in {"working", "applied"}
      <4>1. work[v].task \in DOMAIN tasks /\ tasks[work[v].task].state = "running"
        BY <3>1 DEF Inv, WorkersApart
      <4>2. work[v].task # t
        BY <4>1 DEF TakeTask
      <4>3. QED
        BY <3>1, <4>1, <4>2 DEF Holding, Inv, OneTaskPerEvent
    <3>2. CASE work[v].at \notin {"working", "applied"}
      BY <1>1, <3>2, GateAssumption DEF Holding
    <3>3. QED
      BY <3>1, <3>2
  <2>6. Held' = [Held EXCEPT ![w] = ev]
    BY <1>6, <2>2 DEF Held
  <2>7. Feed!Take(w, ev)
    BY <1>5, <1>7, <2>3, <2>4, <2>5, <2>6 DEF Feed!Take, Held
  <2>8. QED
    BY <1>1, <2>7 DEF Feed!Next
<1>10. QED
  BY <1>8, <1>9

LEMMA FeedSend ==
  ASSUME Inv, NEW h \in Handlers, req[h].at = "recorded", AddTask(h),
         UNCHANGED <<rows, work>>
  PROVE  [Feed!Next]_(Feed!feedVars)
<1> DEFINE ev == req[h].ev
<1>1. ev \in Events
  BY BusyRequest DEF Inv, Request
<1>2. ev \notin Queued
  BY DEF Inv, RequestsApart, TasksOf, Queued
<1>3. /\ DOMAIN tasks' = DOMAIN tasks \cup {Len(tasks) + 1}
      /\ \A t \in DOMAIN tasks : tasks'[t] = tasks[t]
      /\ tasks'[Len(tasks) + 1].ev = ev
      /\ Len(tasks) + 1 \notin DOMAIN tasks
  BY AddTaskFacts DEF Inv
<1>4. Queued' = Queued \cup {ev}
  BY <1>3 DEF Queued
<1>5. Processed' = Processed
  BY DEF Processed
<1>6. \A w \in Workers : Holding(w)' = Holding(w)
  BY <1>3 DEF Holding, Inv, WorkersApart
<1>7. Held' = Held
  BY <1>6 DEF Held
<1>8. Feed!Send(ev)
  BY <1>1, <1>2, <1>4, <1>5, <1>7 DEF Feed!Send, Held
<1>9. QED
  BY <1>1, <1>8 DEF Feed!Next

LEMMA FeedFinish ==
  ASSUME Inv, NEW w \in Workers, MarkProcessed(w)
  PROVE  [Feed!Next]_(Feed!feedVars)
<1> DEFINE ev == tasks[work[w].task].ev
<1>1. /\ work[w].at = "applied" /\ work[w].task \in DOMAIN tasks
      /\ work[w].row \in Rows(ev)
  BY DEF MarkProcessed, Inv, WorkersApart
<1>2. ev \in Events
  <2>1. tasks[work[w].task] \in Task
    BY <1>1, RowIds DEF Inv, TypeOK
  <2>2. QED
    BY <2>1 DEF Task
<1>3. Holding(w) = ev /\ ev # NoEvent
  BY <1>1, <1>2, GateAssumption DEF Holding
<1>4. /\ UNCHANGED tasks
      /\ \A v \in Workers \ {w} : work'[v] = work[v]
      /\ work'[w].at = "acked"
  BY BusyWorker DEF MarkProcessed, Inv, TypeOK, Work
<1>5. Held' = [Held EXCEPT ![w] = NoEvent]
  BY <1>4 DEF Held, Holding
<1>6. Queued' = Queued
  BY <1>4 DEF Queued
<1>7. /\ DOMAIN rows' = DOMAIN rows
      /\ \A i \in DOMAIN rows :
           /\ rows'[i].ev = rows[i].ev
           /\ rows'[i].processed <=> i = work[w].row \/ rows[i].processed
  BY MarkFacts DEF Inv
<1>8. Processed' = Processed \cup {ev}
  <2>1. \A e : e \in Processed' <=> \E i \in DOMAIN rows : rows[i].ev = e
                                   /\ (i = work[w].row \/ rows[i].processed)
    BY <1>7 DEF Processed
  <2>2. work[w].row \in DOMAIN rows /\ rows[work[w].row].ev = ev
    BY <1>1 DEF Rows
  <2>3. \A e : e \in Processed' <=> e \in Processed \cup {ev}
    BY <2>1, <2>2 DEF Processed
  <2>4. QED
    BY <2>3
<1>9. Feed!Finish(w)
  BY <1>3, <1>5, <1>6, <1>8 DEF Feed!Finish, Held
<1>10. QED
  BY <1>9 DEF Feed!Next

LEMMA FeedGiveUp ==
  ASSUME Inv, NEW w \in Workers, Ack(w) \/ TaskFails(w)
  PROVE  [Feed!Next]_(Feed!feedVars)
<1>1. work[w].at # "idle" /\ work[w].task \in DOMAIN tasks
  BY DEF Ack, TaskFails, Inv, WorkersApart
<1>2. /\ DOMAIN tasks' = DOMAIN tasks
      /\ \A s \in DOMAIN tasks : tasks'[s].ev = tasks[s].ev
  BY <1>1, TaskFacts DEF Inv
<1>3. /\ \A v \in Workers \ {w} : work'[v] = work[v]
      /\ work'[w].at = "idle"
      /\ UNCHANGED rows
  BY DEF Ack, TaskFails, Inv, TypeOK, Resting
<1>4. Queued' = Queued /\ Processed' = Processed
  BY <1>2, <1>3 DEF Queued, Processed
<1>5. \A v \in Workers \ {w} : Holding(v)' = Holding(v)
  BY <1>2, <1>3 DEF Holding, Inv, WorkersApart
<1>6. Holding(w)' = NoEvent
  BY <1>3 DEF Holding
<1>7. Held' = [Held EXCEPT ![w] = NoEvent]
  BY <1>5, <1>6 DEF Held
<1>8. CASE Holding(w) = NoEvent
  BY <1>4, <1>7, <1>8 DEF Feed!feedVars, Held
<1>9. CASE Holding(w) # NoEvent
  BY <1>4, <1>7, <1>9 DEF Feed!Next, Feed!GiveUp, Held
<1>10. QED
  BY <1>8, <1>9

(* Everything else is invisible in the feed.                               *)
LEMMA FeedInsert ==
  ASSUME Inv, NEW h \in Handlers, req[h].at # "idle", Insert(h), UNCHANGED <<tasks, work>>
  PROVE  [Feed!Next]_(Feed!feedVars)
<1>1. Processed' = Processed
  BY InsertFacts DEF Processed, Inv
<1>2. Queued' = Queued /\ Held' = Held
  BY DEF Queued, Held, Holding
<1>3. QED
  BY <1>1, <1>2 DEF Feed!feedVars, Held

LEMMA FeedQuiet ==
  ASSUME Inv, UNCHANGED <<rows, tasks>>,
         UNCHANGED work \/ \E w \in Workers : Apply(w)
  PROVE  [Feed!Next]_(Feed!feedVars)
<1>1. Processed' = Processed /\ Queued' = Queued
  BY DEF Processed, Queued
<1>2. ASSUME NEW w \in Workers, Apply(w) PROVE Held' = Held
  <2>1. /\ \A v \in Workers \ {w} : work'[v] = work[v]
        /\ work'[w].at = "applied" /\ work[w].at = "working" /\ work'[w].task = work[w].task
    BY <1>2, BusyWorker DEF Apply, Inv, TypeOK, Work
  <2>2. QED
    BY <2>1 DEF Held, Holding
<1>3. Held' = Held
  BY <1>2 DEF Held, Holding
<1>4. QED
  BY <1>1, <1>3 DEF Feed!feedVars, Held

(* ImplementsFeed: with the event-id header, the endpoint and the worker's *)
(* gate hand every event to one worker at a time and to none after it was  *)
(* marked processed, whatever fails in between.                            *)
THEOREM GateImplementsFeed == ASSUME HeaderSent PROVE Spec => ImplementsFeed
<1>1. Init => Feed!Init
  <2>1. ASSUME Init PROVE Queued = {} /\ Processed = {} /\ \A w \in Workers : Holding(w) = NoEvent
    <3>1. DOMAIN <<>> = {}
      OBVIOUS
    <3>2. QED
      BY <2>1, <3>1 DEF Init, Queued, Processed, Holding, Resting
  <2>2. QED
    BY <2>1 DEF Feed!Init
<1>2. ASSUME Inv, [Next]_vars PROVE [Feed!Next]_(Feed!feedVars)
  <2>1. ASSUME NEW h \in Handlers,
               \/ RecordNew(h) \/ RecordFails(h) \/ IgnoreKnown(h)
               \/ Enqueue(h) \/ EnqueueFails(h) \/ RequestCut(h)
        PROVE  [Feed!Next]_(Feed!feedVars)
    BY <1>2, <2>1, FeedInsert, FeedSend, FeedQuiet
       DEF RecordNew, RecordFails, IgnoreKnown, Enqueue, EnqueueFails, RequestCut
  <2>2. ASSUME NEW ev \in Events, Emit(ev) \/ \E h \in Handlers : Deliver(h, ev)
        PROVE  [Feed!Next]_(Feed!feedVars)
    BY <1>2, <2>2, FeedQuiet DEF Emit, Deliver
  <2>3. ASSUME NEW w \in Workers, NEW t \in DOMAIN tasks, TakeTask(w, t)
        PROVE  [Feed!Next]_(Feed!feedVars)
    BY <1>2, <2>3, FeedTake
  <2>4. ASSUME NEW w \in Workers, Apply(w) PROVE [Feed!Next]_(Feed!feedVars)
    BY <1>2, <2>4, FeedQuiet DEF Apply
  <2>5. CASE UNCHANGED vars
    BY <1>2, <2>5, FeedQuiet DEF vars
  <2>6. QED
    BY <1>2, <2>1, <2>2, <2>3, <2>4, <2>5, FeedFinish, FeedGiveUp DEF Next, Serve, Run
<1>3. QED
  BY <1>1, <1>2, InvHolds, PTL DEF Spec, ImplementsFeed, Feed!Spec
=============================================================================
