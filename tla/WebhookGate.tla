---------------------------- MODULE WebhookGate ----------------------------
(***************************************************************************)
(* From the payment provider's HTTP delivery to the worker: the endpoint   *)
(* records a delivery under its dedup key, enqueues a task if the key is   *)
(* new and answers; the worker looks the event up by its body, runs the    *)
(* handler unless the row is marked processed, and marks it.               *)
(*                                                                         *)
(* The provider repeats a delivery until it is answered with 200, and may  *)
(* repeat it after that.  The key is the x-razorpay-event-id header, one   *)
(* per event; without it the endpoint takes the id of the first entity of  *)
(* the payload, in the iteration order of a Go map.                        *)
(***************************************************************************)
EXTENDS Naturals, Sequences, FiniteSets

CONSTANTS
  Events,      \* events of the provider, each with a body of its own
  NoEvent,
  Keys,        \* dedup keys
  KeysOf,      \* [Events -> SUBSET Keys]: the keys a delivery may be given
  Handlers,    \* concurrent HTTP requests to the endpoint
  Workers,     \* concurrent executors of the asynq server
  MaxRetries,  \* asynq: failures after which a task is archived
  MaxRepeats,  \* bound on deliveries after an answer of 200
  MaxFaults    \* bound on failures and crashes

ASSUME GateAssumption ==
  /\ NoEvent \notin Events
  /\ KeysOf \in [Events -> SUBSET Keys]
  /\ \A ev \in Events : KeysOf[ev] # {}
  /\ \A e, f \in Events : e # f => KeysOf[e] \cap KeysOf[f] = {}
  /\ MaxRetries \in Nat /\ MaxRepeats \in Nat /\ MaxFaults \in Nat

VARIABLES
  emitted,   \* events the provider has to deliver
  answered,  \* events it got a 200 for
  repeats,
  req,       \* the delivery each HTTP request is busy with
  rows,      \* webhook_events in order of creation
  tasks,     \* asynq tasks
  work,      \* what each worker is doing
  alerted,   \* events a critical alert was raised for
  cut,       \* events whose request died between the row and the task
  faults

httpVars == <<emitted, answered, repeats, req, alerted, cut>>
vars     == <<httpVars, rows, tasks, work, faults>>

Resting == [at |-> "idle"]
Request == [at : {"keyed", "recorded"}, ev : Events, key : Keys]
Row     == [key : Keys, ev : Events, processed : BOOLEAN]
Task    == [ev : Events, state : {"queued", "running", "done", "archived"},
            retried : 0..MaxRetries]
Work    == [at : {"working", "applied", "acked"}, task : Nat \ {0}, row : Nat]

TasksOf(ev) == {t \in DOMAIN tasks : tasks[t].ev = ev}

\* GetByPayload: the newest row with this body, 0 if there is none
NewestRow(ev) ==
  LET found == {i \in DOMAIN rows : rows[i].ev = ev}
  IN  IF found = {} THEN 0 ELSE CHOOSE i \in found : \A j \in found : j <= i

Init ==
  /\ emitted = {} /\ answered = {} /\ repeats = 0
  /\ req = [h \in Handlers |-> Resting]
  /\ rows = <<>> /\ tasks = <<>>
  /\ work = [w \in Workers |-> Resting]
  /\ alerted = {} /\ cut = {} /\ faults = 0

Fault == faults < MaxFaults /\ faults' = faults + 1

-----------------------------------------------------------------------------
(* The provider (external)                                                 *)

Emit(ev) ==
  /\ ev \notin emitted
  /\ emitted' = emitted \cup {ev}
  /\ UNCHANGED <<answered, repeats, req, alerted, cut, rows, tasks, work, faults>>

-----------------------------------------------------------------------------
(* RazorpayWebhook                                                         *)

\* A delivery with a valid signature and body arrives and gets its key.
Deliver(h, ev) ==
  /\ req[h].at = "idle"
  /\ ev \in emitted
  /\ IF ev \in answered THEN repeats < MaxRepeats /\ repeats' = repeats + 1
                        ELSE UNCHANGED repeats
  /\ \E key \in KeysOf[ev] :
       req' = [req EXCEPT ![h] = [at |-> "keyed", ev |-> ev, key |-> key]]
  /\ UNCHANGED <<emitted, answered, alerted, cut, rows, tasks, work, faults>>

Respond(h, ok) ==
  /\ req' = [req EXCEPT ![h] = Resting]
  /\ answered' = IF ok THEN answered \cup {req[h].ev} ELSE answered
  /\ UNCHANGED <<emitted, repeats, cut>>

Known(key) == \E i \in DOMAIN rows : rows[i].key = key

Insert(h) ==
  rows' = Append(rows, [key |-> req[h].key, ev |-> req[h].ev, processed |-> FALSE])

\* TryRecord: INSERT ... ON CONFLICT (razorpay_event_id) DO NOTHING
RecordNew(h) ==
  /\ req[h].at = "keyed" /\ ~Known(req[h].key)
  /\ Insert(h)
  /\ req' = [req EXCEPT ![h].at = "recorded"]
  /\ UNCHANGED <<emitted, answered, repeats, alerted, cut, tasks, work, faults>>

IgnoreKnown(h) ==
  /\ req[h].at = "keyed" /\ Known(req[h].key)
  /\ Respond(h, TRUE)
  /\ UNCHANGED <<alerted, rows, tasks, work, faults>>

\* The insert reports an error, whether it was applied or not: 500, alert.
RecordFails(h) ==
  /\ req[h].at = "keyed" /\ Fault
  /\ \/ UNCHANGED rows
     \/ ~Known(req[h].key) /\ Insert(h)
  /\ alerted' = alerted \cup {req[h].ev}
  /\ Respond(h, FALSE)
  /\ UNCHANGED <<tasks, work>>

AddTask(h) ==
  tasks' = Append(tasks, [ev |-> req[h].ev, state |-> "queued", retried |-> 0])

Enqueue(h) ==
  /\ req[h].at = "recorded"
  /\ AddTask(h)
  /\ Respond(h, TRUE)
  /\ UNCHANGED <<alerted, rows, work, faults>>

\* faulty variant: the error is answered and nobody is told
EnqueueFailsSilently(h) ==
  /\ req[h].at = "recorded" /\ Fault
  /\ AddTask(h) \/ UNCHANGED tasks
  /\ Respond(h, FALSE)
  /\ UNCHANGED <<alerted, rows, work>>

\* Redis reports an error, whether it took the task or not: 500, alert.
EnqueueFails(h) ==
  /\ req[h].at = "recorded" /\ Fault
  /\ AddTask(h) \/ UNCHANGED tasks
  /\ alerted' = alerted \cup {req[h].ev}
  /\ Respond(h, FALSE)
  /\ UNCHANGED <<rows, work>>

\* The server process dies.
RequestCut(h) ==
  /\ req[h].at # "idle" /\ Fault
  /\ req' = [req EXCEPT ![h] = Resting]
  /\ cut' = IF req[h].at = "recorded" THEN cut \cup {req[h].ev} ELSE cut
  /\ UNCHANGED <<emitted, answered, repeats, alerted, rows, tasks, work>>

-----------------------------------------------------------------------------
(* handleRazorpayWebhook on an asynq worker                                *)

\* faulty variant: without the gate
TakeTaskUngated(w, t) ==
  /\ work[w].at = "idle"
  /\ tasks[t].state = "queued"
  /\ tasks' = [tasks EXCEPT ![t].state = "running"]
  /\ work' = [work EXCEPT ![w] = [at |-> "working", task |-> t,
                                  row |-> NewestRow(tasks[t].ev)]]
  /\ UNCHANGED <<httpVars, rows, faults>>

TakeTask(w, t) ==
  /\ work[w].at = "idle"
  /\ tasks[t].state = "queued"
  /\ tasks' = [tasks EXCEPT ![t].state = "running"]
  /\ LET row == NewestRow(tasks[t].ev)
         processed == row # 0 /\ rows[row].processed
     IN  work' = [work EXCEPT ![w] = [at |-> IF processed THEN "acked" ELSE "working",
                                      task |-> t, row |-> row]]
  /\ UNCHANGED <<httpVars, rows, faults>>

\* The event's handler returns without an error (its effects: Payments).
Apply(w) ==
  /\ work[w].at = "working"
  /\ work' = [work EXCEPT ![w].at = "applied"]
  /\ UNCHANGED <<httpVars, rows, tasks, faults>>

MarkProcessed(w) ==
  /\ work[w].at = "applied"
  /\ rows' = IF work[w].row = 0 THEN rows ELSE [rows EXCEPT ![work[w].row].processed = TRUE]
  /\ work' = [work EXCEPT ![w].at = "acked"]
  /\ UNCHANGED <<httpVars, tasks, faults>>

Ack(w) ==
  /\ work[w].at = "acked"
  /\ tasks' = [tasks EXCEPT ![work[w].task].state = "done"]
  /\ work' = [work EXCEPT ![w] = Resting]
  /\ UNCHANGED <<httpVars, rows, faults>>

\* The gate, the handler or the mark fails, or the worker dies and its lease
\* expires: the task is queued again, or archived when its retries are used up.
TaskFails(w) ==
  /\ work[w].at # "idle" /\ Fault
  /\ LET t == work[w].task
     IN  tasks' = IF tasks[t].retried = MaxRetries
                  THEN [tasks EXCEPT ![t].state = "archived"]
                  ELSE [tasks EXCEPT ![t].state = "queued", ![t].retried = @ + 1]
  /\ work' = [work EXCEPT ![w] = Resting]
  /\ UNCHANGED <<httpVars, rows>>

-----------------------------------------------------------------------------
Serve(h) == RecordNew(h) \/ IgnoreKnown(h) \/ Enqueue(h)
Run(w)   == (\E t \in DOMAIN tasks : TakeTask(w, t)) \/ Apply(w) \/ MarkProcessed(w) \/ Ack(w)

Next ==
  \/ \E ev \in Events : Emit(ev)
  \/ \E h \in Handlers : \/ \E ev \in Events : Deliver(h, ev)
                         \/ Serve(h) \/ RecordFails(h) \/ EnqueueFails(h) \/ RequestCut(h)
  \/ \E w \in Workers : Run(w) \/ TaskFails(w)

Spec == Init /\ [][Next]_vars

(* The provider keeps delivering what was not answered; a request that was *)
(* received runs to its answer; the asynq server polls for ever.           *)
FairSpec ==
  /\ Spec
  /\ \A ev \in Events : SF_vars(ev \notin answered /\ \E h \in Handlers : Deliver(h, ev))
  /\ \A h \in Handlers : WF_vars(Serve(h))
  /\ \A w \in Workers : WF_vars(Run(w))

-----------------------------------------------------------------------------
(* Properties                                                              *)

(* Requests, rows, tasks and workers are records of the shapes above.      *)
TypeOK ==
  /\ emitted \subseteq Events /\ answered \subseteq Events
  /\ repeats \in 0..MaxRepeats /\ faults \in 0..MaxFaults
  /\ req \in [Handlers -> {Resting} \cup Request]
  /\ rows \in Seq(Row) /\ tasks \in Seq(Task)
  /\ work \in [Workers -> {Resting} \cup Work]
  /\ alerted \subseteq Events /\ cut \subseteq Events

(* However often and concurrently an event is delivered, one task is       *)
(* enqueued for it at most (RazorpayWebhook: do not enqueue a second time).*)
OneTaskPerEvent ==
  \A s, t \in DOMAIN tasks : tasks[s].ev = tasks[t].ev => s = t

(* The endpoint and the worker's gate implement the feed the payment       *)
(* handlers rely on: an event is held by one worker at a time and is not   *)
(* touched after it was marked processed.                                  *)
Queued    == {tasks[t].ev : t \in DOMAIN tasks}
Processed == {rows[i].ev : i \in {j \in DOMAIN rows : rows[j].processed}}
Holding(w) == IF work[w].at \in {"working", "applied"} THEN tasks[work[w].task].ev ELSE NoEvent

Feed == INSTANCE EventFeed WITH
          sent <- Queued,
          done <- Processed,
          held <- [w \in Workers |-> Holding(w)]
ImplementsFeed == Feed!Spec

(* An event the provider emits is processed in the end, unless its task    *)
(* used up its retries, or it has a row and will never get a task: then an *)
(* alert was raised for it (RazorpayWebhook: critical, needs manual        *)
(* re-drive) or the server died between the row and the task.  An endpoint *)
(* that loses an event in any other way, or in silence, violates it.       *)
Dropped(ev) ==
  /\ \E i \in DOMAIN rows : rows[i].ev = ev
  /\ TasksOf(ev) = {}
  /\ \A h \in Handlers : req[h].at = "recorded" => req[h].ev # ev
  /\ ev \in alerted \cup cut

EmittedIsSettled ==
  \A ev \in Events :
    ev \in emitted ~> \/ ev \in Processed
                      \/ \E t \in TasksOf(ev) : tasks[t].state = "archived"
                      \/ Dropped(ev)
=============================================================================
