------------------------------ MODULE Payments ------------------------------
(***************************************************************************)
(* The life of an order after checkout: the provider's events, the worker  *)
(* jobs that apply them, the two sweeps and the HTTP actions that write to *)
(* the same rows.                                                          *)
(*                                                                         *)
(* Every job and sweep runs in its own READ COMMITTED transaction and      *)
(* takes no row lock before its first write, so a transaction is modelled  *)
(* as the reads its early returns depend on (Begin, Look), whose result    *)
(* the job remembers, followed by one atomic step with all of its writes   *)
(* (Commit).  Another transaction may commit between any two of them.      *)
(***************************************************************************)
EXTENDS Integers, Sequences, FiniteSets

CONSTANTS
  Keys,         \* (learner, course) pairs: the unique key of learner_course_access
  Orders,       \* orders learners place
  Buyer,        \* [Orders -> Keys]: the learner and the course of the offer
  FreeOrders,   \* orders on offers of type free
  FixedTerm,    \* orders on subscription offers with an access duration
  StaleOrders,  \* orders that may stay unpaid past the sweep's 30 minute cutoff
  Codes,        \* discount codes
  NoCode,
  CodeOf,       \* [Orders -> Codes \cup {NoCode}]
  Cap,          \* [Codes -> Nat]: max_redemptions
  Attempts,     \* the provider's payment ids: attempts to pay an order
  OrderOf,      \* [Attempts -> Orders]
  Disputable,   \* attempts whose capture the payer may dispute
  Refunds,      \* the provider's refund ids
  RefundOf,     \* [Refunds -> Attempts]
  Workers,      \* concurrent executors of the asynq server
  AnalyticsOutcomes, \* whether the database may accept an analytics row
  MaxGrants,    \* bound on staff grants
  MaxCrashes    \* bound on jobs cut short after they started

NoOrder == "no order"

ASSUME PaymentsAssumption ==
  /\ Buyer \in [Orders -> Keys]
  /\ FreeOrders \subseteq Orders
  /\ FixedTerm \subseteq Orders
  /\ StaleOrders \subseteq Orders
  /\ NoOrder \notin Orders
  /\ NoCode \notin Codes
  /\ CodeOf \in [Orders -> Codes \cup {NoCode}]
  /\ Cap \in [Codes -> Nat]
  /\ OrderOf \in [Attempts -> Orders]
  /\ \A a \in Attempts : OrderOf[a] \notin FreeOrders
  /\ Disputable \subseteq Attempts
  /\ RefundOf \in [Refunds -> Attempts]
  /\ AnalyticsOutcomes \subseteq BOOLEAN
  /\ MaxGrants \in Nat
  /\ MaxCrashes \in Nat

VARIABLES
  orders,      \* orders.status, "none" while no row is committed
  atProvider,  \* orders the provider has accepted, so that they can be paid
  pays,        \* payments rows in order of creation
  refunds,     \* refunds rows
  cbs,         \* chargebacks rows
  ents,        \* entitlements rows
  access,      \* the learner_course_access row of each key
  redeemed,    \* discount_codes.redemption_count
  receipts,    \* receipt e-mails enqueued per order
  sent,        \* the provider's events, recorded and enqueued
  done,        \* events whose webhook_events row is marked processed
  asked,       \* refunds the provider has accepted
  job,         \* what each worker has read so far
  crashes,
  abandoning,  \* order the abandon sweep has just re-checked
  expiring,    \* entitlement the expiry sweep has just re-checked
  refunding    \* payment of a refund request whose row is not committed yet

rowVars  == <<orders, pays, refunds, cbs, ents, access, redeemed>>
provVars == <<atProvider, sent, asked>>
jobVars  == <<job, done, receipts, crashes>>
httpVars == <<abandoning, expiring, refunding>>
vars     == <<rowVars, provVars, jobVars, httpVars>>

-----------------------------------------------------------------------------
(* Values                                                                  *)

OrderStatus == {"none", "payment_initiated", "succeeded", "failed", "abandoned"}
Unpaid      == {"payment_initiated"}   \* the only open status ever committed

PaymentKinds == {"captured", "failed", "disputed", "won", "lost"}
RefundKinds  == {"refunded", "refundFailed"}

Events == [kind : PaymentKinds, id : Attempts] \cup [kind : RefundKinds, id : Refunds]
Event(kind, id) == [kind |-> kind, id |-> id]

Sent(kind, id) == Event(kind, id) \in sent

Payment     == [order : Orders, rzp : Attempts, status : {"succeeded", "failed"}]
Refund      == [pay : Nat, rzp : Refunds, status : {"pending", "succeeded", "failed"}]
Chargeback  == [pay : Nat, status : {"pending", "won", "lost"}]
Entitlement == [order : Orders \cup {NoOrder}, key : Keys, fixed : BOOLEAN,
                lapsed : BOOLEAN, status : {"active", "revoked", "expired"}]
Access      == [ent : Nat, status : {"none", "active", "revoked", "expired"}]

NoAccess == [ent |-> 0, status |-> "none"]

(* A job: "begun" and "looked" are inside its transaction, "committed" has *)
(* the receipt still to enqueue and "handled" the event still to mark.     *)
Idle == [at |-> "idle"]
Busy == [at : {"begun", "looked", "committed", "handled"}, ev : Events,
         pay : Nat, row : Nat, ent : Nat]

(* SELECT ... ORDER BY created_at DESC LIMIT 1, and a SELECT that finds    *)
(* nothing.  Row 0 stands for ErrNotFound.                                 *)
Latest(rows) == {i \in rows : \A j \in rows : j <= i}
OrNotFound(rows) == IF rows = {} THEN {0} ELSE rows

PaymentsOf(o)   == {p \in DOMAIN pays : pays[p].order = o}
PaymentsRzp(a)  == {p \in DOMAIN pays : pays[p].rzp = a}
RefundsRzp(r)   == {f \in DOMAIN refunds : refunds[f].rzp = r}
ChargebacksOf(p) == {c \in DOMAIN cbs : cbs[c].pay = p}
EntsOf(o)       == {e \in DOMAIN ents : ents[e].order = o}

-----------------------------------------------------------------------------
Init ==
  /\ orders = [o \in Orders |-> "none"]
  /\ atProvider = {}
  /\ pays = <<>> /\ refunds = <<>> /\ cbs = <<>> /\ ents = <<>>
  /\ access = [k \in Keys |-> NoAccess]
  /\ redeemed = [c \in Codes |-> 0]
  /\ receipts = [o \in Orders |-> 0]
  /\ sent = {} /\ done = {} /\ asked = {}
  /\ job = [w \in Workers |-> Idle]
  /\ crashes = 0
  /\ abandoning = NoOrder
  /\ expiring = 0
  /\ refunding = [r \in Refunds |-> 0]

(* Writes shared by several handlers.                                      *)

\* learner_course_access: Create, or SetEntitlementAndStatus(active)
PointAccessAt(k, e) ==
  access' = [access EXCEPT ![k] = [ent |-> e, status |-> "active"]]

\* learner_course_access.SetStatus on the row of the key, whatever it points at
SetAccess(k, s) ==
  access' = [access EXCEPT ![k].status = IF @ = "none" THEN @ ELSE s]

NewEntitlement(o, k, fixed) ==
  ents' = Append(ents, [order |-> o, key |-> k, fixed |-> fixed,
                        lapsed |-> FALSE, status |-> "active"])

\* IncrementRedemption: a conditional UPDATE
CodeAvailable(o) == CodeOf[o] # NoCode => redeemed[CodeOf[o]] < Cap[CodeOf[o]]
Redeem(o) ==
  redeemed' = IF CodeOf[o] # NoCode /\ CodeAvailable(o)
              THEN [redeemed EXCEPT ![CodeOf[o]] = @ + 1] ELSE redeemed

\* faulty variants: forget the access row; revoke all the learner holds
RevokeEntitlementOnly(e) ==
  /\ ents' = IF e = 0 THEN ents ELSE [ents EXCEPT ![e].status = "revoked"]
  /\ UNCHANGED access
RevokeAllOfKey(e) ==
  IF e = 0 THEN UNCHANGED <<ents, access>>
  ELSE /\ ents' = [f \in DOMAIN ents |->
                    IF ents[f].key = ents[e].key THEN [ents[f] EXCEPT !.status = "revoked"]
                    ELSE ents[f]]
       /\ SetAccess(ents[e].key, "revoked")

\* revokeEntitlementForPayment after its early returns (e = 0: nothing active)
Revoke(e) ==
  IF e = 0 THEN UNCHANGED <<ents, access>>
  ELSE /\ ents' = [ents EXCEPT ![e].status = "revoked"]
       /\ SetAccess(ents[e].key, "revoked")

-----------------------------------------------------------------------------
(* HTTP requests                                                           *)

\* CreateOrder, paid path: the provider has the order before the row commits.
OpenAtProvider(o) ==
  /\ o \notin FreeOrders \cup atProvider
  /\ CodeAvailable(o)
  /\ atProvider' = atProvider \cup {o}
  /\ UNCHANGED <<rowVars, sent, asked, jobVars, httpVars>>

\* The request's transaction commits after the response was written.
CommitCheckout(o) ==
  /\ o \in atProvider /\ orders[o] = "none"
  /\ orders' = [orders EXCEPT ![o] = "payment_initiated"]
  /\ UNCHANGED <<pays, refunds, cbs, ents, access, redeemed, provVars, jobVars, httpVars>>

\* CreateOrder, free path: order, entitlement, access and redemption at once.
CheckoutFree(o) ==
  /\ o \in FreeOrders /\ orders[o] = "none"
  /\ CodeAvailable(o)
  /\ orders' = [orders EXCEPT ![o] = "succeeded"]
  /\ NewEntitlement(o, Buyer[o], FALSE)
  /\ PointAccessAt(Buyer[o], Len(ents) + 1)
  /\ Redeem(o)
  /\ UNCHANGED <<pays, refunds, cbs, provVars, jobVars, httpVars>>

EnrollCourse(k) ==
  /\ access[k] = NoAccess
  /\ PointAccessAt(k, 0)
  /\ UNCHANGED <<orders, pays, refunds, cbs, ents, redeemed, provVars, jobVars, httpVars>>

GrantAccess(k) ==
  /\ Cardinality(EntsOf(NoOrder)) < MaxGrants
  /\ NewEntitlement(NoOrder, k, FALSE)
  /\ PointAccessAt(k, Len(ents) + 1)
  /\ UNCHANGED <<orders, pays, refunds, cbs, redeemed, provVars, jobVars, httpVars>>

\* The provider refunds a captured payment in full, once unless it failed.
Refundable(r) ==
  /\ r \notin asked
  /\ Sent("captured", RefundOf[r])
  /\ \A q \in asked : RefundOf[q] = RefundOf[r] => Sent("refundFailed", q)

\* RefundOrder up to the provider's answer.
RequestRefund(r) ==
  /\ \E p \in Latest(PaymentsOf(OrderOf[RefundOf[r]])) :
       /\ pays[p].status = "succeeded" /\ pays[p].rzp = RefundOf[r]
       /\ \A f \in DOMAIN refunds : refunds[f].pay = p => refunds[f].status = "failed"
       /\ Refundable(r)
       /\ refunding' = [refunding EXCEPT ![r] = p]
  /\ asked' = asked \cup {r}
  /\ UNCHANGED <<rowVars, atProvider, sent, jobVars, abandoning, expiring>>

CommitRefund(r) ==
  /\ refunding[r] # 0
  /\ refunds' = Append(refunds, [pay |-> refunding[r], rzp |-> r, status |-> "pending"])
  /\ refunding' = [refunding EXCEPT ![r] = 0]
  /\ UNCHANGED <<orders, pays, cbs, ents, access, redeemed, provVars, jobVars,
                 abandoning, expiring>>

\* A failing insert, audit row or commit: the provider keeps the refund.
RollbackRefund(r) ==
  /\ refunding[r] # 0
  /\ refunding' = [refunding EXCEPT ![r] = 0]
  /\ UNCHANGED <<rowVars, provVars, jobVars, abandoning, expiring>>

-----------------------------------------------------------------------------
(* The payment provider (external): an attempt fails or is captured, an    *)
(* order is captured at most once, a captured payment may be refunded and  *)
(* disputed.  Its events reach the task queue through WebhookGate.         *)

Emit(ev) ==
  /\ sent' = sent \cup {ev}
  /\ UNCHANGED <<rowVars, atProvider, asked, jobVars, httpVars>>

Settled(a) == Sent("captured", a) \/ Sent("failed", a)

AttemptFails(a) ==
  /\ OrderOf[a] \in atProvider /\ ~Settled(a)
  /\ Emit(Event("failed", a))

AttemptCaptured(a) ==
  /\ OrderOf[a] \in atProvider /\ ~Settled(a)
  /\ \A b \in Attempts : OrderOf[b] = OrderOf[a] => ~Sent("captured", b)
  /\ Emit(Event("captured", a))

DashboardRefund(r) ==
  /\ Refundable(r)
  /\ asked' = asked \cup {r}
  /\ UNCHANGED <<rowVars, atProvider, sent, jobVars, httpVars>>

RefundSettles(r) ==
  /\ r \in asked /\ ~Sent("refunded", r) /\ ~Sent("refundFailed", r)
  /\ \E kind \in RefundKinds : Emit(Event(kind, r))

DisputeOpens(a) ==
  /\ a \in Disputable /\ Sent("captured", a) /\ ~Sent("disputed", a)
  /\ Emit(Event("disputed", a))

DisputeCloses(a) ==
  /\ Sent("disputed", a) /\ ~Sent("won", a) /\ ~Sent("lost", a)
  /\ \E kind \in {"won", "lost"} : Emit(Event(kind, a))

-----------------------------------------------------------------------------
(* Worker jobs.  An event whose row is marked processed is acknowledged    *)
(* without effect, so only the others are taken.  An event that names an   *)
(* order or payment without a row is an error: asynq retries it later.     *)

Take(w, ev) ==
  /\ job[w].at = "idle"
  /\ ev \in sent \ done
  /\ \A v \in Workers : job[v].at # "idle" => job[v].ev # ev

Has(w, at, ev) == job[w].at = at /\ job[w].ev = ev

\* early: the handler returns without writing, leaving only the mark to set
Began(w, ev, early, p, row) ==
  /\ job' = [job EXCEPT ![w] =
       [at |-> IF early THEN "handled" ELSE "begun", ev |-> ev,
        pay |-> p, row |-> row, ent |-> 0]]
  /\ UNCHANGED <<rowVars, provVars, done, receipts, crashes, httpVars>>

MoveTo(w, at) ==
  /\ job' = [job EXCEPT ![w].at = at]
  /\ UNCHANGED <<provVars, done, receipts, crashes, httpVars>>

\* faulty variants: an event of an unknown order is acknowledged instead of
\* retried; the order's status is not looked at
BeginCapturedAcks(w, a) ==
  /\ Take(w, Event("captured", a))
  /\ Began(w, Event("captured", a), orders[OrderOf[a]] \in {"none", "succeeded"}, 0, 0)
BeginCapturedUnguarded(w, a) ==
  /\ Take(w, Event("captured", a))
  /\ orders[OrderOf[a]] # "none"
  /\ Began(w, Event("captured", a), FALSE, 0, 0)

(* payment.captured                                                        *)
BeginCaptured(w, a) ==
  /\ Take(w, Event("captured", a))
  /\ orders[OrderOf[a]] # "none"
  /\ Began(w, Event("captured", a), orders[OrderOf[a]] = "succeeded", 0, 0)

\* payment.failed
BeginFailed(w, a) ==
  /\ Take(w, Event("failed", a))
  /\ orders[OrderOf[a]] # "none"
  /\ Began(w, Event("failed", a), orders[OrderOf[a]] = "failed", 0, 0)

\* both read the latest payment of the order next
LookPayment(w, a) ==
  /\ Has(w, "begun", Event("captured", a)) \/ Has(w, "begun", Event("failed", a))
  /\ \E p \in OrNotFound(Latest(PaymentsOf(OrderOf[a]))) :
       job' = [job EXCEPT ![w].at = "looked", ![w].pay = p]
  /\ UNCHANGED <<rowVars, provVars, done, receipts, crashes, httpVars>>

WritePayment(w, a, status) ==
  LET row == [order |-> OrderOf[a], rzp |-> a, status |-> status]
  IN  pays' = IF job[w].pay = 0 THEN Append(pays, row)
              ELSE [pays EXCEPT ![job[w].pay] = row]

CommitCaptured(w, a) ==
  LET o == OrderOf[a] IN
  /\ Has(w, "looked", Event("captured", a))
  /\ TRUE \in AnalyticsOutcomes
  /\ WritePayment(w, a, "succeeded")
  /\ orders' = [orders EXCEPT ![o] = "succeeded"]
  /\ NewEntitlement(o, Buyer[o], o \in FixedTerm)
  /\ PointAccessAt(Buyer[o], Len(ents) + 1)
  /\ Redeem(o)
  /\ MoveTo(w, "committed")
  /\ UNCHANGED <<refunds, cbs>>

CommitFailed(w, a) ==
  /\ Has(w, "looked", Event("failed", a))
  /\ WritePayment(w, a, "failed")
  /\ orders' = [orders EXCEPT ![OrderOf[a]] = "failed"]
  /\ MoveTo(w, "handled")
  /\ UNCHANGED <<refunds, cbs, ents, access, redeemed>>

\* The receipt is enqueued after the commit; a failure is only logged.
SendReceipt(w, a) ==
  /\ Has(w, "committed", Event("captured", a))
  /\ job' = [job EXCEPT ![w].at = "handled"]
  /\ \/ receipts' = [receipts EXCEPT ![OrderOf[a]] = @ + 1]
     \/ UNCHANGED receipts
  /\ UNCHANGED <<rowVars, provVars, done, crashes, httpVars>>

\* faulty variant: a refund of a payment not recorded yet is acknowledged
BeginRefundedAcks(w, r) ==
  /\ Take(w, Event("refunded", r))
  /\ \E p \in OrNotFound(PaymentsRzp(RefundOf[r])), f \in OrNotFound(RefundsRzp(r)) :
       Began(w, Event("refunded", r),
             p = 0 \/ (f # 0 /\ refunds[f].status = "succeeded"), p, f)

(* refund.processed and refund.failed                                      *)
BeginRefunded(w, r) ==
  /\ Take(w, Event("refunded", r))
  /\ \E p \in PaymentsRzp(RefundOf[r]), f \in OrNotFound(RefundsRzp(r)) :
       Began(w, Event("refunded", r), f # 0 /\ refunds[f].status = "succeeded", p, f)

BeginRefundFailed(w, r) ==
  /\ Take(w, Event("refundFailed", r))
  /\ \E f \in OrNotFound(RefundsRzp(r)) :
       Began(w, Event("refundFailed", r), f = 0 \/ refunds[f].status = "failed", 0, f)

\* dispute opened, won, lost
BeginDispute(w, a, kind) ==
  /\ Take(w, Event(kind, a))
  /\ \E p \in PaymentsRzp(a) : \E c \in OrNotFound(Latest(ChargebacksOf(p))) :
       LET sameStatus == IF kind = "disputed" THEN "pending" ELSE kind
       IN  Began(w, Event(kind, a), c # 0 /\ cbs[c].status = sameStatus, p, c)

\* revokeEntitlementForPayment: any entitlement of the order, if still active
LookEntitlement(w) ==
  /\ job[w].at = "begun" /\ job[w].ev.kind \in {"refunded", "lost"}
  /\ \E e \in OrNotFound(EntsOf(pays[job[w].pay].order)) :
       job' = [job EXCEPT ![w].at = "looked",
                          ![w].ent = IF e # 0 /\ ents[e].status = "active" THEN e ELSE 0]
  /\ UNCHANGED <<rowVars, provVars, done, receipts, crashes, httpVars>>

CommitRefunded(w, r) ==
  /\ Has(w, "looked", Event("refunded", r))
  /\ TRUE \in AnalyticsOutcomes
  /\ refunds' = IF job[w].row = 0
                THEN Append(refunds, [pay |-> job[w].pay, rzp |-> r, status |-> "succeeded"])
                ELSE [refunds EXCEPT ![job[w].row].status = "succeeded"]
  /\ Revoke(job[w].ent)
  /\ MoveTo(w, "handled")
  /\ UNCHANGED <<orders, pays, cbs, redeemed>>

\* The handler drops the error of the analytics insert, but the error has
\* aborted the transaction: the commit fails and the task is retried.
AnalyticsRejected(w) ==
  /\ job[w].at = "looked" /\ job[w].ev.kind \in {"captured", "refunded"}
  /\ FALSE \in AnalyticsOutcomes
  /\ job' = [job EXCEPT ![w] = Idle]
  /\ UNCHANGED <<rowVars, provVars, done, receipts, crashes, httpVars>>

CommitRefundFailed(w, r) ==
  /\ Has(w, "begun", Event("refundFailed", r))
  /\ refunds' = [refunds EXCEPT ![job[w].row].status = "failed"]
  /\ MoveTo(w, "handled")
  /\ UNCHANGED <<orders, pays, cbs, ents, access, redeemed>>

CommitDisputeOpened(w, a) ==
  /\ Has(w, "begun", Event("disputed", a))
  /\ cbs' = Append(cbs, [pay |-> job[w].pay, status |-> "pending"])
  /\ MoveTo(w, "handled")
  /\ UNCHANGED <<orders, pays, refunds, ents, access, redeemed>>

CommitDisputeClosed(w, a, kind) ==
  /\ \/ kind = "won" /\ Has(w, "begun", Event("won", a))
     \/ kind = "lost" /\ Has(w, "looked", Event("lost", a))
  /\ cbs' = IF job[w].row = 0
            THEN Append(cbs, [pay |-> job[w].pay, status |-> kind])
            ELSE [cbs EXCEPT ![job[w].row].status = kind]
  /\ Revoke(job[w].ent)
  /\ MoveTo(w, "handled")
  /\ UNCHANGED <<orders, pays, refunds, redeemed>>

MarkProcessed(w) ==
  /\ job[w].at = "handled"
  /\ done' = done \cup {job[w].ev}
  /\ job' = [job EXCEPT ![w] = Idle]
  /\ UNCHANGED <<rowVars, provVars, receipts, crashes, httpVars>>

\* The process dies, or a query or the mark fails: an open transaction is
\* rolled back, the task stays queued and is retried from the start.
Crash(w) ==
  /\ job[w].at # "idle" /\ crashes < MaxCrashes
  /\ job' = [job EXCEPT ![w] = Idle]
  /\ crashes' = crashes + 1
  /\ UNCHANGED <<rowVars, provVars, done, receipts, httpVars>>

-----------------------------------------------------------------------------
(* The sweeps: list, re-check in a transaction, update unconditionally.    *)

AbandonCheck(o) ==
  /\ abandoning = NoOrder
  /\ o \in StaleOrders /\ orders[o] \in Unpaid
  /\ abandoning' = o
  /\ UNCHANGED <<rowVars, provVars, jobVars, expiring, refunding>>

AbandonCommit ==
  /\ abandoning # NoOrder
  /\ orders' = [orders EXCEPT ![abandoning] = "abandoned"]
  /\ abandoning' = NoOrder
  /\ UNCHANGED <<pays, refunds, cbs, ents, access, redeemed, provVars, jobVars,
                 expiring, refunding>>

\* expires_at passes (time)
Lapse(e) ==
  /\ ents[e].fixed /\ ~ents[e].lapsed
  /\ ents' = [ents EXCEPT ![e].lapsed = TRUE]
  /\ UNCHANGED <<orders, pays, refunds, cbs, access, redeemed, provVars, jobVars, httpVars>>

\* faulty variant: only entitlements an access row points at are listed
ExpireCheckPointed(e) ==
  /\ expiring = 0
  /\ ents[e].status = "active" /\ ents[e].lapsed /\ access[ents[e].key].ent = e
  /\ expiring' = e
  /\ UNCHANGED <<rowVars, provVars, jobVars, abandoning, refunding>>

ExpireCheck(e) ==
  /\ expiring = 0
  /\ ents[e].status = "active" /\ ents[e].lapsed
  /\ expiring' = e
  /\ UNCHANGED <<rowVars, provVars, jobVars, abandoning, refunding>>

ExpireCommit ==
  /\ expiring # 0
  /\ ents' = [ents EXCEPT ![expiring].status = "expired"]
  /\ SetAccess(ents[expiring].key, "expired")
  /\ expiring' = 0
  /\ UNCHANGED <<orders, pays, refunds, cbs, redeemed, provVars, jobVars,
                 abandoning, refunding>>

-----------------------------------------------------------------------------
Request ==
  \/ \E o \in Orders : OpenAtProvider(o) \/ CommitCheckout(o) \/ CheckoutFree(o)
  \/ \E k \in Keys : EnrollCourse(k) \/ GrantAccess(k)
  \/ \E r \in Refunds : RequestRefund(r) \/ CommitRefund(r) \/ RollbackRefund(r)

Provider ==
  \/ \E a \in Attempts : \/ AttemptFails(a) \/ AttemptCaptured(a)
                         \/ DisputeOpens(a) \/ DisputeCloses(a)
  \/ \E r \in Refunds : DashboardRefund(r) \/ RefundSettles(r)

Begin(w, ev) ==
  \/ ev.kind = "captured" /\ BeginCaptured(w, ev.id)
  \/ ev.kind = "failed" /\ BeginFailed(w, ev.id)
  \/ ev.kind = "refunded" /\ BeginRefunded(w, ev.id)
  \/ ev.kind = "refundFailed" /\ BeginRefundFailed(w, ev.id)
  \/ ev.kind \in {"disputed", "won", "lost"} /\ BeginDispute(w, ev.id, ev.kind)

Step(w) ==
  \/ \E a \in Attempts : \/ LookPayment(w, a)
                         \/ CommitCaptured(w, a) \/ CommitFailed(w, a)
                         \/ SendReceipt(w, a)
                         \/ CommitDisputeOpened(w, a)
                         \/ \E kind \in {"won", "lost"} : CommitDisputeClosed(w, a, kind)
  \/ \E r \in Refunds : CommitRefunded(w, r) \/ CommitRefundFailed(w, r)
  \/ LookEntitlement(w)
  \/ AnalyticsRejected(w)
  \/ MarkProcessed(w)

Worker(w) == (\E ev \in sent : Begin(w, ev)) \/ Step(w) \/ Crash(w)

Sweep ==
  \/ \E o \in Orders : AbandonCheck(o)
  \/ AbandonCommit
  \/ \E e \in DOMAIN ents : Lapse(e) \/ ExpireCheck(e)
  \/ ExpireCommit

Next == Request \/ Provider \/ (\E w \in Workers : Worker(w)) \/ Sweep

Spec == Init /\ [][Next]_vars

(* A started job runs to its end or crashes; a queued capture or refund    *)
(* that a worker can take again and again is taken (asynq polls its queues *)
(* for ever).  The other events need no fairness for the properties below. *)
JobFairness ==
  /\ \A w \in Workers : WF_vars(Step(w))
  /\ \A a \in Attempts : SF_vars(\E w \in Workers : BeginCaptured(w, a))
  /\ \A r \in Refunds : SF_vars(\E w \in Workers : BeginRefunded(w, r))

SweepFairness == WF_vars(\E e \in DOMAIN ents : ExpireCheck(e)) /\ WF_vars(ExpireCommit)

FairSpec == Spec /\ JobFairness /\ SweepFairness

-----------------------------------------------------------------------------
(* Properties                                                              *)

(* Every variable holds rows, events and job records of the shapes above.  *)
TypeOK ==
  /\ orders \in [Orders -> OrderStatus]
  /\ atProvider \subseteq Orders
  /\ pays \in Seq(Payment)
  /\ refunds \in Seq(Refund)
  /\ cbs \in Seq(Chargeback)
  /\ ents \in Seq(Entitlement)
  /\ access \in [Keys -> Access]
  /\ redeemed \in [Codes -> Nat]
  /\ receipts \in [Orders -> Nat]
  /\ sent \subseteq Events /\ done \subseteq sent
  /\ asked \subseteq Refunds
  /\ job \in [Workers -> {Idle} \cup Busy]
  /\ crashes \in 0..MaxCrashes
  /\ abandoning \in Orders \cup {NoOrder}
  /\ expiring \in Nat
  /\ refunding \in [Refunds -> Nat]

(* What a job has read still belongs to its event when it writes, whatever *)
(* committed in between: the payment and the entitlement are those of the  *)
(* order the event is about, the refund or dispute row is the event's own. *)
OrderPaid(ev) == IF ev.kind \in RefundKinds THEN OrderOf[RefundOf[ev.id]] ELSE OrderOf[ev.id]

JobOwnsRows(j) ==
  /\ j.ev \in sent
  /\ j.at \in {"begun", "looked"} =>
       /\ j.pay # 0 => /\ j.pay \in DOMAIN pays
                       /\ pays[j.pay].order = OrderPaid(j.ev)
       /\ j.ev.kind \in {"refunded", "disputed", "won", "lost"} => j.pay # 0
       /\ j.ent # 0 => /\ j.ev.kind \in {"refunded", "lost"}
                       /\ j.ent \in DOMAIN ents
                       /\ ents[j.ent].order = OrderPaid(j.ev)
       /\ j.row # 0 /\ j.ev.kind \in RefundKinds =>
            j.row \in DOMAIN refunds /\ refunds[j.row].rzp = j.ev.id
       /\ j.row # 0 /\ j.ev.kind \in {"disputed", "won", "lost"} =>
            j.row \in DOMAIN cbs /\ cbs[j.row].pay = j.pay

OwnRows ==
  /\ \A p \in DOMAIN pays : pays[p].order = OrderOf[pays[p].rzp]
  /\ \A w \in Workers : job[w].at # "idle" => JobOwnsRows(job[w])

(* No access without payment: a paid order has an entitlement only if the  *)
(* provider captured a payment of that order, whatever the order in which  *)
(* events arrive, jobs crash and sweeps run.                               *)
GrantNeedsCapture ==
  \A e \in DOMAIN ents :
    ents[e].order \in Orders \ FreeOrders =>
      \E a \in Attempts : OrderOf[a] = ents[e].order /\ Sent("captured", a)

(* The access row a learner is checked against is active only for a        *)
(* self-enrolment or while the entitlement it points at is active and of   *)
(* the same learner and course: refunds, lost disputes and lapses never    *)
(* leave access behind.                                                    *)
ActiveAccessIsBacked ==
  \A k \in Keys :
    access[k].status = "active" /\ access[k].ent # 0 =>
      /\ access[k].ent \in DOMAIN ents
      /\ ents[access[k].ent].key = k
      /\ ents[access[k].ent].status = "active"

(* Access is taken away for a refund or a lost dispute of this very order  *)
(* only: a failed refund, a won dispute or another order never do it.      *)
RevokedMeansMoneyBack ==
  \A e \in DOMAIN ents :
    ents[e].status = "revoked" =>
      \E a \in Attempts :
        /\ OrderOf[a] = ents[e].order
        /\ \/ Sent("lost", a)
           \/ \E r \in Refunds : RefundOf[r] = a /\ Sent("refunded", r)

(* Both ways: whatever order the events of captures, refunds and disputes  *)
(* are handled in, access to a paid course follows the money of its order. *)
AccessFollowsMoney == GrantNeedsCapture /\ RevokedMeansMoneyBack

(* An entitlement that ended, by revocation or expiry, is never active     *)
(* again, and rows are never deleted.                                      *)
EndedStaysEnded ==
  [][\A e \in DOMAIN ents :
       /\ e \in DOMAIN ents'
       /\ ents[e].status # "active" => ents'[e].status # "active"]_vars

(* An order that succeeded stays succeeded (internal/models/order.go).     *)
SucceededStaysSucceeded ==
  [][\A o \in Orders : orders[o] = "succeeded" => orders'[o] = "succeeded"]_vars

(* A captured payment of a committed order is granted in the end, in any   *)
(* environment: out of order, after an abandoned or failed order, and      *)
(* across crashes of the workers.                                          *)
CapturedIsGranted ==
  \A a \in Attempts :
    (Sent("captured", a) /\ orders[OrderOf[a]] # "none") ~> (EntsOf(OrderOf[a]) # {})

(* A refund the provider processed ends the entitlement of the order.      *)
RefundTakesAccess ==
  \A r \in Refunds :
    (Sent("refunded", r) /\ orders[OrderOf[RefundOf[r]]] # "none") ~>
      \E e \in EntsOf(OrderOf[RefundOf[r]]) : ents[e].status # "active"

(* A fixed-term entitlement does not outlive its term for ever.            *)
LapsedEnds ==
  \A n \in 1..(2 * Cardinality(Orders)) :
    (n \in DOMAIN ents /\ ents[n].lapsed) ~> (n \in DOMAIN ents /\ ents[n].status # "active")

(* The detailed system implements Purchase: an order is paid once its      *)
(* capture is known and its row committed, granted while it has an active  *)
(* entitlement and ended when it has only ended ones.                      *)
PhaseOf(o) ==
  IF \E e \in EntsOf(o) : ents[e].status = "active" THEN "granted"
  ELSE IF EntsOf(o) # {} THEN "ended"
  ELSE IF orders[o] # "none" /\ \E a \in Attempts : OrderOf[a] = o /\ Sent("captured", a)
       THEN "paid" ELSE "open"

Abstract == INSTANCE Purchase WITH phase <- [o \in Orders |-> PhaseOf(o)]
ImplementsPurchase == Abstract!Spec

(* The handlers use the feed the way WebhookGate provides it.              *)
Holding(w) == IF job[w].at = "idle" THEN Idle ELSE job[w].ev

Feed == INSTANCE EventFeed WITH NoEvent <- Idle, held <- [w \in Workers |-> Holding(w)]
UsesFeed == Feed!Spec
=============================================================================
