--------------------------- MODULE PaymentsProofs ---------------------------
(***************************************************************************)
(* Invariance proofs for Payments, for every set of orders, attempts,      *)
(* refunds, codes and workers.                                             *)
(***************************************************************************)
EXTENDS Payments, RowLemmas

-----------------------------------------------------------------------------
(* Type correctness                                                        *)

LEMMA EventTypes ==
  /\ \A k \in PaymentKinds, a \in Attempts : Event(k, a) \in Events
  /\ \A k \in RefundKinds, r \in Refunds : Event(k, r) \in Events
  /\ \A k, i : Event(k, i).kind = k /\ Event(k, i).id = i
BY DEF Events, Event

LEMMA Queries ==
  ASSUME TypeOK
  PROVE  /\ \A o : PaymentsOf(o) \subseteq Nat \ {0}
         /\ \A a : PaymentsRzp(a) \subseteq Nat \ {0}
         /\ \A r : RefundsRzp(r) \subseteq Nat \ {0}
         /\ \A p : ChargebacksOf(p) \subseteq Nat \ {0}
         /\ \A o : EntsOf(o) \subseteq Nat \ {0}
         /\ DOMAIN ents \subseteq Nat \ {0}
         /\ \A rows : Latest(rows) \subseteq rows
         /\ \A rows : OrNotFound(rows) \subseteq rows \cup {0}
<1>1. /\ DOMAIN pays \subseteq Nat \ {0} /\ DOMAIN refunds \subseteq Nat \ {0}
      /\ DOMAIN cbs \subseteq Nat \ {0} /\ DOMAIN ents \subseteq Nat \ {0}
  BY RowIds DEF TypeOK
<1>2. QED
  BY <1>1 DEF PaymentsOf, PaymentsRzp, RefundsRzp, ChargebacksOf, EntsOf, Latest, OrNotFound

LEMMA IdleOrBusy ==
  ASSUME TypeOK, NEW w \in Workers, job[w].at # "idle"
  PROVE  job[w] \in Busy
BY DEF TypeOK, Idle

(* The start of a job keeps the types.                                     *)
LEMMA BeganType ==
  ASSUME TypeOK, NEW w \in Workers, NEW ev \in Events, NEW early \in BOOLEAN,
         NEW p \in Nat, NEW row \in Nat, Began(w, ev, early, p, row)
  PROVE  TypeOK'
<1>1. job' \in [Workers -> {Idle} \cup Busy]
  BY DEF TypeOK, Began, Busy
<1>2. QED
  BY <1>1 DEF TypeOK, Began, rowVars, provVars, httpVars

(* The writes shared by several handlers keep the types.                   *)
LEMMA PointAccessType ==
  ASSUME TypeOK, NEW k \in Keys, NEW e \in Nat, PointAccessAt(k, e)
  PROVE  access' \in [Keys -> Access]
BY DEF TypeOK, PointAccessAt, Access

LEMMA SetAccessType ==
  ASSUME TypeOK, NEW k, NEW s \in {"revoked", "expired"}, SetAccess(k, s)
  PROVE  access' \in [Keys -> Access]
BY DEF TypeOK, SetAccess, Access

LEMMA RedeemType ==
  ASSUME TypeOK, NEW o \in Orders, Redeem(o)
  PROVE  redeemed' \in [Codes -> Nat]
BY PaymentsAssumption DEF TypeOK, Redeem, CodeAvailable

LEMMA EntStatusType ==
  ASSUME TypeOK, NEW e, NEW s \in {"active", "revoked", "expired"}
  PROVE  [ents EXCEPT ![e].status = s] \in Seq(Entitlement)
<1>1. e \in DOMAIN ents => ents[e] \in Entitlement
  BY RowIds DEF TypeOK
<1>2. e \in DOMAIN ents => [ents[e] EXCEPT !.status = s] \in Entitlement
  BY <1>1 DEF Entitlement
<1>3. QED
  BY <1>2, StatusUpdate DEF TypeOK

LEMMA RevokeType ==
  ASSUME TypeOK, NEW e, Revoke(e)
  PROVE  ents' \in Seq(Entitlement) /\ access' \in [Keys -> Access]
BY EntStatusType, SetAccessType DEF Revoke, TypeOK

LEMMA MoveToType ==
  ASSUME TypeOK, NEW w \in Workers, job[w].at # "idle",
         NEW at \in {"begun", "looked", "committed", "handled"}, MoveTo(w, at)
  PROVE  job' \in [Workers -> {Idle} \cup Busy]
BY IdleOrBusy DEF TypeOK, MoveTo, Busy

LEMMA WritePaymentType ==
  ASSUME TypeOK, NEW w \in Workers, NEW a \in Attempts,
         NEW s \in {"succeeded", "failed"}, WritePayment(w, a, s)
  PROVE  pays' \in Seq(Payment)
<1>1. [order |-> OrderOf[a], rzp |-> a, status |-> s] \in Payment
  BY PaymentsAssumption DEF Payment
<1>2. QED
  BY <1>1, SeqAppend, SeqExcept DEF TypeOK, WritePayment

(* The jobs' transactions commit only rows of the right shapes.            *)
LEMMA StepType ==
  ASSUME TypeOK, OwnRows, NEW w \in Workers, Step(w)
  PROVE  TypeOK'
<1>1. ASSUME NEW a \in Attempts, LookPayment(w, a) PROVE TypeOK'
  <2>1. PICK p \in OrNotFound(Latest(PaymentsOf(OrderOf[a]))) :
          job' = [job EXCEPT ![w].at = "looked", ![w].pay = p]
    BY <1>1 DEF LookPayment
  <2>2. p \in Nat
    BY <2>1, Queries
  <2>3. job[w] \in Busy
    BY <1>1, IdleOrBusy DEF LookPayment, Has
  <2>4. job' \in [Workers -> {Idle} \cup Busy]
    BY <2>1, <2>2, <2>3 DEF TypeOK, Busy
  <2>5. QED
    BY <1>1, <2>4 DEF TypeOK, LookPayment, rowVars, provVars, httpVars
<1>2. ASSUME NEW a \in Attempts, CommitCaptured(w, a) PROVE TypeOK'
  <2>1. job' \in [Workers -> {Idle} \cup Busy]
    BY <1>2, MoveToType DEF CommitCaptured, Has
  <2>2. pays' \in Seq(Payment)
    BY <1>2, WritePaymentType DEF CommitCaptured
  <2>3. /\ OrderOf[a] \in Orders /\ Buyer[OrderOf[a]] \in Keys
        /\ (OrderOf[a] \in FixedTerm) \in BOOLEAN
    BY PaymentsAssumption
  <2>4. ents' \in Seq(Entitlement) /\ Len(ents) + 1 \in Nat
    <3>1. [order |-> OrderOf[a], key |-> Buyer[OrderOf[a]], fixed |-> OrderOf[a] \in FixedTerm,
           lapsed |-> FALSE, status |-> "active"] \in Entitlement
      BY <2>3 DEF Entitlement
    <3>2. QED
      BY <1>2, <3>1, SeqAppend DEF TypeOK, CommitCaptured, NewEntitlement
  <2>5. access' \in [Keys -> Access] /\ redeemed' \in [Codes -> Nat]
    BY <1>2, <2>3, <2>4, PointAccessType, RedeemType DEF CommitCaptured
  <2>6. orders' \in [Orders -> OrderStatus]
    BY <1>2 DEF TypeOK, CommitCaptured, OrderStatus
  <2>7. QED
    BY <1>2, <2>1, <2>2, <2>4, <2>5, <2>6
    DEF TypeOK, CommitCaptured, MoveTo, provVars, httpVars
<1>3. ASSUME NEW a \in Attempts, CommitFailed(w, a) PROVE TypeOK'
  <2>1. job' \in [Workers -> {Idle} \cup Busy]
    BY <1>3, MoveToType DEF CommitFailed, Has
  <2>2. pays' \in Seq(Payment)
    BY <1>3, WritePaymentType DEF CommitFailed
  <2>3. orders' \in [Orders -> OrderStatus]
    BY <1>3 DEF TypeOK, CommitFailed, OrderStatus
  <2>4. QED
    BY <1>3, <2>1, <2>2, <2>3 DEF TypeOK, CommitFailed, MoveTo, provVars, httpVars
<1>4. ASSUME NEW a \in Attempts, SendReceipt(w, a) PROVE TypeOK'
  <2>1. job[w] \in Busy
    BY <1>4, IdleOrBusy DEF SendReceipt, Has
  <2>2. job' \in [Workers -> {Idle} \cup Busy]
    BY <1>4, <2>1 DEF TypeOK, SendReceipt, Busy
  <2>3. receipts \in [Orders -> Nat]
    BY DEF TypeOK
  <2>4. receipts' = [receipts EXCEPT ![OrderOf[a]] = @ + 1] \/ receipts' = receipts
    BY <1>4 DEF SendReceipt
  <2>5. receipts' \in [Orders -> Nat]
    BY <2>3, <2>4
  <2>6. QED
    BY <1>4, <2>2, <2>5 DEF TypeOK, SendReceipt, rowVars, provVars, httpVars
<1>5. ASSUME NEW a \in Attempts, CommitDisputeOpened(w, a) PROVE TypeOK'
  <2>1. job' \in [Workers -> {Idle} \cup Busy]
    BY <1>5, MoveToType DEF CommitDisputeOpened, Has
  <2>2. [pay |-> job[w].pay, status |-> "pending"] \in Chargeback
    BY <1>5, IdleOrBusy DEF CommitDisputeOpened, Has, Busy, Chargeback
  <2>3. cbs' \in Seq(Chargeback)
    BY <1>5, <2>2, SeqAppend DEF TypeOK, CommitDisputeOpened
  <2>4. QED
    BY <1>5, <2>1, <2>3 DEF TypeOK, CommitDisputeOpened, MoveTo, provVars, httpVars
<1>6. ASSUME NEW a \in Attempts, NEW kind \in {"won", "lost"}, CommitDisputeClosed(w, a, kind)
      PROVE  TypeOK'
  <2>1. job' \in [Workers -> {Idle} \cup Busy]
    BY <1>6, MoveToType DEF CommitDisputeClosed, Has
  <2>2. [pay |-> job[w].pay, status |-> kind] \in Chargeback
    BY <1>6, IdleOrBusy DEF CommitDisputeClosed, Has, Busy, Chargeback
  <2>3. job[w].row \in DOMAIN cbs => cbs[job[w].row] \in Chargeback
    BY RowIds DEF TypeOK
  <2>4. job[w].row \in DOMAIN cbs =>
          [cbs[job[w].row] EXCEPT !.status = kind] \in Chargeback
    BY <2>3 DEF Chargeback
  <2>5. cbs' \in Seq(Chargeback)
    BY <1>6, <2>2, <2>4, SeqAppend, StatusUpdate DEF TypeOK, CommitDisputeClosed
  <2>6. ents' \in Seq(Entitlement) /\ access' \in [Keys -> Access]
    BY <1>6, RevokeType DEF CommitDisputeClosed
  <2>7. QED
    BY <1>6, <2>1, <2>5, <2>6 DEF TypeOK, CommitDisputeClosed, MoveTo, provVars, httpVars
<1>7. ASSUME NEW r \in Refunds, CommitRefunded(w, r) PROVE TypeOK'
  <2>1. job' \in [Workers -> {Idle} \cup Busy]
    BY <1>7, MoveToType DEF CommitRefunded, Has
  <2>2. [pay |-> job[w].pay, rzp |-> r, status |-> "succeeded"] \in Refund
    BY <1>7, IdleOrBusy DEF CommitRefunded, Has, Busy, Refund
  <2>3. job[w].row \in DOMAIN refunds => refunds[job[w].row] \in Refund
    BY RowIds DEF TypeOK
  <2>4. job[w].row \in DOMAIN refunds =>
          [refunds[job[w].row] EXCEPT !.status = "succeeded"] \in Refund
    BY <2>3 DEF Refund
  <2>5. refunds' \in Seq(Refund)
    BY <1>7, <2>2, <2>4, SeqAppend, StatusUpdate DEF TypeOK, CommitRefunded
  <2>6. ents' \in Seq(Entitlement) /\ access' \in [Keys -> Access]
    BY <1>7, RevokeType DEF CommitRefunded
  <2>7. QED
    BY <1>7, <2>1, <2>5, <2>6 DEF TypeOK, CommitRefunded, MoveTo, provVars, httpVars
<1>8. ASSUME NEW r \in Refunds, CommitRefundFailed(w, r) PROVE TypeOK'
  <2>1. job' \in [Workers -> {Idle} \cup Busy]
    BY <1>8, MoveToType DEF CommitRefundFailed, Has
  <2>2. job[w].row \in DOMAIN refunds => refunds[job[w].row] \in Refund
    BY RowIds DEF TypeOK
  <2>3. job[w].row \in DOMAIN refunds =>
          [refunds[job[w].row] EXCEPT !.status = "failed"] \in Refund
    BY <2>2 DEF Refund
  <2>4. refunds' \in Seq(Refund)
    BY <1>8, <2>3, StatusUpdate DEF TypeOK, CommitRefundFailed
  <2>5. QED
    BY <1>8, <2>1, <2>4 DEF TypeOK, CommitRefundFailed, MoveTo, provVars, httpVars
<1>9. ASSUME LookEntitlement(w) PROVE TypeOK'
  <2>1. job[w] \in Busy
    BY <1>9, IdleOrBusy DEF LookEntitlement
  <2>2. PICK e \in OrNotFound(EntsOf(pays[job[w].pay].order)) :
          job' = [job EXCEPT ![w].at = "looked",
                             ![w].ent = IF e # 0 /\ ents[e].status = "active" THEN e ELSE 0]
    BY <1>9 DEF LookEntitlement
  <2>3. e \in Nat
    BY <2>2, Queries
  <2>4. job' \in [Workers -> {Idle} \cup Busy]
    BY <2>1, <2>2, <2>3 DEF TypeOK, Busy
  <2>5. QED
    BY <1>9, <2>4 DEF TypeOK, LookEntitlement, rowVars, provVars, httpVars
<1>10. ASSUME MarkProcessed(w) PROVE TypeOK'
  <2>1. job[w].ev \in sent
    BY <1>10 DEF MarkProcessed, OwnRows, JobOwnsRows
  <2>2. QED
    BY <1>10, <2>1 DEF TypeOK, MarkProcessed, rowVars, provVars, httpVars
<1>11. ASSUME AnalyticsRejected(w) PROVE TypeOK'
  BY <1>11 DEF TypeOK, AnalyticsRejected, rowVars, provVars, httpVars
<1>12. QED
  BY <1>1, <1>2, <1>3, <1>4, <1>5, <1>6, <1>7, <1>8, <1>9, <1>10, <1>11 DEF Step

LEMMA BeginType ==
  ASSUME TypeOK, NEW w \in Workers, NEW ev \in sent, Begin(w, ev)
  PROVE  TypeOK'
<1>1. ev \in Events
  BY DEF TypeOK
<1>2. /\ ev.kind \in PaymentKinds => ev.id \in Attempts /\ ev = Event(ev.kind, ev.id)
      /\ ev.kind \in RefundKinds => ev.id \in Refunds /\ ev = Event(ev.kind, ev.id)
  BY <1>1 DEF Events, Event, PaymentKinds, RefundKinds
<1>3. CASE ev.kind = "captured" /\ BeginCaptured(w, ev.id)
  BY <1>1, <1>2, <1>3, BeganType DEF BeginCaptured, PaymentKinds
<1>4. CASE ev.kind = "failed" /\ BeginFailed(w, ev.id)
  BY <1>1, <1>2, <1>4, BeganType DEF BeginFailed, PaymentKinds
<1>5. CASE ev.kind = "refunded" /\ BeginRefunded(w, ev.id)
  <2>1. PICK p \in PaymentsRzp(RefundOf[ev.id]), f \in OrNotFound(RefundsRzp(ev.id)) :
          Began(w, ev, f # 0 /\ refunds[f].status = "succeeded", p, f)
    BY <1>2, <1>5 DEF BeginRefunded, RefundKinds
  <2>2. p \in Nat /\ f \in Nat
    BY <2>1, Queries
  <2>3. QED
    BY <1>1, <2>1, <2>2, BeganType
<1>6. CASE ev.kind = "refundFailed" /\ BeginRefundFailed(w, ev.id)
  <2>1. PICK f \in OrNotFound(RefundsRzp(ev.id)) :
          Began(w, ev, f = 0 \/ refunds[f].status = "failed", 0, f)
    BY <1>2, <1>6 DEF BeginRefundFailed, RefundKinds
  <2>2. f \in Nat
    BY <2>1, Queries
  <2>3. QED
    BY <1>1, <2>1, <2>2, BeganType
<1>7. CASE ev.kind \in {"disputed", "won", "lost"} /\ BeginDispute(w, ev.id, ev.kind)
  <2> DEFINE sameStatus == IF ev.kind = "disputed" THEN "pending" ELSE ev.kind
  <2>1. PICK p \in PaymentsRzp(ev.id) : \E c \in OrNotFound(Latest(ChargebacksOf(p))) :
          Began(w, ev, c # 0 /\ cbs[c].status = sameStatus, p, c)
    BY <1>2, <1>7 DEF BeginDispute, PaymentKinds
  <2> PICK c \in OrNotFound(Latest(ChargebacksOf(p))) :
          Began(w, ev, c # 0 /\ cbs[c].status = sameStatus, p, c)
    BY <2>1
  <2>2. p \in Nat /\ c \in Nat
    BY <2>1, Queries
  <2>3. QED
    BY <1>1, <2>1, <2>2, BeganType
<1>8. QED
  BY <1>3, <1>4, <1>5, <1>6, <1>7 DEF Begin

LEMMA CrashType ==
  ASSUME TypeOK, NEW w \in Workers, Crash(w)
  PROVE  TypeOK'
<1>1. crashes' \in 0..MaxCrashes
  BY PaymentsAssumption DEF TypeOK, Crash
<1>2. QED
  BY <1>1 DEF TypeOK, Crash, rowVars, provVars, httpVars

LEMMA RequestType ==
  ASSUME TypeOK, Request
  PROVE  TypeOK'
<1> USE DEF rowVars, provVars, jobVars, httpVars
<1>1. ASSUME NEW o \in Orders, OpenAtProvider(o) PROVE TypeOK'
  BY <1>1 DEF TypeOK, OpenAtProvider
<1>2. ASSUME NEW o \in Orders, CommitCheckout(o) PROVE TypeOK'
  BY <1>2 DEF TypeOK, CommitCheckout, OrderStatus
<1>3. ASSUME NEW o \in Orders, CheckoutFree(o) PROVE TypeOK'
  <2>1. Buyer[o] \in Keys
    BY PaymentsAssumption
  <2>2. ents' \in Seq(Entitlement) /\ Len(ents) + 1 \in Nat
    <3>1. [order |-> o, key |-> Buyer[o], fixed |-> FALSE, lapsed |-> FALSE,
           status |-> "active"] \in Entitlement
      BY <2>1 DEF Entitlement
    <3>2. QED
      BY <1>3, <3>1, SeqAppend DEF TypeOK, CheckoutFree, NewEntitlement
  <2>3. access' \in [Keys -> Access] /\ redeemed' \in [Codes -> Nat]
    BY <1>3, <2>1, <2>2, PointAccessType, RedeemType DEF CheckoutFree
  <2>4. orders' \in [Orders -> OrderStatus]
    BY <1>3 DEF TypeOK, CheckoutFree, OrderStatus
  <2>5. QED
    BY <1>3, <2>2, <2>3, <2>4 DEF TypeOK, CheckoutFree
<1>4. ASSUME NEW k \in Keys, EnrollCourse(k) PROVE TypeOK'
  BY <1>4, PointAccessType DEF TypeOK, EnrollCourse
<1>5. ASSUME NEW k \in Keys, GrantAccess(k) PROVE TypeOK'
  <2>1. ents' \in Seq(Entitlement) /\ Len(ents) + 1 \in Nat
    <3>1. [order |-> NoOrder, key |-> k, fixed |-> FALSE, lapsed |-> FALSE,
           status |-> "active"] \in Entitlement
      BY DEF Entitlement
    <3>2. QED
      BY <1>5, <3>1, SeqAppend DEF TypeOK, GrantAccess, NewEntitlement
  <2>2. QED
    BY <1>5, <2>1, PointAccessType DEF TypeOK, GrantAccess
<1>6. ASSUME NEW r \in Refunds, RequestRefund(r) PROVE TypeOK'
  <2>1. PICK p \in Latest(PaymentsOf(OrderOf[RefundOf[r]])) :
          refunding' = [refunding EXCEPT ![r] = p]
    BY <1>6 DEF RequestRefund
  <2>2. p \in Nat
    BY <2>1, Queries
  <2>3. QED
    BY <1>6, <2>1, <2>2 DEF TypeOK, RequestRefund
<1>7. ASSUME NEW r \in Refunds, CommitRefund(r) PROVE TypeOK'
  <2>1. [pay |-> refunding[r], rzp |-> r, status |-> "pending"] \in Refund
    BY DEF TypeOK, Refund
  <2>2. refunds' \in Seq(Refund)
    BY <1>7, <2>1, SeqAppend DEF TypeOK, CommitRefund
  <2>3. QED
    BY <1>7, <2>2 DEF TypeOK, CommitRefund
<1>8. ASSUME NEW r \in Refunds, RollbackRefund(r) PROVE TypeOK'
  BY <1>8 DEF TypeOK, RollbackRefund
<1>9. QED
  BY <1>1, <1>2, <1>3, <1>4, <1>5, <1>6, <1>7, <1>8 DEF Request

LEMMA ProviderType ==
  ASSUME TypeOK, Provider
  PROVE  TypeOK'
<1> USE DEF rowVars, jobVars, httpVars
<1>1. ASSUME NEW ev \in Events, Emit(ev) PROVE TypeOK'
  BY <1>1 DEF TypeOK, Emit
<1>2. ASSUME NEW r \in Refunds, DashboardRefund(r) PROVE TypeOK'
  BY <1>2 DEF TypeOK, DashboardRefund
<1>3. ASSUME NEW a \in Attempts,
             AttemptFails(a) \/ AttemptCaptured(a) \/ DisputeOpens(a) \/ DisputeCloses(a)
      PROVE  TypeOK'
  BY <1>1, <1>3, EventTypes
  DEF AttemptFails, AttemptCaptured, DisputeOpens, DisputeCloses, PaymentKinds
<1>4. ASSUME NEW r \in Refunds, RefundSettles(r) PROVE TypeOK'
  BY <1>1, <1>4, EventTypes DEF RefundSettles
<1>5. QED
  BY <1>2, <1>3, <1>4 DEF Provider

LEMMA SweepType ==
  ASSUME TypeOK, Sweep
  PROVE  TypeOK'
<1> USE DEF rowVars, provVars, jobVars, httpVars
<1>1. ASSUME NEW o \in Orders, AbandonCheck(o) PROVE TypeOK'
  BY <1>1 DEF TypeOK, AbandonCheck
<1>2. ASSUME AbandonCommit PROVE TypeOK'
  BY <1>2 DEF TypeOK, AbandonCommit, OrderStatus
<1>3. ASSUME NEW e \in DOMAIN ents, Lapse(e) PROVE TypeOK'
  <2>1. ents[e] \in Entitlement
    BY RowIds DEF TypeOK
  <2>2. [ents[e] EXCEPT !.lapsed = TRUE] \in Entitlement
    BY <2>1 DEF Entitlement
  <2>3. ents' \in Seq(Entitlement)
    BY <1>3, <2>2, SeqExcept DEF TypeOK, Lapse
  <2>4. QED
    BY <1>3, <2>3 DEF TypeOK, Lapse
<1>4. ASSUME NEW e \in DOMAIN ents, ExpireCheck(e) PROVE TypeOK'
  BY <1>4, Queries DEF TypeOK, ExpireCheck
<1>5. ASSUME ExpireCommit PROVE TypeOK'
  <2>1. ents' \in Seq(Entitlement) /\ access' \in [Keys -> Access]
    BY <1>5, EntStatusType, SetAccessType DEF ExpireCommit
  <2>2. QED
    BY <1>5, <2>1 DEF TypeOK, ExpireCommit
<1>6. QED
  BY <1>1, <1>2, <1>3, <1>4, <1>5 DEF Sweep

-----------------------------------------------------------------------------
(* Rows are never deleted and never change hands: the argument for OwnRows *)
(* and for everything said about an entitlement.                           *)

RowsKept ==
  /\ sent \subseteq sent'
  /\ \A p \in DOMAIN pays : p \in DOMAIN pays' /\ pays'[p].order = pays[p].order
  /\ \A f \in DOMAIN refunds : f \in DOMAIN refunds' /\ refunds'[f].rzp = refunds[f].rzp
  /\ \A c \in DOMAIN cbs : c \in DOMAIN cbs' /\ cbs'[c].pay = cbs[c].pay
  /\ \A e \in DOMAIN ents : /\ e \in DOMAIN ents'
                            /\ ents'[e].order = ents[e].order
                            /\ ents'[e].key = ents[e].key

PaymentsSound == \A p \in DOMAIN pays : pays[p].order = OrderOf[pays[p].rzp]

LEMMA AppendKeeps ==
  ASSUME TypeOK, NEW v
  PROVE  /\ ents' = Append(ents, v) =>
              /\ Len(ents) \in Nat
              /\ DOMAIN ents' = DOMAIN ents \cup {Len(ents) + 1}
              /\ Len(ents) + 1 \notin DOMAIN ents
              /\ \A e \in DOMAIN ents : ents'[e] = ents[e]
              /\ ents'[Len(ents) + 1] = v
         /\ pays' = Append(pays, v) =>
              /\ DOMAIN pays' = DOMAIN pays \cup {Len(pays) + 1}
              /\ \A p \in DOMAIN pays : pays'[p] = pays[p]
              /\ pays'[Len(pays) + 1] = v
         /\ refunds' = Append(refunds, v) =>
              \A f \in DOMAIN refunds : f \in DOMAIN refunds' /\ refunds'[f] = refunds[f]
         /\ cbs' = Append(cbs, v) =>
              \A c \in DOMAIN cbs : c \in DOMAIN cbs' /\ cbs'[c] = cbs[c]
<1>1. ASSUME NEW S, NEW t \in Seq(S)
      PROVE  /\ Len(t) \in Nat
             /\ DOMAIN Append(t, v) = DOMAIN t \cup {Len(t) + 1}
             /\ Len(t) + 1 \notin DOMAIN t
             /\ \A i \in DOMAIN t : Append(t, v)[i] = t[i]
             /\ Append(t, v)[Len(t) + 1] = v
  OBVIOUS
<1>2. /\ \E S : ents \in Seq(S)
      /\ \E S : pays \in Seq(S)
      /\ \E S : refunds \in Seq(S)
      /\ \E S : cbs \in Seq(S)
  BY DEF TypeOK
<1> QED
  BY <1>1, <1>2

LEMMA StatusKeeps ==
  ASSUME TypeOK, NEW i, NEW v
  PROVE  /\ ents' = [ents EXCEPT ![i].status = v] =>
              /\ DOMAIN ents' = DOMAIN ents
              /\ \A e \in DOMAIN ents :
                   /\ ents'[e].order = ents[e].order /\ ents'[e].key = ents[e].key
                   /\ ents'[e].status = IF e = i THEN v ELSE ents[e].status
         /\ refunds' = [refunds EXCEPT ![i].status = v] =>
              \A f \in DOMAIN refunds :
                f \in DOMAIN refunds' /\ refunds'[f].rzp = refunds[f].rzp
         /\ cbs' = [cbs EXCEPT ![i].status = v] =>
              \A c \in DOMAIN cbs : c \in DOMAIN cbs' /\ cbs'[c].pay = cbs[c].pay
<1>1. /\ \A e \in DOMAIN ents : ents[e] \in Entitlement
      /\ \A f \in DOMAIN refunds : refunds[f] \in Refund
      /\ \A c \in DOMAIN cbs : cbs[c] \in Chargeback
  BY RowIds DEF TypeOK
<1>2. QED
  BY <1>1 DEF Entitlement, Refund, Chargeback

LEMMA RevokeKeeps ==
  ASSUME TypeOK, NEW i, Revoke(i)
  PROVE  /\ DOMAIN ents' = DOMAIN ents
         /\ \A e \in DOMAIN ents :
              /\ ents'[e].order = ents[e].order /\ ents'[e].key = ents[e].key
              /\ ents'[e].status = ents[e].status \/ (e = i /\ ents'[e].status = "revoked")
BY StatusKeeps DEF Revoke

LEMMA WritePaymentKeeps ==
  ASSUME TypeOK, OwnRows, NEW w \in Workers, NEW a \in Attempts, NEW s,
         Has(w, "looked", Event("captured", a)) \/ Has(w, "looked", Event("failed", a)),
         WritePayment(w, a, s)
  PROVE  /\ \A p \in DOMAIN pays : p \in DOMAIN pays' /\ pays'[p].order = pays[p].order
         /\ PaymentsSound'
<1> DEFINE row == [order |-> OrderOf[a], rzp |-> a, status |-> s]
<1>1. row.order = OrderOf[row.rzp]
  OBVIOUS
<1>2. PaymentsSound
  BY DEF OwnRows, PaymentsSound
<1>3. CASE job[w].pay = 0
  <2>1. pays' = Append(pays, row)
    BY <1>3 DEF WritePayment
  <2> HIDE DEF row
  <2>2. QED
    BY <2>1, <1>1, <1>2, AppendKeeps DEF PaymentsSound
<1>4. CASE job[w].pay # 0
  <2>1. job[w].pay \in DOMAIN pays /\ pays[job[w].pay].order = OrderOf[a]
    BY <1>4, EventTypes DEF OwnRows, JobOwnsRows, OrderPaid, Has, RefundKinds
  <2>2. pays' = [pays EXCEPT ![job[w].pay] = row] /\ row.order = OrderOf[a]
    BY <1>4 DEF WritePayment
  <2> HIDE DEF row
  <2>3. DOMAIN pays' = DOMAIN pays
        /\ \A p \in DOMAIN pays : pays'[p] = IF p = job[w].pay THEN row ELSE pays[p]
    BY <2>2 DEF TypeOK
  <2>4. QED
    BY <2>1, <2>2, <2>3, <1>1, <1>2 DEF PaymentsSound
<1>5. QED
  BY <1>3, <1>4

(* A step in which one worker moves keeps OwnRows if that worker's job     *)
(* still owns the rows it has read.                                        *)
LEMMA OtherJobs ==
  ASSUME TypeOK, OwnRows, RowsKept, PaymentsSound', NEW w \in Workers,
         \A v \in Workers \ {w} : job'[v] = job[v],
         job'[w].at # "idle" => JobOwnsRows(job[w])'
  PROVE  OwnRows'
<1>1. ASSUME NEW v \in Workers \ {w}, job'[v].at # "idle" PROVE JobOwnsRows(job[v])'
  BY <1>1 DEF OwnRows, JobOwnsRows, RowsKept, OrderPaid
<1>2. QED
  BY <1>1 DEF OwnRows, PaymentsSound

LEMMA NoJobs ==
  ASSUME TypeOK, OwnRows, RowsKept, PaymentsSound', job' = job
  PROVE  OwnRows'
<1>1. ASSUME NEW v \in Workers, job'[v].at # "idle" PROVE JobOwnsRows(job[v])'
  BY <1>1 DEF OwnRows, JobOwnsRows, RowsKept, OrderPaid
<1>2. QED
  BY <1>1 DEF OwnRows, PaymentsSound

LEMMA StepKeepsRows ==
  ASSUME TypeOK, OwnRows, NEW w \in Workers, Step(w)
  PROVE  RowsKept /\ PaymentsSound'
<1> USE DEF RowsKept, provVars
<1>1. PaymentsSound
  BY DEF OwnRows, PaymentsSound
<1>2. ASSUME UNCHANGED <<rowVars, provVars>> PROVE RowsKept /\ PaymentsSound'
  BY <1>1, <1>2 DEF PaymentsSound, rowVars
<1>3. ASSUME NEW a \in Attempts, LookPayment(w, a) \/ SendReceipt(w, a)
      PROVE  RowsKept /\ PaymentsSound'
  BY <1>2, <1>3 DEF LookPayment, SendReceipt
<1>4. ASSUME LookEntitlement(w) \/ AnalyticsRejected(w) \/ MarkProcessed(w)
      PROVE  RowsKept /\ PaymentsSound'
  BY <1>2, <1>4 DEF LookEntitlement, AnalyticsRejected, MarkProcessed
<1>5. ASSUME NEW a \in Attempts, CommitCaptured(w, a) PROVE RowsKept /\ PaymentsSound'
  <2>1. /\ \A p \in DOMAIN pays : p \in DOMAIN pays' /\ pays'[p].order = pays[p].order
        /\ PaymentsSound'
    BY <1>5, WritePaymentKeeps DEF CommitCaptured
  <2>2. \A e \in DOMAIN ents : e \in DOMAIN ents' /\ ents'[e] = ents[e]
    BY <1>5, AppendKeeps DEF CommitCaptured, NewEntitlement
  <2>3. QED
    BY <1>5, <2>1, <2>2 DEF CommitCaptured, MoveTo
<1>6. ASSUME NEW a \in Attempts, CommitFailed(w, a) PROVE RowsKept /\ PaymentsSound'
  <2>1. /\ \A p \in DOMAIN pays : p \in DOMAIN pays' /\ pays'[p].order = pays[p].order
        /\ PaymentsSound'
    BY <1>6, WritePaymentKeeps DEF CommitFailed
  <2>2. QED
    BY <1>6, <2>1 DEF CommitFailed, MoveTo
<1>7. ASSUME NEW a \in Attempts, CommitDisputeOpened(w, a) PROVE RowsKept /\ PaymentsSound'
  BY <1>1, <1>7, AppendKeeps DEF CommitDisputeOpened, MoveTo, PaymentsSound
<1>8. ASSUME NEW a \in Attempts, NEW kind \in {"won", "lost"}, CommitDisputeClosed(w, a, kind)
      PROVE  RowsKept /\ PaymentsSound'
  <2>1. \A c \in DOMAIN cbs : c \in DOMAIN cbs' /\ cbs'[c].pay = cbs[c].pay
    BY <1>8, AppendKeeps, StatusKeeps DEF CommitDisputeClosed
  <2>2. QED
    BY <1>1, <1>8, <2>1, RevokeKeeps DEF CommitDisputeClosed, MoveTo, PaymentsSound
<1>9. ASSUME NEW r \in Refunds, CommitRefunded(w, r) PROVE RowsKept /\ PaymentsSound'
  <2>1. \A f \in DOMAIN refunds : f \in DOMAIN refunds' /\ refunds'[f].rzp = refunds[f].rzp
    BY <1>9, AppendKeeps, StatusKeeps DEF CommitRefunded
  <2>2. QED
    BY <1>1, <1>9, <2>1, RevokeKeeps DEF CommitRefunded, MoveTo, PaymentsSound
<1>10. ASSUME NEW r \in Refunds, CommitRefundFailed(w, r) PROVE RowsKept /\ PaymentsSound'
  BY <1>1, <1>10, StatusKeeps DEF CommitRefundFailed, MoveTo, PaymentsSound
<1>11. QED
  BY <1>3, <1>4, <1>5, <1>6, <1>7, <1>8, <1>9, <1>10 DEF Step

LEMMA OutsideKeepsRows ==
  ASSUME TypeOK, OwnRows, Request \/ Provider \/ Sweep
  PROVE  RowsKept /\ PaymentsSound' /\ UNCHANGED job
<1> USE DEF RowsKept, provVars, jobVars
<1>1. PaymentsSound
  BY DEF OwnRows, PaymentsSound
<1> DEFINE Kept == RowsKept /\ PaymentsSound' /\ UNCHANGED job
<1>2. ASSUME UNCHANGED <<rowVars, jobVars>>, sent \subseteq sent' PROVE Kept
  BY <1>1, <1>2 DEF PaymentsSound, rowVars
<1>3. ASSUME UNCHANGED <<pays, refunds, cbs, jobVars, provVars>>,
             \A e \in DOMAIN ents : /\ e \in DOMAIN ents'
                                    /\ ents'[e].order = ents[e].order
                                    /\ ents'[e].key = ents[e].key
      PROVE  Kept
  BY <1>1, <1>3 DEF PaymentsSound
<1>4. ASSUME Request PROVE Kept
  <2>1. ASSUME NEW o \in Orders, OpenAtProvider(o) PROVE Kept
    BY <1>2, <2>1 DEF OpenAtProvider
  <2>2. ASSUME NEW o \in Orders, CommitCheckout(o) PROVE Kept
    BY <1>3, <2>2 DEF CommitCheckout
  <2>3. ASSUME NEW o \in Orders, CheckoutFree(o) PROVE Kept
    BY <1>3, <2>3, AppendKeeps DEF CheckoutFree, NewEntitlement
  <2>4. ASSUME NEW k \in Keys, EnrollCourse(k) PROVE Kept
    BY <1>3, <2>4 DEF EnrollCourse
  <2>5. ASSUME NEW k \in Keys, GrantAccess(k) PROVE Kept
    BY <1>3, <2>5, AppendKeeps DEF GrantAccess, NewEntitlement
  <2>6. ASSUME NEW r \in Refunds, RequestRefund(r) \/ RollbackRefund(r) PROVE Kept
    BY <1>2, <2>6 DEF RequestRefund, RollbackRefund
  <2>7. ASSUME NEW r \in Refunds, CommitRefund(r) PROVE Kept
    BY <1>1, <2>7, AppendKeeps DEF CommitRefund, PaymentsSound
  <2>8. QED
    BY <1>4, <2>1, <2>2, <2>3, <2>4, <2>5, <2>6, <2>7 DEF Request
<1>5. ASSUME Provider PROVE Kept
  <2>1. ASSUME NEW ev, Emit(ev) PROVE Kept
    BY <1>2, <2>1 DEF Emit
  <2>2. ASSUME NEW r \in Refunds, DashboardRefund(r) \/ RefundSettles(r) PROVE Kept
    BY <1>2, <2>1, <2>2 DEF DashboardRefund, RefundSettles
  <2>3. QED
    BY <1>5, <2>1, <2>2
    DEF Provider, AttemptFails, AttemptCaptured, DisputeOpens, DisputeCloses
<1>6. ASSUME Sweep PROVE Kept
  <2>1. ASSUME NEW o \in Orders, AbandonCheck(o) PROVE Kept
    BY <1>2, <2>1 DEF AbandonCheck
  <2>2. ASSUME AbandonCommit PROVE Kept
    BY <1>3, <2>2 DEF AbandonCommit
  <2>3. ASSUME NEW e \in DOMAIN ents, Lapse(e) PROVE Kept
    <3>1. \A f \in DOMAIN ents : ents[f] \in Entitlement
      BY RowIds DEF TypeOK
    <3>2. \A f \in DOMAIN ents : /\ f \in DOMAIN ents'
                                 /\ ents'[f].order = ents[f].order
                                 /\ ents'[f].key = ents[f].key
      BY <2>3, <3>1 DEF Lapse, Entitlement
    <3>3. QED
      BY <1>3, <2>3, <3>2 DEF Lapse
  <2>4. ASSUME NEW e \in DOMAIN ents, ExpireCheck(e) PROVE Kept
    BY <1>2, <2>4 DEF ExpireCheck
  <2>5. ASSUME ExpireCommit PROVE Kept
    BY <1>3, <2>5, StatusKeeps DEF ExpireCommit
  <2>6. QED
    BY <1>6, <2>1, <2>2, <2>3, <2>4, <2>5 DEF Sweep
<1>7. QED
  BY <1>4, <1>5, <1>6

LEMMA StepOwnRows ==
  ASSUME TypeOK, OwnRows, NEW w \in Workers, Step(w)
  PROVE  OwnRows'
<1>1. RowsKept /\ PaymentsSound'
  BY StepKeepsRows
<1>2. job[w] \in Busy /\ JobOwnsRows(job[w])
  BY IdleOrBusy DEF Step, LookPayment, CommitCaptured, CommitFailed, SendReceipt,
     CommitDisputeOpened, CommitDisputeClosed, CommitRefunded, CommitRefundFailed,
     LookEntitlement, AnalyticsRejected, MarkProcessed, Has, OwnRows
<1>3. ASSUME NEW at \in {"committed", "handled"}, job' = [job EXCEPT ![w].at = at]
      PROVE  OwnRows'
  <2>1. job'[w].at = at /\ job'[w].ev = job[w].ev /\ \A v \in Workers \ {w} : job'[v] = job[v]
    BY <1>2, <1>3 DEF TypeOK, Busy
  <2>2. JobOwnsRows(job[w])'
    BY <1>1, <1>2, <2>1 DEF JobOwnsRows, RowsKept
  <2>3. QED
    BY <1>1, <2>1, <2>2, OtherJobs
<1>4. ASSUME NEW a \in Attempts,
             \/ CommitCaptured(w, a) \/ CommitFailed(w, a) \/ SendReceipt(w, a)
             \/ CommitDisputeOpened(w, a)
             \/ \E kind \in {"won", "lost"} : CommitDisputeClosed(w, a, kind)
      PROVE  OwnRows'
  BY <1>3, <1>4 DEF CommitCaptured, CommitFailed, SendReceipt, CommitDisputeOpened,
     CommitDisputeClosed, MoveTo
<1>5. ASSUME NEW r \in Refunds, CommitRefunded(w, r) \/ CommitRefundFailed(w, r)
      PROVE  OwnRows'
  BY <1>3, <1>5 DEF CommitRefunded, CommitRefundFailed, MoveTo
<1>6. ASSUME NEW a \in Attempts, LookPayment(w, a) PROVE OwnRows'
  <2>1. PICK p \in OrNotFound(Latest(PaymentsOf(OrderOf[a]))) :
          job' = [job EXCEPT ![w].at = "looked", ![w].pay = p]
    BY <1>6 DEF LookPayment
  <2>2. p # 0 => p \in DOMAIN pays /\ pays[p].order = OrderOf[a]
    BY <2>1, Queries DEF PaymentsOf, Latest, OrNotFound
  <2>3. /\ job[w].at = "begun" /\ OrderPaid(job[w].ev) = OrderOf[a]
        /\ job[w].ev.kind \in {"captured", "failed"}
    BY <1>6, EventTypes DEF LookPayment, Has, OrderPaid, RefundKinds
  <2>4. /\ job'[w] = [job[w] EXCEPT !.at = "looked", !.pay = p]
        /\ \A v \in Workers \ {w} : job'[v] = job[v]
    BY <2>1 DEF TypeOK
  <2>5. /\ job'[w].ev = job[w].ev /\ job'[w].pay = p
        /\ job'[w].row = job[w].row /\ job'[w].ent = job[w].ent
    BY <1>2, <2>4 DEF Busy
  <2>6. UNCHANGED <<rowVars, provVars>>
    BY <1>6 DEF LookPayment
  <2>7. JobOwnsRows(job[w])'
    BY <1>2, <2>2, <2>3, <2>5, <2>6
    DEF JobOwnsRows, rowVars, provVars, OrderPaid, RefundKinds
  <2>8. QED
    BY <1>1, <2>4, <2>7, OtherJobs
<1>7. ASSUME LookEntitlement(w) PROVE OwnRows'
  <2>1. PICK e \in OrNotFound(EntsOf(pays[job[w].pay].order)) :
          job' = [job EXCEPT ![w].at = "looked",
                             ![w].ent = IF e # 0 /\ ents[e].status = "active" THEN e ELSE 0]
    BY <1>7 DEF LookEntitlement
  <2> DEFINE f == IF e # 0 /\ ents[e].status = "active" THEN e ELSE 0
  <2>2. job[w].at = "begun" /\ job[w].ev.kind \in {"refunded", "lost"}
    BY <1>7 DEF LookEntitlement
  <2>3. f # 0 => f \in DOMAIN ents /\ ents[f].order = OrderPaid(job[w].ev)
    BY <1>2, <2>1, <2>2 DEF EntsOf, OrNotFound, JobOwnsRows
  <2>4. /\ job'[w] = [job[w] EXCEPT !.at = "looked", !.ent = f]
        /\ \A v \in Workers \ {w} : job'[v] = job[v]
    BY <2>1 DEF TypeOK
  <2> HIDE DEF f
  <2>5. /\ job'[w].ev = job[w].ev /\ job'[w].pay = job[w].pay
        /\ job'[w].row = job[w].row /\ job'[w].ent = f
    BY <1>2, <2>4 DEF Busy
  <2>6. UNCHANGED <<rowVars, provVars>>
    BY <1>7 DEF LookEntitlement
  <2>7. JobOwnsRows(job[w])'
    BY <1>2, <2>2, <2>3, <2>5, <2>6 DEF JobOwnsRows, rowVars, provVars, OrderPaid
  <2>8. QED
    BY <1>1, <2>4, <2>7, OtherJobs
<1>8. ASSUME MarkProcessed(w) \/ AnalyticsRejected(w) PROVE OwnRows'
  <2>1. job' = [job EXCEPT ![w] = Idle]
    BY <1>8 DEF MarkProcessed, AnalyticsRejected
  <2>2. QED
    BY <1>1, <2>1, OtherJobs DEF TypeOK, Idle
<1>9. QED
  BY <1>4, <1>5, <1>6, <1>7, <1>8 DEF Step

LEMMA BeganOwnRows ==
  ASSUME TypeOK, OwnRows, NEW w \in Workers, NEW ev \in sent, NEW early \in BOOLEAN,
         NEW p, NEW row, Began(w, ev, early, p, row),
         p # 0 => p \in DOMAIN pays /\ pays[p].order = OrderPaid(ev),
         ev.kind \in {"refunded", "disputed", "won", "lost"} => p # 0,
         row # 0 /\ ev.kind \in RefundKinds =>
           row \in DOMAIN refunds /\ refunds[row].rzp = ev.id,
         row # 0 /\ ev.kind \in {"disputed", "won", "lost"} =>
           row \in DOMAIN cbs /\ cbs[row].pay = p
  PROVE  OwnRows'
<1>1. UNCHANGED <<rowVars, provVars>>
  BY DEF Began
<1>2. RowsKept /\ PaymentsSound'
  BY <1>1 DEF RowsKept, PaymentsSound, OwnRows, rowVars, provVars
<1>3. /\ job'[w].ev = ev /\ job'[w].pay = p /\ job'[w].row = row /\ job'[w].ent = 0
      /\ \A v \in Workers \ {w} : job'[v] = job[v]
  BY DEF Began, TypeOK
<1>4. JobOwnsRows(job[w])'
  BY <1>1, <1>3 DEF JobOwnsRows, rowVars, provVars, OrderPaid
<1>5. QED
  BY <1>2, <1>3, <1>4, OtherJobs

LEMMA BeginOwnRows ==
  ASSUME TypeOK, OwnRows, NEW w \in Workers, NEW ev \in sent, Begin(w, ev)
  PROVE  OwnRows'
<1>1. /\ ev.kind \in PaymentKinds => ev.id \in Attempts /\ ev = Event(ev.kind, ev.id)
      /\ ev.kind \in RefundKinds => ev.id \in Refunds /\ ev = Event(ev.kind, ev.id)
  BY DEF TypeOK, Events, Event, PaymentKinds, RefundKinds
<1>2. \A p \in DOMAIN pays : pays[p].order = OrderOf[pays[p].rzp]
  BY DEF OwnRows
<1>3. DOMAIN pays \subseteq Nat \ {0}
  BY RowIds DEF TypeOK
<1>4. CASE ev.kind = "captured" /\ BeginCaptured(w, ev.id)
  BY <1>1, <1>4, BeganOwnRows DEF BeginCaptured, PaymentKinds, RefundKinds
<1>5. CASE ev.kind = "failed" /\ BeginFailed(w, ev.id)
  BY <1>1, <1>5, BeganOwnRows DEF BeginFailed, PaymentKinds, RefundKinds
<1>6. CASE ev.kind = "refunded" /\ BeginRefunded(w, ev.id)
  <2>1. PICK p \in PaymentsRzp(RefundOf[ev.id]), f \in OrNotFound(RefundsRzp(ev.id)) :
          Began(w, ev, f # 0 /\ refunds[f].status = "succeeded", p, f)
    BY <1>1, <1>6 DEF BeginRefunded, RefundKinds
  <2>2. /\ p \in DOMAIN pays /\ p # 0 /\ pays[p].order = OrderPaid(ev)
        /\ f # 0 => f \in DOMAIN refunds /\ refunds[f].rzp = ev.id
    BY <1>2, <1>3, <1>6, <2>1 DEF PaymentsRzp, RefundsRzp, OrNotFound, OrderPaid, RefundKinds
  <2>3. QED
    BY <1>6, <2>1, <2>2, BeganOwnRows
<1>7. CASE ev.kind = "refundFailed" /\ BeginRefundFailed(w, ev.id)
  <2>1. PICK f \in OrNotFound(RefundsRzp(ev.id)) :
          Began(w, ev, f = 0 \/ refunds[f].status = "failed", 0, f)
    BY <1>1, <1>7 DEF BeginRefundFailed, RefundKinds
  <2>2. f # 0 => f \in DOMAIN refunds /\ refunds[f].rzp = ev.id
    BY <2>1 DEF RefundsRzp, OrNotFound
  <2>3. QED
    BY <1>7, <2>1, <2>2, BeganOwnRows
<1>8. CASE ev.kind \in {"disputed", "won", "lost"} /\ BeginDispute(w, ev.id, ev.kind)
  <2> DEFINE sameStatus == IF ev.kind = "disputed" THEN "pending" ELSE ev.kind
  <2>1. PICK p \in PaymentsRzp(ev.id) : \E c \in OrNotFound(Latest(ChargebacksOf(p))) :
          Began(w, ev, c # 0 /\ cbs[c].status = sameStatus, p, c)
    BY <1>1, <1>8 DEF BeginDispute, PaymentKinds
  <2> PICK c \in OrNotFound(Latest(ChargebacksOf(p))) :
          Began(w, ev, c # 0 /\ cbs[c].status = sameStatus, p, c)
    BY <2>1
  <2>2. /\ p \in DOMAIN pays /\ p # 0 /\ pays[p].order = OrderPaid(ev)
        /\ c # 0 => c \in DOMAIN cbs /\ cbs[c].pay = p
    BY <1>2, <1>3, <1>8
    DEF PaymentsRzp, ChargebacksOf, Latest, OrNotFound, OrderPaid, RefundKinds
  <2>3. QED
    BY <1>8, <2>2, BeganOwnRows DEF RefundKinds
<1>9. QED
  BY <1>4, <1>5, <1>6, <1>7, <1>8 DEF Begin

LEMMA CrashOwnRows ==
  ASSUME TypeOK, OwnRows, NEW w \in Workers, Crash(w)
  PROVE  OwnRows'
<1>1. RowsKept /\ PaymentsSound'
  BY DEF Crash, RowsKept, PaymentsSound, OwnRows, rowVars, provVars
<1>2. QED
  BY <1>1, OtherJobs DEF Crash, TypeOK, Idle

-----------------------------------------------------------------------------
(* Every reachable state is type correct, and every job in flight holds    *)
(* rows of its own event, for any number of orders, events and workers.    *)

IInv == TypeOK /\ OwnRows

LEMMA InitIInv == Init => IInv
<1> SUFFICES ASSUME Init PROVE IInv
  OBVIOUS
<1> USE PaymentsAssumption DEF Init
<1>1. /\ pays \in Seq(Payment) /\ refunds \in Seq(Refund)
      /\ cbs \in Seq(Chargeback) /\ ents \in Seq(Entitlement)
      /\ DOMAIN pays = {}
  OBVIOUS
<1>2. TypeOK
  BY <1>1 DEF TypeOK, OrderStatus, Access, NoAccess
<1>3. OwnRows
  BY <1>1 DEF OwnRows, Idle
<1>4. QED
  BY <1>2, <1>3 DEF IInv

LEMMA NextIInv == IInv /\ [Next]_vars => IInv'
<1> SUFFICES ASSUME TypeOK, OwnRows, [Next]_vars PROVE TypeOK' /\ OwnRows'
  BY DEF IInv
<1>1. ASSUME Request \/ Provider \/ Sweep PROVE TypeOK' /\ OwnRows'
  BY <1>1, RequestType, ProviderType, SweepType, OutsideKeepsRows, NoJobs
<1>2. ASSUME NEW w \in Workers, Worker(w) PROVE TypeOK' /\ OwnRows'
  BY <1>2, BeginType, StepType, CrashType, BeginOwnRows, StepOwnRows, CrashOwnRows DEF Worker
<1>3. ASSUME UNCHANGED vars PROVE TypeOK' /\ OwnRows'
  <2>1. TypeOK'
    BY <1>3 DEF vars, rowVars, provVars, jobVars, httpVars, TypeOK
  <2>2. RowsKept /\ PaymentsSound' /\ job' = job
    BY <1>3 DEF vars, rowVars, provVars, jobVars, RowsKept, PaymentsSound, OwnRows
  <2>3. QED
    BY <2>1, <2>2, NoJobs
<1>4. QED
  BY <1>1, <1>2, <1>3 DEF Next

LEMMA IInvAlways == Spec => []IInv
BY InitIInv, NextIInv, PTL DEF Spec

THEOREM TypesHold == Spec => []TypeOK
<1>1. IInv => TypeOK
  BY DEF IInv
<1>2. QED
  BY <1>1, IInvAlways, PTL

(* What a job has read still belongs to its event when it writes.          *)
THEOREM JobsOwnTheirRows == Spec => []OwnRows
<1>1. IInv => OwnRows
  BY DEF IInv
<1>2. QED
  BY <1>1, IInvAlways, PTL

-----------------------------------------------------------------------------
(* What can happen to entitlements and access rows, and for which reason.  *)

Captured(o) == \E a \in Attempts : OrderOf[a] = o /\ Sent("captured", a)

MoneyBack(o) ==
  \E a \in Attempts :
    /\ OrderOf[a] = o
    /\ \/ Sent("lost", a)
       \/ \E r \in Refunds : RefundOf[r] = a /\ Sent("refunded", r)

GrantStep ==
  \E o \in Orders \cup {NoOrder}, k \in Keys : \E fixed :
    /\ NewEntitlement(o, k, fixed) /\ PointAccessAt(k, Len(ents) + 1)
    /\ o \in Orders \ FreeOrders => Captured(o)

EnrolStep == UNCHANGED ents /\ \E k \in Keys : PointAccessAt(k, 0)

RevokeStep == \E e : Revoke(e) /\ (e # 0 => e \in DOMAIN ents /\ MoneyBack(ents[e].order))

ExpireStep == ents' = [ents EXCEPT ![expiring].status = "expired"]
              /\ SetAccess(ents[expiring].key, "expired")

LapseStep == UNCHANGED access
             /\ \E e \in DOMAIN ents : ents' = [ents EXCEPT ![e].lapsed = TRUE]

LEMMA EntitlementSteps ==
  ASSUME TypeOK, OwnRows, [Next]_vars
  PROVE  /\ \/ UNCHANGED <<ents, access>> \/ GrantStep \/ EnrolStep
            \/ RevokeStep \/ ExpireStep \/ LapseStep
         /\ sent \subseteq sent'
<1> DEFINE Goal == \/ UNCHANGED <<ents, access>> \/ GrantStep \/ EnrolStep
                   \/ RevokeStep \/ ExpireStep \/ LapseStep
<1>1. sent \subseteq sent'
  <2>1. CASE UNCHANGED vars
    BY <2>1 DEF vars, provVars
  <2>2. CASE Request \/ Provider \/ Sweep
    BY <2>2, OutsideKeepsRows DEF RowsKept
  <2>3. ASSUME NEW w \in Workers, Worker(w) PROVE sent \subseteq sent'
    <3>1. CASE Step(w)
      BY <3>1, StepKeepsRows DEF RowsKept
    <3>2. CASE Crash(w)
      BY <3>2 DEF Crash, provVars
    <3>3. ASSUME NEW ev \in sent, Begin(w, ev) PROVE sent \subseteq sent'
      BY <3>3 DEF Begin, BeginCaptured, BeginFailed, BeginRefunded, BeginRefundFailed,
         BeginDispute, Began, provVars
    <3>4. QED
      BY <2>3, <3>1, <3>2, <3>3 DEF Worker
  <2>4. QED
    BY <2>1, <2>2, <2>3 DEF Next
<1>2. ASSUME UNCHANGED vars PROVE Goal
  BY <1>2 DEF vars, rowVars
<1>3. ASSUME Request PROVE Goal
  <2>1. ASSUME NEW o \in Orders, CheckoutFree(o) PROVE GrantStep
    BY <2>1, PaymentsAssumption DEF CheckoutFree, GrantStep
  <2>2. ASSUME NEW k \in Keys, GrantAccess(k) PROVE GrantStep
    BY <2>2, PaymentsAssumption DEF GrantAccess, GrantStep
  <2>3. ASSUME NEW k \in Keys, EnrollCourse(k) PROVE EnrolStep
    BY <2>3 DEF EnrollCourse, EnrolStep
  <2>4. ASSUME NEW o \in Orders, OpenAtProvider(o) \/ CommitCheckout(o)
        PROVE  UNCHANGED <<ents, access>>
    BY <2>4 DEF OpenAtProvider, CommitCheckout, rowVars
  <2>5. ASSUME NEW r \in Refunds, RequestRefund(r) \/ CommitRefund(r) \/ RollbackRefund(r)
        PROVE  UNCHANGED <<ents, access>>
    BY <2>5 DEF RequestRefund, CommitRefund, RollbackRefund, rowVars
  <2>6. QED
    BY <1>3, <2>1, <2>2, <2>3, <2>4, <2>5 DEF Request
<1>4. ASSUME Provider PROVE Goal
  BY <1>4 DEF Provider, AttemptFails, AttemptCaptured, DisputeOpens, DisputeCloses,
     DashboardRefund, RefundSettles, Emit, rowVars
<1>5. ASSUME Sweep PROVE Goal
  <2>1. ASSUME NEW e \in DOMAIN ents, Lapse(e) PROVE LapseStep
    BY <2>1 DEF Lapse, LapseStep
  <2>2. ASSUME ExpireCommit PROVE ExpireStep
    BY <2>2 DEF ExpireCommit, ExpireStep
  <2>3. ASSUME NEW e \in DOMAIN ents, ExpireCheck(e) PROVE UNCHANGED <<ents, access>>
    BY <2>3 DEF ExpireCheck, rowVars
  <2>4. ASSUME (\E o \in Orders : AbandonCheck(o)) \/ AbandonCommit
        PROVE  UNCHANGED <<ents, access>>
    BY <2>4 DEF AbandonCheck, AbandonCommit, rowVars
  <2>5. QED
    BY <1>5, <2>1, <2>2, <2>3, <2>4 DEF Sweep
<1>6. ASSUME NEW w \in Workers, Worker(w) PROVE Goal
  <2>1. ASSUME NEW ev \in sent, Begin(w, ev) PROVE UNCHANGED <<ents, access>>
    BY <2>1 DEF Begin, BeginCaptured, BeginFailed, BeginRefunded, BeginRefundFailed,
       BeginDispute, Began, rowVars
  <2>2. ASSUME Crash(w) PROVE UNCHANGED <<ents, access>>
    BY <2>2 DEF Crash, rowVars
  <2>3. ASSUME NEW a \in Attempts, CommitCaptured(w, a) PROVE GrantStep
    <3>1. Sent("captured", a)
      BY <2>3 DEF CommitCaptured, Has, OwnRows, JobOwnsRows, Sent
    <3>2. QED
      BY <2>3, <3>1, PaymentsAssumption DEF CommitCaptured, GrantStep, Captured
  <2>4. ASSUME NEW r \in Refunds, CommitRefunded(w, r) PROVE RevokeStep
    <3>1. Sent("refunded", r) /\ OrderPaid(job[w].ev) = OrderOf[RefundOf[r]]
      BY <2>4, EventTypes
      DEF CommitRefunded, Has, OwnRows, JobOwnsRows, Sent, OrderPaid, RefundKinds
    <3>2. job[w].ent # 0 => /\ job[w].ent \in DOMAIN ents
                            /\ ents[job[w].ent].order = OrderOf[RefundOf[r]]
      BY <2>4, <3>1 DEF CommitRefunded, Has, OwnRows, JobOwnsRows
    <3>3. QED
      BY <2>4, <3>1, <3>2, PaymentsAssumption DEF CommitRefunded, RevokeStep, MoneyBack
  <2>5. ASSUME NEW a \in Attempts, NEW kind \in {"won", "lost"}, CommitDisputeClosed(w, a, kind)
        PROVE  RevokeStep
    <3>1. /\ job[w].ev \in sent /\ job[w].ev = Event(kind, a)
          /\ OrderPaid(job[w].ev) = OrderOf[a]
      BY <2>5, EventTypes
      DEF CommitDisputeClosed, Has, OwnRows, JobOwnsRows, OrderPaid, RefundKinds
    <3>2. job[w].ent # 0 => /\ job[w].ent \in DOMAIN ents
                            /\ ents[job[w].ent].order = OrderOf[a]
                            /\ kind = "lost"
      BY <2>5, <3>1, EventTypes DEF CommitDisputeClosed, Has, OwnRows, JobOwnsRows
    <3>3. QED
      BY <2>5, <3>1, <3>2 DEF CommitDisputeClosed, RevokeStep, MoneyBack, Sent
  <2>6. ASSUME \/ \E a \in Attempts : \/ LookPayment(w, a) \/ CommitFailed(w, a)
                                      \/ SendReceipt(w, a) \/ CommitDisputeOpened(w, a)
               \/ \E r \in Refunds : CommitRefundFailed(w, r)
               \/ LookEntitlement(w) \/ AnalyticsRejected(w) \/ MarkProcessed(w)
        PROVE  UNCHANGED <<ents, access>>
    BY <2>6 DEF LookPayment, CommitFailed, SendReceipt, CommitDisputeOpened,
       CommitRefundFailed, LookEntitlement, AnalyticsRejected, MarkProcessed, rowVars
  <2>7. QED
    BY <1>6, <2>1, <2>2, <2>3, <2>4, <2>5, <2>6 DEF Worker, Step
<1>7. QED
  BY <1>1, <1>2, <1>3, <1>4, <1>5, <1>6 DEF Next

(* The effect of those steps, row by row.                                  *)
LEMMA EntitlementRows ==
  ASSUME TypeOK, OwnRows, [Next]_vars
  PROVE  /\ \A e \in DOMAIN ents :
              /\ e \in DOMAIN ents'
              /\ ents'[e].order = ents[e].order /\ ents'[e].key = ents[e].key
              /\ \/ ents'[e].status = ents[e].status
                 \/ ents'[e].status = "expired"
                 \/ ents'[e].status = "revoked" /\ MoneyBack(ents[e].order)
         /\ \A e \in DOMAIN ents' \ DOMAIN ents :
              /\ ents'[e].status = "active"
              /\ ents'[e].order \in Orders \ FreeOrders => Captured(ents'[e].order)
         /\ sent \subseteq sent'
<1>1. sent \subseteq sent'
  BY EntitlementSteps
<1>2. CASE UNCHANGED ents
  BY <1>1, <1>2
<1>3. CASE GrantStep
  <2>1. PICK o \in Orders \cup {NoOrder}, k \in Keys : \E fixed :
          /\ ents' = Append(ents, [order |-> o, key |-> k, fixed |-> fixed,
                                   lapsed |-> FALSE, status |-> "active"])
          /\ o \in Orders \ FreeOrders => Captured(o)
    BY <1>3 DEF GrantStep, NewEntitlement
  <2>2. QED
    BY <1>1, <2>1, AppendKeeps
<1>4. CASE RevokeStep
  <2>1. PICK i : Revoke(i) /\ (i # 0 => i \in DOMAIN ents /\ MoneyBack(ents[i].order))
    BY <1>4 DEF RevokeStep
  <2>2. DOMAIN ents \subseteq Nat \ {0}
    BY RowIds DEF TypeOK
  <2>3. QED
    BY <1>1, <2>1, <2>2, RevokeKeeps
<1>5. CASE ExpireStep
  BY <1>1, <1>5, StatusKeeps DEF ExpireStep
<1>6. CASE LapseStep
  <2>1. \A e \in DOMAIN ents : ents[e] \in Entitlement
    BY RowIds DEF TypeOK
  <2>2. QED
    BY <1>1, <1>6, <2>1 DEF LapseStep, Entitlement
<1>7. QED
  BY <1>2, <1>3, <1>4, <1>5, <1>6, EntitlementSteps DEF EnrolStep

(* No entitlement to a paid order without a capture of that order.         *)
THEOREM GrantsArePaid == Spec => []GrantNeedsCapture
<1>1. GrantNeedsCapture <=>
        \A e \in DOMAIN ents : ents[e].order \in Orders \ FreeOrders => Captured(ents[e].order)
  BY DEF GrantNeedsCapture, Captured
<1>2. Init => GrantNeedsCapture
  BY DEF Init, GrantNeedsCapture
<1>3. IInv /\ GrantNeedsCapture /\ [Next]_vars => GrantNeedsCapture'
  <2> SUFFICES ASSUME TypeOK, OwnRows, GrantNeedsCapture, [Next]_vars,
                      NEW e \in DOMAIN ents', ents'[e].order \in Orders \ FreeOrders
               PROVE  Captured(ents[e].order)'
    BY DEF IInv, GrantNeedsCapture, Captured
  <2>1. Captured(ents'[e].order)
    BY <1>1, EntitlementRows
  <2>2. sent \subseteq sent'
    BY EntitlementRows
  <2>3. QED
    BY <2>1, <2>2 DEF Captured, Sent
<1>4. QED
  BY <1>2, <1>3, IInvAlways, PTL DEF Spec

(* Access is revoked only for money that went back for the same order.     *)
THEOREM RevocationsAreFounded == Spec => []RevokedMeansMoneyBack
<1>1. RevokedMeansMoneyBack <=>
        \A e \in DOMAIN ents : ents[e].status = "revoked" => MoneyBack(ents[e].order)
  BY DEF RevokedMeansMoneyBack, MoneyBack
<1>2. Init => RevokedMeansMoneyBack
  BY DEF Init, RevokedMeansMoneyBack
<1>3. IInv /\ RevokedMeansMoneyBack /\ [Next]_vars => RevokedMeansMoneyBack'
  <2> SUFFICES ASSUME TypeOK, OwnRows, RevokedMeansMoneyBack, [Next]_vars,
                      NEW e \in DOMAIN ents', ents'[e].status = "revoked"
               PROVE  MoneyBack(ents[e].order)'
    BY DEF IInv, RevokedMeansMoneyBack, MoneyBack
  <2>1. MoneyBack(ents'[e].order)
    BY <1>1, EntitlementRows
  <2>2. sent \subseteq sent'
    BY EntitlementRows
  <2>3. QED
    BY <2>1, <2>2 DEF MoneyBack, Sent
<1>4. QED
  BY <1>2, <1>3, IInvAlways, PTL DEF Spec

(* Access to a paid course follows the money of its order.                 *)
THEOREM MoneyRules == Spec => []AccessFollowsMoney
BY GrantsArePaid, RevocationsAreFounded, PTL DEF AccessFollowsMoney

(* An entitlement that ended stays ended.                                  *)
THEOREM EndsAreFinal == Spec => EndedStaysEnded
<1>1. IInv /\ [Next]_vars =>
        [\A e \in DOMAIN ents :
           /\ e \in DOMAIN ents'
           /\ ents[e].status # "active" => ents'[e].status # "active"]_vars
  BY EntitlementRows DEF IInv
<1>2. QED
  BY <1>1, IInvAlways, PTL DEF Spec, EndedStaysEnded

(* An access row is active only over an active entitlement of its own key. *)
THEOREM AccessIsBacked == Spec => []ActiveAccessIsBacked
<1>1. Init => ActiveAccessIsBacked
  BY DEF Init, ActiveAccessIsBacked, NoAccess
<1>2. IInv /\ ActiveAccessIsBacked /\ [Next]_vars => ActiveAccessIsBacked'
  <2> SUFFICES ASSUME TypeOK, OwnRows, ActiveAccessIsBacked, [Next]_vars
               PROVE  ActiveAccessIsBacked'
    BY DEF IInv
  <2> USE DEF ActiveAccessIsBacked
  <2>1. \A k \in Keys : access[k] \in Access
    BY DEF TypeOK
  <2>2. CASE UNCHANGED <<ents, access>>
    BY <2>2
  <2>3. CASE GrantStep
    <3>1. PICK o \in Orders \cup {NoOrder}, k \in Keys : \E fixed :
            /\ ents' = Append(ents, [order |-> o, key |-> k, fixed |-> fixed,
                                     lapsed |-> FALSE, status |-> "active"])
            /\ access' = [access EXCEPT ![k] = [ent |-> Len(ents) + 1, status |-> "active"]]
      BY <2>3 DEF GrantStep, NewEntitlement, PointAccessAt
    <3>2. \A l \in Keys : access'[l] =
            IF l = k THEN [ent |-> Len(ents) + 1, status |-> "active"] ELSE access[l]
      BY <3>1 DEF TypeOK
    <3>3. QED
      BY <3>1, <3>2, AppendKeeps
  <2>4. CASE EnrolStep
    BY <2>4 DEF EnrolStep, PointAccessAt, TypeOK
  <2>5. ASSUME NEW i, NEW s \in {"revoked", "expired"},
               ents' = [ents EXCEPT ![i].status = s], SetAccess(ents[i].key, s)
        PROVE  ActiveAccessIsBacked'
    <3>1. \A l \in Keys : /\ access'[l].ent = access[l].ent
                          /\ access'[l].status = "active" =>
                               access[l].status = "active" /\ l # ents[i].key
      BY <2>1, <2>5 DEF SetAccess, Access, TypeOK
    <3>2. /\ DOMAIN ents' = DOMAIN ents
          /\ \A e \in DOMAIN ents : /\ ents'[e].key = ents[e].key
                                    /\ e # i => ents'[e].status = ents[e].status
      BY <2>5, StatusKeeps
    <3>3. QED
      BY <3>1, <3>2
  <2>6. CASE RevokeStep
    BY <2>2, <2>5, <2>6 DEF RevokeStep, Revoke
  <2>7. CASE ExpireStep
    BY <2>5, <2>7 DEF ExpireStep
  <2>8. CASE LapseStep
    <3>1. \A e \in DOMAIN ents : ents[e] \in Entitlement
      BY RowIds DEF TypeOK
    <3>2. QED
      BY <2>8, <3>1 DEF LapseStep, Entitlement
  <2>9. QED
    BY <2>2, <2>3, <2>4, <2>6, <2>7, <2>8, EntitlementSteps
<1>3. QED
  BY <1>1, <1>2, IInvAlways, PTL DEF Spec
-----------------------------------------------------------------------------
(* The worker jobs are a client of EventFeed                               *)

\* What a worker is busy with is not marked processed, and is its alone.
JobsExclusive ==
  /\ \A w \in Workers : job[w].at # "idle" => job[w].ev \in sent \ done
  /\ \A v, w \in Workers :
       job[v].at # "idle" /\ job[w].at # "idle" /\ job[v].ev = job[w].ev => v = w

LEMMA IdleNoEvent == Idle \notin Events
BY DEF Idle, Events

(* A job begins: it takes an event nobody else holds.                      *)
LEMMA BeganTakes ==
  ASSUME TypeOK, JobsExclusive, NEW w \in Workers, NEW ev \in sent,
         NEW early, NEW p, NEW row, Take(w, ev), Began(w, ev, early, p, row)
  PROVE  JobsExclusive' /\ Feed!Take(w, ev)
<1>1. /\ job'[w].ev = ev /\ job'[w].at # "idle"
      /\ \A v \in Workers \ {w} : job'[v] = job[v]
      /\ UNCHANGED <<sent, done>>
  BY DEF Began, TypeOK, provVars
<1>2. JobsExclusive'
  BY <1>1 DEF JobsExclusive, Take
<1>3. Holding(w) = Idle /\ \A v \in Workers : Holding(v) # ev
  BY IdleNoEvent DEF Take, Holding, TypeOK
<1>4. [v \in Workers |-> Holding(v)]' = [[v \in Workers |-> Holding(v)] EXCEPT ![w] = ev]
  BY <1>1 DEF Holding
<1>5. QED
  BY <1>1, <1>2, <1>3, <1>4 DEF Feed!Take, Take

LEMMA BeginTakes ==
  ASSUME TypeOK, JobsExclusive, NEW w \in Workers, NEW ev \in sent, Begin(w, ev)
  PROVE  JobsExclusive' /\ Feed!Take(w, ev)
<1>1. ev \in Events
  BY DEF TypeOK
<1>2. ev = Event(ev.kind, ev.id)
  BY <1>1 DEF Events, Event
<1>3. CASE BeginCaptured(w, ev.id) /\ ev.kind = "captured"
  BY <1>2, <1>3, BeganTakes DEF BeginCaptured
<1>4. CASE BeginFailed(w, ev.id) /\ ev.kind = "failed"
  BY <1>2, <1>4, BeganTakes DEF BeginFailed
<1>5. CASE BeginRefunded(w, ev.id) /\ ev.kind = "refunded"
  BY <1>2, <1>5, BeganTakes DEF BeginRefunded
<1>6. CASE BeginRefundFailed(w, ev.id) /\ ev.kind = "refundFailed"
  BY <1>2, <1>6, BeganTakes DEF BeginRefundFailed
<1>7. CASE BeginDispute(w, ev.id, ev.kind)
  BY <1>2, <1>7, BeganTakes DEF BeginDispute
<1>8. QED
  BY <1>3, <1>4, <1>5, <1>6, <1>7 DEF Begin

(* A step inside a job keeps its event.                                    *)
LEMMA MovesQuietly ==
  ASSUME TypeOK, JobsExclusive, NEW w \in Workers, job[w].at # "idle",
         job'[w].at # "idle", job'[w].ev = job[w].ev,
         \A v \in Workers \ {w} : job'[v] = job[v], UNCHANGED <<sent, done>>
  PROVE  JobsExclusive' /\ UNCHANGED Feed!feedVars
BY DEF JobsExclusive, Feed!feedVars, Holding

LEMMA GivesUp ==
  ASSUME TypeOK, JobsExclusive, NEW w \in Workers, job[w].at # "idle",
         job' = [job EXCEPT ![w] = Idle], UNCHANGED <<sent, done>>
  PROVE  JobsExclusive' /\ Feed!GiveUp(w)
<1>1. /\ job'[w].at = "idle" /\ \A v \in Workers \ {w} : job'[v] = job[v]
  BY DEF TypeOK, Idle
<1>2. JobsExclusive'
  BY <1>1 DEF JobsExclusive
<1>3. Holding(w) # Idle
  BY IdleNoEvent DEF JobsExclusive, Holding, TypeOK
<1>4. [v \in Workers |-> Holding(v)]' = [[v \in Workers |-> Holding(v)] EXCEPT ![w] = Idle]
  <2>1. \A v \in Workers : Holding(v)' = IF v = w THEN Idle ELSE Holding(v)
    BY <1>1 DEF Holding
  <2>2. QED
    BY ONLY <2>1
<1>5. QED
  BY <1>2, <1>3, <1>4 DEF Feed!GiveUp

LEMMA Finishes ==
  ASSUME TypeOK, JobsExclusive, NEW w \in Workers, MarkProcessed(w)
  PROVE  JobsExclusive' /\ Feed!Finish(w)
<1>1. /\ job[w].at # "idle" /\ job'[w].at = "idle"
      /\ \A v \in Workers \ {w} : job'[v] = job[v]
      /\ done' = done \cup {job[w].ev} /\ UNCHANGED sent
  BY DEF MarkProcessed, TypeOK, Idle, provVars
<1>2. JobsExclusive'
  BY <1>1 DEF JobsExclusive
<1>3. Holding(w) = job[w].ev /\ Holding(w) # Idle
  BY <1>1, IdleNoEvent DEF JobsExclusive, Holding, TypeOK
<1>4. [v \in Workers |-> Holding(v)]' = [[v \in Workers |-> Holding(v)] EXCEPT ![w] = Idle]
  BY <1>1 DEF Holding
<1>5. QED
  BY <1>1, <1>2, <1>3, <1>4 DEF Feed!Finish

(* The provider sends a new event, or one it sent before.                  *)
LEMMA Sends ==
  ASSUME TypeOK, JobsExclusive, NEW ev \in Events, Emit(ev)
  PROVE  JobsExclusive' /\ [Feed!Next]_(Feed!feedVars)
<1>1. sent' = sent \cup {ev} /\ UNCHANGED <<job, done>>
  BY DEF Emit, jobVars
<1>2. JobsExclusive'
  BY <1>1 DEF JobsExclusive
<1>3. CASE ev \in sent
  BY <1>1, <1>2, <1>3 DEF Feed!feedVars, Holding
<1>4. CASE ev \notin sent
  BY <1>1, <1>2, <1>4 DEF Feed!Next, Feed!Send, Holding
<1>5. QED
  BY <1>2, <1>3, <1>4

LEMMA FeedStep ==
  ASSUME TypeOK, JobsExclusive, [Next]_vars
  PROVE  JobsExclusive' /\ [Feed!Next]_(Feed!feedVars)
<1> DEFINE Goal == JobsExclusive' /\ [Feed!Next]_(Feed!feedVars)
<1>1. ASSUME UNCHANGED <<sent, done, job>> PROVE Goal
  BY <1>1 DEF JobsExclusive, Feed!feedVars, Holding
<1>2. CASE UNCHANGED vars
  BY <1>1, <1>2 DEF vars, provVars, jobVars
<1>3. CASE Request
  <2>1. UNCHANGED <<sent, done, job>>
    BY <1>3 DEF Request, OpenAtProvider, CommitCheckout, CheckoutFree, EnrollCourse,
       GrantAccess, RequestRefund, CommitRefund, RollbackRefund, jobVars, provVars
  <2>2. QED
    BY <1>1, <2>1
<1>4. CASE Sweep
  <2>1. UNCHANGED <<sent, done, job>>
    BY <1>4 DEF Sweep, AbandonCheck, AbandonCommit, Lapse, ExpireCheck, ExpireCommit,
       jobVars, provVars
  <2>2. QED
    BY <1>1, <2>1
<1>5. CASE Provider
  <2>1. ASSUME NEW r \in Refunds, DashboardRefund(r) PROVE Goal
    BY <1>1, <2>1 DEF DashboardRefund, jobVars
  <2>2. ASSUME NEW a \in Attempts,
               AttemptFails(a) \/ AttemptCaptured(a) \/ DisputeOpens(a) \/ DisputeCloses(a)
        PROVE  Goal
    BY <2>2, Sends, EventTypes
       DEF AttemptFails, AttemptCaptured, DisputeOpens, DisputeCloses, PaymentKinds
  <2>3. ASSUME NEW r \in Refunds, RefundSettles(r) PROVE Goal
    BY <2>3, Sends, EventTypes DEF RefundSettles
  <2>4. QED
    BY <1>5, <2>1, <2>2, <2>3 DEF Provider
<1>6. ASSUME NEW w \in Workers, NEW ev \in sent, Begin(w, ev) PROVE Goal
  BY <1>6, BeginTakes DEF Feed!Next, TypeOK
<1>7. ASSUME NEW w \in Workers, Crash(w) \/ AnalyticsRejected(w) PROVE Goal
  BY <1>7, GivesUp DEF Crash, AnalyticsRejected, Feed!Next, provVars
<1>8. ASSUME NEW w \in Workers, MarkProcessed(w) PROVE Goal
  BY <1>8, Finishes DEF Feed!Next
<1>9. ASSUME NEW w \in Workers, NEW at \in {"committed", "handled"},
             job[w].at # "idle", MoveTo(w, at)
      PROVE  Goal
  <2>1. /\ job'[w].at # "idle" /\ job'[w].ev = job[w].ev
        /\ \A v \in Workers \ {w} : job'[v] = job[v]
        /\ UNCHANGED <<sent, done>>
    BY <1>9, IdleOrBusy DEF MoveTo, TypeOK, Busy, provVars
  <2>2. QED
    BY <1>9, <2>1, MovesQuietly
<1>10. ASSUME NEW w \in Workers, NEW a \in Attempts, LookPayment(w, a) PROVE Goal
  <2>1. /\ job[w].at # "idle" /\ job'[w].at # "idle" /\ job'[w].ev = job[w].ev
        /\ \A v \in Workers \ {w} : job'[v] = job[v]
        /\ UNCHANGED <<sent, done>>
    BY <1>10, IdleOrBusy DEF LookPayment, Has, TypeOK, Busy, provVars
  <2>2. QED
    BY <2>1, MovesQuietly
<1>11. ASSUME NEW w \in Workers, LookEntitlement(w) PROVE Goal
  <2>1. /\ job[w].at # "idle" /\ job'[w].at # "idle" /\ job'[w].ev = job[w].ev
        /\ \A v \in Workers \ {w} : job'[v] = job[v]
        /\ UNCHANGED <<sent, done>>
    BY <1>11, IdleOrBusy DEF LookEntitlement, TypeOK, Busy, provVars
  <2>2. QED
    BY <2>1, MovesQuietly
<1>12. ASSUME NEW w \in Workers, NEW a \in Attempts, SendReceipt(w, a) PROVE Goal
  <2>1. /\ job[w].at # "idle" /\ job'[w].at # "idle" /\ job'[w].ev = job[w].ev
        /\ \A v \in Workers \ {w} : job'[v] = job[v]
        /\ UNCHANGED <<sent, done>>
    BY <1>12, IdleOrBusy DEF SendReceipt, Has, TypeOK, Busy, provVars
  <2>2. QED
    BY <2>1, MovesQuietly
<1>13. ASSUME NEW w \in Workers, Step(w) PROVE Goal
  <2>1. ASSUME NEW a \in Attempts,
               \/ CommitCaptured(w, a) \/ CommitFailed(w, a) \/ CommitDisputeOpened(w, a)
               \/ \E kind \in {"won", "lost"} : CommitDisputeClosed(w, a, kind)
        PROVE  Goal
    BY <1>9, <2>1 DEF CommitCaptured, CommitFailed, CommitDisputeOpened, CommitDisputeClosed, Has
  <2>2. ASSUME NEW r \in Refunds, CommitRefunded(w, r) \/ CommitRefundFailed(w, r) PROVE Goal
    BY <1>9, <2>2 DEF CommitRefunded, CommitRefundFailed, Has
  <2>3. QED
    BY <1>7, <1>8, <1>10, <1>11, <1>12, <1>13, <2>1, <2>2 DEF Step
<1>14. QED
  BY <1>2, <1>3, <1>4, <1>5, <1>6, <1>7, <1>13 DEF Next, Worker

(* The job handlers take events from the feed as EventFeed hands them out: *)
(* one worker per event, and none after the event is marked.  With         *)
(* GateImplementsFeed this closes the chain from HTTP delivery to access.  *)
THEOREM JobsUseFeed == Spec => UsesFeed
<1>1. Init => Feed!Init /\ JobsExclusive
  BY DEF Init, Feed!Init, JobsExclusive, Holding, Idle
<1>2. TypeOK /\ JobsExclusive /\ [Next]_vars => JobsExclusive' /\ [Feed!Next]_(Feed!feedVars)
  BY FeedStep
<1>3. QED
  BY <1>1, <1>2, TypesHold, PTL DEF Spec, UsesFeed, Feed!Spec
-----------------------------------------------------------------------------
(* The steps of an order: the safety part of Purchase                      *)

(* An order is paid once only if nothing takes a success back before its    *)
(* event is marked: either nothing else moves the order's status (no second *)
(* attempt, no sweep of unpaid orders), or no worker dies between a commit  *)
(* and the mark.                                                            *)
SoleAttempts == StaleOrders = {} /\ \A a, b \in Attempts : OrderOf[a] = OrderOf[b] => a = b
NothingUndone == SoleAttempts \/ MaxCrashes = 0

PurchaseSteps == Abstract!Init /\ [][Abstract!Next]_(Abstract!purchaseVars)

(* An order that already succeeded never gets a second entitlement and     *)
(* receipt cycle (internal/worker/payments.go): its capture may be retried *)
(* after a worker died, it is granted once and sends one receipt. The guard*)
(* is the order's status, so nothing may take a success back before the    *)
(* retry: no second attempt and no sweep, or no worker that dies.          *)
GrantedOnce == \A o \in Orders : Cardinality(EntsOf(o)) <= 1 /\ receipts[o] <= 1

(* A capture whose order has an entitlement shows: the order's status says  *)
(* so and nothing takes it back, or no worker dies and the event is handled.*)
Granted(a) ==
  \/ SoleAttempts /\ orders[OrderOf[a]] = "succeeded"
  \/ /\ MaxCrashes = 0
     /\ \/ Event("captured", a) \in done
        \/ \E w \in Workers : job[w].at \in {"committed", "handled"} /\ job[w].ev = Event("captured", a)

(* The provider captures an order once, and an attempt fails or is captured.*)
CapturesFit ==
  /\ \A a, b \in Attempts : Sent("captured", a) /\ Sent("captured", b) /\ OrderOf[a] = OrderOf[b] => a = b
  /\ \A a \in Attempts : ~(Sent("captured", a) /\ Sent("failed", a))

(* An order has one entitlement at most, and the job about to write it finds*)
(* none.                                                                    *)
Finding(w, a) == job[w].at \in {"begun", "looked"} /\ job[w].ev = Event("captured", a)
GrantsFit ==
  /\ \A o \in Orders : \A e, f \in EntsOf(o) : e = f
  /\ \A o \in Orders : EntsOf(o) # {} => orders[o] # "none"
  /\ \A a \in Attempts : Sent("captured", a) /\ EntsOf(OrderOf[a]) # {} => Granted(a)
  /\ \A w \in Workers, a \in Attempts :
       Finding(w, a) => EntsOf(OrderOf[a]) = {} /\ orders[OrderOf[a]] # "none"
  /\ SoleAttempts => abandoning = NoOrder

(* A receipt is of an order granted, and still to come where a job is to    *)
(* enqueue it.                                                              *)
ReceiptsFit ==
  /\ \A o \in Orders : receipts[o] # 0 => receipts[o] = 1 /\ EntsOf(o) # {}
  /\ \A w \in Workers, a \in Attempts :
       Has(w, "committed", Event("captured", a)) => EntsOf(OrderOf[a]) # {} /\ receipts[OrderOf[a]] = 0

PurchaseInv == CapturesFit /\ GrantsFit /\ ReceiptsFit

(* A step that adds no entitlement of an order, enqueues no receipt, takes  *)
(* no status back and leaves committed jobs alone keeps all of this.        *)
OrdersHold ==
  /\ receipts' = receipts
  /\ \A o \in Orders : EntsOf(o)' = EntsOf(o)
  /\ \A o \in Orders : orders[o] # "none" => orders'[o] # "none"
  /\ SoleAttempts => abandoning' = NoOrder
  /\ SoleAttempts => \A a \in Attempts :
       Sent("captured", a) /\ orders[OrderOf[a]] = "succeeded" => orders'[OrderOf[a]] = "succeeded"
CapturesHold ==
  /\ CapturesFit'
  /\ \A a \in Attempts : Sent("captured", a)' /\ EntsOf(OrderOf[a]) # {} => Sent("captured", a)
JobsHold ==
  /\ done \subseteq done'
  /\ \A w \in Workers, a \in Attempts :
       Finding(w, a)' => Finding(w, a) \/ (EntsOf(OrderOf[a]) = {} /\ orders[OrderOf[a]] # "none")
  /\ \A w \in Workers : job'[w].at = "committed" => job'[w] = job[w]
  /\ MaxCrashes = 0 => \A w \in Workers :
       job[w].at \in {"committed", "handled"} =>
         (job'[w].at \in {"committed", "handled"} /\ job'[w].ev = job[w].ev) \/ job[w].ev \in done'

LEMMA QuietKeeps ==
  ASSUME PaymentsAssumption, PurchaseInv, OrdersHold, CapturesHold, JobsHold
  PROVE  PurchaseInv'
<1>0. \A a \in Attempts : OrderOf[a] \in Orders
  BY DEF PaymentsAssumption
<1>1. ASSUME NEW a \in Attempts, Granted(a), Sent("captured", a) PROVE Granted(a)'
  <2>1. CASE SoleAttempts /\ orders[OrderOf[a]] = "succeeded"
    BY <1>1, <2>1 DEF Granted, OrdersHold
  <2>2. CASE MaxCrashes = 0 /\ Event("captured", a) \in done
    BY <2>2 DEF Granted, JobsHold
  <2>3. ASSUME MaxCrashes = 0, NEW w \in Workers,
               job[w].at \in {"committed", "handled"}, job[w].ev = Event("captured", a)
        PROVE  Granted(a)'
    BY <2>3 DEF Granted, JobsHold
  <2> QED
    BY <1>1, <2>1, <2>2, <2>3 DEF Granted
<1>2. ASSUME NEW a \in Attempts, Sent("captured", a)', EntsOf(OrderOf[a])' # {} PROVE Granted(a)'
  BY <1>0, <1>1, <1>2 DEF PurchaseInv, GrantsFit, CapturesHold, OrdersHold
<1>3. ASSUME NEW w \in Workers, NEW a \in Attempts, Finding(w, a)'
      PROVE  EntsOf(OrderOf[a])' = {} /\ orders'[OrderOf[a]] # "none"
  BY <1>0, <1>3 DEF PurchaseInv, GrantsFit, JobsHold, OrdersHold
<1>4. GrantsFit'
  <2>1. \A o \in Orders : (\A e, f \in EntsOf(o)' : e = f) /\ (EntsOf(o)' # {} => orders'[o] # "none")
    BY DEF PurchaseInv, GrantsFit, OrdersHold
  <2>2. SoleAttempts => abandoning' = NoOrder
    BY DEF OrdersHold
  <2> QED
    BY <1>2, <1>3, <2>1, <2>2 DEF GrantsFit
<1>5. ReceiptsFit'
  <2>1. \A o \in Orders : receipts'[o] # 0 => receipts'[o] = 1 /\ EntsOf(o)' # {}
    BY DEF PurchaseInv, ReceiptsFit, OrdersHold
  <2>2. ASSUME NEW w \in Workers, NEW a \in Attempts, Has(w, "committed", Event("captured", a))'
        PROVE  EntsOf(OrderOf[a])' # {} /\ receipts'[OrderOf[a]] = 0
    BY <1>0, <2>2 DEF PurchaseInv, ReceiptsFit, JobsHold, OrdersHold, Has
  <2> QED
    BY <2>1, <2>2 DEF ReceiptsFit
<1> QED
  BY <1>4, <1>5 DEF PurchaseInv, CapturesHold

(* Nothing has happened at first.                                          *)
LEMMA PurchaseStarts == Init => PurchaseInv
<1> SUFFICES ASSUME Init PROVE PurchaseInv
  OBVIOUS
<1>1. \A o : EntsOf(o) = {}
  BY DEF Init, EntsOf
<1>2. \A w \in Workers : job[w].at = "idle"
  BY DEF Init, Idle
<1>3. sent = {} /\ abandoning = NoOrder /\ \A o \in Orders : receipts[o] = 0
  BY DEF Init
<1> QED
  BY <1>1, <1>2, <1>3 DEF PurchaseInv, CapturesFit, GrantsFit, ReceiptsFit, Finding, Has, Sent

(* What is told of jobs, captures and entitlements when only a part moves.  *)
LEMMA OneJobMoves ==
  ASSUME NEW w \in Workers, \A v \in Workers \ {w} : job'[v] = job[v],
         done \subseteq done', job'[w].at # "committed",
         \A a \in Attempts : Finding(w, a)' =>
           Finding(w, a) \/ (EntsOf(OrderOf[a]) = {} /\ orders[OrderOf[a]] # "none"),
         MaxCrashes = 0 /\ job[w].at \in {"committed", "handled"} =>
           (job'[w].at = "handled" /\ job'[w].ev = job[w].ev) \/ job[w].ev \in done'
  PROVE  JobsHold
<1>1. ASSUME NEW v \in Workers \ {w}, NEW a \in Attempts, Finding(v, a)' PROVE Finding(v, a)
  BY <1>1 DEF Finding
<1> QED
  BY <1>1 DEF JobsHold

LEMMA NoJobMoves ==
  ASSUME UNCHANGED <<job, done>>
  PROVE  JobsHold
BY DEF JobsHold, Finding

LEMMA NoEventSent ==
  ASSUME CapturesFit, UNCHANGED sent
  PROVE  CapturesHold
BY DEF CapturesFit, CapturesHold, Sent

LEMMA EntsAdded ==
  ASSUME TypeOK, NEW o, NEW k, NEW fixed, NewEntitlement(o, k, fixed)
  PROVE  /\ EntsOf(o)' = EntsOf(o) \cup {Len(ents) + 1}
         /\ \A p : p # o => EntsOf(p)' = EntsOf(p)
         /\ ents'[Len(ents) + 1].status = "active"
         /\ \A e \in DOMAIN ents : ents'[e] = ents[e]
<1> DEFINE v == [order |-> o, key |-> k, fixed |-> fixed, lapsed |-> FALSE, status |-> "active"]
<1>0. v.order = o /\ v.status = "active"
  OBVIOUS
<1>1. ents' = Append(ents, v)
  BY DEF NewEntitlement
<1> HIDE DEF v
<1>2. /\ DOMAIN ents' = DOMAIN ents \cup {Len(ents) + 1} /\ Len(ents) + 1 \notin DOMAIN ents
      /\ \A e \in DOMAIN ents : ents'[e] = ents[e]
      /\ ents'[Len(ents) + 1] = v
  BY <1>1, AppendKeeps
<1>3. \A p : EntsOf(p)' = {e \in DOMAIN ents' : ents'[e].order = p}
  BY DEF EntsOf
<1> QED
  BY <1>0, <1>2, <1>3 DEF EntsOf

LEMMA EntsStay ==
  ASSUME DOMAIN ents' = DOMAIN ents, \A e \in DOMAIN ents : ents'[e].order = ents[e].order
  PROVE  \A o : EntsOf(o)' = EntsOf(o)
BY DEF EntsOf

LEMMA EntsLapse ==
  ASSUME TypeOK, NEW e \in DOMAIN ents, Lapse(e)
  PROVE  /\ DOMAIN ents' = DOMAIN ents
         /\ \A f \in DOMAIN ents : ents'[f].order = ents[f].order /\ ents'[f].status = ents[f].status
<1>1. \A f \in DOMAIN ents : ents[f] \in Entitlement
  BY RowIds DEF TypeOK
<1> QED
  BY <1>1 DEF Lapse, Entitlement

(* Requests.                                                                *)
LEMMA RequestsHold ==
  ASSUME PaymentsAssumption, TypeOK, PurchaseInv, Request
  PROVE  PurchaseInv'
<1>1. ASSUME NEW o \in Orders, OpenAtProvider(o) \/ CommitCheckout(o) PROVE PurchaseInv'
  <2>1. UNCHANGED <<job, done, sent, receipts, ents, abandoning>>
    BY <1>1 DEF OpenAtProvider, CommitCheckout, rowVars, provVars, jobVars, httpVars
  <2>2. \A p : EntsOf(p)' = EntsOf(p)
    BY <2>1 DEF EntsOf
  <2>3. \A p \in Orders : orders[p] # "none" => orders'[p] = orders[p]
    BY <1>1 DEF OpenAtProvider, CommitCheckout, rowVars, TypeOK
  <2>4. OrdersHold
    BY <2>1, <2>2, <2>3 DEF OrdersHold, PurchaseInv, GrantsFit, PaymentsAssumption
  <2> QED
    BY <2>1, <2>4, NoJobMoves, NoEventSent, QuietKeeps DEF PurchaseInv
<1>2. ASSUME NEW k \in Keys, EnrollCourse(k) \/ GrantAccess(k) PROVE PurchaseInv'
  <2>1. UNCHANGED <<job, done, sent, receipts, orders, abandoning>>
    BY <1>2 DEF EnrollCourse, GrantAccess, provVars, jobVars, httpVars
  <2>2. \A p \in Orders : EntsOf(p)' = EntsOf(p)
    <3>1. CASE EnrollCourse(k)
      BY <3>1 DEF EnrollCourse, EntsOf
    <3>2. CASE GrantAccess(k)
      BY <3>2, EntsAdded, PaymentsAssumption DEF GrantAccess
    <3> QED
      BY <1>2, <3>1, <3>2
  <2>4. OrdersHold
    BY <2>1, <2>2 DEF OrdersHold, PurchaseInv, GrantsFit
  <2> QED
    BY <2>1, <2>4, NoJobMoves, NoEventSent, QuietKeeps DEF PurchaseInv
<1>3. ASSUME NEW r \in Refunds, RequestRefund(r) \/ CommitRefund(r) \/ RollbackRefund(r) PROVE PurchaseInv'
  <2>1. UNCHANGED <<job, done, sent, receipts, ents, orders, abandoning>>
    BY <1>3 DEF RequestRefund, CommitRefund, RollbackRefund, rowVars, provVars, jobVars, httpVars
  <2>2. \A p : EntsOf(p)' = EntsOf(p)
    BY <2>1 DEF EntsOf
  <2>4. OrdersHold
    BY <2>1, <2>2 DEF OrdersHold, PurchaseInv, GrantsFit
  <2> QED
    BY <2>1, <2>4, NoJobMoves, NoEventSent, QuietKeeps DEF PurchaseInv
<1>4. ASSUME NEW o \in Orders, CheckoutFree(o) PROVE PurchaseInv'
  <2>0. /\ UNCHANGED <<job, done, sent, receipts, abandoning>>
        /\ \A a \in Attempts : OrderOf[a] \in Orders /\ OrderOf[a] # o
    BY <1>4, PaymentsAssumption DEF CheckoutFree, provVars, jobVars, httpVars
  <2>1. /\ orders'[o] = "succeeded" /\ \A p \in Orders : p # o => orders'[p] = orders[p]
        /\ EntsOf(o) = {}
    BY <1>4 DEF CheckoutFree, TypeOK, PurchaseInv, GrantsFit
  <2>2. /\ EntsOf(o)' = {Len(ents) + 1}
        /\ \A p \in Orders : p # o => EntsOf(p)' = EntsOf(p)
    BY <1>4, <2>1, EntsAdded DEF CheckoutFree
  <2>3. CapturesFit'
    BY <2>0 DEF PurchaseInv, CapturesFit, Sent
  <2>4. \A o_1 \in Orders : (\A e, f \in EntsOf(o_1)' : e = f) /\ (EntsOf(o_1)' # {} => orders'[o_1] # "none")
    BY <2>1, <2>2 DEF PurchaseInv, GrantsFit
  <2>5. ASSUME NEW a \in Attempts, Sent("captured", a)', EntsOf(OrderOf[a])' # {} PROVE Granted(a)'
    <3>1. Sent("captured", a) /\ EntsOf(OrderOf[a]) # {}
      BY <2>0, <2>2, <2>5 DEF Sent
    <3>2. Granted(a)
      BY <3>1 DEF PurchaseInv, GrantsFit
    <3> QED
      BY <2>0, <2>1, <3>2 DEF Granted
  <2>6. ASSUME NEW w \in Workers, NEW a \in Attempts, Finding(w, a)'
        PROVE  EntsOf(OrderOf[a])' = {} /\ orders'[OrderOf[a]] # "none"
    <3>1. Finding(w, a)
      BY <2>0, <2>6 DEF Finding
    <3> QED
      BY <2>0, <2>1, <2>2, <3>1 DEF PurchaseInv, GrantsFit
  <2>7. GrantsFit'
    BY <2>0, <2>4, <2>5, <2>6 DEF GrantsFit, PurchaseInv
  <2>8. ReceiptsFit'
    BY <2>0, <2>1, <2>2 DEF ReceiptsFit, PurchaseInv, Has
  <2> QED
    BY <2>3, <2>7, <2>8 DEF PurchaseInv
<1> QED
  BY <1>1, <1>2, <1>3, <1>4 DEF Request

(* The provider.                                                            *)
LEMMA EmitHolds ==
  ASSUME PaymentsAssumption, TypeOK, PurchaseInv, NEW ev, Emit(ev), CapturesHold
  PROVE  PurchaseInv'
<1>1. UNCHANGED <<job, done, receipts, ents, orders, abandoning>>
  BY DEF Emit, rowVars, jobVars, httpVars
<1>2. \A p : EntsOf(p)' = EntsOf(p)
  BY <1>1 DEF EntsOf
<1>3. OrdersHold
  BY <1>1, <1>2 DEF OrdersHold, PurchaseInv, GrantsFit
<1> QED
  BY <1>1, <1>3, NoJobMoves, QuietKeeps

LEMMA ProviderHolds ==
  ASSUME PaymentsAssumption, TypeOK, PurchaseInv, GrantNeedsCapture, Provider
  PROVE  PurchaseInv'
<1>0. CapturesFit
  BY DEF PurchaseInv
<1>1. ASSUME NEW a \in Attempts, AttemptFails(a) PROVE PurchaseInv'
  <2>1. sent' = sent \cup {Event("failed", a)} /\ ~Sent("captured", a)
    BY <1>1 DEF AttemptFails, Emit, Settled
  <2>2. \A b \in Attempts : /\ Sent("captured", b)' = Sent("captured", b)
                            /\ Sent("failed", b)' => b = a \/ Sent("failed", b)
    BY <2>1, EventTypes DEF Sent
  <2>3. CapturesHold
    BY <1>0, <2>1, <2>2 DEF CapturesFit, CapturesHold
  <2> QED
    BY <1>1, <2>3, EmitHolds DEF AttemptFails
<1>2. ASSUME NEW a \in Attempts, AttemptCaptured(a) PROVE PurchaseInv'
  <2>1. /\ sent' = sent \cup {Event("captured", a)} /\ ~Sent("failed", a)
        /\ \A b \in Attempts : OrderOf[b] = OrderOf[a] => ~Sent("captured", b)
    BY <1>2 DEF AttemptCaptured, Emit, Settled
  <2>2. \A b \in Attempts : /\ Sent("failed", b)' = Sent("failed", b)
                            /\ Sent("captured", b)' => b = a \/ Sent("captured", b)
    BY <2>1, EventTypes DEF Sent
  <2>3. CapturesFit'
    BY <1>0, <2>1, <2>2 DEF CapturesFit
  <2>4. EntsOf(OrderOf[a]) = {}
    <3>1. OrderOf[a] \in Orders \ FreeOrders
      BY DEF PaymentsAssumption
    <3> QED
      BY <2>1, <3>1 DEF GrantNeedsCapture, EntsOf
  <2>5. CapturesHold
    BY <2>2, <2>3, <2>4 DEF CapturesHold
  <2> QED
    BY <1>2, <2>5, EmitHolds DEF AttemptCaptured
<1>3. ASSUME NEW ev, Emit(ev), ev.kind \notin {"captured", "failed"} PROVE PurchaseInv'
  <2>1. \A b \in Attempts : Sent("captured", b)' = Sent("captured", b) /\ Sent("failed", b)' = Sent("failed", b)
    BY <1>3, EventTypes DEF Sent, Emit
  <2>2. CapturesHold
    BY <1>0, <2>1 DEF CapturesFit, CapturesHold
  <2> QED
    BY <1>3, <2>2, EmitHolds
<1>4. ASSUME NEW a \in Attempts, DisputeOpens(a) \/ DisputeCloses(a) PROVE PurchaseInv'
  <2>1. \E kind \in {"disputed", "won", "lost"} : Emit(Event(kind, a))
    BY <1>4 DEF DisputeOpens, DisputeCloses
  <2> QED
    BY <1>3, <2>1, EventTypes
<1>5. ASSUME NEW r \in Refunds, RefundSettles(r) PROVE PurchaseInv'
  <2>1. \E kind \in RefundKinds : Emit(Event(kind, r))
    BY <1>5 DEF RefundSettles
  <2> QED
    BY <1>3, <2>1, EventTypes DEF RefundKinds
<1>6. ASSUME NEW r \in Refunds, DashboardRefund(r) PROVE PurchaseInv'
  <2>1. UNCHANGED <<job, done, sent, receipts, ents, orders, abandoning>>
    BY <1>6 DEF DashboardRefund, rowVars, jobVars, httpVars
  <2>2. \A p : EntsOf(p)' = EntsOf(p)
    BY <2>1 DEF EntsOf
  <2>3. OrdersHold
    BY <2>1, <2>2 DEF OrdersHold, PurchaseInv, GrantsFit
  <2> QED
    BY <1>0, <2>1, <2>3, NoJobMoves, NoEventSent, QuietKeeps
<1> QED
  BY <1>1, <1>2, <1>4, <1>5, <1>6 DEF Provider

(* The sweeps.                                                              *)
LEMMA SweepsHold ==
  ASSUME PaymentsAssumption, TypeOK, PurchaseInv, Sweep
  PROVE  PurchaseInv'
<1>1. /\ UNCHANGED <<job, done, sent, receipts>>
      /\ DOMAIN ents' = DOMAIN ents
      /\ \A e \in DOMAIN ents : ents'[e].order = ents[e].order
  <2>1. ASSUME NEW e \in DOMAIN ents, Lapse(e)
        PROVE  /\ UNCHANGED <<job, done, sent, receipts>>
               /\ DOMAIN ents' = DOMAIN ents
               /\ \A f \in DOMAIN ents : ents'[f].order = ents[f].order
    BY <2>1, EntsLapse DEF Lapse, provVars, jobVars
  <2>2. CASE ExpireCommit
    BY <2>2, StatusKeeps DEF ExpireCommit, provVars, jobVars
  <2>3. CASE AbandonCommit \/ (\E o \in Orders : AbandonCheck(o)) \/ (\E e \in DOMAIN ents : ExpireCheck(e))
    BY <2>3 DEF AbandonCommit, AbandonCheck, ExpireCheck, rowVars, provVars, jobVars
  <2> QED
    BY <2>1, <2>2, <2>3 DEF Sweep
<1>2. SoleAttempts => abandoning = NoOrder /\ abandoning' = NoOrder /\ UNCHANGED orders
  BY DEF Sweep, AbandonCommit, AbandonCheck, ExpireCheck, ExpireCommit, Lapse, SoleAttempts, PurchaseInv, GrantsFit,
     rowVars, httpVars
<1>3. \A o \in Orders : orders[o] # "none" => orders'[o] # "none"
  BY DEF Sweep, AbandonCommit, AbandonCheck, ExpireCheck, ExpireCommit, Lapse, rowVars, TypeOK
<1>4. OrdersHold
  BY <1>1, <1>2, <1>3, EntsStay DEF OrdersHold
<1> QED
  BY <1>1, <1>4, NoJobMoves, NoEventSent, QuietKeeps DEF PurchaseInv

(* A job begins: the handler of a capture finds an order that is not        *)
(* granted, for otherwise its event would be marked or the status show it.  *)
LEMMA BeginsHold ==
  ASSUME PaymentsAssumption, NothingUndone, TypeOK, PurchaseInv, NEW w \in Workers, NEW ev \in sent, Begin(w, ev)
  PROVE  PurchaseInv'
<1> DEFINE Starts(early) ==
             /\ Take(w, ev) /\ \E p, row : Began(w, ev, early, p, row)
             /\ ev.kind = "captured" =>
                  /\ orders[OrderOf[ev.id]] # "none"
                  /\ early = (orders[OrderOf[ev.id]] = "succeeded")
<1>1. \E early \in BOOLEAN : Starts(early)
  <2>1. ev \in Events /\ ev = Event(ev.kind, ev.id)
    BY DEF TypeOK, Events, Event
  <2>2. CASE ev.kind = "captured" /\ BeginCaptured(w, ev.id)
    <3>1. Starts(orders[OrderOf[ev.id]] = "succeeded")
      BY <2>1, <2>2 DEF BeginCaptured
    <3> QED
      BY <3>1, Zenon
  <2>3. CASE ev.kind = "failed" /\ BeginFailed(w, ev.id)
    <3>1. Starts(orders[OrderOf[ev.id]] = "failed")
      BY <2>1, <2>3 DEF BeginFailed
    <3> QED
      BY <3>1, Zenon
  <2>4. ASSUME ev.kind \notin {"captured", "failed"}
        PROVE  \E early \in BOOLEAN : Take(w, ev) /\ \E p, row : Began(w, ev, early, p, row)
    <3> DEFINE Goal == \E early \in BOOLEAN : Take(w, ev) /\ \E p, row : Began(w, ev, early, p, row)
    <3>1. ASSUME NEW early \in BOOLEAN, NEW p, NEW row, Take(w, ev), Began(w, ev, early, p, row) PROVE Goal
      BY <3>1, Zenon
    <3> HIDE DEF Goal
    <3>2. CASE ev.kind = "refunded"
      <4>1. BeginRefunded(w, ev.id)
        BY <3>2 DEF Begin
      <4>2. PICK p \in PaymentsRzp(RefundOf[ev.id]), f \in OrNotFound(RefundsRzp(ev.id)) :
               Began(w, ev, f # 0 /\ refunds[f].status = "succeeded", p, f)
        BY <2>1, <3>2, <4>1 DEF BeginRefunded
      <4> QED
        BY <2>1, <3>1, <3>2, <4>1, <4>2 DEF BeginRefunded
    <3>3. CASE ev.kind = "refundFailed"
      <4>1. BeginRefundFailed(w, ev.id)
        BY <3>3 DEF Begin
      <4>2. PICK f \in OrNotFound(RefundsRzp(ev.id)) : Began(w, ev, f = 0 \/ refunds[f].status = "failed", 0, f)
        BY <2>1, <3>3, <4>1 DEF BeginRefundFailed
      <4> QED
        BY <2>1, <3>1, <3>3, <4>1, <4>2 DEF BeginRefundFailed
    <3>4. CASE ev.kind \in {"disputed", "won", "lost"}
      <4>1. BeginDispute(w, ev.id, ev.kind)
        BY <3>4 DEF Begin
      <4> DEFINE same == IF ev.kind = "disputed" THEN "pending" ELSE ev.kind
      <4>2. PICK p \in PaymentsRzp(ev.id) : \E c \in OrNotFound(Latest(ChargebacksOf(p))) :
               Began(w, ev, c # 0 /\ cbs[c].status = same, p, c)
        BY <2>1, <4>1 DEF BeginDispute
      <4>3. PICK c \in OrNotFound(Latest(ChargebacksOf(p))) : Began(w, ev, c # 0 /\ cbs[c].status = same, p, c)
        BY <4>2
      <4> QED
        BY <2>1, <3>1, <4>1, <4>3 DEF BeginDispute
    <3> QED
      BY <2>4, <3>2, <3>3, <3>4 DEF Begin, Goal
  <2> QED
    BY <2>2, <2>3, <2>4 DEF Begin
<1>2. PICK early \in BOOLEAN : Starts(early)
  BY <1>1
<1>3. UNCHANGED <<done, sent, receipts, ents, orders, abandoning>>
  BY <1>2 DEF Began, rowVars, provVars, httpVars
<1>4. /\ job'[w].at = (IF early THEN "handled" ELSE "begun") /\ job'[w].ev = ev
      /\ \A v \in Workers \ {w} : job'[v] = job[v]
  BY <1>2 DEF Began, TypeOK
<1>5. ASSUME NEW a \in Attempts, Finding(w, a)'
      PROVE  EntsOf(OrderOf[a]) = {} /\ orders[OrderOf[a]] # "none"
  <2>1. ev = Event("captured", a) /\ ~early
    BY <1>4, <1>5 DEF Finding
  <2>2. orders[OrderOf[a]] # "none" /\ orders[OrderOf[a]] # "succeeded"
    BY <1>2, <2>1, EventTypes
  <2>3. ~Granted(a)
    BY <1>2, <2>1, <2>2 DEF Granted, Take
  <2> QED
    BY <2>1, <2>2, <2>3 DEF PurchaseInv, GrantsFit, Sent
<1>6. JobsHold
  BY <1>2, <1>3, <1>4, <1>5, OneJobMoves DEF Take
<1>7. OrdersHold
  <2>1. \A o : EntsOf(o)' = EntsOf(o)
    BY <1>3 DEF EntsOf
  <2> QED
    BY <1>3, <2>1 DEF OrdersHold, PurchaseInv, GrantsFit
<1> QED
  BY <1>3, <1>6, <1>7, NoEventSent, QuietKeeps DEF PurchaseInv

(* A handler reads, gives up or marks its event.                            *)
LEMMA ReadsHold ==
  ASSUME PaymentsAssumption, TypeOK, PurchaseInv, NEW w \in Workers,
         \/ \E a \in Attempts : LookPayment(w, a)
         \/ LookEntitlement(w) \/ AnalyticsRejected(w) \/ MarkProcessed(w) \/ Crash(w)
  PROVE  PurchaseInv'
<1>1. UNCHANGED <<sent, receipts, ents, orders, abandoning>> /\ done \subseteq done'
  BY DEF LookPayment, LookEntitlement, AnalyticsRejected, MarkProcessed, Crash, rowVars, provVars, httpVars
<1>2. OrdersHold
  <2>1. \A o : EntsOf(o)' = EntsOf(o)
    BY <1>1 DEF EntsOf
  <2> QED
    BY <1>1, <2>1 DEF OrdersHold, PurchaseInv, GrantsFit
<1>3. JobsHold
  <2>1. CASE job' = [job EXCEPT ![w] = Idle]
    <3>1. job'[w].at = "idle" /\ \A v \in Workers \ {w} : job'[v] = job[v]
      BY <2>1 DEF TypeOK, Idle
    <3>2. MaxCrashes = 0 /\ job[w].at \in {"committed", "handled"} => job[w].ev \in done'
      <4>1. MaxCrashes = 0 => ~Crash(w)
        BY DEF Crash, TypeOK
      <4> QED
        BY <4>1 DEF LookPayment, LookEntitlement, AnalyticsRejected, MarkProcessed, Has
    <3> QED
      BY <1>1, <3>1, <3>2, OneJobMoves DEF Finding
  <2>2. CASE (\E a \in Attempts : LookPayment(w, a)) \/ LookEntitlement(w)
    <3>1. job[w].at = "begun"
      BY <2>2 DEF LookPayment, LookEntitlement, Has
    <3>2. job[w] \in Busy
      BY <3>1, IdleOrBusy
    <3>3. /\ job'[w].at = "looked" /\ job'[w].ev = job[w].ev
          /\ \A v \in Workers \ {w} : job'[v] = job[v]
      BY <2>2, <3>2 DEF LookPayment, LookEntitlement, TypeOK, Busy
    <3> QED
      BY <1>1, <3>1, <3>3, OneJobMoves DEF Finding
  <2> QED
    BY <2>1, <2>2 DEF AnalyticsRejected, MarkProcessed, Crash
<1> QED
  BY <1>1, <1>2, <1>3, NoEventSent, QuietKeeps DEF PurchaseInv

(* A job moves on after its commit.                                         *)
LEMMA Moved ==
  ASSUME TypeOK, NEW w \in Workers, NEW at, job[w].at # "idle",
         job' = [job EXCEPT ![w].at = at]
  PROVE  job'[w].at = at /\ job'[w].ev = job[w].ev /\ \A v \in Workers \ {w} : job'[v] = job[v]
BY IdleOrBusy DEF TypeOK, Busy

(* The other commits: of failures, refunds and disputes.                    *)
LEMMA CommitsHold ==
  ASSUME PaymentsAssumption, TypeOK, OwnRows, PurchaseInv, NEW w \in Workers,
         \/ \E a \in Attempts : \/ CommitFailed(w, a) \/ CommitDisputeOpened(w, a)
                                \/ \E kind \in {"won", "lost"} : CommitDisputeClosed(w, a, kind)
         \/ \E r \in Refunds : CommitRefunded(w, r) \/ CommitRefundFailed(w, r)
  PROVE  PurchaseInv'
<1>1. MoveTo(w, "handled") /\ job[w].at \in {"begun", "looked"}
  BY DEF CommitFailed, CommitDisputeOpened, CommitDisputeClosed, CommitRefunded, CommitRefundFailed, Has
<1>2. /\ UNCHANGED <<sent, done, receipts, abandoning>>
      /\ job'[w].at = "handled" /\ job'[w].ev = job[w].ev
      /\ \A v \in Workers \ {w} : job'[v] = job[v]
  BY <1>1, Moved DEF MoveTo, provVars, httpVars
<1>3. JobsHold
  BY <1>1, <1>2, OneJobMoves DEF Finding
<1>4. \A o : EntsOf(o)' = EntsOf(o)
  <2>1. UNCHANGED ents \/ \E e : Revoke(e)
    BY DEF CommitFailed, CommitDisputeOpened, CommitDisputeClosed, CommitRefunded, CommitRefundFailed
  <2>2. DOMAIN ents' = DOMAIN ents /\ \A e \in DOMAIN ents : ents'[e].order = ents[e].order
    BY <2>1, RevokeKeeps
  <2> QED
    BY <2>2, EntsStay
<1>5. CASE UNCHANGED orders
  <2>1. OrdersHold
    BY <1>2, <1>4, <1>5 DEF OrdersHold, PurchaseInv, GrantsFit
  <2> QED
    BY <1>2, <1>3, <2>1, NoEventSent, QuietKeeps DEF PurchaseInv
<1>6. ASSUME NEW b \in Attempts, CommitFailed(w, b) PROVE PurchaseInv'
  <2>1. Sent("failed", b)
    BY <1>6 DEF CommitFailed, Has, OwnRows, JobOwnsRows, Sent
  <2>2. \A o \in Orders : orders'[o] = IF o = OrderOf[b] THEN "failed" ELSE orders[o]
    BY <1>6 DEF CommitFailed, TypeOK
  <2>3. SoleAttempts => \A a \in Attempts : Sent("captured", a) => OrderOf[a] # OrderOf[b]
    BY <2>1 DEF SoleAttempts, PurchaseInv, CapturesFit
  <2>4. OrdersHold
    BY <1>2, <1>4, <2>2, <2>3 DEF OrdersHold, PurchaseInv, GrantsFit, PaymentsAssumption
  <2> QED
    BY <1>2, <1>3, <2>4, NoEventSent, QuietKeeps DEF PurchaseInv
<1> QED
  BY <1>5, <1>6 DEF CommitDisputeOpened, CommitDisputeClosed, CommitRefunded, CommitRefundFailed

(* No two jobs are about one order's capture.                               *)
LEMMA OneJobForOrder ==
  ASSUME PurchaseInv, JobsExclusive, NEW v \in Workers, NEW w \in Workers, NEW a \in Attempts, NEW b \in Attempts,
         job[v].at # "idle", job[v].ev = Event("captured", b),
         job[w].at # "idle", job[w].ev = Event("captured", a), OrderOf[a] = OrderOf[b]
  PROVE  v = w /\ a = b
<1>1. Sent("captured", a) /\ Sent("captured", b)
  BY DEF JobsExclusive, Sent
<1>2. a = b
  BY <1>1 DEF PurchaseInv, CapturesFit
<1> QED
  BY <1>2 DEF JobsExclusive

(* A capture is granted.                                                    *)
LEMMA GrantHolds ==
  ASSUME PaymentsAssumption, NothingUndone, TypeOK, JobsExclusive, PurchaseInv,
         NEW w \in Workers, NEW a \in Attempts, CommitCaptured(w, a)
  PROVE  PurchaseInv' /\ EntsOf(OrderOf[a]) = {} /\ EntsOf(OrderOf[a])' = {Len(ents) + 1}
<1> DEFINE o == OrderOf[a]
<1>0. o \in Orders /\ \A b \in Attempts : OrderOf[b] \in Orders
  BY DEF PaymentsAssumption
<1>1. job[w].at = "looked" /\ job[w].ev = Event("captured", a) /\ MoveTo(w, "committed")
  BY DEF CommitCaptured, Has
<1>2. EntsOf(o) = {} /\ Sent("captured", a) /\ receipts[o] = 0
  BY <1>0, <1>1 DEF PurchaseInv, GrantsFit, ReceiptsFit, Finding, JobsExclusive, Sent
<1>3. /\ UNCHANGED <<sent, done, receipts, abandoning>>
      /\ job'[w].at = "committed" /\ job'[w].ev = Event("captured", a)
      /\ \A v \in Workers \ {w} : job'[v] = job[v]
  BY <1>1, Moved DEF MoveTo, provVars, httpVars
<1>4. orders'[o] = "succeeded" /\ \A p \in Orders : p # o => orders'[p] = orders[p]
  BY <1>0 DEF CommitCaptured, TypeOK
<1>5. EntsOf(o)' = {Len(ents) + 1} /\ \A p \in Orders : p # o => EntsOf(p)' = EntsOf(p)
  BY <1>2, EntsAdded DEF CommitCaptured
<1> HIDE DEF o
<1>6. CapturesFit'
  BY <1>3 DEF PurchaseInv, CapturesFit, Sent
<1>7. \A p \in Orders : (\A e, f \in EntsOf(p)' : e = f) /\ (EntsOf(p)' # {} => orders'[p] # "none")
  BY <1>4, <1>5 DEF PurchaseInv, GrantsFit
<1>8. ASSUME NEW b \in Attempts, Sent("captured", b)', EntsOf(OrderOf[b])' # {} PROVE Granted(b)'
  <2>0. Sent("captured", b)
    BY <1>3, <1>8 DEF Sent
  <2>1. CASE OrderOf[b] = o
    <3>1. b = a
      BY <1>2, <2>0, <2>1 DEF PurchaseInv, CapturesFit, o
    <3> QED
      BY <1>3, <1>4, <2>1, <3>1 DEF Granted, NothingUndone
  <2>2. CASE OrderOf[b] # o
    <3>1. Granted(b)
      BY <1>0, <1>5, <1>8, <2>0, <2>2 DEF PurchaseInv, GrantsFit
    <3>2. \A v \in Workers : job[v].at \in {"committed", "handled"} => job'[v] = job[v]
      BY <1>1, <1>3
    <3> QED
      BY <1>0, <1>3, <1>4, <2>2, <3>1, <3>2 DEF Granted
  <2> QED
    BY <2>1, <2>2
<1>9. ASSUME NEW v \in Workers, NEW b \in Attempts, Finding(v, b)'
      PROVE  EntsOf(OrderOf[b])' = {} /\ orders'[OrderOf[b]] # "none"
  <2>1. v # w /\ Finding(v, b)
    BY <1>3, <1>9 DEF Finding
  <2>2. OrderOf[b] # o
    BY <1>1, <2>1, OneJobForOrder DEF Finding, o
  <2> QED
    BY <1>0, <1>4, <1>5, <2>1, <2>2 DEF PurchaseInv, GrantsFit
<1>10. GrantsFit'
  BY <1>3, <1>7, <1>8, <1>9 DEF PurchaseInv, GrantsFit
<1>11. ReceiptsFit'
  <2>1. \A p \in Orders : receipts'[p] # 0 => receipts'[p] = 1 /\ EntsOf(p)' # {}
    BY <1>2, <1>3, <1>5 DEF PurchaseInv, ReceiptsFit
  <2>2. ASSUME NEW v \in Workers, NEW b \in Attempts, Has(v, "committed", Event("captured", b))'
        PROVE  EntsOf(OrderOf[b])' # {} /\ receipts'[OrderOf[b]] = 0
    <3>1. CASE OrderOf[b] = o
      BY <1>2, <1>3, <1>5, <3>1
    <3>2. CASE OrderOf[b] # o
      <4>1. v # w
        BY <1>3, <2>2, <3>2, EventTypes DEF Has, o
      <4>2. Has(v, "committed", Event("captured", b))
        BY <1>3, <2>2, <4>1 DEF Has
      <4> QED
        BY <1>0, <1>3, <1>5, <3>2, <4>2 DEF PurchaseInv, ReceiptsFit
    <3> QED
      BY <3>1, <3>2
  <2> QED
    BY <2>1, <2>2 DEF ReceiptsFit
<1> QED
  BY <1>2, <1>5, <1>6, <1>10, <1>11 DEF PurchaseInv, o

(* A receipt is enqueued once.                                              *)
LEMMA ReceiptHolds ==
  ASSUME PaymentsAssumption, TypeOK, JobsExclusive, PurchaseInv,
         NEW w \in Workers, NEW a \in Attempts, SendReceipt(w, a)
  PROVE  /\ PurchaseInv'
         /\ EntsOf(OrderOf[a]) # {} /\ receipts[OrderOf[a]] = 0
         /\ UNCHANGED receipts \/ receipts' = [receipts EXCEPT ![OrderOf[a]] = 1]
<1> DEFINE o == OrderOf[a]
<1>0. o \in Orders /\ \A b \in Attempts : OrderOf[b] \in Orders
  BY DEF PaymentsAssumption
<1>1. job[w].at = "committed" /\ job[w].ev = Event("captured", a) /\ job' = [job EXCEPT ![w].at = "handled"]
  BY DEF SendReceipt, Has
<1>2. EntsOf(o) # {} /\ receipts[o] = 0
  BY <1>0, <1>1 DEF PurchaseInv, ReceiptsFit, Has
<1>3. /\ UNCHANGED <<sent, done, orders, ents, abandoning>>
      /\ job'[w].at = "handled" /\ job'[w].ev = Event("captured", a)
      /\ \A v \in Workers \ {w} : job'[v] = job[v]
  BY <1>1, Moved DEF SendReceipt, rowVars, provVars, httpVars
<1>4. UNCHANGED receipts \/ receipts' = [receipts EXCEPT ![o] = 1]
  BY <1>2 DEF SendReceipt
<1>5. /\ receipts'[o] \in {0, 1} /\ \A p \in Orders : p # o => receipts'[p] = receipts[p]
  BY <1>0, <1>2, <1>4 DEF TypeOK
<1>6. \A p : EntsOf(p)' = EntsOf(p)
  BY <1>3 DEF EntsOf
<1> HIDE DEF o
<1>7. CapturesFit'
  BY <1>3 DEF PurchaseInv, CapturesFit, Sent
<1>8. ASSUME NEW b \in Attempts, Sent("captured", b)', EntsOf(OrderOf[b])' # {} PROVE Granted(b)'
  <2>1. Granted(b)
    BY <1>3, <1>6, <1>8 DEF PurchaseInv, GrantsFit, Sent
  <2>2. \A v \in Workers : job[v].at \in {"committed", "handled"} =>
           job'[v].at \in {"committed", "handled"} /\ job'[v].ev = job[v].ev
    BY <1>1, <1>3
  <2> QED
    BY <1>3, <2>1, <2>2 DEF Granted
<1>9. GrantsFit'
  <2>1. ASSUME NEW v \in Workers, NEW b \in Attempts, Finding(v, b)'
        PROVE  EntsOf(OrderOf[b])' = {} /\ orders'[OrderOf[b]] # "none"
    <3>1. Finding(v, b)
      BY <1>3, <2>1 DEF Finding
    <3> QED
      BY <1>3, <1>6, <3>1 DEF PurchaseInv, GrantsFit
  <2>2. \A p \in Orders : (\A e, f \in EntsOf(p)' : e = f) /\ (EntsOf(p)' # {} => orders'[p] # "none")
    BY <1>3, <1>6 DEF PurchaseInv, GrantsFit
  <2> QED
    BY <1>3, <1>8, <2>1, <2>2 DEF PurchaseInv, GrantsFit
<1>10. ReceiptsFit'
  <2>1. \A p \in Orders : receipts'[p] # 0 => receipts'[p] = 1 /\ EntsOf(p)' # {}
    BY <1>2, <1>5, <1>6 DEF PurchaseInv, ReceiptsFit
  <2>2. ASSUME NEW v \in Workers, NEW b \in Attempts, Has(v, "committed", Event("captured", b))'
        PROVE  EntsOf(OrderOf[b])' # {} /\ receipts'[OrderOf[b]] = 0
    <3>1. v # w /\ Has(v, "committed", Event("captured", b))
      BY <1>3, <2>2 DEF Has
    <3>2. OrderOf[b] # o
      BY <1>1, <3>1, OneJobForOrder DEF Has, o
    <3> QED
      BY <1>0, <1>5, <1>6, <3>1, <3>2 DEF PurchaseInv, ReceiptsFit
  <2> QED
    BY <2>1, <2>2 DEF ReceiptsFit
<1> QED
  BY <1>2, <1>4, <1>7, <1>9, <1>10 DEF PurchaseInv, o

LEMMA PurchaseStays ==
  ASSUME PaymentsAssumption, NothingUndone, TypeOK, OwnRows, JobsExclusive, GrantNeedsCapture, PurchaseInv,
         [Next]_vars
  PROVE  PurchaseInv'
<1>1. ASSUME NEW w \in Workers, Step(w) PROVE PurchaseInv'
  BY <1>1, ReadsHold, CommitsHold, GrantHolds, ReceiptHolds DEF Step
<1>2. ASSUME UNCHANGED vars PROVE PurchaseInv'
  <2>1. UNCHANGED <<job, done, sent, receipts, ents, orders, abandoning>>
    BY <1>2 DEF vars, rowVars, provVars, jobVars, httpVars
  <2>2. \A p : EntsOf(p)' = EntsOf(p)
    BY <2>1 DEF EntsOf
  <2>3. OrdersHold
    BY <2>1, <2>2 DEF OrdersHold, PurchaseInv, GrantsFit
  <2> QED
    BY <2>1, <2>3, NoJobMoves, NoEventSent, QuietKeeps DEF PurchaseInv
<1>3. ASSUME NEW w \in Workers, Crash(w) PROVE PurchaseInv'
  BY <1>3, ReadsHold
<1> QED
  BY <1>1, <1>2, <1>3, RequestsHold, ProviderHolds, SweepsHold, BeginsHold DEF Next, Worker

(* The phase of an order: whether an entitlement of it is active, whether   *)
(* there is one, and whether it is due.                                     *)
Live(o) == \E e \in EntsOf(o) : ents[e].status = "active"
Due(o) == orders[o] # "none" /\ Captured(o)
phases == [o \in Orders |-> PhaseOf(o)]
PurchaseStep == [Abstract!Next]_(Abstract!purchaseVars)

LEMMA PhaseIs ==
  /\ \A o : PhaseOf(o) = IF Live(o) THEN "granted" ELSE IF EntsOf(o) # {} THEN "ended"
                         ELSE IF Due(o) THEN "paid" ELSE "open"
  /\ \A o : PhaseOf(o)' = IF Live(o)' THEN "granted" ELSE IF EntsOf(o)' # {} THEN "ended"
                          ELSE IF Due(o)' THEN "paid" ELSE "open"
BY DEF PhaseOf, Live, Due, Captured

LEMMA Stutters ==
  ASSUME \A o \in Orders : PhaseOf(o)' = PhaseOf(o), UNCHANGED receipts
  PROVE  PurchaseStep
<1>1. phases' = phases
  BY DEF phases
<1> QED
  BY <1>1 DEF PurchaseStep, phases, Abstract!purchaseVars

LEMMA OneMovesOn ==
  ASSUME NEW o \in Orders, NEW from, NEW to, PhaseOf(o) = from, PhaseOf(o)' = to, UNCHANGED receipts,
         \A p \in Orders : p # o => PhaseOf(p)' = PhaseOf(p),
         \/ from = "open" /\ to = "paid" /\ o \notin FreeOrders
         \/ from = "paid" /\ to = "granted"
         \/ from = "open" /\ to = "granted" /\ o \in FreeOrders
         \/ from = "granted" /\ to = "ended"
  PROVE  PurchaseStep
<1>1. phases[o] = from /\ phases' = [phases EXCEPT ![o] = to]
  BY DEF phases
<1>2. Abstract!MoveOn(o, from, to)
  BY <1>1 DEF phases, Abstract!MoveOn
<1>3. Abstract!Pay(o) \/ Abstract!Grant(o) \/ Abstract!GrantFree(o) \/ Abstract!End(o)
  BY <1>2 DEF Abstract!Pay, Abstract!Grant, Abstract!GrantFree, Abstract!End
<1> QED
  BY <1>3 DEF PurchaseStep, Abstract!Next

LEMMA Enqueues ==
  ASSUME NEW o \in Orders \ FreeOrders, \A p \in Orders : PhaseOf(p)' = PhaseOf(p), EntsOf(o) # {},
         receipts[o] = 0, receipts' = [receipts EXCEPT ![o] = 1]
  PROVE  PurchaseStep
<1>1. phases' = phases /\ phases[o] \in {"granted", "ended"}
  BY PhaseIs DEF phases
<1>2. Abstract!SendReceipt(o)
  BY <1>1 DEF phases, Abstract!SendReceipt
<1> QED
  BY <1>2 DEF PurchaseStep, Abstract!Next

(* An entitlement that ends takes its order along, the others stay.         *)
LEMMA OneEnds ==
  ASSUME PurchaseInv, NEW i, UNCHANGED <<receipts, orders>>, DOMAIN ents' = DOMAIN ents,
         \A o : Captured(o)' = Captured(o),
         \A e \in DOMAIN ents : /\ ents'[e].order = ents[e].order
                                /\ e # i => ents'[e].status = ents[e].status,
         i \in DOMAIN ents => ents'[i].status \in {ents[i].status, "revoked", "expired"}
  PROVE  PurchaseStep
<1>1. \A o : EntsOf(o)' = EntsOf(o) /\ Due(o)' = Due(o)
  BY EntsStay DEF Due
<1>2. ASSUME NEW o \in Orders, i \notin EntsOf(o) \/ ents'[i].status = ents[i].status
      PROVE  PhaseOf(o)' = PhaseOf(o)
  <2>1. Live(o)' = \E e \in EntsOf(o) : ents'[e].status = "active"
    BY <1>1 DEF Live
  <2>2. Live(o)' = Live(o)
    BY <1>2, <2>1 DEF Live, EntsOf
  <2> QED
    BY <1>1, <2>2, PhaseIs
<1>3. CASE i \notin DOMAIN ents \/ ents'[i].status = ents[i].status \/ ents[i].order \notin Orders
  <2>1. \A o \in Orders : PhaseOf(o)' = PhaseOf(o)
    BY <1>2, <1>3 DEF EntsOf
  <2> QED
    BY <2>1, Stutters
<1>4. ASSUME i \in DOMAIN ents, ents'[i].status # ents[i].status, ents[i].order \in Orders
      PROVE  PurchaseStep
  <2> PICK o \in Orders : o = ents[i].order
    BY <1>4
  <2>1. i \in EntsOf(o) /\ EntsOf(o) = {i}
    BY <1>4 DEF EntsOf, PurchaseInv, GrantsFit
  <2>2. \A p \in Orders : p # o => PhaseOf(p)' = PhaseOf(p)
    BY <1>2 DEF EntsOf
  <2>3. ents'[i].status # "active"
    BY <1>4
  <2>4. ~Live(o)' /\ EntsOf(o)' # {}
    <3>1. EntsOf(o)' = {i}
      BY <1>1, <2>1
    <3> QED
      BY <2>3, <3>1 DEF Live
  <2>5. PhaseOf(o)' = "ended"
    BY <2>4, PhaseIs
  <2>6. PhaseOf(o) = IF ents[i].status = "active" THEN "granted" ELSE "ended"
    BY <2>1, PhaseIs DEF Live
  <2>7. CASE ents[i].status = "active"
    BY <2>2, <2>5, <2>6, <2>7, OneMovesOn
  <2>8. CASE ents[i].status # "active"
    <3>1. \A p \in Orders : PhaseOf(p)' = PhaseOf(p)
      BY <2>2, <2>5, <2>6, <2>8
    <3> QED
      BY <3>1, Stutters
  <2> QED
    BY <2>7, <2>8
<1> QED
  BY <1>3, <1>4

(* An order's row appears or changes: what was captured of it is due.       *)
LEMMA OneIsDue ==
  ASSUME PaymentsAssumption, TypeOK, PurchaseInv, NEW o \in Orders, UNCHANGED <<receipts, ents>>,
         \A p \in Orders : p # o => Due(p)' = Due(p), Due(o) => Due(o)',
         Due(o)' /\ ~Due(o) => EntsOf(o) = {} /\ Captured(o)'
  PROVE  PurchaseStep
<1>1. \A p : EntsOf(p)' = EntsOf(p) /\ Live(p)' = Live(p)
  BY DEF EntsOf, Live
<1>2. \A p \in Orders : p # o => PhaseOf(p)' = PhaseOf(p)
  BY <1>1, PhaseIs
<1>3. CASE Due(o)' = Due(o)
  <2>1. PhaseOf(o)' = PhaseOf(o)
    BY <1>1, <1>3, PhaseIs
  <2> QED
    BY <1>2, <2>1, Stutters
<1>4. CASE Due(o)' /\ ~Due(o)
  <2>1. EntsOf(o) = {} /\ ~Live(o) /\ o \notin FreeOrders
    BY <1>4 DEF Live, Captured, PaymentsAssumption
  <2>2. PhaseOf(o) = "open" /\ PhaseOf(o)' = "paid"
    BY <1>1, <1>4, <2>1, PhaseIs
  <2> QED
    BY <1>2, <2>1, <2>2, OneMovesOn
<1> QED
  BY <1>3, <1>4 DEF Due

LEMMA OneRowChanges ==
  ASSUME PaymentsAssumption, TypeOK, PurchaseInv, NEW o \in Orders, NEW s, s # "none",
         orders' = [orders EXCEPT ![o] = s], UNCHANGED <<receipts, ents, sent>>
  PROVE  PurchaseStep
<1>1. \A p : Captured(p)' = Captured(p)
  BY DEF Captured, Sent
<1>2. orders'[o] = s /\ \A p \in Orders : p # o => orders'[p] = orders[p]
  BY DEF TypeOK
<1>3. \A p \in Orders : p # o => Due(p)' = Due(p)
  BY <1>1, <1>2 DEF Due
<1>4. (Due(o) => Due(o)') /\ (Due(o)' /\ ~Due(o) => EntsOf(o) = {} /\ Captured(o)')
  BY <1>1, <1>2 DEF Due, PurchaseInv, GrantsFit
<1> QED
  BY <1>3, <1>4, OneIsDue

(* An order that had none gets an entitlement.                              *)
LEMMA OneIsGranted ==
  ASSUME PaymentsAssumption, TypeOK, PurchaseInv, NEW o \in Orders, NEW k, NEW fixed, NewEntitlement(o, k, fixed),
         EntsOf(o) = {}, Due(o) \/ (o \in FreeOrders /\ orders[o] = "none"),
         orders' = [orders EXCEPT ![o] = "succeeded"], UNCHANGED <<receipts, sent>>
  PROVE  PurchaseStep
<1>1. /\ EntsOf(o)' = {Len(ents) + 1} /\ \A p : p # o => EntsOf(p)' = EntsOf(p)
      /\ ents'[Len(ents) + 1].status = "active" /\ \A e \in DOMAIN ents : ents'[e] = ents[e]
  BY EntsAdded
<1>2. \A p : Captured(p)' = Captured(p)
  BY DEF Captured, Sent
<1>3. \A p \in Orders : p # o => orders'[p] = orders[p]
  BY DEF TypeOK
<1>4. ASSUME NEW p \in Orders, p # o PROVE PhaseOf(p)' = PhaseOf(p)
  <2>1. Due(p)' = Due(p)
    BY <1>2, <1>3, <1>4 DEF Due
  <2>2. EntsOf(p)' = EntsOf(p) /\ \A e \in EntsOf(p) : ents'[e] = ents[e]
    BY <1>1, <1>4 DEF EntsOf
  <2>3. Live(p)' = Live(p)
    BY <2>2 DEF Live
  <2> QED
    BY <2>1, <2>2, <2>3, PhaseIs
<1>5. Live(o)' /\ ~Live(o)
  BY <1>1 DEF Live
<1>6. PhaseOf(o)' = "granted" /\ PhaseOf(o) = IF Due(o) THEN "paid" ELSE "open"
  BY <1>5, PhaseIs
<1>7. CASE Due(o)
  BY <1>4, <1>6, <1>7, OneMovesOn
<1>8. CASE ~Due(o)
  BY <1>4, <1>6, <1>8, OneMovesOn
<1> QED
  BY <1>7, <1>8

LEMMA NothingMoves ==
  ASSUME UNCHANGED <<receipts, orders, ents>>, \A o : Captured(o)' = Captured(o)
  PROVE  PurchaseStep
<1>1. \A o : EntsOf(o)' = EntsOf(o) /\ Live(o)' = Live(o) /\ Due(o)' = Due(o)
  BY DEF EntsOf, Live, Due
<1> QED
  BY <1>1, PhaseIs, Stutters

(* Every step of the system is one of Purchase or none.                     *)
LEMMA RequestMaps ==
  ASSUME PaymentsAssumption, TypeOK, PurchaseInv, Request
  PROVE  PurchaseStep
<1>0. \A o : Captured(o)' = Captured(o)
  BY DEF Request, OpenAtProvider, CommitCheckout, CheckoutFree, EnrollCourse, GrantAccess, RequestRefund, CommitRefund,
     RollbackRefund, provVars, Captured, Sent
<1>1. ASSUME NEW o \in Orders, CommitCheckout(o) PROVE PurchaseStep
  BY <1>1, OneRowChanges DEF CommitCheckout, provVars, jobVars
<1>2. ASSUME NEW o \in Orders, CheckoutFree(o) PROVE PurchaseStep
  <2>1. EntsOf(o) = {}
    BY <1>2 DEF CheckoutFree, PurchaseInv, GrantsFit
  <2> QED
    BY <1>2, <2>1, OneIsGranted DEF CheckoutFree, provVars, jobVars
<1>3. ASSUME NEW k \in Keys, GrantAccess(k) PROVE PurchaseStep
  <2>1. UNCHANGED <<receipts, orders>> /\ NewEntitlement(NoOrder, k, FALSE)
    BY <1>3 DEF GrantAccess, jobVars
  <2>2. \A o \in Orders : EntsOf(o)' = EntsOf(o) /\ \A e \in EntsOf(o) : ents'[e] = ents[e]
    <3>1. /\ \A p : p # NoOrder => EntsOf(p)' = EntsOf(p)
          /\ \A e \in DOMAIN ents : ents'[e] = ents[e]
      BY <2>1, EntsAdded
    <3>2. \A p : EntsOf(p) \subseteq DOMAIN ents
      BY DEF EntsOf
    <3> QED
      BY <3>1, <3>2 DEF PaymentsAssumption
  <2>3. \A o \in Orders : Live(o)' = Live(o) /\ Due(o)' = Due(o)
    BY <1>0, <2>1, <2>2 DEF Live, Due
  <2> QED
    BY <2>1, <2>2, <2>3, PhaseIs, Stutters
<1>4. CASE UNCHANGED <<receipts, orders, ents>>
  BY <1>0, <1>4, NothingMoves
<1> QED
  BY <1>1, <1>2, <1>3, <1>4 DEF Request, OpenAtProvider, EnrollCourse, RequestRefund, CommitRefund, RollbackRefund,
     rowVars, jobVars

LEMMA ProviderMaps ==
  ASSUME PaymentsAssumption, TypeOK, PurchaseInv, GrantNeedsCapture, Provider
  PROVE  PurchaseStep
<1>0. UNCHANGED <<receipts, orders, ents>>
  BY DEF Provider, AttemptFails, AttemptCaptured, DisputeOpens, DisputeCloses, DashboardRefund, RefundSettles, Emit,
     rowVars, jobVars
<1>1. ASSUME NEW a \in Attempts, AttemptCaptured(a) PROVE PurchaseStep
  <2>1. /\ sent' = sent \cup {Event("captured", a)} /\ OrderOf[a] \in Orders \ FreeOrders
        /\ \A b \in Attempts : OrderOf[b] = OrderOf[a] => ~Sent("captured", b)
    BY <1>1 DEF AttemptCaptured, Emit, PaymentsAssumption
  <2>2. EntsOf(OrderOf[a]) = {} /\ ~Captured(OrderOf[a])
    BY <2>1 DEF GrantNeedsCapture, EntsOf, Captured
  <2>3. \A b \in Attempts : Sent("captured", b)' = (b = a \/ Sent("captured", b))
    BY <2>1, EventTypes DEF Sent
  <2>4. \A p : Captured(p)' = (p = OrderOf[a] \/ Captured(p))
    BY <2>3 DEF Captured
  <2>5. /\ \A p \in Orders : p # OrderOf[a] => Due(p)' = Due(p)
        /\ ~Due(OrderOf[a]) /\ Captured(OrderOf[a])'
    BY <1>0, <2>2, <2>4 DEF Due
  <2> QED
    BY <1>0, <2>1, <2>2, <2>5, OneIsDue
<1>2. ASSUME NEW ev, Emit(ev), ev.kind # "captured" PROVE PurchaseStep
  <2>1. \A b \in Attempts : Sent("captured", b)' = Sent("captured", b)
    BY <1>2, EventTypes DEF Sent, Emit
  <2>2. \A o : Captured(o)' = Captured(o)
    BY <2>1 DEF Captured
  <2> QED
    BY <1>0, <2>2, NothingMoves
<1>3. ASSUME NEW a \in Attempts, AttemptFails(a) \/ DisputeOpens(a) \/ DisputeCloses(a) PROVE PurchaseStep
  <2>1. \E kind \in {"failed", "disputed", "won", "lost"} : Emit(Event(kind, a))
    BY <1>3 DEF AttemptFails, DisputeOpens, DisputeCloses
  <2> QED
    BY <1>2, <2>1, EventTypes
<1>4. ASSUME NEW r \in Refunds, RefundSettles(r) PROVE PurchaseStep
  <2>1. \E kind \in RefundKinds : Emit(Event(kind, r))
    BY <1>4 DEF RefundSettles
  <2> QED
    BY <1>2, <2>1, EventTypes DEF RefundKinds
<1>5. ASSUME NEW r \in Refunds, DashboardRefund(r) PROVE PurchaseStep
  <2>1. \A o : Captured(o)' = Captured(o)
    BY <1>5 DEF DashboardRefund, Captured, Sent
  <2> QED
    BY <1>0, <2>1, NothingMoves
<1> QED
  BY <1>1, <1>3, <1>4, <1>5 DEF Provider

LEMMA SweepMaps ==
  ASSUME PaymentsAssumption, TypeOK, PurchaseInv, Sweep
  PROVE  PurchaseStep
<1>0. UNCHANGED <<receipts, sent>>
  BY DEF Sweep, AbandonCommit, AbandonCheck, Lapse, ExpireCheck, ExpireCommit, provVars, jobVars
<1>1. \A o : Captured(o)' = Captured(o)
  BY <1>0 DEF Captured, Sent
<1>2. CASE AbandonCommit
  <2>1. abandoning \in Orders
    BY <1>2 DEF AbandonCommit, TypeOK
  <2> QED
    BY <1>0, <1>2, <2>1, OneRowChanges DEF AbandonCommit
<1>3. CASE ExpireCommit
  <2>1. /\ UNCHANGED orders /\ DOMAIN ents' = DOMAIN ents
        /\ \A e \in DOMAIN ents : /\ ents'[e].order = ents[e].order
                                  /\ ents'[e].status = IF e = expiring THEN "expired" ELSE ents[e].status
    BY <1>3, StatusKeeps DEF ExpireCommit
  <2> QED
    BY <1>0, <1>1, <2>1, OneEnds
<1>4. ASSUME NEW e \in DOMAIN ents, Lapse(e) PROVE PurchaseStep
  <2>1. UNCHANGED orders
    BY <1>4 DEF Lapse
  <2> QED
    BY <1>0, <1>1, <1>4, <2>1, EntsLapse, OneEnds
<1>5. CASE UNCHANGED <<orders, ents>>
  BY <1>0, <1>1, <1>5, NothingMoves
<1> QED
  BY <1>2, <1>3, <1>4, <1>5 DEF Sweep, AbandonCheck, ExpireCheck, rowVars

LEMMA WorkerMaps ==
  ASSUME PaymentsAssumption, NothingUndone, TypeOK, JobsExclusive, PurchaseInv, NEW w \in Workers, Worker(w)
  PROVE  PurchaseStep
<1>0. UNCHANGED sent
  BY DEF Worker, Begin, BeginCaptured, BeginFailed, BeginRefunded, BeginRefundFailed, BeginDispute, Began, Step, Crash,
     LookPayment, CommitCaptured, CommitFailed, SendReceipt, CommitDisputeOpened, CommitDisputeClosed, CommitRefunded,
     CommitRefundFailed, LookEntitlement, AnalyticsRejected, MarkProcessed, MoveTo, provVars
<1>1. \A o : Captured(o)' = Captured(o)
  BY <1>0 DEF Captured, Sent
<1>2. CASE UNCHANGED <<orders, ents, receipts>>
  BY <1>1, <1>2, NothingMoves
<1>3. ASSUME NEW a \in Attempts, CommitCaptured(w, a) PROVE PurchaseStep
  <2>1. OrderOf[a] \in Orders /\ EntsOf(OrderOf[a]) = {}
    BY <1>3, GrantHolds DEF PaymentsAssumption
  <2>2. orders[OrderOf[a]] # "none" /\ Sent("captured", a)
    BY <1>3 DEF CommitCaptured, Has, Finding, PurchaseInv, GrantsFit, JobsExclusive, Sent
  <2>3. Due(OrderOf[a])
    BY <2>2 DEF Due, Captured
  <2> QED
    BY <1>0, <1>3, <2>1, <2>3, OneIsGranted DEF CommitCaptured, MoveTo
<1>4. ASSUME NEW a \in Attempts, CommitFailed(w, a) PROVE PurchaseStep
  <2>1. OrderOf[a] \in Orders
    BY DEF PaymentsAssumption
  <2> QED
    BY <1>0, <1>4, <2>1, OneRowChanges DEF CommitFailed, MoveTo
<1>5. ASSUME NEW a \in Attempts, SendReceipt(w, a) PROVE PurchaseStep
  <2>1. UNCHANGED <<orders, ents>> /\ OrderOf[a] \in Orders \ FreeOrders
    BY <1>5 DEF SendReceipt, rowVars, PaymentsAssumption
  <2>2. \A o : EntsOf(o)' = EntsOf(o) /\ Live(o)' = Live(o) /\ Due(o)' = Due(o)
    BY <1>1, <2>1 DEF EntsOf, Live, Due
  <2>3. \A o : PhaseOf(o)' = PhaseOf(o)
    BY <2>2, PhaseIs
  <2> QED
    BY <1>5, <2>1, <2>3, ReceiptHolds, Enqueues, Stutters
<1>6. ASSUME NEW e, Revoke(e), UNCHANGED <<orders, receipts>> PROVE PurchaseStep
  <2>1. /\ DOMAIN ents' = DOMAIN ents
        /\ \A f \in DOMAIN ents :
             /\ ents'[f].order = ents[f].order
             /\ ents'[f].status = ents[f].status \/ (f = e /\ ents'[f].status = "revoked")
    BY <1>6, RevokeKeeps
  <2> QED
    BY <1>1, <1>6, <2>1, OneEnds
<1>7. ASSUME \/ \E a \in Attempts, kind \in {"won", "lost"} : CommitDisputeClosed(w, a, kind)
             \/ \E r \in Refunds : CommitRefunded(w, r)
      PROVE  PurchaseStep
  BY <1>6, <1>7 DEF CommitDisputeClosed, CommitRefunded, MoveTo
<1>8. ASSUME NEW ev \in sent, Begin(w, ev) PROVE UNCHANGED <<orders, ents, receipts>>
  BY <1>8 DEF Begin, BeginCaptured, BeginFailed, BeginRefunded, BeginRefundFailed, BeginDispute, Began, rowVars
<1>9. ASSUME \/ \E a \in Attempts : LookPayment(w, a) \/ CommitDisputeOpened(w, a)
             \/ \E r \in Refunds : CommitRefundFailed(w, r)
             \/ LookEntitlement(w) \/ AnalyticsRejected(w) \/ MarkProcessed(w) \/ Crash(w)
      PROVE  UNCHANGED <<orders, ents, receipts>>
  BY <1>9 DEF LookPayment, CommitDisputeOpened, CommitRefundFailed, LookEntitlement, AnalyticsRejected, MarkProcessed,
     Crash, MoveTo, rowVars
<1> QED
  BY <1>2, <1>3, <1>4, <1>5, <1>7, <1>8, <1>9 DEF Worker, Step

(* Under the same condition an order gets one entitlement and one receipt.  *)
LEMMA OneEach == PurchaseInv => GrantedOnce
<1> SUFFICES ASSUME PurchaseInv, NEW o \in Orders PROVE Cardinality(EntsOf(o)) <= 1 /\ receipts[o] <= 1
  BY DEF GrantedOnce
<1>1. \A e, f \in EntsOf(o) : e = f
  BY DEF PurchaseInv, GrantsFit
<1>2. Cardinality(EntsOf(o)) \in {0, 1}
  <2>1. CASE EntsOf(o) = {}
    BY <2>1, FS_EmptySet
  <2>2. ASSUME NEW e \in EntsOf(o) PROVE Cardinality(EntsOf(o)) = 1
    <3>1. EntsOf(o) = {e}
      BY <1>1
    <3> QED
      BY <3>1, FS_Singleton
  <2> QED
    BY <2>1, <2>2
<1>3. receipts[o] = 0 \/ receipts[o] = 1
  BY DEF PurchaseInv, ReceiptsFit
<1> QED
  BY <1>2, <1>3

(* What the commerce code promises about an order holds of the jobs, sweeps *)
(* and requests for any orders, attempts and workers, as far as safety goes:*)
(* a captured payment is granted once, a receipt is enqueued once and only  *)
(* for a granted order, a grant that ended is over. It needs that no success*)
(* is taken back before its event is marked: one attempt for an order and no*)
(* sweep of unpaid orders, or no worker that dies. With a late failure and  *)
(* a worker that dies, an order can be granted twice.                      *)
THEOREM OrdersGoThrough == ASSUME NothingUndone PROVE Spec => PurchaseSteps /\ []GrantedOnce
<1>1. Init => Abstract!Init /\ JobsExclusive /\ PurchaseInv
  <2> SUFFICES ASSUME Init PROVE Abstract!Init /\ JobsExclusive
    BY PurchaseStarts
  <2>1. \A o : EntsOf(o) = {} /\ ~Captured(o)
    BY DEF Init, EntsOf, Captured, Sent
  <2>2. \A o \in Orders : PhaseOf(o) = "open"
    BY <2>1, PhaseIs DEF Live, Due
  <2>3. phases = [o \in Orders |-> "open"] /\ receipts = [o \in Orders |-> 0]
    BY <2>2 DEF Init, phases
  <2> QED
    BY <2>3 DEF Init, Abstract!Init, phases, JobsExclusive, Idle
<1>2. TypeOK /\ OwnRows /\ GrantNeedsCapture /\ JobsExclusive /\ PurchaseInv /\ [Next]_vars =>
        JobsExclusive' /\ PurchaseInv' /\ [Abstract!Next]_(Abstract!purchaseVars)
  <2> SUFFICES ASSUME TypeOK, OwnRows, GrantNeedsCapture, JobsExclusive, PurchaseInv, [Next]_vars
               PROVE  JobsExclusive' /\ PurchaseInv' /\ PurchaseStep
    BY DEF PurchaseStep
  <2>1. JobsExclusive' /\ PurchaseInv'
    BY FeedStep, PurchaseStays, PaymentsAssumption
  <2>2. ASSUME UNCHANGED vars PROVE PurchaseStep
    BY <2>2, NothingMoves DEF vars, rowVars, provVars, jobVars, Captured, Sent
  <2>3. PurchaseStep
    BY <2>2, RequestMaps, ProviderMaps, SweepMaps, WorkerMaps, PaymentsAssumption DEF Next
  <2> QED
    BY <2>1, <2>3
<1>3. QED
  BY <1>1, <1>2, OneEach, TypesHold, JobsOwnTheirRows, GrantsArePaid, PTL DEF Spec, PurchaseSteps
=============================================================================
