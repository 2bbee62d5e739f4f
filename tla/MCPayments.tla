----------------------------- MODULE MCPayments -----------------------------
(* Small instances of Payments: the constant functions of the .cfg files.  *)
EXTENDS Payments

CONSTANTS k1, k2, o1, o2, a1, a2, a3, r1, r2, c1, w1, w2

\* One learner buys the same course twice, first for a fixed term.
BuyerSame == [o \in Orders |-> k1]

\* Two attempts pay the first order and one the second.
RetryThenRenew == [a \in Attempts |-> IF a = a3 THEN o2 ELSE o1]

\* One attempt per order.
OneAttemptEach == [a \in Attempts |-> IF a = a1 THEN o1 ELSE o2]

CodeOnAll == [o \in Orders |-> c1]
CapOne    == [c \in Codes |-> 1]

RefundsOfFirst == [r \in Refunds |-> a1]
=============================================================================
