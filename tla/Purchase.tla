------------------------------ MODULE Purchase ------------------------------
(***************************************************************************)
(* What the commerce code promises about one order: a captured payment is  *)
(* granted exactly once, a receipt is sent at most once and only for a     *)
(* granted order, and a grant that ended is over for good.                 *)
(***************************************************************************)
EXTENDS Naturals

CONSTANTS Orders, FreeOrders

VARIABLES phase, receipts

purchaseVars == <<phase, receipts>>

Phase == {"open", "paid", "granted", "ended"}

Init ==
  /\ phase = [o \in Orders |-> "open"]
  /\ receipts = [o \in Orders |-> 0]

MoveOn(o, from, to) == phase[o] = from /\ phase' = [phase EXCEPT ![o] = to]

Pay(o) == o \notin FreeOrders /\ MoveOn(o, "open", "paid") /\ UNCHANGED receipts

Grant(o) == MoveOn(o, "paid", "granted") /\ UNCHANGED receipts

GrantFree(o) == o \in FreeOrders /\ MoveOn(o, "open", "granted") /\ UNCHANGED receipts

End(o) == MoveOn(o, "granted", "ended") /\ UNCHANGED receipts

SendReceipt(o) ==
  /\ o \notin FreeOrders
  /\ phase[o] \in {"granted", "ended"} /\ receipts[o] = 0
  /\ receipts' = [receipts EXCEPT ![o] = 1]
  /\ UNCHANGED phase

Next == \E o \in Orders : Pay(o) \/ Grant(o) \/ GrantFree(o) \/ End(o) \/ SendReceipt(o)

Spec == /\ Init /\ [][Next]_purchaseVars
        /\ \A o \in Orders : WF_purchaseVars(Grant(o))
=============================================================================
