---------------------------- MODULE MCStorefront ----------------------------
(* An offer and its edits; two checkouts; rates that round both ways.      *)
EXTENDS Storefront, TLC

CONSTANTS basic, swe

Symmetric == Permutations(Orders) \cup Permutations(Learners)

MCCourseOf == [o \in {basic} |-> swe]

MCTerms(type, price, tax) ==
    [type |-> type, price |-> price, currency |-> "INR", tax |-> tax,
     days |-> None, seats |-> None, from |-> None, until |-> None]
MCOfferRequests ==
    {MCTerms("free", 0, 0), MCTerms("paid", 5, 18), MCTerms("paid", 3, 0), MCTerms("invitation_only", 3, 18),
     [MCTerms("subscription", 5, 0) EXCEPT !.days = 30, !.currency = "USD"],
     [MCTerms("cohort", 5, 0) EXCEPT !.from = 0, !.until = 1, !.seats = 1],
     [MCTerms("cohort", 5, 0) EXCEPT !.from = 1, !.until = 2, !.seats = 2]}
MCCodeRequests == {[kind |-> "percent", value |-> 50, expires |-> None, cap |-> 1],
                   [kind |-> "fixed", value |-> 10, expires |-> 1, cap |-> None]}

Shelving == {"CreateOffer", "UpdateOffer", "ArchiveOffer", "CreateOrder", "Tick"}
Redeeming == {"CreateOffer", "CreateDiscountCode", "DeactivateDiscountCode", "CreateOrder", "Settle", "Tick"}
Inviting == {"CreateOffer", "UpdateOffer", "CreateInviteToken", "CreateOrder", "Settle", "Tick"}
Attending == {"CreateOffer", "UpdateOffer", "CreateOrder", "Settle", "Sweep", "Tick"}
Reporting == {"CreateOffer", "CreateOrder", "Settle", "Refund", "Tick"}
Teams == {Shelving, Redeeming, Inviting, Attending, Reporting}
=============================================================================
