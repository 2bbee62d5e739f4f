------------------------------ MODULE Storefront ------------------------------
(***************************************************************************)
(* Offers of a course, their discount codes and invite tokens, checkout up *)
(* to the order, and what the revenue reports make of the orders. Money is *)
(* in minor units. Payments says how events of an order come about; here    *)
(* they just arrive.                                                       *)
(***************************************************************************)
EXTENDS Integers, FiniteSetsExt

CONSTANTS
    Offers, CourseOf,     \* offer -> course
    Names,                \* what a discount code is called
    Tokens, Learners,
    Orders,               \* bound: checkouts, each of at most one order
    Currencies,
    OfferRequests,        \* bodies of CreateOffer and UpdateOffer
    CodeRequests,         \* bodies of CreateDiscountCode
    CommissionPercent,    \* platform_settings, which nothing updates
    None,                 \* an absent field
    Handlers,             \* which handlers run together
    LastTime,             \* bound: instants
    MaxCaptures           \* bound: captures of an order that are heard of

\* An absent field is not the name of an order, token or code, nor a number; seats are counted.
ASSUME StorefrontAssumption ==
    /\ None \notin Orders \cup Tokens \cup Names /\ None \notin Int /\ LastTime \in Nat
    /\ \A r \in OfferRequests : r.seats # None => r.seats \in Int
    /\ \A r \in CodeRequests : r.value \in Int /\ (r.cap # None => r.cap \in Int)

\* Bound: prices and tax rates are not negative, though validateOfferTypeFields
\* does not ask for it of every type; the commission is the seeded rate.
ASSUME RatesAssumption ==
    /\ \A r \in OfferRequests : r.price \in Nat /\ r.tax \in Nat
    /\ CommissionPercent \in 0 .. 100

VARIABLES
    team,        \* the handlers of this behaviour
    clock,       \* now is just after this instant
    offer,       \* offer -> its row, {} without one
    discount,    \* offer -> name -> the code's row, {} without one
    token,       \* token -> its row, {} without one
    cart,        \* order -> the open transaction of CreateOrder, {} without one
    order,       \* order -> its row, {} without one
    crossed      \* history: <<what, x, y>>, x took effect while y was under way

storeVars == <<team, clock, offer, discount, token, cart, order, crossed>>
-----------------------------------------------------------------------------
Free(r) == r.price = 0
Charged(r) == r.price > 0 /\ r.currency # ""
ForATime(r) == r.days # None
ForACohort(r) == \E f \in {"seats", "from", "until"} : r[f] # None

\* Which fields go with which type of offer.
FieldsFit(type, r) ==
    \/ type = "free" /\ Free(r) /\ ~ForATime(r) /\ ~ForACohort(r)
    \/ type = "paid" /\ Charged(r) /\ ~ForATime(r) /\ ~ForACohort(r)
    \/ type = "subscription" /\ Charged(r) /\ ForATime(r) /\ r.days > 0 /\ ~ForACohort(r)
    \/ /\ type = "cohort" /\ Charged(r) /\ ~ForATime(r)
       /\ None \notin {r.from, r.until} /\ r.from < r.until
       /\ r.seats # None => r.seats > 0
    \/ type = "invitation_only" /\ r.currency # "" /\ ~ForATime(r) /\ ~ForACohort(r)

\* The table refuses other currencies, so a free offer needs one as well.
NewOffer(r) == {[type |-> r.type, terms |-> r, status |-> "active"] : currency \in Currencies \cap {r.currency}}
Edited(was, r) == {[was EXCEPT !.terms = r] : currency \in Currencies \cap {r.currency}}
Archived(was) == {[was EXCEPT !.status = "archived"]}

\* Offers are reached under their course; those of another are not found.
offerInCourse(course, o) == {row \in offer[o] : CourseOf[o] = course}

CreateOffer(o) ==
    /\ "CreateOffer" \in team /\ offer[o] = {}
    /\ \E r \in OfferRequests :
          /\ FieldsFit(r.type, r) /\ NewOffer(r) # {}
          /\ offer' = [offer EXCEPT ![o] = NewOffer(r)]
    /\ UNCHANGED <<team, clock, discount, token, cart, order, crossed>>

\* The type stays, and so does the status: archived offers are edited too.
UpdateOffer(o) ==
    /\ "UpdateOffer" \in team
    /\ \E was \in offerInCourse(CourseOf[o], o), r \in OfferRequests :
          /\ FieldsFit(was.type, r) /\ Edited(was, r) # {}
          /\ offer' = [offer EXCEPT ![o] = Edited(was, r)]
    /\ UNCHANGED <<team, clock, discount, token, cart, order, crossed>>

ArchiveOffer(o) ==
    /\ "ArchiveOffer" \in team
    /\ \E was \in offerInCourse(CourseOf[o], o) : offer' = [offer EXCEPT ![o] = Archived(was)]
    /\ UNCHANGED <<team, clock, discount, token, cart, order, crossed>>

DiscountFits(r) ==
    /\ r.kind \in {"percent", "fixed"} /\ r.value > 0
    /\ r.kind = "percent" => r.value <= 100
    /\ r.cap # None => r.cap > 0

NewCode(r) == {[terms |-> r, expires |-> r.expires, used |-> 0]}
Deactivated(d) == {[d EXCEPT !.expires = clock]}

\* UNIQUE (offer_id, code).
CreateDiscountCode(o, n) ==
    /\ "CreateDiscountCode" \in team /\ offerInCourse(CourseOf[o], o) # {} /\ discount[o][n] = {}
    /\ \E r \in CodeRequests : DiscountFits(r) /\ discount' = [discount EXCEPT ![o][n] = NewCode(r)]
    /\ UNCHANGED <<team, clock, offer, token, cart, order, crossed>>

DeactivateDiscountCode(o, n) ==
    /\ "DeactivateDiscountCode" \in team
    /\ \E d \in discount[o][n] : discount' = [discount EXCEPT ![o][n] = Deactivated(d)]
    /\ UNCHANGED <<team, clock, offer, token, cart, order, crossed>>

ListDiscountCodes(o) == {[cap |-> d.terms.cap, redemptions |-> d.used] : d \in UNION {discount[o][n] : n \in Names}}

NewToken(o, bound, expires) == {[offer |-> o, bound |-> bound, expires |-> expires, used |-> None]}

CreateInviteToken(t) ==
    /\ "CreateInviteToken" \in team /\ token[t] = {}
    /\ \E o \in Offers, bound \in Learners \cup {None}, expires \in {1, None} :
          /\ \E row \in offerInCourse(CourseOf[o], o) : row.type = "invitation_only"
          /\ token' = [token EXCEPT ![t] = NewToken(o, bound, expires)]
    /\ UNCHANGED <<team, clock, offer, discount, cart, order, crossed>>

Past(time) == time # None /\ time <= clock
-----------------------------------------------------------------------------
\* math.Round of a percentage; no rate here is negative.
Percent(n, rate) == (2 * n * rate + 100) \div 200

\* mutant: a fixed discount larger than the price
OffUncapped(subtotal, codes) ==
    SumSet({IF d.terms.kind = "percent" THEN Percent(subtotal, d.terms.value) ELSE d.terms.value : d \in codes})

Off(subtotal, codes) ==
    SumSet({Min({subtotal, IF d.terms.kind = "percent" THEN Percent(subtotal, d.terms.value) ELSE d.terms.value}) :
                d \in codes})

computePricePreview(row, codes) ==
    LET subtotal == row.terms.price
        net == subtotal - Off(subtotal, codes)
        tax == Percent(net, row.terms.tax)
    IN  [subtotal |-> subtotal, discount |-> subtotal - net, tax |-> tax, total |-> net + tax]

\* mutant: one redemption too many
lookupValidDiscountCodeOnce(o, n) ==
    IF n = None THEN {}
    ELSE {d \in discount[o][n] : ~Past(d.expires) /\ (d.terms.cap # None => d.used <= d.terms.cap)}

\* The code asked for, {} if it does not count.
lookupValidDiscountCode(o, n) ==
    IF n = None THEN {}
    ELSE {d \in discount[o][n] : ~Past(d.expires) /\ (d.terms.cap # None => d.used < d.terms.cap)}

Sold(o) == {x \in Orders : \E r \in order[x] : r.offer = o /\ r.status = "succeeded"}

\* mutant: a cohort never fills
WindowOnly(o, row) ==
    row.type = "cohort" => row.terms.from <= clock /\ clock < row.terms.until

cohortOpen(o, row) ==
    row.type = "cohort" =>
        /\ row.terms.from <= clock /\ clock < row.terms.until
        /\ row.terms.seats # None => Cardinality(Sold(o)) < row.terms.seats

\* mutant: a used token is found as well
TokenRowsUsed(t) == {k \in token[t] : ~Past(k.expires)}

\* GetByToken does not return what is used or expired.
TokenRows(t) == {k \in token[t] : k.used = None /\ ~Past(k.expires)}

resolveInviteToken(o, row, t, u) ==
    row.type = "invitation_only" =>
        /\ t # None
        /\ \E k \in TokenRows(t) : k.offer = o /\ k.bound \in {None, u}
-----------------------------------------------------------------------------
\* CreateOrder reads the offer first. A row is of the instant its transaction began.
ReadOffer(x, u, o, n, t) ==
    /\ "CreateOrder" \in team /\ cart[x] = {} /\ order[x] = {}
    /\ \E row \in offer[o] :
          /\ row.status # "archived"
          /\ t # None => row.type = "invitation_only"
          /\ cart' = [cart EXCEPT ![x] = {[learner |-> u, offer |-> o, row |-> row, name |-> n, token |-> t, at |-> clock,
                                           step |-> "read", price |-> computePricePreview(row, {})]}]
    /\ UNCHANGED <<team, clock, offer, discount, token, order, crossed>>

\* Then the invite token is looked up, or the seats of a cohort are counted.
Admits(c) == resolveInviteToken(c.offer, c.row, c.token, c.learner) /\ cohortOpen(c.offer, c.row)

\* The answer to a refusal changes nothing.
AdmitBuyer(x) ==
    /\ \E c \in cart[x] :
          /\ c.step = "read"
          /\ cart' = [cart EXCEPT ![x] = IF Admits(c) THEN {[c EXCEPT !.step = "admitted"]} ELSE {}]
    /\ UNCHANGED <<team, clock, offer, discount, token, order, crossed>>

\* Then the code, which must count if one is given.
PriceOrder(x) ==
    /\ \E c \in cart[x] :
          LET codes == lookupValidDiscountCode(c.offer, c.name)
          IN  /\ c.step = "admitted"
              /\ cart' = [cart EXCEPT ![x] =
                    IF c.name = None \/ codes # {}
                    THEN {[c EXCEPT !.step = "priced", !.price = computePricePreview(c.row, codes)]} ELSE {}]
    /\ UNCHANGED <<team, clock, offer, discount, token, order, crossed>>

NewOrder(c, status) ==
    [offer |-> c.offer, learner |-> c.learner, currency |-> c.row.terms.currency, price |-> c.price,
     commission |-> Percent(c.price.subtotal - c.price.discount, CommissionPercent),
     name |-> c.name, token |-> c.token, seats |-> c.row.terms.seats, at |-> c.at,
     status |-> status, swept |-> FALSE, captures |-> 0, refunded |-> 0]

\* IncrementRedemption: only below the cap, where it is now.
Redeemable(o, n) == \E d \in discount[o][n] : d.terms.cap # None => d.used < d.terms.cap
IncrementRedemption(o, n) ==
    discount' = IF n # None /\ Redeemable(o, n)
                THEN [discount EXCEPT ![o][n] = {[d EXCEPT !.used = @ + 1] : d \in discount[o][n]}] ELSE discount

\* A redemption that fails takes the free order with it.
CommitFree(x, c) ==
    /\ c.row.type = "free" /\ (c.name # None => Redeemable(c.offer, c.name))
    /\ order' = [order EXCEPT ![x] = {NewOrder(c, "succeeded")}]
    /\ IncrementRedemption(c.offer, c.name)
    /\ UNCHANGED <<token, crossed>>

\* MarkUsed overwrites whatever the row says by now.
MarkUsed(t, x) == token' = IF t = None THEN token
                           ELSE [token EXCEPT ![t] = {[k EXCEPT !.used = x] : k \in token[t]}]

Crossing(what, x, ys) == {<<what, x, y>> : y \in ys \ {x}}
Rivals(c) == {y \in Orders : \E d \in cart[y] : d.step # "read" /\ d.token # None /\ d.token = c.token}

CommitPaid(x, c) ==
    /\ c.row.type # "free"
    /\ order' = [order EXCEPT ![x] = {NewOrder(c, "payment_initiated")}]
    /\ MarkUsed(c.token, x)
    /\ crossed' = crossed \cup Crossing("token", x, Rivals(c))
    /\ UNCHANGED discount

\* The provider refused, or the redemption failed: all of it is rolled back.
RollBack == UNCHANGED <<order, token, discount, crossed>>

CommitOrder(x) ==
    /\ \E c \in cart[x] : c.step = "priced" /\ (CommitFree(x, c) \/ CommitPaid(x, c) \/ RollBack)
    /\ cart' = [cart EXCEPT ![x] = {}]
    /\ UNCHANGED <<team, clock, offer>>

\* Who has been shown a seat, or given a discount, and may still pay.
Seating(o) == {y \in Orders :
    \/ \E d \in cart[y] : d.offer = o /\ d.row.terms.seats # None /\ d.step # "read"
    \/ \E r \in order[y] : r.offer = o /\ r.seats # None /\ r.status # "succeeded"}
Discounting(o, n) == {y \in Orders :
    \/ \E d \in cart[y] : d.offer = o /\ d.name = n /\ n # None /\ d.step = "priced"
    \/ \E r \in order[y] : r.offer = o /\ r.name = n /\ n # None /\ r.status # "succeeded" /\ r.captures = 0}

\* A free order never reached the provider, which has nothing to say of it.
ToBePaid(r) == \A row \in offer[r.offer] : row.type # "free"

\* payment.captured counts unless the order has succeeded: what failed or was
\* abandoned is paid all the same. A redemption above the cap is let go.
Captured(x) ==
    /\ "Settle" \in team
    /\ \E r \in order[x] :
          /\ ToBePaid(r) /\ r.status # "succeeded" /\ r.captures < MaxCaptures
          /\ order' = [order EXCEPT ![x] = {[r EXCEPT !.status = "succeeded", !.captures = @ + 1]}]
          /\ IncrementRedemption(r.offer, r.name)
          /\ crossed' = crossed \cup Crossing("seat", x, Seating(r.offer))
                                \cup Crossing("code", x, Discounting(r.offer, r.name))
    /\ UNCHANGED <<team, clock, offer, token, cart>>

\* payment.failed counts whatever the order is by then.
Failed(x) ==
    /\ "Settle" \in team
    /\ \E r \in order[x] :
          /\ ToBePaid(r) /\ r.status # "failed"
          /\ order' = [order EXCEPT ![x] = {[r EXCEPT !.status = "failed"]}]
    /\ UNCHANGED <<team, clock, offer, discount, token, cart, crossed>>

\* The sweep finds the order unpaid, and then writes whatever it is by then.
SweepFinds(x) ==
    /\ "Sweep" \in team
    /\ \E r \in order[x] :
          /\ r.status = "payment_initiated" /\ ~r.swept
          /\ order' = [order EXCEPT ![x] = {[r EXCEPT !.swept = TRUE]}]
    /\ UNCHANGED <<team, clock, offer, discount, token, cart, crossed>>

Abandon(x) ==
    /\ \E r \in order[x] :
          /\ r.swept
          /\ order' = [order EXCEPT ![x] = {[r EXCEPT !.swept = FALSE, !.status = "abandoned"]}]
    /\ UNCHANGED <<team, clock, offer, discount, token, cart, crossed>>

\* Refunds are of a payment, whatever its order is by then.
RefundSettles(x) ==
    /\ "Refund" \in team
    /\ \E r \in order[x] : \E amount \in {1, r.price.total - r.refunded} :
          /\ r.captures > 0 /\ 0 < amount /\ r.refunded + amount <= r.price.total
          /\ order' = [order EXCEPT ![x] = {[r EXCEPT !.refunded = @ + amount]}]
    /\ UNCHANGED <<team, clock, offer, discount, token, cart, crossed>>

Tick ==
    /\ "Tick" \in team /\ clock < LastTime /\ clock' = clock + 1
    /\ UNCHANGED <<team, offer, discount, token, cart, order, crossed>>
-----------------------------------------------------------------------------
Rows == UNION {order[x] : x \in Orders}
Amount(x) == CHOOSE r \in order[x] : TRUE

\* Shares of a refunded order are fractions: everything is counted in 1 / Whole.
Whole == ProductSet({r.price.total : r \in {r \in Rows : r.price.total > 0}})
EffectiveCommission(r) ==
    IF r.price.total > 0 THEN r.commission * (r.price.total - r.refunded) * (Whole \div r.price.total)
                         ELSE r.commission * Whole

Summed(xs) ==
    [gross |-> MapThenSumSet(LAMBDA x : Amount(x).price.total * Whole, xs),
     commission |-> MapThenSumSet(LAMBDA x : EffectiveCommission(Amount(x)), xs),
     refunded |-> MapThenSumSet(LAMBDA x : Amount(x).refunded * Whole, xs),
     net |-> MapThenSumSet(LAMBDA x : (Amount(x).price.total - Amount(x).refunded) * Whole
                                         - EffectiveCommission(Amount(x)), xs)]

InWindow(r, from, to) == (from # None => from <= r.at) /\ (to # None => r.at < to)

SoldIn(currency, from, to) ==
    {x \in Orders : \E r \in order[x] : r.status = "succeeded" /\ r.currency = currency /\ InWindow(r, from, to)}
OfCourse(course, xs) == {x \in xs : CourseOf[Amount(x).offer] = course}

\* by_course of RevenueReport, refunds and their commission taken out.
RevenueReport(course, currency, from, to) == Summed(OfCourse(course, SoldIn(currency, from, to)))

\* The dashboard's figures, refunds left in.
RevenueByCourse(course, currency, from, to) ==
    MapThenSumSet(LAMBDA x : (Amount(x).price.total - Amount(x).commission) * Whole,
                  OfCourse(course, SoldIn(currency, from, to)))
CommissionByOrg(currency) == MapThenSumSet(LAMBDA x : Amount(x).commission * Whole, SoldIn(currency, None, None))
-----------------------------------------------------------------------------
Init ==
    /\ team \in Handlers
    /\ clock = 0
    /\ offer = [o \in Offers |-> {}]
    /\ discount = [o \in Offers |-> [n \in Names |-> {}]]
    /\ token = [t \in Tokens |-> {}]
    /\ cart = [x \in Orders |-> {}]
    /\ order = [x \in Orders |-> {}]
    /\ crossed = {}

Next ==
    \/ \E o \in Offers : CreateOffer(o) \/ UpdateOffer(o) \/ ArchiveOffer(o)
    \/ \E o \in Offers, n \in Names : CreateDiscountCode(o, n) \/ DeactivateDiscountCode(o, n)
    \/ \E t \in Tokens : CreateInviteToken(t)
    \/ \E x \in Orders, u \in Learners, o \in Offers, n \in Names \cup {None}, t \in Tokens \cup {None} :
          ReadOffer(x, u, o, n, t)
    \/ \E x \in Orders : AdmitBuyer(x) \/ PriceOrder(x) \/ CommitOrder(x)
    \/ \E x \in Orders : Captured(x) \/ Failed(x) \/ SweepFinds(x) \/ Abandon(x) \/ RefundSettles(x)
    \/ Tick

Spec == Init /\ [][Next]_storeVars
-----------------------------------------------------------------------------
Crossed(what, xs) == \E x, y \in xs : <<what, x, y>> \in crossed

\* An invite token admits one order: two orders hold the same token only if the
\* second had found it unused before the first was committed.
TokenAdmitsOne ==
    \A x, y \in Orders : \A r \in order[x], s \in order[y] :
        x # y /\ r.token # None /\ r.token = s.token => Crossed("token", {x, y})

\* Whose money was taken, whatever their status says by now, and who got it free.
Taken(r) == r.status = "succeeded" \/ r.captures > 0
Given(o) == {x \in Orders : \E r \in order[x] : r.offer = o /\ Taken(r)}
GivenFor(o, n) == {x \in Given(o) : \E r \in order[x] : r.name = n}

\* A cohort takes money for more seats than any of these orders was shown only
\* if one of them was paid while another, having been shown a seat, was not:
\* seats are not held, and an order that failed or was abandoned may yet be paid.
SeatsSoldInTurn ==
    \A o \in Offers : \A xs \in SUBSET Given(o) :
        (\A x \in xs : Amount(x).seats # None /\ Amount(x).seats < Cardinality(xs))
            => xs = {} \/ Crossed("seat", xs)

\* A code gives its discount to more orders than its cap only if one of them was
\* paid while another, the discount found, was not; never to orders of a free
\* offer, which redeem as they are made.
CodesInTurn ==
    \A o \in Offers, n \in Names : \A xs \in SUBSET GivenFor(o, n) : \A d \in discount[o][n] :
        d.terms.cap # None /\ d.terms.cap < Cardinality(xs) => Crossed("code", xs) /\ \A row \in offer[o] : row.type # "free"

\* Rounding, capping, refunds and windows leave every share what it should be:
\* nobody owes money for an order, no code is listed with more redemptions than
\* its cap, what the owner's report says a course brought in lies between nothing
\* and the dashboard's figure, which keeps refunds in, and the reports of two
\* windows that meet make the report of both.
SharesAddUp ==
    /\ \A r \in Rows :
          /\ 0 <= r.price.total
          /\ 0 <= r.commission /\ r.commission <= r.price.subtotal - r.price.discount
    /\ \A o \in Offers : \A d \in ListDiscountCodes(o) : d.cap # None => d.redemptions <= d.cap
    /\ \A currency \in Currencies, o \in Offers, from, to \in 0 .. LastTime + 1 :
          LET report == RevenueReport(CourseOf[o], currency, from, to)
              dashboard == RevenueByCourse(CourseOf[o], currency, from, to)
          IN  /\ 0 <= report.net /\ report.net <= dashboard
              /\ 0 <= report.commission /\ report.commission <= CommissionByOrg(currency)
              /\ report.refunded = 0 => report.net = dashboard
    /\ \A currency \in Currencies, o \in Offers, from, mid, to \in 0 .. LastTime + 1 :
          from <= mid /\ mid <= to =>
             RevenueReport(CourseOf[o], currency, from, mid).net + RevenueReport(CourseOf[o], currency, mid, to).net
                 = RevenueReport(CourseOf[o], currency, from, to).net
=============================================================================
