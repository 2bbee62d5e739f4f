--------------------------- MODULE StorefrontProofs ---------------------------
(***************************************************************************)
(* Theorems about the storefront: an invite token, a seat of a cohort or   *)
(* the discount of a capped code is given once too often only to orders    *)
(* that were under way together, and the reports' shares add up.           *)
(***************************************************************************)
EXTENDS Storefront, RowLemmas

TokenRecords == [offer : Offers, bound : Learners \cup {None}, expires : {1, None}, used : Orders \cup {None}]
CartFields == {"learner", "offer", "row", "name", "token", "at", "step", "price"}
OrderFields == {"offer", "learner", "currency", "price", "commission", "name", "token", "seats", "at",
                "status", "swept", "captures", "refunded"}

StoreTypes ==
  /\ token \in [Tokens -> SUBSET TokenRecords]
  /\ DOMAIN order = Orders /\ DOMAIN cart = Orders
  /\ \A x \in Orders : /\ \A c \in cart[x] : DOMAIN c = CartFields
                       /\ \A r \in order[x] : DOMAIN r = OrderFields

(* A token has one row at most, and the row of a token that an order holds  *)
(* is used.                                                                 *)
OneTokenRow == \A t \in Tokens : \A k, l \in token[t] : k = l
HeldIsUsed ==
  \A x \in Orders : \A r \in order[x] : r.token # None =>
     /\ r.token \in Tokens /\ token[r.token] # {}
     /\ \A k \in token[r.token] : k.used # None

(* A checkout is one transaction at a time, on an offer that was listed,    *)
(* and has a token only where one is asked for.                             *)
CartsSound ==
  \A x \in Orders : \A c \in cart[x] :
     /\ \A d \in cart[x] : d = c
     /\ c.offer \in Offers /\ c.row.status # "archived"
     /\ c.token # None => c.token \in Tokens /\ c.row.type = "invitation_only"
     /\ c.token # None /\ c.step # "read" => token[c.token] # {}

(* Who was admitted with a token that an order holds by now has crossed it. *)
AdmittedCrossed ==
  \A x, y \in Orders : \A c \in cart[x], r \in order[y] :
     x # y /\ c.step # "read" /\ c.token # None /\ r.token = c.token => <<"token", y, x>> \in crossed

StoreInv ==
  StoreTypes /\ OneTokenRow /\ HeldIsUsed /\ CartsSound /\ AdmittedCrossed /\ TokenAdmitsOne

(* Nothing is on offer at first.                                            *)
LEMMA StoreStarts == Init => StoreInv
BY DEF Init, StoreInv, StoreTypes, OneTokenRow, HeldIsUsed, CartsSound, AdmittedCrossed, TokenAdmitsOne

(* What else a row says matters only as far as these facts go: they stay    *)
(* where orders, carts and tokens do, or keep who holds what.               *)
LEMMA OrdersKept ==
  ASSUME StoreInv, StoreTypes', UNCHANGED <<cart, token>>, crossed \subseteq crossed',
         \A x \in Orders : \A r \in order'[x] : \E q \in order[x] : r.token = q.token
  PROVE  StoreInv'
<1> USE DEF StoreInv
<1>1. HeldIsUsed'
  BY DEF HeldIsUsed
<1>2. AdmittedCrossed'
  BY DEF AdmittedCrossed
<1>3. TokenAdmitsOne'
  BY DEF TokenAdmitsOne, Crossed
<1>4. OneTokenRow' /\ CartsSound'
  BY DEF OneTokenRow, CartsSound
<1> QED
  BY <1>1, <1>2, <1>3, <1>4

(* A checkout that finds its token unused has no order to cross; one that   *)
(* goes on has crossed whom it had.                                         *)
LEMMA CartKept ==
  ASSUME StoreInv, StoreTypes', NEW x \in Orders, UNCHANGED <<order, token, crossed>>,
         \A y \in Orders \ {x} : cart'[y] = cart[y],
         \A c \in cart'[x] :
            /\ \A d \in cart'[x] : d = c
            /\ c.offer \in Offers /\ c.row.status # "archived"
            /\ c.token # None => c.token \in Tokens /\ c.row.type = "invitation_only"
            /\ c.token # None /\ c.step # "read" =>
                 TokenRows(c.token) # {} \/ \E d \in cart[x] : d.token = c.token /\ d.step # "read"
  PROVE  StoreInv'
<1> USE DEF StoreInv
<1>1. CartsSound'
  BY DEF CartsSound, TokenRows
<1>2. ASSUME NEW w \in Orders, NEW y \in Orders, NEW c \in cart'[w], NEW r \in order'[y],
             w # y, c.step # "read", c.token # None, r.token = c.token
      PROVE  <<"token", y, w>> \in crossed'
  <2>1. CASE w = x
    <3>1. CASE TokenRows(c.token) # {}
      BY <1>2, <2>1, <3>1 DEF HeldIsUsed, TokenRows
    <3>2. CASE \E d \in cart[x] : d.token = c.token /\ d.step # "read"
      BY <1>2, <2>1, <3>2 DEF AdmittedCrossed
    <3> QED
      BY <1>2, <2>1, <3>1, <3>2
  <2>2. CASE w # x
    BY <1>2, <2>2 DEF AdmittedCrossed
  <2> QED
    BY <2>1, <2>2
<1>3. AdmittedCrossed'
  BY <1>2 DEF AdmittedCrossed
<1>4. OneTokenRow' /\ HeldIsUsed' /\ TokenAdmitsOne'
  BY DEF OneTokenRow, HeldIsUsed, TokenAdmitsOne, Crossed
<1> QED
  BY <1>1, <1>3, <1>4

(* A new order ends its checkout.                                           *)
LEMMA OrderedKept ==
  ASSUME StoreInv, StoreTypes', NEW x \in Orders, NEW c \in cart[x], c.step # "read", NEW q,
         order' = [order EXCEPT ![x] = {q}], q.token = c.token,
         cart' = [cart EXCEPT ![x] = {}],
         MarkUsed(c.token, x),
         crossed' = crossed \cup Crossing("token", x, Rivals(c))
  PROVE  StoreInv'
<1> USE DEF StoreInv
<1>t. /\ \A y \in Orders : cart'[y] = IF y = x THEN {} ELSE cart[y]
      /\ \A y \in Orders : order'[y] = IF y = x THEN {q} ELSE order[y]
  BY DEF StoreTypes
<1>1. /\ \A t \in Tokens : token[t] # {} => token'[t] # {}
      /\ \A t \in Tokens : (\A k \in token[t] : k.used # None) => \A k \in token'[t] : k.used # None
      /\ c.token # None => c.token \in Tokens /\ token'[c.token] # {} /\ \A k \in token'[c.token] : k.used # None
  <2>1. CASE c.token = None
    BY <2>1 DEF MarkUsed
  <2>2. CASE c.token # None
    <3>1. c.token \in Tokens /\ token[c.token] # {}
      BY <2>2 DEF CartsSound
    <3>2. token' = [token EXCEPT ![c.token] = {[k EXCEPT !.used = x] : k \in token[c.token]}]
      BY <2>2 DEF MarkUsed
    <3>3. \A k \in token[c.token] : [k EXCEPT !.used = x].used = x
      BY <3>1 DEF StoreTypes, TokenRecords
    <3>4. x # None
      BY StorefrontAssumption
    <3>5. /\ token'[c.token] = {[k EXCEPT !.used = x] : k \in token[c.token]}
          /\ \A t \in Tokens \ {c.token} : token'[t] = token[t]
      BY <3>1, <3>2 DEF StoreTypes
    <3>6. \A k \in token'[c.token] : k.used # None
      BY <3>3, <3>4, <3>5
    <3>7. token'[c.token] # {}
      <4>1. PICK k : k \in token[c.token]
        BY <3>1
      <4>2. [k EXCEPT !.used = x] \in token'[c.token]
        BY <3>5, <4>1
      <4> QED
        BY <4>2
    <3>8. ASSUME NEW t \in Tokens PROVE /\ token[t] # {} => token'[t] # {}
                                        /\ (\A k \in token[t] : k.used # None) => \A k \in token'[t] : k.used # None
      <4>1. CASE t = c.token
        BY <3>6, <3>7, <4>1
      <4>2. CASE t # c.token
        BY <3>5, <4>2
      <4> QED
        BY <4>1, <4>2
    <3> QED
      BY <3>1, <3>6, <3>7, <3>8
  <2> QED
    BY <2>1, <2>2
<1>2. OneTokenRow'
  BY DEF OneTokenRow, MarkUsed, StoreTypes
<1>3. HeldIsUsed'
  BY <1>t, <1>1 DEF HeldIsUsed
<1>4. CartsSound'
  BY <1>t, <1>1 DEF CartsSound
<1>5. ASSUME NEW w \in Orders, NEW y \in Orders, NEW d \in cart'[w], NEW r \in order'[y],
             w # y, d.step # "read", d.token # None, r.token = d.token
      PROVE  <<"token", y, w>> \in crossed'
  <2>1. CASE y = x
    <3>1. w \in Rivals(c) \ {x}
      BY <1>t, <1>5, <2>1 DEF Rivals
    <3> QED
      BY <2>1, <3>1 DEF Crossing
  <2>2. CASE y # x
    BY <1>t, <1>5, <2>2 DEF AdmittedCrossed
  <2> QED
    BY <2>1, <2>2
<1>6. AdmittedCrossed'
  BY <1>5 DEF AdmittedCrossed
<1>7. ASSUME NEW w \in Orders, NEW y \in Orders, NEW r \in order'[w], NEW s \in order'[y],
             w # y, r.token # None, r.token = s.token
      PROVE  Crossed("token", {w, y})'
  <2>1. CASE w = x
    <3>1. <<"token", y, x>> \in crossed
      BY <1>t, <1>7, <2>1 DEF AdmittedCrossed
    <3> QED
      BY <2>1, <3>1 DEF Crossed
  <2>2. CASE y = x
    <3>1. <<"token", w, x>> \in crossed
      BY <1>t, <1>7, <2>2 DEF AdmittedCrossed
    <3> QED
      BY <2>2, <3>1 DEF Crossed
  <2>3. CASE w # x /\ y # x
    <3>1. Crossed("token", {w, y})
      BY <1>t, <1>7, <2>3 DEF TokenAdmitsOne
    <3> QED
      BY <3>1 DEF Crossed
  <2> QED
    BY <2>1, <2>2, <2>3
<1>8. TokenAdmitsOne'
  BY <1>7 DEF TokenAdmitsOne
<1> QED
  BY <1>2, <1>3, <1>4, <1>6, <1>8

(* What a checkout read stays with it from statement to statement, and what *)
(* an order says with the order, whatever becomes of its status.            *)
SameCart(c, d) ==
  /\ DOMAIN d = CartFields
  /\ d.learner = c.learner /\ d.offer = c.offer /\ d.row = c.row /\ d.name = c.name /\ d.token = c.token /\ d.at = c.at
SameOrder(r, q) ==
  /\ DOMAIN q = OrderFields
  /\ q.offer = r.offer /\ q.name = r.name /\ q.token = r.token /\ q.seats = r.seats
  /\ q.currency = r.currency /\ q.price = r.price /\ q.commission = r.commission /\ q.at = r.at

(* CreateOrder reads an offer that is listed.                               *)
LEMMA Reads ==
  ASSUME NEW x \in Orders, NEW u \in Learners, NEW o \in Offers, NEW n, NEW t, ReadOffer(x, u, o, n, t)
  PROVE  \E row, c :
            /\ row \in offer[o]
            /\ cart[x] = {} /\ order[x] = {} /\ cart' = [cart EXCEPT ![x] = {c}]
            /\ DOMAIN c = CartFields /\ c.offer = o /\ c.row = row /\ c.name = n /\ c.token = t /\ c.step = "read"
            /\ c.price = computePricePreview(row, {}) /\ c.at = clock
            /\ row.status # "archived" /\ (t # None => row.type = "invitation_only")
            /\ UNCHANGED <<offer, discount, order, token, crossed>>
<1>1. PICK row \in offer[o] :
         /\ row.status # "archived" /\ (t # None => row.type = "invitation_only")
         /\ cart' = [cart EXCEPT ![x] = {[learner |-> u, offer |-> o, row |-> row, name |-> n, token |-> t, at |-> clock,
                                          step |-> "read", price |-> computePricePreview(row, {})]}]
  BY DEF ReadOffer
<1> PICK c : c = [learner |-> u, offer |-> o, row |-> row, name |-> n, token |-> t, at |-> clock,
                  step |-> "read", price |-> computePricePreview(row, {})]
  OBVIOUS
<1>2. cart[x] = {} /\ order[x] = {} /\ UNCHANGED <<offer, discount, order, token, crossed>>
  BY DEF ReadOffer
<1>3. /\ cart' = [cart EXCEPT ![x] = {c}] /\ DOMAIN c = CartFields
      /\ c.offer = o /\ c.row = row /\ c.name = n /\ c.token = t /\ c.step = "read"
      /\ c.price = computePricePreview(row, {}) /\ c.at = clock
  BY <1>1 DEF CartFields
<1> QED
  BY <1>1, <1>2, <1>3

(* It goes on, admitted, or is refused.                                     *)
LEMMA Admitting ==
  ASSUME StoreTypes, NEW x \in Orders, AdmitBuyer(x)
  PROVE  \E c, d, S :
            /\ c \in cart[x]
            /\ cart' = [cart EXCEPT ![x] = S] /\ S = (IF Admits(c) THEN {d} ELSE {})
            /\ c.step = "read" /\ SameCart(c, d) /\ d.step = "admitted" /\ d.price = c.price
            /\ UNCHANGED <<offer, discount, order, token, crossed>>
<1>1. PICK c \in cart[x] : /\ c.step = "read"
                          /\ cart' = [cart EXCEPT ![x] = IF Admits(c) THEN {[c EXCEPT !.step = "admitted"]} ELSE {}]
  BY DEF AdmitBuyer
<1> PICK d : d = [c EXCEPT !.step = "admitted"]
  OBVIOUS
<1> PICK S : S = IF Admits(c) THEN {d} ELSE {}
  OBVIOUS
<1>2. DOMAIN c = CartFields
  BY DEF StoreTypes
<1>3. SameCart(c, d) /\ d.step = "admitted" /\ d.price = c.price
  BY <1>2 DEF SameCart, CartFields
<1>4. cart' = [cart EXCEPT ![x] = S]
  BY <1>1
<1>5. UNCHANGED <<offer, discount, order, token, crossed>>
  BY DEF AdmitBuyer
<1> QED
  BY <1>1, <1>3, <1>4, <1>5

(* It is priced, if its code counts.                                        *)
LEMMA Pricing ==
  ASSUME StoreTypes, NEW x \in Orders, PriceOrder(x)
  PROVE  \E c, d, S :
            /\ c \in cart[x]
            /\ cart' = [cart EXCEPT ![x] = S]
            /\ S = (IF c.name = None \/ lookupValidDiscountCode(c.offer, c.name) # {} THEN {d} ELSE {})
            /\ c.step = "admitted" /\ SameCart(c, d) /\ d.step = "priced"
            /\ d.price = computePricePreview(c.row, lookupValidDiscountCode(c.offer, c.name))
            /\ UNCHANGED <<offer, discount, order, token, crossed>>
<1>1. PICK c \in cart[x] :
         /\ c.step = "admitted"
         /\ cart' = [cart EXCEPT ![x] =
                       IF c.name = None \/ lookupValidDiscountCode(c.offer, c.name) # {}
                       THEN {[c EXCEPT !.step = "priced",
                                       !.price = computePricePreview(c.row, lookupValidDiscountCode(c.offer, c.name))]}
                       ELSE {}]
  BY DEF PriceOrder
<1> PICK codes : codes = lookupValidDiscountCode(c.offer, c.name)
  OBVIOUS
<1> PICK price : price = computePricePreview(c.row, codes)
  OBVIOUS
<1> PICK d : d = [c EXCEPT !.step = "priced", !.price = price]
  OBVIOUS
<1> PICK S : S = IF c.name = None \/ codes # {} THEN {d} ELSE {}
  OBVIOUS
<1>2. DOMAIN c = CartFields
  BY DEF StoreTypes
<1>3. SameCart(c, d) /\ d.step = "priced" /\ d.price = price
  BY <1>2 DEF SameCart, CartFields
<1>4. cart' = [cart EXCEPT ![x] = S]
  BY <1>1
<1>5. UNCHANGED <<offer, discount, order, token, crossed>>
  BY DEF PriceOrder
<1> QED
  BY <1>1, <1>3, <1>4, <1>5

(* A capture is of an order that has not succeeded, of an offer that costs. *)
LEMMA Capturing ==
  ASSUME StoreTypes, NEW x \in Orders, Captured(x)
  PROVE  \E r, q :
            /\ r \in order[x]
            /\ order' = [order EXCEPT ![x] = {q}] /\ SameOrder(r, q)
            /\ r.status # "succeeded" /\ q.status = "succeeded" /\ q.captures = r.captures + 1
            /\ q.refunded = r.refunded /\ ToBePaid(r) /\ IncrementRedemption(r.offer, r.name)
            /\ crossed' = crossed \cup Crossing("seat", x, Seating(r.offer))
                                  \cup Crossing("code", x, Discounting(r.offer, r.name))
            /\ UNCHANGED <<offer, cart, token>>
<1>1. PICK r \in order[x] :
         /\ ToBePaid(r) /\ r.status # "succeeded"
         /\ order' = [order EXCEPT ![x] = {[r EXCEPT !.status = "succeeded", !.captures = @ + 1]}]
         /\ IncrementRedemption(r.offer, r.name)
         /\ crossed' = crossed \cup Crossing("seat", x, Seating(r.offer))
                               \cup Crossing("code", x, Discounting(r.offer, r.name))
  BY DEF Captured
<1> PICK q : q = [r EXCEPT !.status = "succeeded", !.captures = @ + 1]
  OBVIOUS
<1>2. DOMAIN r = OrderFields
  BY DEF StoreTypes
<1>3. SameOrder(r, q) /\ q.status = "succeeded" /\ q.captures = r.captures + 1 /\ q.refunded = r.refunded
  BY <1>2 DEF SameOrder, OrderFields
<1>4. order' = [order EXCEPT ![x] = {q}]
  BY <1>1
<1>5. UNCHANGED <<offer, cart, token>>
  BY DEF Captured
<1> QED
  BY <1>1, <1>3, <1>4, <1>5

(* Failures, the sweep and refunds take nobody's money, and none of them    *)
(* is of a free order.                                                      *)
Untaken(x, r, q) ==
  /\ order' = [order EXCEPT ![x] = {q}] /\ SameOrder(r, q)
  /\ q.captures = r.captures
  /\ q.status = "succeeded" => r.status = "succeeded" /\ (q.swept => r.swept)
  /\ \/ r.status # "succeeded"
     \/ r.captures > 0
     \/ ToBePaid(r)
     \/ r.swept
  /\ \/ q.refunded = r.refunded
     \/ \E amount \in {1, r.price.total - r.refunded} :
           0 < amount /\ r.refunded + amount <= r.price.total /\ q.refunded = r.refunded + amount
  /\ UNCHANGED <<offer, discount, cart, token, crossed>>

LEMMA Touches ==
  ASSUME StoreTypes, NEW x \in Orders, Failed(x) \/ SweepFinds(x) \/ Abandon(x) \/ RefundSettles(x)
  PROVE  \E r, q : r \in order[x] /\ Untaken(x, r, q)
<1>t. \A r \in order[x] : DOMAIN r = OrderFields
  BY DEF StoreTypes
<1>1. CASE Failed(x)
  <2>1. PICK r \in order[x] : ToBePaid(r) /\ order' = [order EXCEPT ![x] = {[r EXCEPT !.status = "failed"]}]
    BY <1>1 DEF Failed
  <2> PICK q : q = [r EXCEPT !.status = "failed"]
    OBVIOUS
  <2>2. SameOrder(r, q) /\ q.captures = r.captures /\ q.status = "failed" /\ q.refunded = r.refunded
    BY <1>t DEF SameOrder, OrderFields
  <2>3. order' = [order EXCEPT ![x] = {q}] /\ UNCHANGED <<offer, discount, cart, token, crossed>>
    BY <1>1, <2>1 DEF Failed
  <2>4. Untaken(x, r, q)
    BY <2>1, <2>2, <2>3 DEF Untaken
  <2> QED
    BY <2>4
<1>2. CASE SweepFinds(x)
  <2>1. PICK r \in order[x] : r.status = "payment_initiated" /\ order' = [order EXCEPT ![x] = {[r EXCEPT !.swept = TRUE]}]
    BY <1>2 DEF SweepFinds
  <2> PICK q : q = [r EXCEPT !.swept = TRUE]
    OBVIOUS
  <2>2. SameOrder(r, q) /\ q.captures = r.captures /\ q.status = r.status /\ q.refunded = r.refunded
    BY <1>t DEF SameOrder, OrderFields
  <2>3. order' = [order EXCEPT ![x] = {q}] /\ UNCHANGED <<offer, discount, cart, token, crossed>>
    BY <1>2, <2>1 DEF SweepFinds
  <2>4. Untaken(x, r, q)
    BY <2>1, <2>2, <2>3 DEF Untaken
  <2> QED
    BY <2>4
<1>3. CASE Abandon(x)
  <2>1. PICK r \in order[x] :
           r.swept /\ order' = [order EXCEPT ![x] = {[r EXCEPT !.swept = FALSE, !.status = "abandoned"]}]
    BY <1>3 DEF Abandon
  <2> PICK q : q = [r EXCEPT !.swept = FALSE, !.status = "abandoned"]
    OBVIOUS
  <2>2. SameOrder(r, q) /\ q.captures = r.captures /\ q.status = "abandoned" /\ q.refunded = r.refunded
    BY <1>t DEF SameOrder, OrderFields
  <2>3. order' = [order EXCEPT ![x] = {q}] /\ UNCHANGED <<offer, discount, cart, token, crossed>>
    BY <1>3, <2>1 DEF Abandon
  <2>4. Untaken(x, r, q)
    BY <2>1, <2>2, <2>3 DEF Untaken
  <2> QED
    BY <2>4
<1>4. CASE RefundSettles(x)
  <2>1. PICK r \in order[x] : \E amount \in {1, r.price.total - r.refunded} :
           /\ r.captures > 0 /\ 0 < amount /\ r.refunded + amount <= r.price.total
           /\ order' = [order EXCEPT ![x] = {[r EXCEPT !.refunded = @ + amount]}]
    BY <1>4 DEF RefundSettles
  <2>2. PICK amount \in {1, r.price.total - r.refunded} :
           /\ r.captures > 0 /\ 0 < amount /\ r.refunded + amount <= r.price.total
           /\ order' = [order EXCEPT ![x] = {[r EXCEPT !.refunded = @ + amount]}]
    BY <2>1
  <2> PICK q : q = [r EXCEPT !.refunded = @ + amount]
    OBVIOUS
  <2>3. SameOrder(r, q) /\ q.captures = r.captures /\ q.status = r.status /\ q.refunded = r.refunded + amount
    BY <1>t DEF SameOrder, OrderFields
  <2>4. q.swept => r.swept
    BY <1>t DEF OrderFields
  <2>5. order' = [order EXCEPT ![x] = {q}] /\ UNCHANGED <<offer, discount, cart, token, crossed>>
    BY <1>4, <2>2 DEF RefundSettles
  <2>6. Untaken(x, r, q)
    BY <2>2, <2>3, <2>4, <2>5 DEF Untaken
  <2> QED
    BY <2>6
<1> QED
  BY <1>1, <1>2, <1>3, <1>4

(* Rows are records of their tables, whatever a step writes.                *)
LEMMA TypesKept == StoreTypes /\ [Next]_storeVars => StoreTypes'
<1> SUFFICES ASSUME StoreTypes, [Next]_storeVars PROVE StoreTypes'
  OBVIOUS
<1>1. ASSUME UNCHANGED <<order, cart, token>> PROVE StoreTypes'
  BY <1>1 DEF StoreTypes
<1>2. ASSUME NEW t \in Tokens, CreateInviteToken(t) PROVE StoreTypes'
  <2>1. PICK o \in Offers, bound \in Learners \cup {None}, expires \in {1, None} :
           token' = [token EXCEPT ![t] = NewToken(o, bound, expires)]
    BY <1>2 DEF CreateInviteToken
  <2>2. NewToken(o, bound, expires) \subseteq TokenRecords
    BY DEF NewToken, TokenRecords
  <2> QED
    BY <1>2, <2>1, <2>2 DEF CreateInviteToken, StoreTypes
<1>3. ASSUME NEW x \in Orders, NEW S, cart' = [cart EXCEPT ![x] = S],
             \A c \in S : DOMAIN c = CartFields, UNCHANGED <<order, token>>
      PROVE  StoreTypes'
  BY <1>3 DEF StoreTypes
<1>4. ASSUME NEW x \in Orders, NEW q, order' = [order EXCEPT ![x] = {q}], DOMAIN q = OrderFields,
             UNCHANGED <<cart, token>>
      PROVE  StoreTypes'
  BY <1>4 DEF StoreTypes
<1>5. ASSUME NEW x \in Orders, NEW u \in Learners, NEW o \in Offers, NEW n, NEW t, ReadOffer(x, u, o, n, t)
      PROVE  StoreTypes'
  <2>1. PICK c : DOMAIN c = CartFields /\ cart' = [cart EXCEPT ![x] = {c}] /\ UNCHANGED <<order, token>>
    BY <1>5, Reads
  <2> QED
    BY <1>3, <2>1
<1>6. ASSUME NEW x \in Orders, AdmitBuyer(x) \/ PriceOrder(x) PROVE StoreTypes'
  <2>1. PICK d, S : /\ cart' = [cart EXCEPT ![x] = S] /\ S \subseteq {d} /\ DOMAIN d = CartFields
                    /\ UNCHANGED <<order, token>>
    <3>1. CASE AdmitBuyer(x)
      BY <3>1, Admitting DEF SameCart
    <3>2. CASE PriceOrder(x)
      BY <3>2, Pricing DEF SameCart
    <3> QED
      BY <1>6, <3>1, <3>2
  <2> QED
    BY <1>3, <2>1
<1>7. ASSUME NEW x \in Orders, CommitOrder(x) PROVE StoreTypes'
  <2>1. /\ DOMAIN cart' = Orders
        /\ \A y \in Orders : \A c \in cart'[y] : DOMAIN c = CartFields
    BY <1>7 DEF CommitOrder, StoreTypes
  <2>2. /\ DOMAIN order' = Orders
        /\ \A y \in Orders : \A r \in order'[y] : DOMAIN r = OrderFields
    <3>1. \A c, status : DOMAIN NewOrder(c, status) = OrderFields
      BY DEF NewOrder, OrderFields
    <3> QED
      BY <1>7, <3>1 DEF CommitOrder, CommitFree, CommitPaid, RollBack, StoreTypes
  <2>3. token' \in [Tokens -> SUBSET TokenRecords]
    <3>1. ASSUME NEW t, MarkUsed(t, x) PROVE token' \in [Tokens -> SUBSET TokenRecords]
      <4>1. \A k \in TokenRecords : [k EXCEPT !.used = x] \in TokenRecords
        BY DEF TokenRecords
      <4> QED
        BY <3>1, <4>1 DEF MarkUsed, StoreTypes
    <3> QED
      BY <1>7, <3>1 DEF CommitOrder, CommitFree, CommitPaid, RollBack, StoreTypes
  <2> QED
    BY <2>1, <2>2, <2>3 DEF StoreTypes
<1>8. ASSUME NEW x \in Orders, Captured(x) PROVE StoreTypes'
  <2>1. PICK r, q : order' = [order EXCEPT ![x] = {q}] /\ SameOrder(r, q) /\ UNCHANGED <<cart, token>>
    BY <1>8, Capturing
  <2> QED
    BY <1>4, <2>1 DEF SameOrder
<1>9. ASSUME NEW x \in Orders, Failed(x) \/ SweepFinds(x) \/ Abandon(x) \/ RefundSettles(x) PROVE StoreTypes'
  <2>1. PICK r, q : r \in order[x] /\ Untaken(x, r, q)
    BY <1>9, Touches
  <2> QED
    BY <1>4, <2>1 DEF Untaken, SameOrder
<1>10. ASSUME \/ \E o \in Offers : CreateOffer(o) \/ UpdateOffer(o) \/ ArchiveOffer(o)
              \/ \E o \in Offers, n \in Names : CreateDiscountCode(o, n) \/ DeactivateDiscountCode(o, n)
              \/ Tick
              \/ UNCHANGED storeVars
       PROVE  StoreTypes'
  BY <1>1, <1>10 DEF CreateOffer, UpdateOffer, ArchiveOffer, CreateDiscountCode, DeactivateDiscountCode, Tick, storeVars
<1> QED
  BY <1>2, <1>5, <1>6, <1>7, <1>8, <1>9, <1>10 DEF Next

(* The statements of a checkout, payments, refunds and new tokens.          *)
LEMMA StoreSteps == StoreInv /\ [Next]_storeVars => StoreInv'
<1> SUFFICES ASSUME StoreInv, [Next]_storeVars PROVE StoreInv'
  OBVIOUS
<1>t. StoreTypes /\ StoreTypes'
  BY TypesKept DEF StoreInv
<1>1. ASSUME NEW t \in Tokens, CreateInviteToken(t) PROVE StoreInv'
  <2>1. PICK k : /\ token[t] = {} /\ token' = [token EXCEPT ![t] = {k}]
                 /\ UNCHANGED <<cart, order, crossed>>
    BY <1>1 DEF CreateInviteToken, NewToken
  <2>2. token'[t] = {k} /\ \A s \in Tokens \ {t} : token'[s] = token[s]
    BY <2>1 DEF StoreInv, StoreTypes
  <2>3. OneTokenRow'
    BY <2>2 DEF StoreInv, OneTokenRow
  <2>4. HeldIsUsed'
    BY <2>1, <2>2 DEF StoreInv, HeldIsUsed
  <2>5. CartsSound'
    BY <2>1, <2>2 DEF StoreInv, CartsSound
  <2>6. AdmittedCrossed' /\ TokenAdmitsOne'
    BY <2>1 DEF StoreInv, AdmittedCrossed, TokenAdmitsOne, Crossed
  <2> QED
    BY <1>t, <2>3, <2>4, <2>5, <2>6 DEF StoreInv
<1>2. ASSUME NEW x \in Orders, NEW u \in Learners, NEW o \in Offers, NEW n, NEW t \in Tokens \cup {None},
             ReadOffer(x, u, o, n, t)
      PROVE  StoreInv'
  <2>1. PICK row, c :
            /\ row \in offer[o]
            /\ cart' = [cart EXCEPT ![x] = {c}]
            /\ c.offer = o /\ c.row = row /\ c.token = t /\ c.step = "read"
            /\ row.status # "archived" /\ (t # None => row.type = "invitation_only")
            /\ UNCHANGED <<order, token, crossed>>
    BY <1>2, Reads
  <2>2. cart'[x] = {c} /\ \A y \in Orders \ {x} : cart'[y] = cart[y]
    BY <1>t, <2>1 DEF StoreTypes
  <2>3. \A d \in cart'[x] :
           /\ \A e \in cart'[x] : e = d
           /\ d.offer \in Offers /\ d.row.status # "archived"
           /\ d.token # None => d.token \in Tokens /\ d.row.type = "invitation_only"
           /\ d.token # None /\ d.step # "read" =>
                TokenRows(d.token) # {} \/ \E e \in cart[x] : e.token = d.token /\ e.step # "read"
    BY <2>1, <2>2
  <2> QED
    BY <1>t, <2>1, <2>2, <2>3, CartKept
<1>3. ASSUME NEW x \in Orders, AdmitBuyer(x) \/ PriceOrder(x) PROVE StoreInv'
  <2>1. PICK c, d, S :
           /\ c \in cart[x]
           /\ cart' = [cart EXCEPT ![x] = S] /\ S \subseteq {d} /\ SameCart(c, d)
           /\ S # {} => Admits(c) \/ c.step # "read"
           /\ UNCHANGED <<order, token, crossed>>
    <3>1. CASE AdmitBuyer(x)
      BY <1>t, <3>1, Admitting
    <3>2. CASE PriceOrder(x)
      BY <1>t, <3>2, Pricing
    <3> QED
      BY <1>3, <3>1, <3>2
  <2>2. /\ c.offer \in Offers /\ c.row.status # "archived"
        /\ c.token # None => c.token \in Tokens /\ c.row.type = "invitation_only"
    BY <2>1 DEF StoreInv, CartsSound
  <2>3. cart'[x] = S /\ \A y \in Orders \ {x} : cart'[y] = cart[y]
    BY <1>t, <2>1 DEF StoreTypes
  <2>4. Admits(c) /\ c.token # None => TokenRows(c.token) # {}
    BY <2>2 DEF Admits, resolveInviteToken
  <2>5. \A k \in cart'[x] :
           /\ \A e \in cart'[x] : e = k
           /\ k.offer \in Offers /\ k.row.status # "archived"
           /\ k.token # None => k.token \in Tokens /\ k.row.type = "invitation_only"
           /\ k.token # None /\ k.step # "read" =>
                TokenRows(k.token) # {} \/ \E e \in cart[x] : e.token = k.token /\ e.step # "read"
    BY <2>1, <2>2, <2>3, <2>4 DEF SameCart
  <2> QED
    BY <1>t, <2>1, <2>3, <2>5, CartKept
<1>4. ASSUME NEW x \in Orders, CommitOrder(x) PROVE StoreInv'
  <2>1. PICK c \in cart[x] : c.step = "priced" /\ (CommitFree(x, c) \/ CommitPaid(x, c) \/ RollBack)
    BY <1>4 DEF CommitOrder
  <2>2. cart' = [cart EXCEPT ![x] = {}]
    BY <1>4 DEF CommitOrder
  <2>3. \A status : NewOrder(c, status).token = c.token
    BY DEF NewOrder
  <2>4. CASE CommitFree(x, c)
    <3>1. c.token = None
      BY <2>4 DEF StoreInv, CartsSound, CommitFree
    <3>2. Crossing("token", x, Rivals(c)) = {}
      BY <3>1 DEF Crossing, Rivals
    <3>3. MarkUsed(c.token, x) /\ crossed' = crossed \cup Crossing("token", x, Rivals(c))
      BY <2>4, <3>1, <3>2 DEF CommitFree, MarkUsed
    <3>4. order' = [order EXCEPT ![x] = {NewOrder(c, "succeeded")}]
      BY <2>4 DEF CommitFree
    <3> QED
      BY <1>t, <2>1, <2>2, <2>3, <3>3, <3>4, OrderedKept
  <2>5. CASE CommitPaid(x, c)
    <3>1. /\ order' = [order EXCEPT ![x] = {NewOrder(c, "payment_initiated")}] /\ MarkUsed(c.token, x)
          /\ crossed' = crossed \cup Crossing("token", x, Rivals(c))
      BY <2>5 DEF CommitPaid
    <3> QED
      BY <1>t, <2>1, <2>2, <2>3, <3>1, OrderedKept
  <2>6. CASE RollBack
    <3>1. cart'[x] = {} /\ \A y \in Orders \ {x} : cart'[y] = cart[y]
      BY <1>t, <2>2 DEF StoreTypes
    <3> QED
      BY <1>t, <2>6, <3>1, CartKept DEF RollBack
  <2> QED
    BY <2>1, <2>4, <2>5, <2>6
<1>5. ASSUME NEW x \in Orders, NEW r \in order[x], NEW q, SameOrder(r, q),
             order' = [order EXCEPT ![x] = {q}], UNCHANGED <<cart, token>>, crossed \subseteq crossed'
      PROVE  StoreInv'
  <2>1. \A y \in Orders : \A p \in order'[y] : \E o \in order[y] : p.token = o.token
    BY <1>5, <1>t DEF StoreTypes, SameOrder
  <2> QED
    BY <1>t, <1>5, <2>1, OrdersKept
<1>6. ASSUME NEW x \in Orders, Captured(x) PROVE StoreInv'
  <2>1. PICK r, q :
                                 /\ r \in order[x]
                                 /\ order' = [order EXCEPT ![x] = {q}] /\ SameOrder(r, q)
                                /\ UNCHANGED <<cart, token>> /\ crossed \subseteq crossed'
    BY <1>t, <1>6, Capturing
  <2> QED
    BY <1>5, <2>1
<1>7. ASSUME NEW x \in Orders, Failed(x) \/ SweepFinds(x) \/ Abandon(x) \/ RefundSettles(x) PROVE StoreInv'
  <2>1. PICK r, q : r \in order[x] /\ Untaken(x, r, q)
    BY <1>t, <1>7, Touches
  <2> QED
    BY <1>5, <2>1 DEF Untaken
<1>8. ASSUME \/ \E o \in Offers : CreateOffer(o) \/ UpdateOffer(o) \/ ArchiveOffer(o)
             \/ \E o \in Offers, n \in Names : CreateDiscountCode(o, n) \/ DeactivateDiscountCode(o, n)
             \/ Tick
             \/ UNCHANGED storeVars
      PROVE  StoreInv'
  <2>1. UNCHANGED <<cart, order, token, crossed>>
    BY <1>8 DEF CreateOffer, UpdateOffer, ArchiveOffer, CreateDiscountCode, DeactivateDiscountCode, Tick, storeVars
  <2> QED
    BY <1>t, <2>1, OrdersKept
<1> QED
  BY <1>1, <1>2, <1>3, <1>4, <1>6, <1>7, <1>8 DEF Next

(* Two orders hold one invite token only if their checkouts crossed: for    *)
(* any number of tokens, checkouts and learners.                            *)
THEOREM TokensAdmit == Spec => []TokenAdmitsOne
BY StoreStarts, StoreSteps, PTL DEF Spec, StoreInv

-----------------------------------------------------------------------------
(* Seats                                                                    *)

(* An offer is one row, whose terms fit its type; only a cohort has seats,  *)
(* and an offer stays of its type, so neither a checkout nor an order with  *)
(* seats is ever of a free offer. What succeeded uncaptured is free.        *)
OffersFit ==
  /\ DOMAIN offer = Offers
  /\ \A o \in Offers : \A row \in offer[o] :
        /\ DOMAIN row = {"type", "terms", "status"}
        /\ row.terms \in OfferRequests /\ FieldsFit(row.type, row.terms)
        /\ \A other \in offer[o] : other = row

RowsFit ==
  \A x \in Orders :
     /\ \A c \in cart[x] : /\ c.row.terms \in OfferRequests /\ FieldsFit(c.row.type, c.row.terms)
                           /\ \E row \in offer[c.offer] : row.type = c.row.type
     /\ \A r \in order[x] : /\ \A s \in order[x] : s = r
                            /\ cart[x] = {} /\ r.offer \in Offers /\ r.captures \in Nat
                            /\ r.status = "succeeded" /\ r.captures = 0 =>
                                 ~r.swept /\ \E row \in offer[r.offer] : row.type = "free"
                            /\ r.seats # None => /\ r.seats \in Int
                                                 /\ \E row \in offer[r.offer] : row.type = "cohort"

(* What a checkout under way was shown: fewer orders than seats, leaving    *)
(* out those that were paid since and have crossed it.                      *)
Uncrossed(x, o) == {y \in Sold(o) : <<"seat", y, x>> \notin crossed}
Shown(x, o, seats) == seats # None => Cardinality(Uncrossed(x, o)) < seats
SeatsShown ==
  \A x \in Orders :
     /\ \A c \in cart[x] : c.step # "read" => Shown(x, c.offer, c.row.terms.seats)
     /\ \A r \in order[x] : ~Taken(r) => Shown(x, r.offer, r.seats)

GivenFinite == \A o \in Offers : IsFiniteSet(Given(o))

SeatInv == StoreInv /\ OffersFit /\ RowsFit /\ GivenFinite /\ SeatsShown /\ SeatsSoldInTurn

(* Nothing is sold at first.                                                *)
LEMMA SeatsStart == Init => SeatInv
<1> SUFFICES ASSUME Init PROVE SeatInv
  OBVIOUS
<1>1. \A o \in Offers : Given(o) = {}
  BY DEF Init, Given
<1>2. GivenFinite
  BY <1>1, FS_EmptySet DEF GivenFinite
<1>3. OffersFit /\ RowsFit /\ SeatsShown
  BY DEF Init, OffersFit, RowsFit, SeatsShown
<1>4. SeatsSoldInTurn
  BY <1>1 DEF SeatsSoldInTurn
<1> QED
  BY <1>2, <1>3, <1>4, StoreStarts DEF SeatInv

(* Only a cohort has seats.                                                 *)
LEMMA OnlyCohortsSeat ==
  ASSUME NEW type, NEW r \in OfferRequests, FieldsFit(type, r), r.seats # None
  PROVE  type = "cohort" /\ r.seats \in Int
BY StorefrontAssumption DEF FieldsFit, ForACohort

(* What is sold is given.                                                   *)
LEMMA SoldIsGiven ==
  ASSUME NEW o
  PROVE  Sold(o) \subseteq Given(o)
BY DEF Sold, Given, Taken

(* More pairs that crossed leave fewer orders to count.                     *)
LEMMA ShownStays ==
  ASSUME GivenFinite, NEW x, NEW o \in Offers, NEW seats, seats # None => seats \in Int,
         Shown(x, o, seats), Uncrossed(x, o)' \subseteq Uncrossed(x, o)
  PROVE  seats # None => Cardinality(Uncrossed(x, o)') < seats
<1> SUFFICES ASSUME seats # None PROVE Cardinality(Uncrossed(x, o)') < seats
  OBVIOUS
<1> DEFINE U == Uncrossed(x, o)
           V == Uncrossed(x, o)'
<1>1. IsFiniteSet(U)
  BY SoldIsGiven, FS_Subset DEF GivenFinite, Uncrossed
<1>2. V \subseteq U /\ Cardinality(U) < seats /\ seats \in Int
  BY DEF Shown
<1> HIDE DEF U, V
<1>3. IsFiniteSet(V) /\ Cardinality(V) <= Cardinality(U) /\ Cardinality(U) \in Nat /\ Cardinality(V) \in Nat
  BY <1>1, <1>2, FS_Subset, FS_CardinalityType
<1>4. Cardinality(V) < seats
  BY <1>2, <1>3
<1> QED
  BY <1>4 DEF V

(* Offers are created and edited with terms that fit, and stay of a type.   *)
LEMMA OffersStayFit ==
  ASSUME OffersFit, [Next]_storeVars
  PROVE  /\ OffersFit'
         /\ \A o \in Offers : \A row \in offer[o] : \E new \in offer'[o] : new.type = row.type
<1> USE DEF OffersFit
<1> DEFINE Good(S) == \A row \in S : /\ DOMAIN row = {"type", "terms", "status"}
                                     /\ row.terms \in OfferRequests /\ FieldsFit(row.type, row.terms)
                                     /\ \A other \in S : other = row
           Goal == /\ OffersFit'
                   /\ \A o \in Offers : \A row \in offer[o] : \E new \in offer'[o] : new.type = row.type
<1>1. ASSUME NEW o \in Offers, NEW S, offer' = [offer EXCEPT ![o] = S], Good(S),
             \A row \in offer[o] : \E new \in S : new.type = row.type
      PROVE  Goal
  <2>1. DOMAIN offer' = Offers /\ \A p \in Offers : offer'[p] = IF p = o THEN S ELSE offer[p]
    BY <1>1
  <2> HIDE <1>1
  <2>2. \A p \in Offers : Good(offer'[p])
    BY <1>1, <2>1
  <2>3. \A p \in Offers : \A row \in offer[p] : \E new \in offer'[p] : new.type = row.type
    BY <1>1, <2>1
  <2> QED
    BY <2>1, <2>2, <2>3
<1>2. ASSUME NEW o \in Offers, CreateOffer(o) PROVE Goal
  <2>1. PICK r \in OfferRequests : /\ FieldsFit(r.type, r) /\ offer[o] = {}
                                   /\ offer' = [offer EXCEPT ![o] = NewOffer(r)]
    BY <1>2 DEF CreateOffer
  <2>2. Good(NewOffer(r))
    BY <2>1 DEF NewOffer
  <2>3. \A row \in offer[o] : \E new \in NewOffer(r) : new.type = row.type
    BY <2>1
  <2> QED
    BY <1>1, <2>1, <2>2, <2>3
<1>3. ASSUME NEW o \in Offers, UpdateOffer(o) PROVE Goal
  <2>1. PICK was \in offer[o], r \in OfferRequests :
           /\ FieldsFit(was.type, r) /\ Edited(was, r) # {}
           /\ offer' = [offer EXCEPT ![o] = Edited(was, r)]
    BY <1>3 DEF UpdateOffer, offerInCourse
  <2>2. \A row \in Edited(was, r) : /\ DOMAIN row = {"type", "terms", "status"}
                                    /\ row.type = was.type /\ row.terms = r
                                    /\ \A other \in Edited(was, r) : other = row
    BY DEF Edited
  <2>3. \A row \in offer[o] : \E new \in Edited(was, r) : new.type = row.type
    BY <2>1, <2>2
  <2>4. Good(Edited(was, r))
    BY <2>1, <2>2
  <2> QED
    BY <1>1, <2>1, <2>3, <2>4
<1>4. ASSUME NEW o \in Offers, ArchiveOffer(o) PROVE Goal
  <2>1. PICK was \in offer[o] : offer' = [offer EXCEPT ![o] = Archived(was)]
    BY <1>4 DEF ArchiveOffer, offerInCourse
  <2>2. /\ Archived(was) # {}
        /\ \A row \in Archived(was) : /\ DOMAIN row = {"type", "terms", "status"}
                                      /\ row.type = was.type /\ row.terms = was.terms
                                      /\ \A other \in Archived(was) : other = row
    BY DEF Archived
  <2>3. \A row \in offer[o] : \E new \in Archived(was) : new.type = row.type
    BY <2>1, <2>2
  <2>4. Good(Archived(was))
    BY <2>1, <2>2
  <2> QED
    BY <1>1, <2>1, <2>3, <2>4
<1>5. ASSUME UNCHANGED offer PROVE Goal
  BY <1>5
<1>6. CASE UNCHANGED storeVars
  BY <1>5, <1>6 DEF storeVars
<1>7. CASE Next
  BY <1>2, <1>3, <1>4, <1>5, <1>7 DEF Next, CreateDiscountCode, DeactivateDiscountCode, CreateInviteToken,
     ReadOffer, AdmitBuyer, PriceOrder, CommitOrder, Captured, Failed, SweepFinds, Abandon, RefundSettles, Tick
<1> QED
  BY <1>6, <1>7

(* What is read, priced, ordered or settled keeps the terms that were read. *)
LEMMA RowsStayFit ==
  ASSUME SeatInv, [Next]_storeVars
  PROVE  RowsFit'
<1> USE DEF RowsFit
<1> DEFINE CartFits(c, in) == /\ c.row.terms \in OfferRequests /\ FieldsFit(c.row.type, c.row.terms)
                              /\ \E row \in in[c.offer] : row.type = c.row.type
           OrderFits(r, in) == /\ r.offer \in Offers /\ r.captures \in Nat
                               /\ r.status = "succeeded" /\ r.captures = 0 =>
                                    ~r.swept /\ \E row \in in[r.offer] : row.type = "free"
                               /\ r.seats # None => /\ r.seats \in Int
                                                    /\ \E row \in in[r.offer] : row.type = "cohort"
<1>s. OffersFit /\ RowsFit /\ StoreTypes /\ CartsSound
  BY DEF SeatInv, StoreInv
<1>o. \A o \in Offers : \A row \in offer[o] : \E new \in offer'[o] : new.type = row.type
  BY <1>s, OffersStayFit
<1>c. ASSUME NEW c, c.offer \in Offers, CartFits(c, offer) PROVE CartFits(c, offer')
  BY <1>c, <1>o
<1>r. ASSUME NEW r, OrderFits(r, offer) PROVE OrderFits(r, offer')
  BY <1>r, <1>o
<1> DEFINE Kept ==
      /\ \A x \in Orders : \A c \in cart'[x] : c.offer \in Offers /\ CartFits(c, offer)
      /\ \A x \in Orders : \A r \in order'[x] :
            OrderFits(r, offer) /\ cart'[x] = {} /\ \A s \in order'[x] : s = r
<1> SUFFICES Kept
  BY <1>c, <1>r
<1>0. /\ \A x \in Orders : \A c \in cart[x] : c.offer \in Offers /\ CartFits(c, offer)
      /\ \A x \in Orders : \A r \in order[x] :
            OrderFits(r, offer) /\ cart[x] = {} /\ \A s \in order[x] : s = r
  BY <1>s DEF CartsSound
<1> HIDE DEF CartFits, OrderFits, RowsFit
<1>1. ASSUME UNCHANGED <<cart, order>> PROVE Kept
  BY <1>0, <1>1
<1>2. ASSUME NEW x \in Orders, order[x] = {}, NEW c, c.offer \in Offers, CartFits(c, offer), NEW S, S \subseteq {c},
             cart' = [cart EXCEPT ![x] = S], UNCHANGED order
      PROVE  Kept
  <2>1. \A y \in Orders : cart'[y] = IF y = x THEN S ELSE cart[y]
    BY <1>2, <1>s DEF StoreTypes
  <2> QED
    BY <1>0, <1>2, <2>1
<1>3. ASSUME NEW x \in Orders, NEW r, OrderFits(r, offer),
             \A y \in Orders : cart'[y] \subseteq cart[y], cart'[x] = {}, order' = [order EXCEPT ![x] = {r}]
      PROVE  Kept
  <2>1. \A y \in Orders : order'[y] = IF y = x THEN {r} ELSE order[y]
    BY <1>3, <1>s DEF StoreTypes
  <2> QED
    BY <1>0, <1>3, <2>1
<1>4. ASSUME NEW x \in Orders, NEW u \in Learners, NEW o \in Offers, NEW n, NEW t, ReadOffer(x, u, o, n, t)
      PROVE  Kept
  <2>1. PICK row, c :
                                   /\ row \in offer[o]
                                   /\ cart' = [cart EXCEPT ![x] = {c}] /\ c.offer = o /\ c.row = row
                                  /\ order[x] = {} /\ UNCHANGED order
    BY <1>4, Reads
  <2>2. CartFits(c, offer)
    BY <1>s, <2>1 DEF CartFits, OffersFit
  <2> QED
    BY <1>2, <2>1, <2>2
<1>5. ASSUME NEW x \in Orders, AdmitBuyer(x) \/ PriceOrder(x) PROVE Kept
  <2>1. PICK c, d, S :
                                   /\ c \in cart[x]
                                   /\ cart' = [cart EXCEPT ![x] = S] /\ S \subseteq {d} /\ SameCart(c, d)
                                  /\ UNCHANGED order
    <3>1. CASE AdmitBuyer(x)
      BY <1>s, <3>1, Admitting
    <3>2. CASE PriceOrder(x)
      BY <1>s, <3>2, Pricing
    <3> QED
      BY <1>5, <3>1, <3>2
  <2>2. d.offer \in Offers /\ CartFits(d, offer)
    BY <1>0, <2>1 DEF CartFits, SameCart
  <2>3. order[x] = {}
    BY <1>0, <2>1
  <2> QED
    BY <1>2, <2>1, <2>2, <2>3
<1>6. ASSUME NEW x \in Orders, CommitOrder(x) PROVE Kept
  <2>1. PICK c \in cart[x] : CommitFree(x, c) \/ CommitPaid(x, c) \/ RollBack
    BY <1>6 DEF CommitOrder
  <2>2. \A y \in Orders : cart'[y] = IF y = x THEN {} ELSE cart[y]
    BY <1>6, <1>s DEF CommitOrder, StoreTypes
  <2>3. ASSUME NEW status, status = "succeeded" => c.row.type = "free" PROVE OrderFits(NewOrder(c, status), offer)
    <3>1. /\ NewOrder(c, status).offer = c.offer /\ NewOrder(c, status).seats = c.row.terms.seats
          /\ NewOrder(c, status).captures = 0 /\ ~NewOrder(c, status).swept /\ NewOrder(c, status).status = status
      BY DEF NewOrder
    <3>2. c.row.terms.seats # None => c.row.type = "cohort" /\ c.row.terms.seats \in Int
      BY <1>0, OnlyCohortsSeat DEF CartFits
    <3> QED
      BY <1>0, <2>3, <3>1, <3>2 DEF CartFits, OrderFits
  <2>4. CASE RollBack
    BY <1>0, <2>2, <2>4 DEF RollBack
  <2>5. CASE ~RollBack
    <3>1. PICK status : order' = [order EXCEPT ![x] = {NewOrder(c, status)}] /\ (status = "succeeded" => c.row.type = "free")
      BY <2>1, <2>5 DEF CommitFree, CommitPaid
    <3>2. cart'[x] = {} /\ \A y \in Orders : cart'[y] \subseteq cart[y]
      BY <2>2
    <3> QED
      BY <1>3, <2>3, <3>1, <3>2
  <2> QED
    BY <2>4, <2>5
<1>7. ASSUME NEW x \in Orders, NEW r \in order[x], NEW q, SameOrder(r, q), q.captures \in Nat,
             q.status = "succeeded" /\ q.captures = 0 => r.status = "succeeded" /\ r.captures = 0 /\ (q.swept => r.swept),
             order' = [order EXCEPT ![x] = {q}], UNCHANGED cart
      PROVE  Kept
  <2>1. OrderFits(q, offer)
    BY <1>0, <1>7 DEF OrderFits, SameOrder
  <2>2. cart'[x] = {} /\ \A y \in Orders : cart'[y] \subseteq cart[y]
    BY <1>0, <1>7
  <2> QED
    BY <1>3, <1>7, <2>1, <2>2
<1>8. ASSUME NEW x \in Orders, Captured(x) PROVE Kept
  <2>1. PICK r, q :
                                 /\ r \in order[x]
                                 /\ order' = [order EXCEPT ![x] = {q}] /\ SameOrder(r, q)
                                /\ q.captures = r.captures + 1 /\ UNCHANGED cart
    BY <1>s, <1>8, Capturing
  <2>2. q.captures \in Nat \ {0}
    BY <1>0, <2>1 DEF OrderFits
  <2> QED
    BY <1>7, <2>1, <2>2
<1>9. ASSUME NEW x \in Orders, Failed(x) \/ SweepFinds(x) \/ Abandon(x) \/ RefundSettles(x) PROVE Kept
  <2>1. PICK r, q : r \in order[x] /\ Untaken(x, r, q)
    BY <1>s, <1>9, Touches
  <2>2. r.captures \in Nat
    BY <1>0, <2>1 DEF OrderFits
  <2> QED
    BY <1>7, <2>1, <2>2 DEF Untaken
<1>10. CASE UNCHANGED storeVars
  BY <1>1, <1>10 DEF storeVars
<1>11. CASE Next
  BY <1>1, <1>4, <1>5, <1>6, <1>8, <1>9, <1>11 DEF Next, CreateOffer, UpdateOffer, ArchiveOffer,
     CreateDiscountCode, DeactivateDiscountCode, CreateInviteToken, Tick
<1> QED
  BY <1>10, <1>11

(* What neither pays for an order nor is of a free one leaves it taken or   *)
(* not as it was.                                                           *)
LEMMA UntakenStays ==
  ASSUME OffersFit, RowsFit, NEW x \in Orders, NEW r \in order[x], NEW q, Untaken(x, r, q)
  PROVE  Taken(q) <=> Taken(r)
<1>1. r.captures \in Nat /\ q.captures = r.captures
  BY DEF RowsFit, Untaken
<1>2. ASSUME Taken(r) PROVE Taken(q)
  <2>1. CASE r.captures > 0
    BY <1>1, <2>1 DEF Taken
  <2>2. CASE ~(r.captures > 0)
    <3>1. r.status = "succeeded" /\ r.captures = 0
      BY <1>1, <1>2, <2>2 DEF Taken
    <3>2. ~r.swept /\ r.offer \in Offers /\ \E row \in offer[r.offer] : row.type = "free"
      BY <3>1 DEF RowsFit
    <3> QED
      BY <2>2, <3>1, <3>2 DEF Untaken, ToBePaid
  <2> QED
    BY <2>1, <2>2
<1>3. ASSUME Taken(q) PROVE Taken(r)
  BY <1>1, <1>3 DEF Taken, Untaken
<1> QED
  BY <1>2, <1>3

(* An order that was taken, and says what it said, has the seats it had.    *)
LEMMA SameSeats ==
  ASSUME RowsFit, RowsFit', NEW y \in Orders, NEW o, y \in Given(o)',
         \A r \in order'[y] : Taken(r) => \E q \in order[y] : q.offer = r.offer /\ q.seats = r.seats /\ Taken(q)
  PROVE  y \in Given(o) /\ Amount(y)'.seats = Amount(y).seats
<1>1. PICK r \in order'[y] : r.offer = o /\ Taken(r)
  BY DEF Given, Taken
<1>2. PICK q \in order[y] : q.offer = o /\ q.seats = r.seats /\ Taken(q)
  BY <1>1
<1>3. order'[y] = {r} /\ order[y] = {q}
  BY <1>1, <1>2 DEF RowsFit
<1>4. Amount(y)' = r /\ Amount(y) = q
  BY <1>3 DEF Amount
<1> QED
  BY <1>2, <1>4 DEF Given

(* Sets of orders that nothing new was taken of.                            *)
LEMMA InTurnKept ==
  ASSUME SeatInv, RowsFit', crossed \subseteq crossed', NEW o \in Offers, NEW xs \in SUBSET Given(o)',
         \A y \in xs : \A r \in order'[y] : Taken(r) =>
            \E q \in order[y] : q.offer = r.offer /\ q.seats = r.seats /\ Taken(q),
         \A x \in xs : Amount(x)'.seats # None /\ Amount(x)'.seats < Cardinality(xs)
  PROVE  xs = {} \/ Crossed("seat", xs)'
<1>1. \A x \in xs : x \in Given(o) /\ Amount(x)'.seats = Amount(x).seats
  <2> SUFFICES ASSUME NEW x \in xs PROVE x \in Given(o) /\ Amount(x)'.seats = Amount(x).seats
    OBVIOUS
  <2>1. x \in Orders /\ x \in Given(o)'
    BY DEF Given
  <2> QED
    BY <2>1, SameSeats DEF SeatInv
<1>2. xs \in SUBSET Given(o) /\ \A x \in xs : Amount(x).seats # None /\ Amount(x).seats < Cardinality(xs)
  BY <1>1
<1>3. xs = {} \/ Crossed("seat", xs)
  BY <1>2 DEF SeatInv, SeatsSoldInTurn
<1> QED
  BY <1>3 DEF Crossed

(* A step after which less is sold, and nothing more is taken.              *)
LEMMA SeatsKept ==
  ASSUME SeatInv, StoreInv', OffersFit', RowsFit', crossed \subseteq crossed',
         \A y \in Orders : \A r \in order'[y] : Taken(r) =>
            \E q \in order[y] : q.offer = r.offer /\ q.seats = r.seats /\ Taken(q),
         \A y \in Orders : \A r \in order'[y] : r.status = "succeeded" =>
            \E q \in order[y] : q.offer = r.offer /\ q.status = "succeeded",
         \A y \in Orders : \A c \in cart'[y] : c.step # "read" => Shown(y, c.offer, c.row.terms.seats),
         \A y \in Orders : \A r \in order'[y] : ~Taken(r) => Shown(y, r.offer, r.seats)
  PROVE  SeatInv'
<1>s. /\ RowsFit /\ RowsFit' /\ GivenFinite
      /\ \A y \in Orders : \A c \in cart'[y] : c.offer \in Offers
  BY DEF SeatInv, StoreInv, CartsSound
<1>1. \A o : Sold(o)' \subseteq Sold(o) /\ Given(o)' \subseteq Given(o)
  BY DEF Sold, Given, Taken
<1>2. \A y, o : Uncrossed(y, o)' \subseteq Uncrossed(y, o)
  BY <1>1 DEF Uncrossed
<1>3. GivenFinite'
  BY <1>s, <1>1, FS_Subset DEF GivenFinite
<1>4. SeatsShown'
  <2>1. ASSUME NEW y \in Orders, NEW c \in cart'[y], c.step # "read"
        PROVE  Shown(y, c.offer, c.row.terms.seats)'
    <3>1. c.row.terms.seats # None => c.row.terms.seats \in Int
      BY <1>s, OnlyCohortsSeat DEF RowsFit
    <3>2. Shown(y, c.offer, c.row.terms.seats)
      BY <2>1
    <3>3. c.row.terms.seats # None => Cardinality(Uncrossed(y, c.offer)') < c.row.terms.seats
      BY <1>s, <1>2, <3>1, <3>2, ShownStays
    <3> QED
      BY <3>3 DEF Shown
  <2>2. ASSUME NEW y \in Orders, NEW r \in order'[y], ~Taken(r)
        PROVE  Shown(y, r.offer, r.seats)'
    <3>1. r.offer \in Offers /\ (r.seats # None => r.seats \in Int)
      BY <1>s DEF RowsFit
    <3>2. Shown(y, r.offer, r.seats)
      BY <2>2
    <3>3. r.seats # None => Cardinality(Uncrossed(y, r.offer)') < r.seats
      BY <1>s, <1>2, <3>1, <3>2, ShownStays
    <3> QED
      BY <3>3 DEF Shown
  <2> QED
    BY <2>1, <2>2 DEF SeatsShown, Taken
<1>5. SeatsSoldInTurn'
  <2> SUFFICES ASSUME NEW o \in Offers, NEW xs \in SUBSET Given(o)',
                      \A x \in xs : Amount(x)'.seats # None /\ Amount(x)'.seats < Cardinality(xs)
               PROVE  xs = {} \/ Crossed("seat", xs)'
    BY DEF SeatsSoldInTurn
  <2>1. \A y \in xs : y \in Orders
    BY DEF Given
  <2> QED
    BY <1>s, <2>1, InTurnKept
<1> QED
  BY <1>3, <1>4, <1>5 DEF SeatInv

(* A step that sells one order: if it was not taken before, it was shown a  *)
(* seat that the orders which have not crossed it leave; and whoever is     *)
(* under way, or has lost its seat, has been crossed.                       *)
LEMMA OneMoreSold ==
  ASSUME SeatInv, StoreInv', OffersFit', RowsFit', crossed \subseteq crossed',
         NEW x \in Orders, NEW o \in Offers, NEW seats,
         \/ Shown(x, o, seats)
         \/ \E r \in order[x] : r.offer = o /\ r.seats = seats /\ Taken(r),
         \A r \in order'[x] : r.offer = o /\ r.seats = seats /\ r.status = "succeeded",
         \A y \in Orders \ {x} : order'[y] = order[y],
         \A y \in Orders : cart'[y] \subseteq cart[y],
         \A y \in Orders : \A c \in cart'[y] :
            c.step # "read" /\ c.row.terms.seats # None /\ c.offer = o => <<"seat", x, y>> \in crossed',
         \A y \in Orders \ {x} : \A r \in order[y] :
            r.status # "succeeded" /\ r.seats # None /\ r.offer = o => <<"seat", x, y>> \in crossed'
  PROVE  SeatInv'
<1>s. /\ RowsFit /\ RowsFit' /\ GivenFinite /\ SeatsShown
      /\ \A y \in Orders : \A c \in cart'[y] : c.offer \in Offers
  BY DEF SeatInv, StoreInv, CartsSound
<1>1. /\ Sold(o)' \subseteq Sold(o) \cup {x} /\ Given(o)' \subseteq Given(o) \cup {x}
      /\ \A p : p # o => Sold(p)' \subseteq Sold(p) /\ Given(p)' \subseteq Given(p)
  BY DEF Sold, Given, Taken
<1>2. ASSUME NEW y \in Orders, NEW p, p = o => <<"seat", x, y>> \in crossed'
      PROVE  Uncrossed(y, p)' \subseteq Uncrossed(y, p)
  BY <1>1, <1>2 DEF Uncrossed
<1>3. GivenFinite'
  <2> SUFFICES ASSUME NEW p \in Offers PROVE IsFiniteSet(Given(p)')
    BY DEF GivenFinite
  <2>1. IsFiniteSet(Given(p)) /\ IsFiniteSet(Given(p) \cup {x})
    BY <1>s, FS_AddElement DEF GivenFinite
  <2>2. Given(p)' \subseteq Given(p) \cup {x}
    BY <1>1
  <2> QED
    BY <2>1, <2>2, FS_Subset
<1>4. SeatsShown'
  <2>1. ASSUME NEW y \in Orders, NEW c \in cart'[y], c.step # "read"
        PROVE  Shown(y, c.offer, c.row.terms.seats)'
    <3> SUFFICES ASSUME c.row.terms.seats # None
                 PROVE  Cardinality(Uncrossed(y, c.offer)') < c.row.terms.seats
      BY DEF Shown
    <3>1. c.row.terms.seats \in Int
      BY <1>s, OnlyCohortsSeat DEF RowsFit
    <3>2. Shown(y, c.offer, c.row.terms.seats)
      BY <1>s, <2>1 DEF SeatsShown
    <3>3. Uncrossed(y, c.offer)' \subseteq Uncrossed(y, c.offer)
      BY <1>2, <2>1
    <3> QED
      BY <1>s, <3>1, <3>2, <3>3, ShownStays
  <2>2. ASSUME NEW y \in Orders, NEW r \in order'[y], ~Taken(r)
        PROVE  Shown(y, r.offer, r.seats)'
    <3> SUFFICES ASSUME r.seats # None PROVE Cardinality(Uncrossed(y, r.offer)') < r.seats
      BY DEF Shown
    <3>1. r.offer \in Offers /\ r.seats \in Int
      BY <1>s DEF RowsFit
    <3>2. y # x /\ r \in order[y] /\ r.status # "succeeded"
      BY <2>2 DEF Taken
    <3>3. Shown(y, r.offer, r.seats)
      BY <1>s, <2>2, <3>2 DEF SeatsShown
    <3>4. Uncrossed(y, r.offer)' \subseteq Uncrossed(y, r.offer)
      BY <1>2, <3>2
    <3> QED
      BY <1>s, <3>1, <3>3, <3>4, ShownStays
  <2> QED
    BY <2>1, <2>2 DEF SeatsShown, Taken
<1>5. SeatsSoldInTurn'
  <2> SUFFICES ASSUME NEW p \in Offers, NEW xs \in SUBSET Given(p)',
                      \A z \in xs : Amount(z)'.seats # None /\ Amount(z)'.seats < Cardinality(xs),
                      xs # {}, ~Crossed("seat", xs)'
               PROVE  FALSE
    BY DEF SeatsSoldInTurn
  <2>0. \A z \in xs : z \in Orders
    BY DEF Given
  <2>1. CASE x \notin xs \/ \E r \in order[x] : r.offer = o /\ r.seats = seats /\ Taken(r)
    <3>1. \A y \in xs : \A r \in order'[y] : Taken(r) =>
             \E q \in order[y] : q.offer = r.offer /\ q.seats = r.seats /\ Taken(q)
      BY <2>0, <2>1
    <3> QED
      BY <1>s, <3>1, InTurnKept
  <2>2. CASE x \in xs /\ Shown(x, o, seats)
    <3>1. PICK r \in order'[x] : r.offer = p /\ Taken(r)
      BY <2>2 DEF Given, Taken
    <3>2. p = o /\ Amount(x)' = r /\ r.seats = seats
      <4>1. order'[x] = {r}
        BY <1>s DEF RowsFit
      <4> QED
        BY <3>1, <4>1 DEF Amount
    <3>3. seats # None /\ seats \in Int /\ seats < Cardinality(xs)
      BY <1>s, <2>2, <3>2 DEF RowsFit
    <3>4. Cardinality(Uncrossed(x, o)) < seats
      BY <2>2, <3>3 DEF Shown
    <3>5. xs \ {x} \subseteq Uncrossed(x, o)
      <4> SUFFICES ASSUME NEW z \in xs, z # x PROVE z \in Uncrossed(x, o)
        OBVIOUS
      <4>1. PICK q \in order[z] : q.offer = o /\ order[z] = {q} /\ order'[z] = {q}
        BY <1>s, <2>0, <3>2 DEF Given, Taken, RowsFit
      <4>2. Amount(z)' = q /\ q.seats # None
        BY <4>1 DEF Amount
      <4>3. <<"seat", x, z>> \notin crossed' /\ <<"seat", z, x>> \notin crossed
        BY <2>2 DEF Crossed
      <4>4. q.status = "succeeded"
        BY <2>0, <4>1, <4>2, <4>3
      <4> QED
        BY <2>0, <4>1, <4>3, <4>4 DEF Uncrossed, Sold
    <3>6. IsFiniteSet(Uncrossed(x, o)) /\ IsFiniteSet(xs)
      BY <1>s, <1>3, SoldIsGiven, FS_Subset DEF GivenFinite, Uncrossed
    <3>7. /\ Cardinality(xs) \in Nat /\ Cardinality(xs \ {x}) = Cardinality(xs) - 1
          /\ Cardinality(xs \ {x}) <= Cardinality(Uncrossed(x, o))
          /\ Cardinality(Uncrossed(x, o)) \in Nat
      BY <2>2, <3>5, <3>6, FS_Subset, FS_CardinalityType, FS_RemoveElement
    <3> QED
      BY <3>3, <3>4, <3>7
  <2> QED
    BY <2>1, <2>2
<1> QED
  BY <1>3, <1>4, <1>5 DEF SeatInv

(* Seats are sold by captures only, which cross whoever is under way.       *)
LEMMA SeatSteps == SeatInv /\ [Next]_storeVars => SeatInv'
<1> SUFFICES ASSUME SeatInv, [Next]_storeVars PROVE SeatInv'
  OBVIOUS
<1>f. StoreInv' /\ OffersFit' /\ RowsFit'
  BY StoreSteps, OffersStayFit, RowsStayFit DEF SeatInv
<1>s. StoreTypes /\ CartsSound /\ OffersFit /\ RowsFit /\ SeatsShown
  BY DEF SeatInv, StoreInv
<1>1. ASSUME UNCHANGED <<cart, order, crossed>> PROVE SeatInv'
  <2>1. /\ \A y \in Orders : \A c \in cart'[y] : c.step # "read" => Shown(y, c.offer, c.row.terms.seats)
        /\ \A y \in Orders : \A r \in order'[y] : ~Taken(r) => Shown(y, r.offer, r.seats)
    BY <1>s, <1>1 DEF SeatsShown
  <2> QED
    BY <1>1, <1>f, <2>1, SeatsKept
<1>2. ASSUME NEW x \in Orders, NEW S, cart' = [cart EXCEPT ![x] = S], UNCHANGED <<order, crossed>>,
             \A c \in S : c.step # "read" => Shown(x, c.offer, c.row.terms.seats)
      PROVE  SeatInv'
  <2>0. \A y \in Orders : cart'[y] = IF y = x THEN S ELSE cart[y]
    BY <1>s, <1>2 DEF StoreTypes
  <2>1. /\ \A y \in Orders : \A c \in cart'[y] : c.step # "read" => Shown(y, c.offer, c.row.terms.seats)
        /\ \A y \in Orders : \A r \in order'[y] : ~Taken(r) => Shown(y, r.offer, r.seats)
    BY <1>s, <1>2, <2>0 DEF SeatsShown
  <2>2. UNCHANGED order /\ crossed \subseteq crossed'
    BY <1>2
  <2> QED
    BY <1>f, <2>1, <2>2, SeatsKept
<1>3. ASSUME NEW x \in Orders, NEW u \in Learners, NEW o \in Offers, NEW n, NEW t, ReadOffer(x, u, o, n, t)
      PROVE  SeatInv'
  <2>1. PICK c : cart' = [cart EXCEPT ![x] = {c}] /\ c.step = "read" /\ UNCHANGED <<order, crossed>>
    BY <1>3, Reads
  <2>2. PICK S : S = {c} /\ cart' = [cart EXCEPT ![x] = S]
    BY <2>1
  <2>3. \A d \in S : d.step # "read" => Shown(x, d.offer, d.row.terms.seats)
    BY <2>1, <2>2
  <2> QED
    BY <1>2, <2>1, <2>2, <2>3
<1>4. ASSUME NEW x \in Orders, AdmitBuyer(x) PROVE SeatInv'
  <2>1. PICK c, d, S :
            /\ c \in cart[x]
            /\ cart' = [cart EXCEPT ![x] = S] /\ S = (IF Admits(c) THEN {d} ELSE {})
            /\ SameCart(c, d) /\ UNCHANGED <<order, crossed>>
    BY <1>s, <1>4, Admitting
  <2>2. ASSUME Admits(c) PROVE Shown(x, c.offer, c.row.terms.seats)
    <3> SUFFICES ASSUME c.row.terms.seats # None PROVE Cardinality(Uncrossed(x, c.offer)) < c.row.terms.seats
      BY DEF Shown
    <3>1. c.row.type = "cohort" /\ c.row.terms.seats \in Int /\ c.offer \in Offers
      BY <1>s, <2>1, OnlyCohortsSeat DEF RowsFit, CartsSound
    <3>2. Cardinality(Sold(c.offer)) < c.row.terms.seats
      BY <2>2, <3>1 DEF Admits, cohortOpen
    <3>3. IsFiniteSet(Sold(c.offer)) /\ Uncrossed(x, c.offer) \subseteq Sold(c.offer)
      BY <3>1, SoldIsGiven, FS_Subset DEF SeatInv, GivenFinite, Uncrossed
    <3>4. /\ Cardinality(Uncrossed(x, c.offer)) <= Cardinality(Sold(c.offer))
          /\ Cardinality(Uncrossed(x, c.offer)) \in Nat /\ Cardinality(Sold(c.offer)) \in Nat
      BY <3>3, FS_Subset, FS_CardinalityType
    <3> QED
      BY <3>1, <3>2, <3>4
  <2>3. \A e \in S : e.step # "read" => Shown(x, e.offer, e.row.terms.seats)
    BY <2>1, <2>2 DEF SameCart
  <2> QED
    BY <1>2, <2>1, <2>3
<1>p. ASSUME NEW x \in Orders, PriceOrder(x) PROVE SeatInv'
  <2>1. PICK c, d, S :
            /\ c \in cart[x]
            /\ cart' = [cart EXCEPT ![x] = S] /\ S \subseteq {d} /\ c.step # "read"
            /\ SameCart(c, d) /\ UNCHANGED <<order, crossed>>
    BY <1>s, <1>p, Pricing
  <2>2. Shown(x, c.offer, c.row.terms.seats)
    BY <1>s, <2>1 DEF SeatsShown
  <2>3. \A e \in S : e.step # "read" => Shown(x, e.offer, e.row.terms.seats)
    BY <2>1, <2>2 DEF SameCart
  <2> QED
    BY <1>2, <2>1, <2>3
<1>5. ASSUME NEW x \in Orders, CommitOrder(x) PROVE SeatInv'
  <2>1. PICK c \in cart[x] : c.step = "priced" /\ (CommitFree(x, c) \/ CommitPaid(x, c) \/ RollBack)
    BY <1>5 DEF CommitOrder
  <2>2. cart' = [cart EXCEPT ![x] = {}] /\ \A y \in Orders : cart'[y] = IF y = x THEN {} ELSE cart[y]
    BY <1>5, <1>s DEF CommitOrder, StoreTypes
  <2>o. order[x] = {}
    BY <1>s DEF RowsFit
  <2>3. CASE CommitFree(x, c)
    <3> PICK q : q = NewOrder(c, "succeeded")
      OBVIOUS
    <3>1. order' = [order EXCEPT ![x] = {q}] /\ crossed' = crossed
      BY <2>3 DEF CommitFree
    <3>2. order'[x] = {q} /\ \A y \in Orders \ {x} : order'[y] = order[y]
      BY <1>s, <3>1 DEF StoreTypes
    <3>3. q.offer = c.offer /\ q.seats = c.row.terms.seats /\ q.status = "succeeded"
      BY DEF NewOrder
    <3>4. c.row.type = "free" /\ c.offer \in Offers /\ \E row \in offer[c.offer] : row.type = "free"
      BY <1>s, <2>3 DEF CommitFree, CartsSound, RowsFit
    <3>5. c.row.terms.seats = None
      BY <1>s, <3>4, OnlyCohortsSeat DEF RowsFit
    <3>6. \A row \in offer[c.offer] : row.type # "cohort"
      BY <1>s, <3>4 DEF OffersFit
    <3>7. ASSUME NEW y \in Orders, NEW d \in cart[y], d.offer = c.offer PROVE d.row.terms.seats = None
      BY <1>s, <3>6, <3>7, OnlyCohortsSeat DEF RowsFit
    <3>8. ASSUME NEW y \in Orders, NEW r \in order[y], r.offer = c.offer PROVE r.seats = None
      BY <1>s, <3>6, <3>8 DEF RowsFit
    <3>9. Shown(x, c.offer, None)
      BY DEF Shown
    <3>10. \A r \in order'[x] : r.offer = c.offer /\ r.seats = None /\ r.status = "succeeded"
      BY <3>2, <3>3, <3>5
    <3>11. \A y \in Orders : \A d \in cart'[y] :
              d.step # "read" /\ d.row.terms.seats # None /\ d.offer = c.offer => <<"seat", x, y>> \in crossed'
      BY <2>2, <3>7
    <3>12. \A y \in Orders \ {x} : \A r \in order[y] :
              r.status # "succeeded" /\ r.seats # None /\ r.offer = c.offer => <<"seat", x, y>> \in crossed'
      BY <3>8
    <3>13. \A y \in Orders : cart'[y] \subseteq cart[y]
      BY <2>2
    <3> QED
      BY <1>f, <3>1, <3>2, <3>4, <3>9, <3>10, <3>11, <3>12, <3>13, OneMoreSold
  <2>4. CASE CommitPaid(x, c)
    <3> PICK q : q = NewOrder(c, "payment_initiated")
      OBVIOUS
    <3>1. order' = [order EXCEPT ![x] = {q}] /\ crossed \subseteq crossed'
      BY <2>4 DEF CommitPaid
    <3>2. order'[x] = {q} /\ \A y \in Orders \ {x} : order'[y] = order[y]
      BY <1>s, <3>1 DEF StoreTypes
    <3>3. q.offer = c.offer /\ q.seats = c.row.terms.seats /\ q.status # "succeeded" /\ ~Taken(q)
      BY DEF NewOrder, Taken
    <3>4. /\ \A y \in Orders : \A r \in order'[y] : Taken(r) =>
               \E p \in order[y] : p.offer = r.offer /\ p.seats = r.seats /\ Taken(p)
          /\ \A y \in Orders : \A r \in order'[y] : r.status = "succeeded" =>
               \E p \in order[y] : p.offer = r.offer /\ p.status = "succeeded"
      BY <3>2, <3>3
    <3>5. \A y \in Orders : \A d \in cart'[y] : d.step # "read" => Shown(y, d.offer, d.row.terms.seats)
      BY <1>s, <2>2 DEF SeatsShown
    <3>6. Shown(x, c.offer, c.row.terms.seats)
      BY <1>s, <2>1 DEF SeatsShown
    <3>7. \A y \in Orders : \A r \in order'[y] : ~Taken(r) => Shown(y, r.offer, r.seats)
      BY <1>s, <3>2, <3>3, <3>6 DEF SeatsShown
    <3> QED
      BY <1>f, <3>1, <3>4, <3>5, <3>7, SeatsKept
  <2>5. CASE RollBack
    <3>1. PICK S : S = {} /\ cart' = [cart EXCEPT ![x] = S]
      BY <2>2
    <3>2. \A d \in S : d.step # "read" => Shown(x, d.offer, d.row.terms.seats)
      BY <3>1
    <3> QED
      BY <1>2, <2>5, <3>1, <3>2 DEF RollBack
  <2> QED
    BY <2>1, <2>3, <2>4, <2>5
<1>6. ASSUME NEW x \in Orders, Captured(x) PROVE SeatInv'
  <2>1. PICK r, q :
            /\ r \in order[x]
            /\ order' = [order EXCEPT ![x] = {q}] /\ SameOrder(r, q) /\ q.status = "succeeded"
            /\ crossed' = crossed \cup Crossing("seat", x, Seating(r.offer))
                                  \cup Crossing("code", x, Discounting(r.offer, r.name))
            /\ UNCHANGED cart
    BY <1>s, <1>6, Capturing
  <2>2. order'[x] = {q} /\ \A y \in Orders \ {x} : order'[y] = order[y]
    BY <1>s, <2>1 DEF StoreTypes
  <2>3. /\ cart[x] = {} /\ r.offer \in Offers
        /\ Shown(x, r.offer, r.seats) \/ \E k \in order[x] : k.offer = r.offer /\ k.seats = r.seats /\ Taken(k)
    BY <1>s, <2>1 DEF SeatsShown, RowsFit
  <2>4. \A p \in order'[x] : p.offer = r.offer /\ p.seats = r.seats /\ p.status = "succeeded"
    BY <2>1, <2>2 DEF SameOrder
  <2>5. ASSUME NEW y \in Orders, y # x, y \in Seating(r.offer) PROVE <<"seat", x, y>> \in crossed'
    BY <2>1, <2>5 DEF Crossing
  <2>6. \A y \in Orders : \A c \in cart'[y] :
           c.step # "read" /\ c.row.terms.seats # None /\ c.offer = r.offer => <<"seat", x, y>> \in crossed'
    BY <2>1, <2>3, <2>5 DEF Seating
  <2>7. \A y \in Orders \ {x} : \A p \in order[y] :
           p.status # "succeeded" /\ p.seats # None /\ p.offer = r.offer => <<"seat", x, y>> \in crossed'
    BY <2>5 DEF Seating
  <2>8. crossed \subseteq crossed' /\ \A y \in Orders : cart'[y] \subseteq cart[y]
    BY <2>1
  <2> QED
    BY <1>f, <2>2, <2>3, <2>4, <2>6, <2>7, <2>8, OneMoreSold
<1>7. ASSUME NEW x \in Orders, Failed(x) \/ SweepFinds(x) \/ Abandon(x) \/ RefundSettles(x) PROVE SeatInv'
  <2>1. PICK r, q : r \in order[x] /\ Untaken(x, r, q)
    BY <1>s, <1>7, Touches
  <2>2. Taken(q) <=> Taken(r)
    BY <1>s, <2>1, UntakenStays
  <2>3. order'[x] = {q} /\ (\A y \in Orders \ {x} : order'[y] = order[y]) /\ UNCHANGED <<cart, crossed>>
    BY <1>s, <2>1 DEF StoreTypes, Untaken
  <2>4. q.offer = r.offer /\ q.seats = r.seats /\ (q.status = "succeeded" => r.status = "succeeded")
    BY <2>1 DEF Untaken, SameOrder
  <2>5. \A y \in Orders : \A p \in order'[y] : Taken(p) =>
            \E k \in order[y] : k.offer = p.offer /\ k.seats = p.seats /\ Taken(k)
    BY <2>1, <2>2, <2>3, <2>4
  <2>6. \A y \in Orders : \A p \in order'[y] : p.status = "succeeded" =>
            \E k \in order[y] : k.offer = p.offer /\ k.status = "succeeded"
    BY <2>1, <2>3, <2>4
  <2>7. \A y \in Orders : \A c \in cart'[y] : c.step # "read" => Shown(y, c.offer, c.row.terms.seats)
    BY <1>s, <2>3 DEF SeatsShown
  <2>8. ~Taken(q) => Shown(x, q.offer, q.seats)
    BY <1>s, <2>1, <2>2, <2>4 DEF SeatsShown
  <2>9. \A y \in Orders : \A p \in order'[y] : ~Taken(p) => Shown(y, p.offer, p.seats)
    BY <1>s, <2>3, <2>8 DEF SeatsShown
  <2> QED
    BY <1>f, <2>3, <2>5, <2>6, <2>7, <2>9, SeatsKept
<1>8. CASE UNCHANGED storeVars
  BY <1>1, <1>8 DEF storeVars
<1>9. CASE Next
  BY <1>1, <1>3, <1>4, <1>p, <1>5, <1>6, <1>7, <1>9 DEF Next, CreateOffer, UpdateOffer, ArchiveOffer,
     CreateDiscountCode, DeactivateDiscountCode, CreateInviteToken, Tick
<1> QED
  BY <1>8, <1>9

(* A cohort takes money for more seats than any of its orders was shown     *)
(* only if one was paid while another, shown a seat, was not: for any       *)
(* number of checkouts and seats, captures and failures in any order, and   *)
(* whatever an edit does to the offer in between.                           *)
THEOREM SeatsInTurn == Spec => []SeatsSoldInTurn
BY SeatsStart, SeatSteps, PTL DEF Spec, SeatInv

-----------------------------------------------------------------------------
(* Money                                                                    *)

(* A price takes no more off than there is, and adds the tax.               *)
Priced(p) ==
  /\ p.subtotal \in Nat /\ p.discount \in 0 .. p.subtotal /\ p.tax \in Nat
  /\ p.total = p.subtotal - p.discount + p.tax

(* A code is one row, redeemed up to its cap.                               *)
CodeFits(d) ==
  /\ DOMAIN d = {"terms", "expires", "used"}
  /\ d.terms \in CodeRequests /\ DiscountFits(d.terms)
  /\ d.used \in Nat /\ (d.terms.cap # None => d.used <= d.terms.cap)
CodesFit ==
  /\ DOMAIN discount = Offers
  /\ \A o \in Offers :
        /\ DOMAIN discount[o] = Names
        /\ \A n \in Names : \A d \in discount[o][n] : CodeFits(d) /\ \A e \in discount[o][n] : e = d

(* What an order owes, and what of it was paid back.                        *)
OwedFits(r) ==
  /\ Priced(r.price)
  /\ r.commission \in 0 .. r.price.subtotal - r.price.discount
  /\ r.refunded \in 0 .. r.price.total
  /\ r.at \in Nat
PricesFit ==
  /\ clock \in Nat
  /\ \A x \in Orders : /\ \A c \in cart[x] : Priced(c.price) /\ c.name \in Names \cup {None} /\ c.at \in Nat
                       /\ \A r \in order[x] : OwedFits(r)

Ordered == {x \in Orders : order[x] # {}}

MoneyInv == SeatInv /\ CodesFit /\ PricesFit /\ IsFiniteSet(Ordered)

(* A share of n is rounded to a natural number, to n at most.               *)
LEMMA PercentRounds ==
  ASSUME NEW n \in Nat, NEW rate \in Nat
  PROVE  Percent(n, rate) \in Nat /\ (rate <= 100 => Percent(n, rate) <= n)
<1>1. n * rate \in Nat /\ (rate <= 100 => n * rate <= n * 100)
  BY SMT
<1> PICK m \in Nat : m = n * rate
  BY <1>1
<1>2. Percent(n, rate) = (2 * m + 100) \div 200
  <2>1. 2 * n * rate = 2 * m
    OBVIOUS
  <2> QED
    BY <2>1 DEF Percent
<1>3. (2 * m + 100) \div 200 \in Nat /\ (m <= n * 100 => (2 * m + 100) \div 200 <= n)
  OBVIOUS
<1> QED
  BY <1>1, <1>2, <1>3

(* The lesser of two numbers.                                               *)
LEMMA MinOfTwo ==
  ASSUME NEW a \in Int, NEW b \in Int
  PROVE  Min({a, b}) = IF a <= b THEN a ELSE b
<1> DEFINE m == IF a <= b THEN a ELSE b
<1>1. m \in {a, b} /\ \A y \in {a, b} : m <= y
  OBVIOUS
<1>2. \A x \in {a, b} : (\A y \in {a, b} : x <= y) => x = m
  OBVIOUS
<1> HIDE DEF m
<1>3. Min({a, b}) \in {a, b} /\ \A y \in {a, b} : Min({a, b}) <= y
  BY <1>1 DEF Min
<1> QED
  BY <1>2, <1>3 DEF m

(* A code takes off at most the subtotal, rounded.                          *)
LEMMA OffFits ==
  ASSUME NEW subtotal \in Nat, NEW codes, \A d \in codes : CodeFits(d), \A d, e \in codes : d = e
  PROVE  Off(subtotal, codes) \in 0 .. subtotal
<1> DEFINE takes(d) == IF d.terms.kind = "percent" THEN Percent(subtotal, d.terms.value) ELSE d.terms.value
           S == {Min({subtotal, takes(d)}) : d \in codes}
<1>1. ASSUME NEW d \in codes PROVE Min({subtotal, takes(d)}) \in 0 .. subtotal
  <2>1. d.terms.value \in Nat /\ takes(d) \in Nat
    <3>1. d.terms.value \in Nat
      BY StorefrontAssumption DEF CodeFits, DiscountFits
    <3>2. Percent(subtotal, d.terms.value) \in Nat
      BY <3>1, PercentRounds
    <3> QED
      BY <3>1, <3>2
  <2> HIDE DEF takes
  <2> QED
    BY <2>1, MinOfTwo
<1>2. Off(subtotal, codes) = SumSet(S)
  BY DEF Off
<1> HIDE DEF takes
<1>3. /\ \A n \in S : n \in Int /\ n \in 0 .. subtotal
      /\ \A n, m \in S : n = m
  <2>1. \A n \in S : n \in 0 .. subtotal
    BY <1>1
  <2>2. ASSUME NEW n \in S, NEW m \in S PROVE n = m
    <3>1. PICK d \in codes : n = Min({subtotal, takes(d)})
      OBVIOUS
    <3>2. PICK e \in codes : m = Min({subtotal, takes(e)})
      OBVIOUS
    <3>3. d = e
      OBVIOUS
    <3> QED
      BY <3>1, <3>2, <3>3
  <2> HIDE DEF S
  <2> QED
    BY <2>1, <2>2
<1> HIDE DEF S
<1>4. S = {} => SumSet(S) = 0
  BY <1>3, SumOfFew
<1>5. \A n \in S : SumSet(S) = n
  BY <1>3, SumOfFew
<1> QED
  BY <1>2, <1>3, <1>4, <1>5

(* Prices of an offer with a code that counts, or without one.              *)
LEMMA PreviewFits ==
  ASSUME NEW row, row.terms \in OfferRequests, NEW codes, \A d \in codes : CodeFits(d), \A d, e \in codes : d = e
  PROVE  Priced(computePricePreview(row, codes))
<1> DEFINE subtotal == row.terms.price
           net == subtotal - Off(subtotal, codes)
           tax == Percent(net, row.terms.tax)
<1>1. subtotal \in Nat /\ row.terms.tax \in Nat
  BY RatesAssumption
<1>2. Off(subtotal, codes) \in 0 .. subtotal
  BY <1>1, OffFits
<1>3. net \in Nat /\ subtotal - net \in 0 .. subtotal /\ subtotal - (subtotal - net) = net
  BY <1>1, <1>2
<1>4. tax \in Nat
  BY <1>1, <1>3, PercentRounds
<1>5. computePricePreview(row, codes) = [subtotal |-> subtotal, discount |-> subtotal - net, tax |-> tax, total |-> net + tax]
  BY DEF computePricePreview
<1> HIDE DEF subtotal, net, tax
<1> QED
  BY <1>1, <1>3, <1>4, <1>5 DEF Priced

(* The codes that count are of a row that fits.                             *)
LEMMA CodesLookedUp ==
  ASSUME CodesFit, NEW o \in Offers, NEW n \in Names \cup {None}
  PROVE  /\ \A d \in lookupValidDiscountCode(o, n) : CodeFits(d)
         /\ \A d, e \in lookupValidDiscountCode(o, n) : d = e
BY DEF CodesFit, lookupValidDiscountCode

(* An order owes a commission of what the course costs.                     *)
LEMMA NewOrderFits ==
  ASSUME NEW c, NEW status, Priced(c.price), c.at \in Nat
  PROVE  OwedFits(NewOrder(c, status))
<1>1. /\ NewOrder(c, status).price = c.price /\ NewOrder(c, status).refunded = 0 /\ NewOrder(c, status).at = c.at
      /\ NewOrder(c, status).commission = Percent(c.price.subtotal - c.price.discount, CommissionPercent)
  BY DEF NewOrder
<1>2. c.price.subtotal - c.price.discount \in Nat /\ c.price.total \in Nat
  BY DEF Priced
<1> PICK net \in Nat : net = c.price.subtotal - c.price.discount
  BY <1>2
<1>r. CommissionPercent \in Nat /\ CommissionPercent <= 100
  BY RatesAssumption
<1>3. /\ Percent(c.price.subtotal - c.price.discount, CommissionPercent) \in Nat
      /\ Percent(c.price.subtotal - c.price.discount, CommissionPercent) <= c.price.subtotal - c.price.discount
  BY <1>r, PercentRounds
<1> QED
  BY <1>1, <1>2, <1>3 DEF OwedFits

(* Nothing is priced at first.                                              *)
LEMMA MoneyStarts == Init => MoneyInv
<1> SUFFICES ASSUME Init PROVE MoneyInv
  OBVIOUS
<1>1. Ordered = {}
  BY DEF Init, Ordered
<1>2. CodesFit /\ PricesFit
  BY DEF Init, CodesFit, PricesFit
<1> QED
  BY <1>1, <1>2, FS_EmptySet, SeatsStart DEF MoneyInv

(* Codes are created unused, closed, and redeemed below their cap.          *)
LEMMA CodesStayFit ==
  ASSUME CodesFit, [Next]_storeVars
  PROVE  CodesFit'
<1> DEFINE Good(S) == \A d \in S : CodeFits(d) /\ \A e \in S : e = d
<1>1. ASSUME NEW o, NEW n, NEW S, o \in Offers /\ n \in Names => Good(S), discount' = [discount EXCEPT ![o][n] = S]
      PROVE  CodesFit'
  <2>1. /\ DOMAIN discount' = Offers
        /\ \A p \in Offers : DOMAIN discount'[p] = Names
        /\ \A p \in Offers, m \in Names : discount'[p][m] = IF p = o /\ m = n THEN S ELSE discount[p][m]
    <3> HIDE DEF Good
    <3> QED
      BY <1>1 DEF CodesFit
  <2>2. \A p \in Offers, m \in Names : Good(discount'[p][m])
    <3>1. \A p \in Offers, m \in Names : Good(discount[p][m])
      BY DEF CodesFit
    <3> HIDE DEF Good
    <3> QED
      BY <1>1, <2>1, <3>1
  <2> QED
    BY <2>1, <2>2 DEF CodesFit
<1>2. ASSUME NEW o \in Offers, NEW n \in Names, CreateDiscountCode(o, n) PROVE CodesFit'
  <2>1. PICK r \in CodeRequests : DiscountFits(r) /\ discount' = [discount EXCEPT ![o][n] = NewCode(r)]
    BY <1>2 DEF CreateDiscountCode
  <2>2. r.cap # None => r.cap \in Int /\ r.cap > 0
    BY <2>1, StorefrontAssumption DEF DiscountFits
  <2>3. \A d \in NewCode(r) : CodeFits(d) /\ \A e \in NewCode(r) : e = d
    BY <2>1, <2>2 DEF NewCode, CodeFits
  <2> QED
    BY <1>1, <2>1, <2>3
<1>3. ASSUME NEW o \in Offers, NEW n \in Names, DeactivateDiscountCode(o, n) PROVE CodesFit'
  <2>1. PICK d \in discount[o][n] : discount' = [discount EXCEPT ![o][n] = Deactivated(d)]
    BY <1>3 DEF DeactivateDiscountCode
  <2>2. CodeFits(d)
    BY DEF CodesFit
  <2>3. \A e \in Deactivated(d) : CodeFits(e) /\ \A k \in Deactivated(d) : k = e
    BY <2>2 DEF Deactivated, CodeFits
  <2> QED
    BY <1>1, <2>1, <2>3
<1>4. ASSUME NEW o, NEW n, IncrementRedemption(o, n) PROVE CodesFit'
  <2> DEFINE S == {[d EXCEPT !.used = @ + 1] : d \in discount[o][n]}
  <2>1. CASE ~(n # None /\ Redeemable(o, n))
    <3>1. discount' = discount
      BY <1>4, <2>1 DEF IncrementRedemption
    <3> QED
      BY <3>1 DEF CodesFit
  <2>2. CASE n # None /\ Redeemable(o, n)
    <3>1. discount' = [discount EXCEPT ![o][n] = S]
      BY <1>4, <2>2 DEF IncrementRedemption
    <3>2. ASSUME o \in Offers, n \in Names PROVE Good(S)
      <4>1. PICK d \in discount[o][n] : d.terms.cap # None => d.used < d.terms.cap
        BY <2>2 DEF Redeemable
      <4>2. CodeFits(d) /\ \A e \in discount[o][n] : e = d
        BY <3>2 DEF CodesFit
      <4>3. d.terms.cap # None => d.terms.cap \in Int
        BY <4>2, StorefrontAssumption DEF CodeFits
      <4>4. CodeFits([d EXCEPT !.used = @ + 1])
        BY <4>1, <4>2, <4>3 DEF CodeFits
      <4> QED
        BY <4>2, <4>4
    <3> HIDE DEF S, Good
    <3> QED
      BY <1>1, <3>1, <3>2
  <2> QED
    BY <2>1, <2>2
<1>5. ASSUME UNCHANGED discount PROVE CodesFit'
  BY <1>5 DEF CodesFit
<1>6. ASSUME NEW x \in Orders, CommitOrder(x) PROVE CodesFit'
  BY <1>4, <1>5, <1>6 DEF CommitOrder, CommitFree, CommitPaid, RollBack
<1>7. ASSUME NEW x \in Orders, Captured(x) PROVE CodesFit'
  BY <1>4, <1>7 DEF Captured
<1>8. CASE UNCHANGED storeVars
  BY <1>5, <1>8 DEF storeVars
<1>9. CASE Next
  BY <1>2, <1>3, <1>5, <1>6, <1>7, <1>9 DEF Next, CreateOffer, UpdateOffer, ArchiveOffer, CreateInviteToken,
     ReadOffer, AdmitBuyer, PriceOrder, Failed, SweepFinds, Abandon, RefundSettles, Tick
<1> QED
  BY <1>8, <1>9

(* Checkouts are priced, orders take the price, refunds stay within it.     *)
LEMMA PricesStayFit ==
  ASSUME MoneyInv, [Next]_storeVars
  PROVE  PricesFit' /\ IsFiniteSet(Ordered')
<1> DEFINE CartFits(c) == Priced(c.price) /\ c.name \in Names \cup {None} /\ c.at \in Nat
           Kept == PricesFit' /\ IsFiniteSet(Ordered')
<1>s. /\ StoreTypes /\ CartsSound /\ OffersFit /\ RowsFit /\ CodesFit /\ IsFiniteSet(Ordered) /\ clock \in Nat
      /\ \A x \in Orders : (\A c \in cart[x] : CartFits(c)) /\ (\A r \in order[x] : OwedFits(r))
  BY DEF MoneyInv, SeatInv, StoreInv, PricesFit
<1>c. clock' \in Nat
  <2>1. Tick \/ UNCHANGED clock
    BY Zenon DEF Next, storeVars, CreateOffer, UpdateOffer, ArchiveOffer, CreateDiscountCode, DeactivateDiscountCode,
       CreateInviteToken, ReadOffer, AdmitBuyer, PriceOrder, CommitOrder, Captured, Failed, SweepFinds, Abandon,
       RefundSettles
  <2> QED
    BY <1>s, <2>1 DEF Tick
<1>1. ASSUME NEW x \in Orders, NEW S, \A c \in S : CartFits(c), cart' = [cart EXCEPT ![x] = S], UNCHANGED order
      PROVE  Kept
  <2>1. \A y \in Orders : cart'[y] = IF y = x THEN S ELSE cart[y]
    BY <1>1, <1>s DEF StoreTypes
  <2>2. Ordered' = Ordered
    BY <1>1 DEF Ordered
  <2> QED
    BY <1>s, <1>c, <1>1, <2>1, <2>2 DEF PricesFit
<1>2. ASSUME NEW x \in Orders, NEW q, OwedFits(q), order' = [order EXCEPT ![x] = {q}],
             \A y \in Orders : cart'[y] \subseteq cart[y]
      PROVE  Kept
  <2>1. \A y \in Orders : order'[y] = IF y = x THEN {q} ELSE order[y]
    BY <1>2, <1>s DEF StoreTypes
  <2>2. Ordered' = Ordered \cup {x}
    BY <2>1 DEF Ordered
  <2>3. IsFiniteSet(Ordered')
    BY <1>s, <2>2, FS_AddElement
  <2> QED
    BY <1>s, <1>c, <1>2, <2>1, <2>3 DEF PricesFit
<1>3. ASSUME UNCHANGED <<cart, order>> PROVE Kept
  BY <1>s, <1>c, <1>3 DEF PricesFit, Ordered
<1>4. ASSUME NEW x \in Orders, NEW u \in Learners, NEW o \in Offers, NEW n \in Names \cup {None}, NEW t, ReadOffer(x, u, o, n, t)
      PROVE  Kept
  <2>1. PICK row, c :
           /\ row \in offer[o]
           /\ cart' = [cart EXCEPT ![x] = {c}] /\ c.name = n /\ c.at = clock
           /\ c.price = computePricePreview(row, {}) /\ UNCHANGED order
    BY <1>4, Reads
  <2>2. row.terms \in OfferRequests
    BY <1>s, <2>1 DEF OffersFit
  <2>3. Priced(computePricePreview(row, {}))
    BY <2>2, PreviewFits
  <2>4. PICK S : S = {c} /\ cart' = [cart EXCEPT ![x] = S]
    BY <2>1
  <2>5. \A d \in S : CartFits(d)
    BY <1>s, <2>1, <2>3, <2>4
  <2> QED
    BY <1>1, <2>1, <2>4, <2>5
<1>a. ASSUME NEW x \in Orders, AdmitBuyer(x) PROVE Kept
  <2>1. PICK c, d, S :
           /\ c \in cart[x]
           /\ cart' = [cart EXCEPT ![x] = S] /\ S \subseteq {d} /\ SameCart(c, d) /\ d.price = c.price /\ UNCHANGED order
    BY <1>s, <1>a, Admitting
  <2>2. \A e \in S : CartFits(e)
    BY <1>s, <2>1 DEF SameCart
  <2> QED
    BY <1>1, <2>1, <2>2
<1>5. ASSUME NEW x \in Orders, PriceOrder(x) PROVE Kept
  <2>1. PICK c, d, S :
           /\ c \in cart[x]
           /\ cart' = [cart EXCEPT ![x] = S] /\ S \subseteq {d} /\ SameCart(c, d)
           /\ d.price = computePricePreview(c.row, lookupValidDiscountCode(c.offer, c.name))
           /\ UNCHANGED order
    BY <1>s, <1>5, Pricing
  <2>2. c.offer \in Offers /\ c.name \in Names \cup {None} /\ c.row.terms \in OfferRequests /\ c.at \in Nat
    BY <1>s, <2>1 DEF CartsSound, RowsFit
  <2>3. /\ \A k \in lookupValidDiscountCode(c.offer, c.name) : CodeFits(k)
        /\ \A k, l \in lookupValidDiscountCode(c.offer, c.name) : k = l
    BY <1>s, <2>2, CodesLookedUp
  <2>4. Priced(computePricePreview(c.row, lookupValidDiscountCode(c.offer, c.name)))
    BY <2>2, <2>3, PreviewFits
  <2>5. \A e \in S : CartFits(e)
    BY <2>1, <2>2, <2>4 DEF SameCart
  <2> QED
    BY <1>1, <2>1, <2>5
<1>6. ASSUME NEW x \in Orders, CommitOrder(x) PROVE Kept
  <2>1. PICK c \in cart[x] : CommitFree(x, c) \/ CommitPaid(x, c) \/ RollBack
    BY <1>6 DEF CommitOrder
  <2>2. cart' = [cart EXCEPT ![x] = {}]
    BY <1>6 DEF CommitOrder
  <2>3. CASE RollBack
    <3>1. PICK S : S = {} /\ cart' = [cart EXCEPT ![x] = S]
      BY <2>2
    <3>2. \A e \in S : CartFits(e)
      BY <3>1
    <3> QED
      BY <1>1, <2>3, <3>1, <3>2 DEF RollBack
  <2>4. CASE ~RollBack
    <3>1. PICK status : order' = [order EXCEPT ![x] = {NewOrder(c, status)}]
      BY <2>1, <2>4 DEF CommitFree, CommitPaid
    <3>2. OwedFits(NewOrder(c, status))
      BY <1>s, NewOrderFits
    <3>3. \A y \in Orders : cart'[y] \subseteq cart[y]
      BY <1>s, <2>2 DEF StoreTypes
    <3> QED
      BY <1>2, <3>1, <3>2, <3>3
  <2> QED
    BY <2>3, <2>4
<1>7. ASSUME NEW x \in Orders, NEW r \in order[x], NEW q, SameOrder(r, q), q.refunded \in 0 .. r.price.total,
             order' = [order EXCEPT ![x] = {q}], UNCHANGED cart
      PROVE  Kept
  <2>1. OwedFits(q)
    BY <1>s, <1>7 DEF OwedFits, SameOrder
  <2>2. \A y \in Orders : cart'[y] \subseteq cart[y]
    BY <1>7
  <2> QED
    BY <1>2, <1>7, <2>1, <2>2
<1>8. ASSUME NEW x \in Orders, Captured(x) \/ Failed(x) \/ SweepFinds(x) \/ Abandon(x) \/ RefundSettles(x) PROVE Kept
  <2>1. CASE Captured(x)
    <3>1. PICK r, q :
             r \in order[x] /\ order' = [order EXCEPT ![x] = {q}] /\ SameOrder(r, q) /\ q.refunded = r.refunded /\ UNCHANGED cart
      BY <1>s, <2>1, Capturing
    <3>2. q.refunded \in 0 .. r.price.total
      BY <1>s, <3>1 DEF OwedFits
    <3> QED
      BY <1>7, <3>1, <3>2
  <2>2. CASE ~Captured(x)
    <3>1. PICK r, q : r \in order[x] /\ Untaken(x, r, q)
      BY <1>s, <1>8, <2>2, Touches
    <3>2. r.price.total \in Int /\ r.refunded \in 0 .. r.price.total
      BY <1>s, <3>1 DEF OwedFits, Priced
    <3>3. q.refunded \in 0 .. r.price.total
      BY <3>1, <3>2 DEF Untaken
    <3> QED
      BY <1>7, <3>1, <3>3 DEF Untaken
  <2> QED
    BY <2>1, <2>2
<1>9. CASE UNCHANGED storeVars
  BY <1>3, <1>9 DEF storeVars
<1>10. CASE Next
  BY <1>3, <1>4, <1>a, <1>5, <1>6, <1>8, <1>10 DEF Next, CreateOffer, UpdateOffer, ArchiveOffer,
     CreateDiscountCode, DeactivateDiscountCode, CreateInviteToken, Tick
<1> QED
  BY <1>9, <1>10

LEMMA MoneySteps == MoneyInv /\ [Next]_storeVars => MoneyInv'
BY SeatSteps, CodesStayFit, PricesStayFit DEF MoneyInv

(* Shares of an order of t, of which c is the commission and back is        *)
(* refunded, in parts of 1 / (t * k): what stays of the commission and of   *)
(* the net is within what they were, and all of it while nothing went back. *)
LEMMA ShareBounds ==
  ASSUME NEW t \in Nat, NEW k \in Nat, NEW c \in 0 .. t, NEW back \in 0 .. t
  PROVE  /\ c * (t - back) * k \in 0 .. c * (t * k)
         /\ (t - back) * (t * k) - c * (t - back) * k \in 0 .. (t - c) * (t * k)
         /\ back = 0 => (t - back) * (t * k) - c * (t - back) * k = (t - c) * (t * k)
<1> DEFINE a == t - back
           b == t - c
<1>1. a \in Nat /\ b \in Nat /\ a <= t /\ c \in Nat /\ c + b = t
  OBVIOUS
<1> HIDE DEF a, b
<1> PICK u \in Nat : u = a * k
  BY <1>1, SMT
<1> PICK w \in Nat : w = t * k
  BY SMT
<1>2. u <= w
  BY <1>1, SMT
<1>3. c * a * k = c * u
  <2>1. c * a * k = c * (a * k)
    BY <1>1, SMT
  <2> QED
    BY <2>1
<1>4. c * u \in Nat /\ c * u <= c * w /\ b * u \in Nat /\ b * u <= b * w
  BY <1>1, <1>2, SMT
<1>5. a * w = c * u + b * u
  <2>1. a * w = t * u
    BY <1>1, SMT
  <2>2. (c + b) * u = c * u + b * u
    BY <1>1, SMT
  <2> QED
    BY <1>1, <2>1, <2>2
<1>6. a * w - c * u = b * u
  BY <1>4, <1>5
<1>7. c * a * k \in 0 .. c * (t * k)
  BY <1>1, <1>3, <1>4
<1>8. a * (t * k) - c * a * k = b * u
  BY <1>3, <1>6
<1>9. b * u \in 0 .. b * (t * k)
  BY <1>1, <1>4
<1>10. back = 0 => u = w
  BY DEF a
<1> QED
  BY <1>7, <1>8, <1>9, <1>10 DEF a, b

(* The row of an order that has one.                                        *)
LEMMA AmountIsRow ==
  ASSUME MoneyInv, NEW x \in Ordered
  PROVE  /\ Amount(x) \in order[x] /\ order[x] = {Amount(x)} /\ x \in Orders
         /\ OwedFits(Amount(x)) /\ Amount(x).offer \in Offers
<1>1. x \in Orders /\ order[x] # {}
  BY DEF Ordered
<1>2. Amount(x) \in order[x]
  BY <1>1 DEF Amount
<1>3. \A r \in order[x] : OwedFits(r) /\ r.offer \in Offers /\ \A s \in order[x] : s = r
  BY <1>1 DEF MoneyInv, SeatInv, RowsFit, PricesFit
<1> QED
  BY <1>1, <1>2, <1>3

(* Every total that is not zero divides Whole.                              *)
LEMMA WholeCounts ==
  ASSUME MoneyInv
  PROVE  /\ Whole \in Nat /\ Whole > 0
         /\ \A x \in Ordered : Amount(x).price.total > 0 =>
               \E k \in Nat : Whole = Amount(x).price.total * k /\ Whole \div Amount(x).price.total = k
<1> DEFINE totals == {r.price.total : r \in {r \in Rows : r.price.total > 0}}
           total == [x \in Ordered |-> Amount(x).price.total]
           all == {total[x] : x \in Ordered}
<1>1. \A x \in Ordered : /\ total[x] = Amount(x).price.total
                         /\ order[x] = {Amount(x)} /\ x \in Orders /\ Amount(x).price.total \in Nat
  <2> SUFFICES ASSUME NEW x \in Ordered
               PROVE  /\ total[x] = Amount(x).price.total
                      /\ order[x] = {Amount(x)} /\ x \in Orders /\ Amount(x).price.total \in Nat
    OBVIOUS
  <2>1. OwedFits(Amount(x)) /\ order[x] = {Amount(x)} /\ x \in Orders
    BY AmountIsRow
  <2> QED
    BY <2>1 DEF OwedFits, Priced
<1>2. \A r \in Rows : \E x \in Ordered : r = Amount(x)
  <2>1. \A r \in Rows : \E x \in Ordered : r \in order[x]
    BY DEF Rows, Ordered
  <2> QED
    BY <1>1, <2>1
<1>3. \A t \in totals : t \in Nat \ {0} /\ t \in all
  <2> SUFFICES ASSUME NEW r \in Rows, r.price.total > 0
               PROVE  r.price.total \in Nat \ {0} /\ r.price.total \in all
    OBVIOUS
  <2>1. PICK x \in Ordered : r = Amount(x)
    BY <1>2
  <2>2. total[x] = r.price.total /\ r.price.total \in Nat
    BY <1>1, <2>1
  <2> HIDE DEF total
  <2> QED
    BY <2>2
<1>4. \A x \in Ordered : Amount(x).price.total > 0 => Amount(x).price.total \in totals
  <2> SUFFICES ASSUME NEW x \in Ordered, Amount(x).price.total > 0 PROVE Amount(x).price.total \in totals
    OBVIOUS
  <2>1. Amount(x) \in Rows
    BY <1>1 DEF Rows
  <2> QED
    BY <2>1
<1>5. IsFiniteSet(totals)
  <2>1. total \in [Ordered -> all] /\ \A t \in all : \E x \in Ordered : total[x] = t
    OBVIOUS
  <2> HIDE DEF total, all, totals
  <2>2. total \in Surjection(Ordered, all)
    BY <2>1 DEF Surjection
  <2>3. IsFiniteSet(all)
    BY <2>2, FS_Surjection DEF MoneyInv
  <2>4. totals \subseteq all
    BY <1>3
  <2> QED
    BY <2>3, <2>4, FS_Subset
<1>6. Whole = ProductSet(totals)
  BY DEF Whole
<1> HIDE DEF totals, total, all
<1>7. totals \in SUBSET (Nat \ {0})
  BY <1>3
<1>8. Whole \in Nat \ {0} /\ \A t \in totals : \E k \in Nat \ {0} : Whole = t * k
  BY <1>5, <1>6, <1>7, ProductIsMultiple
<1>9. ASSUME NEW t \in Nat \ {0}, NEW k \in Nat PROVE (t * k) \div t = k
  BY SMT
<1>10. ASSUME NEW x \in Ordered, Amount(x).price.total > 0
       PROVE  \E k \in Nat : Whole = Amount(x).price.total * k /\ Whole \div Amount(x).price.total = k
  <2>1. Amount(x).price.total \in totals /\ Amount(x).price.total \in Nat \ {0}
    BY <1>4, <1>7, <1>10
  <2>2. PICK k \in Nat \ {0} : Whole = Amount(x).price.total * k
    BY <1>8, <2>1
  <2> QED
    BY <1>9, <2>1, <2>2
<1> QED
  BY <1>8, <1>10

(* What is left of an order's commission and of the owner's net.            *)
NetOf(x) == (Amount(x).price.total - Amount(x).refunded) * Whole - EffectiveCommission(Amount(x))
DashboardOf(x) == (Amount(x).price.total - Amount(x).commission) * Whole

(* An order's shares are between nothing and the dashboard's, and the       *)
(* dashboard's as long as nothing went back.                                *)
LEMMA OrderShares ==
  ASSUME MoneyInv, NEW x \in Ordered
  PROVE  /\ EffectiveCommission(Amount(x)) \in Nat /\ Amount(x).commission * Whole \in Nat
         /\ EffectiveCommission(Amount(x)) <= Amount(x).commission * Whole
         /\ NetOf(x) \in Nat /\ DashboardOf(x) \in Nat /\ NetOf(x) <= DashboardOf(x)
         /\ Amount(x).refunded * Whole \in Nat
         /\ Amount(x).refunded * Whole = 0 => NetOf(x) = DashboardOf(x)
<1> PICK t : t = Amount(x).price.total
  OBVIOUS
<1> PICK c : c = Amount(x).commission
  OBVIOUS
<1> PICK back : back = Amount(x).refunded
  OBVIOUS
<1>1. t \in Nat /\ c \in 0 .. t /\ back \in 0 .. t
  <2>1. OwedFits(Amount(x))
    BY AmountIsRow
  <2> QED
    BY <2>1 DEF OwedFits, Priced
<1>2. Whole \in Nat /\ Whole > 0
  BY WholeCounts
<1>3. /\ NetOf(x) = (t - back) * Whole - EffectiveCommission(Amount(x))
      /\ DashboardOf(x) = (t - c) * Whole
  BY DEF NetOf, DashboardOf
<1>4. back * Whole \in Nat /\ c * Whole \in Nat /\ (t - c) * Whole \in Nat /\ (back * Whole = 0 => back = 0)
  <2>1. ASSUME NEW n \in Nat PROVE n * Whole \in Nat /\ (n * Whole = 0 => n = 0)
    BY <1>2, SMT
  <2>2. t - c \in Nat /\ c \in Nat /\ back \in Nat
    BY <1>1
  <2> QED
    BY <2>1, <2>2
<1>5. CASE t = 0
  <2>1. c = 0 /\ back = 0
    BY <1>1, <1>5
  <2>2. EffectiveCommission(Amount(x)) = c * Whole
    BY <1>5 DEF EffectiveCommission
  <2>3. 0 * Whole = 0 /\ (0 - 0) * Whole = 0
    BY <1>2
  <2>4. EffectiveCommission(Amount(x)) = 0 /\ NetOf(x) = 0 /\ DashboardOf(x) = 0
    BY <1>3, <1>5, <2>1, <2>2, <2>3
  <2> QED
    BY <1>4, <2>4
<1>6. CASE t > 0
  <2>1. PICK k \in Nat : Whole = t * k /\ Whole \div t = k
    BY <1>6, WholeCounts
  <2>2. EffectiveCommission(Amount(x)) = c * (t - back) * k
    BY <1>6, <2>1 DEF EffectiveCommission
  <2>3. /\ c * (t - back) * k \in 0 .. c * (t * k)
        /\ (t - back) * (t * k) - c * (t - back) * k \in 0 .. (t - c) * (t * k)
        /\ back = 0 => (t - back) * (t * k) - c * (t - back) * k = (t - c) * (t * k)
    BY <1>1, ShareBounds
  <2>4. EffectiveCommission(Amount(x)) \in 0 .. c * Whole
    BY <2>1, <2>2, <2>3
  <2>5. NetOf(x) \in 0 .. DashboardOf(x)
    BY <1>3, <2>1, <2>2, <2>3
  <2>6. back = 0 => NetOf(x) = DashboardOf(x)
    BY <1>3, <2>1, <2>2, <2>3
  <2>7. DashboardOf(x) \in Nat
    BY <1>3, <1>4
  <2> QED
    BY <1>4, <2>4, <2>5, <2>6, <2>7
<1> QED
  BY <1>1, <1>5, <1>6

(* The reports' sums, as totals of functions of the orders.                 *)
LEMMA ReportedTotals ==
  ASSUME NEW S
  PROVE  /\ Summed(S).net = Total([x \in S |-> NetOf(x)], S)
         /\ Summed(S).commission = Total([x \in S |-> EffectiveCommission(Amount(x))], S)
         /\ Summed(S).refunded = Total([x \in S |-> Amount(x).refunded * Whole], S)
<1>1. MapThenSumSet(LAMBDA x : EffectiveCommission(Amount(x)), S) = Total([x \in S |-> EffectiveCommission(Amount(x))], S)
  BY Zenon DEF Total, MapThenSumSet, MapThenFoldSet
<1>2. MapThenSumSet(LAMBDA x : Amount(x).refunded * Whole, S) = Total([x \in S |-> Amount(x).refunded * Whole], S)
  BY Zenon DEF Total, MapThenSumSet, MapThenFoldSet
<1>3. MapThenSumSet(LAMBDA x : (Amount(x).price.total - Amount(x).refunded) * Whole - EffectiveCommission(Amount(x)), S)
        = Total([x \in S |-> NetOf(x)], S)
  BY ZenonT(60) DEF Total, MapThenSumSet, MapThenFoldSet, NetOf
<1> QED
  BY <1>1, <1>2, <1>3 DEF Summed

(* The dashboard's sums, likewise.                                         *)
LEMMA DashboardTotals ==
  ASSUME NEW S
  PROVE  /\ MapThenSumSet(LAMBDA x : (Amount(x).price.total - Amount(x).commission) * Whole, S)
              = Total([x \in S |-> DashboardOf(x)], S)
         /\ MapThenSumSet(LAMBDA x : Amount(x).commission * Whole, S)
              = Total([x \in S |-> Amount(x).commission * Whole], S)
<1>1. MapThenSumSet(LAMBDA x : (Amount(x).price.total - Amount(x).commission) * Whole, S)
        = Total([x \in S |-> DashboardOf(x)], S)
  BY ZenonT(60) DEF Total, MapThenSumSet, MapThenFoldSet, DashboardOf
<1>2. MapThenSumSet(LAMBDA x : Amount(x).commission * Whole, S)
        = Total([x \in S |-> Amount(x).commission * Whole], S)
  BY Zenon DEF Total, MapThenSumSet, MapThenFoldSet
<1> QED
  BY <1>1, <1>2

(* A total is of the values on the set it is over.                          *)
LEMMA TotalOfPart ==
  ASSUME NEW S, NEW f, NEW U \in SUBSET S
  PROVE  Total([x \in S |-> f[x]], U) = Total([x \in U |-> f[x]], U)
BY Zenon DEF Total, MapThenSumSet, MapThenFoldSet

(* What the reports make of a set of orders.                                *)
LEMMA ReportsAddUp ==
  ASSUME MoneyInv, NEW S \in SUBSET Ordered
  PROVE  /\ Summed(S).net \in Nat /\ Summed(S).commission \in Nat
         /\ Summed(S).net <= Total([x \in S |-> DashboardOf(x)], S)
         /\ Summed(S).commission <= Total([x \in S |-> Amount(x).commission * Whole], S)
         /\ Summed(S).refunded = 0 => Summed(S).net = Total([x \in S |-> DashboardOf(x)], S)
<1> DEFINE net == [x \in S |-> NetOf(x)]
           dashboard == [x \in S |-> DashboardOf(x)]
           left == [x \in S |-> EffectiveCommission(Amount(x))]
           owed == [x \in S |-> Amount(x).commission * Whole]
           back == [x \in S |-> Amount(x).refunded * Whole]
<1>1. /\ DOMAIN net = S /\ DOMAIN dashboard = S /\ \A x \in S : net[x] = NetOf(x) /\ dashboard[x] = DashboardOf(x)
      /\ net = [x \in S |-> net[x]] /\ dashboard = [x \in S |-> dashboard[x]]
      /\ \A x \in S : left[x] = EffectiveCommission(Amount(x)) /\ owed[x] = Amount(x).commission * Whole
      /\ \A x \in S : back[x] = Amount(x).refunded * Whole
  OBVIOUS
<1>2. /\ Summed(S).net = Total(net, S) /\ Summed(S).commission = Total(left, S)
      /\ Summed(S).refunded = Total(back, S)
  BY ReportedTotals
<1> HIDE DEF net, dashboard, left, owed, back
<1>3. \A x \in S : /\ left[x] \in Nat /\ owed[x] \in Nat /\ left[x] <= owed[x]
                   /\ net[x] \in Nat /\ dashboard[x] \in Nat /\ net[x] <= dashboard[x]
                   /\ back[x] \in Nat /\ (back[x] = 0 => net[x] = dashboard[x])
  BY <1>1, OrderShares
<1>4. IsFiniteSet(S)
  BY FS_Subset DEF MoneyInv
<1>5. Total(left, S) \in Nat /\ Total(net, S) \in Nat /\ (Total(back, S) = 0 => \A x \in S : back[x] = 0)
  BY <1>3, <1>4, TotalNatural
<1>6. Total(left, S) <= Total(owed, S)
  <2>1. \A x \in S : left[x] \in Int /\ owed[x] \in Int /\ left[x] <= owed[x]
    BY <1>3
  <2> QED
    BY <1>4, <2>1, TotalMonotone
<1>7. Total(net, S) <= Total(dashboard, S)
  <2>1. \A x \in S : net[x] \in Int /\ dashboard[x] \in Int /\ net[x] <= dashboard[x]
    BY <1>3
  <2> QED
    BY <1>4, <2>1, TotalMonotone
<1>8. Total(back, S) = 0 => net = dashboard
  <2> SUFFICES ASSUME Total(back, S) = 0 PROVE net = dashboard
    OBVIOUS
  <2>1. \A x \in S : net[x] = dashboard[x]
    BY <1>3, <1>5
  <2>2. [x \in S |-> net[x]] = [x \in S |-> dashboard[x]]
    BY <2>1
  <2> QED
    BY <1>1, <2>2
<1> QED
  BY <1>2, <1>5, <1>6, <1>7, <1>8 DEF dashboard, owed

(* What is sold in a window is ordered, and owes a part of the commission.  *)
LEMMA SoldOwe ==
  ASSUME MoneyInv, NEW currency, NEW course, NEW from, NEW to
  PROVE  /\ OfCourse(course, SoldIn(currency, from, to)) \in SUBSET Ordered
         /\ CommissionByOrg(currency) \in Nat
         /\ Total([x \in OfCourse(course, SoldIn(currency, from, to)) |-> Amount(x).commission * Whole],
                  OfCourse(course, SoldIn(currency, from, to)))
              <= CommissionByOrg(currency)
<1> DEFINE S == SoldIn(currency, None, None)
           U == OfCourse(course, SoldIn(currency, from, to))
           owed == [x \in S |-> Amount(x).commission * Whole]
<1>1. S \in SUBSET Ordered /\ U \in SUBSET S
  BY DEF SoldIn, Ordered, OfCourse, InWindow
<1>2. CommissionByOrg(currency) = Total(owed, S)
  BY DashboardTotals DEF CommissionByOrg
<1>3. \A x \in S : owed[x] = Amount(x).commission * Whole
  OBVIOUS
<1> HIDE DEF owed, S, U
<1>4. \A x \in S : owed[x] \in Nat
  BY <1>1, <1>3, OrderShares
<1>5. IsFiniteSet(S)
  BY <1>1, FS_Subset DEF MoneyInv
<1>6. Total(owed, S) \in Nat /\ Total(owed, U) <= Total(owed, S)
  BY <1>1, <1>4, <1>5, TotalNatural, TotalOfSubset
<1>7. Total(owed, U) = Total([x \in U |-> Amount(x).commission * Whole], U)
  <2>1. Total([x \in S |-> owed[x]], U) = Total([x \in U |-> owed[x]], U)
    BY <1>1, TotalOfPart
  <2>2. [x \in S |-> owed[x]] = owed
    BY DEF owed
  <2>3. [x \in U |-> owed[x]] = [x \in U |-> Amount(x).commission * Whole]
    BY <1>1, <1>3
  <2> QED
    BY <2>1, <2>2, <2>3
<1> QED
  BY <1>1, <1>2, <1>6, <1>7 DEF S, U

(* A report is bounded by the dashboard's figure of its window.             *)
LEMMA ReportBounds ==
  ASSUME MoneyInv, NEW currency, NEW course, NEW from, NEW to
  PROVE  /\ 0 <= RevenueReport(course, currency, from, to).net
         /\ RevenueReport(course, currency, from, to).net <= RevenueByCourse(course, currency, from, to)
         /\ 0 <= RevenueReport(course, currency, from, to).commission
         /\ RevenueReport(course, currency, from, to).commission <= CommissionByOrg(currency)
         /\ RevenueReport(course, currency, from, to).refunded = 0
              => RevenueReport(course, currency, from, to).net = RevenueByCourse(course, currency, from, to)
<1> PICK S : S = OfCourse(course, SoldIn(currency, from, to))
  OBVIOUS
<1>1. /\ S \in SUBSET Ordered /\ CommissionByOrg(currency) \in Nat
      /\ Total([x \in S |-> Amount(x).commission * Whole], S) <= CommissionByOrg(currency)
  BY SoldOwe
<1>2. RevenueReport(course, currency, from, to) = Summed(S)
  BY DEF RevenueReport
<1>3. RevenueByCourse(course, currency, from, to) = Total([x \in S |-> DashboardOf(x)], S)
  BY DashboardTotals DEF RevenueByCourse
<1>4. /\ Summed(S).net \in Nat /\ Summed(S).commission \in Nat
      /\ Summed(S).net <= Total([x \in S |-> DashboardOf(x)], S)
      /\ Summed(S).commission <= Total([x \in S |-> Amount(x).commission * Whole], S)
      /\ Summed(S).refunded = 0 => Summed(S).net = Total([x \in S |-> DashboardOf(x)], S)
  BY <1>1, ReportsAddUp
<1>5. Total([x \in S |-> Amount(x).commission * Whole], S) \in Int
  <2> DEFINE owed == [x \in S |-> Amount(x).commission * Whole]
  <2>1. \A x \in S : owed[x] = Amount(x).commission * Whole
    OBVIOUS
  <2> HIDE DEF owed
  <2>2. \A x \in S : owed[x] \in Nat
    BY <1>1, <2>1, OrderShares
  <2>3. Total(owed, S) \in Nat
    BY <1>1, <2>2, FS_Subset, TotalNatural DEF MoneyInv
  <2> QED
    BY <2>3 DEF owed
<1> QED
  BY <1>1, <1>2, <1>3, <1>4, <1>5

(* An order is of the one window or of the other, and of both together.     *)
LEMMA WindowsMeet ==
  ASSUME MoneyInv, NEW currency, NEW course,
         NEW from \in Int, NEW mid \in Int, NEW to \in Int, from <= mid, mid <= to
  PROVE  /\ OfCourse(course, SoldIn(currency, from, to)) \in SUBSET Ordered
         /\ OfCourse(course, SoldIn(currency, from, mid)) \in SUBSET OfCourse(course, SoldIn(currency, from, to))
         /\ OfCourse(course, SoldIn(currency, mid, to))
              = OfCourse(course, SoldIn(currency, from, to)) \ OfCourse(course, SoldIn(currency, from, mid))
<1>1. None \notin {from, mid, to}
  BY StorefrontAssumption
<1>2. ASSUME NEW x \in Orders, NEW r \in order[x]
      PROVE  /\ InWindow(r, from, to) <=> InWindow(r, from, mid) \/ InWindow(r, mid, to)
             /\ ~(InWindow(r, from, mid) /\ InWindow(r, mid, to))
  <2>1. r.at \in Nat
    BY DEF MoneyInv, PricesFit, OwedFits
  <2> QED
    BY <1>1, <2>1 DEF InWindow
<1>3. ASSUME NEW x \in Orders, NEW r \in order[x], NEW s \in order[x] PROVE r = s
  BY DEF MoneyInv, SeatInv, RowsFit
<1>4. /\ SoldIn(currency, from, mid) \subseteq SoldIn(currency, from, to)
      /\ SoldIn(currency, mid, to) = SoldIn(currency, from, to) \ SoldIn(currency, from, mid)
  BY <1>2, <1>3 DEF SoldIn
<1>5. SoldIn(currency, from, to) \in SUBSET Ordered
  BY DEF SoldIn, Ordered
<1> QED
  BY <1>4, <1>5 DEF OfCourse

(* The reports of windows that meet make the report of both.                *)
LEMMA ReportsMeet ==
  ASSUME MoneyInv, NEW currency, NEW course,
         NEW from \in Int, NEW mid \in Int, NEW to \in Int, from <= mid, mid <= to
  PROVE  RevenueReport(course, currency, from, mid).net + RevenueReport(course, currency, mid, to).net
           = RevenueReport(course, currency, from, to).net
<1> PICK S : S = OfCourse(course, SoldIn(currency, from, to))
  OBVIOUS
<1> PICK U : U = OfCourse(course, SoldIn(currency, from, mid))
  OBVIOUS
<1>1. S \in SUBSET Ordered /\ U \in SUBSET S /\ OfCourse(course, SoldIn(currency, mid, to)) = S \ U
  BY WindowsMeet
<1>2. /\ RevenueReport(course, currency, from, to) = Summed(S)
      /\ RevenueReport(course, currency, from, mid) = Summed(U)
      /\ RevenueReport(course, currency, mid, to) = Summed(S \ U)
  BY <1>1 DEF RevenueReport
<1> DEFINE net == [x \in S |-> NetOf(x)]
<1>3. \A x \in S : net[x] = NetOf(x)
  OBVIOUS
<1>4. net = [x \in S |-> net[x]]
  OBVIOUS
<1>5. Summed(S).net = Total(net, S)
  BY ReportedTotals
<1> HIDE DEF net
<1>6. ASSUME NEW T \in SUBSET S PROVE Summed(T).net = Total(net, T)
  <2>1. Summed(T).net = Total([x \in T |-> NetOf(x)], T)
    BY ReportedTotals
  <2>2. [x \in T |-> net[x]] = [x \in T |-> NetOf(x)]
    BY <1>3
  <2>3. Total([x \in S |-> net[x]], T) = Total([x \in T |-> net[x]], T)
    BY TotalOfPart
  <2> QED
    BY <1>4, <2>1, <2>2, <2>3
<1>7. \A x \in S : net[x] \in Int
  BY <1>1, <1>3, OrderShares
<1>8. IsFiniteSet(S)
  BY <1>1, FS_Subset DEF MoneyInv
<1>9. Total(net, S) = Total(net, U) + Total(net, S \ U)
  BY <1>1, <1>7, <1>8, TotalOfParts
<1>10. Summed(U).net = Total(net, U) /\ Summed(S \ U).net = Total(net, S \ U)
  <2>1. U \in SUBSET S /\ S \ U \in SUBSET S
    BY <1>1
  <2> QED
    BY <1>6, <2>1
<1> QED
  BY <1>2, <1>5, <1>9, <1>10

(* The state's prices, codes and orders make the reports add up.            *)
LEMMA SharesFollow == MoneyInv => SharesAddUp
<1> SUFFICES ASSUME MoneyInv PROVE SharesAddUp
  OBVIOUS
<1>1. ASSUME NEW r \in Rows
      PROVE  0 <= r.price.total /\ 0 <= r.commission /\ r.commission <= r.price.subtotal - r.price.discount
  BY DEF MoneyInv, PricesFit, Rows, OwedFits, Priced
<1>2. ASSUME NEW o \in Offers, NEW d \in ListDiscountCodes(o) PROVE d.cap # None => d.redemptions <= d.cap
  BY DEF MoneyInv, CodesFit, CodeFits, ListDiscountCodes
<1>3. ASSUME NEW currency \in Currencies, NEW o \in Offers, NEW from \in 0 .. LastTime + 1, NEW to \in 0 .. LastTime + 1
      PROVE  LET report == RevenueReport(CourseOf[o], currency, from, to)
                 dashboard == RevenueByCourse(CourseOf[o], currency, from, to)
             IN  /\ 0 <= report.net /\ report.net <= dashboard
                 /\ 0 <= report.commission /\ report.commission <= CommissionByOrg(currency)
                 /\ report.refunded = 0 => report.net = dashboard
  BY ReportBounds
<1>4. ASSUME NEW currency \in Currencies, NEW o \in Offers,
             NEW from \in 0 .. LastTime + 1, NEW mid \in 0 .. LastTime + 1, NEW to \in 0 .. LastTime + 1,
             from <= mid, mid <= to
      PROVE  RevenueReport(CourseOf[o], currency, from, mid).net + RevenueReport(CourseOf[o], currency, mid, to).net
               = RevenueReport(CourseOf[o], currency, from, to).net
  <2>1. from \in Int /\ mid \in Int /\ to \in Int
    BY StorefrontAssumption
  <2> QED
    BY <1>4, <2>1, ReportsMeet
<1> QED
  BY <1>1, <1>2, <1>3, <1>4 DEF SharesAddUp

(* Rounding, codes' caps and refunds leave every share within bounds: for   *)
(* any number of orders, prices, rates and codes, no order owes a negative  *)
(* amount, no code is redeemed above its cap, and the owner's report lies   *)
(* between nothing and the dashboard's figure.                              *)
THEOREM SharesAdd == Spec => []SharesAddUp
BY MoneyStarts, MoneySteps, SharesFollow, PTL DEF Spec

-----------------------------------------------------------------------------
(* Codes                                                                    *)

FreeOffer(o) == \E row \in offer[o] : row.type = "free"

(* Whoever is given a discount has found its code, which no one deletes.    *)
CodesKnown ==
  \A x \in Orders :
     /\ \A c \in cart[x] : c.step = "priced" /\ c.name # None => discount[c.offer][c.name] # {}
     /\ \A r \in order[x] : /\ offer[r.offer] # {} /\ r.name \in Names \cup {None}
                            /\ r.name # None => discount[r.offer][r.name] # {}

(* As long as a code can be redeemed it has been for every discount given;  *)
(* always so where orders redeem as they are made.                          *)
CodesCounted ==
  \A o \in Offers, n \in Names : \A d \in discount[o][n] :
     d.terms.cap # None /\ (d.used < d.terms.cap \/ FreeOffer(o)) => Cardinality(GivenFor(o, n)) <= d.used

(* What a checkout under way has found: a code given to fewer orders than   *)
(* its cap, leaving out those that were paid since and have crossed it.     *)
UncrossedFor(x, o, n) == {y \in GivenFor(o, n) : <<"code", y, x>> \notin crossed}
Found(x, o, n) == \A d \in discount[o][n] : d.terms.cap # None => Cardinality(UncrossedFor(x, o, n)) < d.terms.cap
CodesFound ==
  \A x \in Orders :
     /\ \A c \in cart[x] : c.step = "priced" /\ c.name # None /\ c.row.type # "free" => Found(x, c.offer, c.name)
     /\ \A r \in order[x] : ~Taken(r) /\ ~FreeOffer(r.offer) /\ r.name # None => Found(x, r.offer, r.name)

CodeInv == MoneyInv /\ CodesKnown /\ CodesCounted /\ CodesFound /\ CodesInTurn

(* There are no codes at first.                                             *)
LEMMA CodesStart == Init => CodeInv
<1> SUFFICES ASSUME Init PROVE CodeInv
  OBVIOUS
<1>1. CodesKnown /\ CodesCounted /\ CodesFound /\ CodesInTurn
  BY DEF Init, CodesKnown, CodesCounted, CodesFound, CodesInTurn
<1> QED
  BY <1>1, MoneyStarts DEF CodeInv

(* A capped code is redeemed some number of times, and is one row.          *)
LEMMA CappedCode ==
  ASSUME CodesFit, NEW o \in Offers, NEW n \in Names, NEW d \in discount[o][n]
  PROVE  /\ d.used \in Nat /\ \A e \in discount[o][n] : e = d
         /\ d.terms.cap # None => d.terms.cap \in Int /\ d.terms.cap > 0 /\ d.used <= d.terms.cap
<1>1. CodeFits(d) /\ \A e \in discount[o][n] : e = d
  BY DEF CodesFit
<1> QED
  BY <1>1, StorefrontAssumption DEF CodeFits, DiscountFits

(* The given are finitely many.                                             *)
LEMMA GivenForFinite ==
  ASSUME GivenFinite, NEW o \in Offers, NEW n
  PROVE  IsFiniteSet(GivenFor(o, n)) /\ Cardinality(GivenFor(o, n)) \in Nat
<1>1. IsFiniteSet(GivenFor(o, n))
  BY FS_Subset DEF GivenFinite, GivenFor
<1> QED
  BY <1>1, FS_CardinalityType

(* A redemption counts one more where there is room.                        *)
LEMMA Redeemed ==
  ASSUME CodesFit, NEW o \in Offers, NEW n \in Names \cup {None}, IncrementRedemption(o, n),
         NEW p \in Offers, NEW m \in Names
  PROVE  /\ discount[p][m] # {} => discount'[p][m] # {}
         /\ \A e \in discount'[p][m] : \E d \in discount[p][m] :
               /\ e.terms = d.terms
               /\ e.used = IF p = o /\ m = n /\ (d.terms.cap # None => d.used < d.terms.cap) THEN d.used + 1 ELSE d.used
<1>n. None \notin Names
  BY StorefrontAssumption
<1> DEFINE Room(d) == d.terms.cap # None => d.used < d.terms.cap
           more == {[d EXCEPT !.used = @ + 1] : d \in discount[o][n]}
<1>1. CASE n # None /\ Redeemable(o, n)
  <2>1. discount' = [discount EXCEPT ![o][n] = more]
    BY <1>1 DEF IncrementRedemption
  <2>2. PICK d \in discount[o][n] : Room(d)
    BY <1>1 DEF Redeemable
  <2>3. CodeFits(d) /\ \A e \in discount[o][n] : e = d
    BY <1>1 DEF CodesFit
  <2>4. PICK e : e = [d EXCEPT !.used = @ + 1]
    OBVIOUS
  <2>5. more = {e}
    BY <2>3, <2>4
  <2>6. e.terms = d.terms /\ e.used = d.used + 1
    BY <2>3, <2>4 DEF CodeFits
  <2> HIDE DEF more
  <2>7. discount'[p][m] = IF p = o /\ m = n THEN {e} ELSE discount[p][m]
    BY <1>1, <2>1, <2>5 DEF CodesFit
  <2> QED
    BY <2>2, <2>3, <2>6, <2>7
<1>2. CASE ~(n # None /\ Redeemable(o, n))
  <2>1. discount' = discount
    BY <1>2 DEF IncrementRedemption
  <2>2. \A d \in discount[p][m] : ~(p = o /\ m = n /\ Room(d))
    BY <1>2, <1>n DEF Redeemable
  <2> QED
    BY <2>1, <2>2
<1> QED
  BY <1>1, <1>2

(* Codes stay, keep their cap, and are redeemed no fewer times.             *)
CodesGrow ==
  \A o \in Offers, n \in Names :
     /\ discount[o][n] # {} => discount'[o][n] # {}
     /\ \A e \in discount'[o][n] :
           discount[o][n] = {} \/ \E d \in discount[o][n] : d.terms = e.terms /\ d.used <= e.used

LEMMA CodesOnlyGrow ==
  ASSUME MoneyInv, CodesKnown, [Next]_storeVars
  PROVE  CodesGrow
<1>s. /\ CodesFit /\ CartsSound /\ RowsFit
      /\ \A x \in Orders : \A c \in cart[x] : c.name \in Names \cup {None}
  BY DEF MoneyInv, SeatInv, StoreInv, PricesFit
<1>u. \A o \in Offers, n \in Names : \A d \in discount[o][n] : d.used \in Nat /\ CodeFits(d)
  BY <1>s DEF CodesFit, CodeFits
<1>1. ASSUME UNCHANGED discount PROVE CodesGrow
  BY <1>1, <1>u DEF CodesGrow
<1>2. ASSUME NEW o \in Offers, NEW n \in Names \cup {None}, IncrementRedemption(o, n) PROVE CodesGrow
  <2> SUFFICES ASSUME NEW p \in Offers, NEW m \in Names
               PROVE  /\ discount[p][m] # {} => discount'[p][m] # {}
                      /\ \A e \in discount'[p][m] :
                            discount[p][m] = {} \/ \E d \in discount[p][m] : d.terms = e.terms /\ d.used <= e.used
    BY DEF CodesGrow
  <2>1. /\ discount[p][m] # {} => discount'[p][m] # {}
        /\ \A e \in discount'[p][m] : \E d \in discount[p][m] :
              /\ e.terms = d.terms
              /\ e.used = IF p = o /\ m = n /\ (d.terms.cap # None => d.used < d.terms.cap) THEN d.used + 1 ELSE d.used
    BY <1>s, <1>2, Redeemed
  <2> QED
    BY <1>u, <2>1
<1>3. ASSUME NEW o \in Offers, NEW n \in Names, CreateDiscountCode(o, n) PROVE CodesGrow
  <2>1. PICK S : discount[o][n] = {} /\ discount' = [discount EXCEPT ![o][n] = S]
    BY <1>3 DEF CreateDiscountCode
  <2>2. \A p \in Offers, m \in Names : discount'[p][m] = IF p = o /\ m = n THEN S ELSE discount[p][m]
    BY <1>s, <2>1 DEF CodesFit
  <2> QED
    BY <1>u, <2>1, <2>2 DEF CodesGrow
<1>4. ASSUME NEW o \in Offers, NEW n \in Names, DeactivateDiscountCode(o, n) PROVE CodesGrow
  <2>1. PICK d \in discount[o][n] : discount' = [discount EXCEPT ![o][n] = Deactivated(d)]
    BY <1>4 DEF DeactivateDiscountCode
  <2>2. \A p \in Offers, m \in Names : discount'[p][m] = IF p = o /\ m = n THEN Deactivated(d) ELSE discount[p][m]
    BY <1>s, <2>1 DEF CodesFit
  <2>3. Deactivated(d) # {} /\ \A e \in Deactivated(d) : e.terms = d.terms /\ e.used = d.used
    BY <1>u DEF Deactivated, CodeFits
  <2> QED
    BY <1>u, <2>2, <2>3 DEF CodesGrow
<1>5. ASSUME NEW x \in Orders, CommitOrder(x) PROVE CodesGrow
  <2>1. PICK c \in cart[x] : CommitFree(x, c) \/ CommitPaid(x, c) \/ RollBack
    BY <1>5 DEF CommitOrder
  <2>2. c.offer \in Offers /\ c.name \in Names \cup {None}
    BY <1>s DEF CartsSound
  <2>3. IncrementRedemption(c.offer, c.name) \/ UNCHANGED discount
    BY <2>1 DEF CommitFree, CommitPaid, RollBack
  <2> QED
    BY <1>1, <1>2, <2>2, <2>3
<1>6. ASSUME NEW x \in Orders, Captured(x) PROVE CodesGrow
  <2>1. PICK r \in order[x] : IncrementRedemption(r.offer, r.name)
    BY <1>6 DEF Captured
  <2>2. r.offer \in Offers /\ r.name \in Names \cup {None}
    BY <1>s DEF RowsFit, CodesKnown
  <2> QED
    BY <1>2, <2>1, <2>2
<1>7. CASE UNCHANGED storeVars
  BY <1>1, <1>7 DEF storeVars
<1>8. CASE Next
  BY <1>1, <1>3, <1>4, <1>5, <1>6, <1>8 DEF Next, CreateOffer, UpdateOffer, ArchiveOffer, CreateInviteToken,
     ReadOffer, AdmitBuyer, PriceOrder, Failed, SweepFinds, Abandon, RefundSettles, Tick
<1> QED
  BY <1>7, <1>8

(* Offers stay, and stay free or not.                                       *)
OffersStay ==
  \A o \in Offers : offer[o] # {} => offer'[o] # {} /\ (FreeOffer(o)' <=> FreeOffer(o))

LEMMA OffersOnlyStay ==
  ASSUME MoneyInv, [Next]_storeVars
  PROVE  OffersStay
<1>1. /\ OffersFit'
      /\ \A o \in Offers : \A row \in offer[o] : \E new \in offer'[o] : new.type = row.type
  BY OffersStayFit DEF MoneyInv, SeatInv
<1>2. \A o \in Offers : /\ \A row, other \in offer[o] : row = other
                        /\ \A row, other \in offer'[o] : row = other
  BY <1>1 DEF MoneyInv, SeatInv, OffersFit
<1> QED
  BY <1>1, <1>2 DEF OffersStay, FreeOffer

(* Who finds a code to pay less by, or orders by one, leaves it there.      *)
LEMMA CodesStayKnown ==
  ASSUME MoneyInv, CodesKnown, [Next]_storeVars
  PROVE  CodesKnown'
<1>s. /\ StoreTypes /\ CartsSound /\ RowsFit /\ CodesGrow /\ OffersStay
      /\ \A x \in Orders : \A c \in cart[x] : c.name \in Names \cup {None}
  BY CodesOnlyGrow, OffersOnlyStay DEF MoneyInv, SeatInv, StoreInv, PricesFit
<1> DEFINE CartKnown(c) == /\ c.offer \in Offers /\ c.name \in Names \cup {None}
                           /\ c.step = "priced" /\ c.name # None => discount[c.offer][c.name] # {}
           OrderKnown(r) == /\ r.offer \in Offers /\ offer[r.offer] # {} /\ r.name \in Names \cup {None}
                            /\ r.name # None => discount[r.offer][r.name] # {}
<1> SUFFICES \A x \in Orders : /\ \A c \in cart'[x] : CartKnown(c)
                               /\ \A r \in order'[x] : OrderKnown(r)
  BY <1>s DEF CodesKnown, CodesGrow, OffersStay
<1>0. \A x \in Orders : (\A c \in cart[x] : CartKnown(c)) /\ (\A r \in order[x] : OrderKnown(r))
  BY <1>s DEF CodesKnown, CartsSound, RowsFit
<1> DEFINE Kept == \A x \in Orders : (\A c \in cart'[x] : CartKnown(c)) /\ (\A r \in order'[x] : OrderKnown(r))
<1> HIDE DEF CartKnown, OrderKnown
<1>1. ASSUME UNCHANGED <<cart, order>> PROVE Kept
  BY <1>0, <1>1
<1>2. ASSUME NEW x \in Orders, NEW S, \A c \in S : CartKnown(c), cart' = [cart EXCEPT ![x] = S], UNCHANGED order
      PROVE  Kept
  <2>1. \A y \in Orders : cart'[y] = IF y = x THEN S ELSE cart[y]
    BY <1>s, <1>2 DEF StoreTypes
  <2> QED
    BY <1>0, <1>2, <2>1
<1>3. ASSUME NEW x \in Orders, NEW q, OrderKnown(q), order' = [order EXCEPT ![x] = {q}],
             \A y \in Orders : cart'[y] \subseteq cart[y]
      PROVE  Kept
  <2>1. \A y \in Orders : order'[y] = IF y = x THEN {q} ELSE order[y]
    BY <1>s, <1>3 DEF StoreTypes
  <2> QED
    BY <1>0, <1>3, <2>1
<1>4. ASSUME NEW x \in Orders, NEW u \in Learners, NEW o \in Offers, NEW n \in Names \cup {None}, NEW t, ReadOffer(x, u, o, n, t)
      PROVE  Kept
  <2>1. PICK c : cart' = [cart EXCEPT ![x] = {c}] /\ c.offer = o /\ c.name = n /\ c.step = "read" /\ UNCHANGED order
    BY <1>4, Reads
  <2>2. PICK S : S = {c} /\ cart' = [cart EXCEPT ![x] = S]
    BY <2>1
  <2>3. \A d \in S : CartKnown(d)
    BY <2>1, <2>2 DEF CartKnown
  <2> QED
    BY <1>2, <2>1, <2>2, <2>3
<1>5. ASSUME NEW x \in Orders, AdmitBuyer(x) PROVE Kept
  <2>1. PICK c, d, S :
           /\ c \in cart[x] /\ cart' = [cart EXCEPT ![x] = S] /\ S \subseteq {d}
           /\ SameCart(c, d) /\ d.step = "admitted" /\ UNCHANGED order
    BY <1>s, <1>5, Admitting
  <2>2. \A e \in S : CartKnown(e)
    BY <1>0, <2>1 DEF CartKnown, SameCart
  <2> QED
    BY <1>2, <2>1, <2>2
<1>6. ASSUME NEW x \in Orders, PriceOrder(x) PROVE Kept
  <2>1. PICK c, d, S :
           /\ c \in cart[x] /\ cart' = [cart EXCEPT ![x] = S]
           /\ S = (IF c.name = None \/ lookupValidDiscountCode(c.offer, c.name) # {} THEN {d} ELSE {})
           /\ SameCart(c, d) /\ UNCHANGED order
    BY <1>s, <1>6, Pricing
  <2>2. lookupValidDiscountCode(c.offer, c.name) # {} => discount[c.offer][c.name] # {}
    BY DEF lookupValidDiscountCode
  <2>3. \A e \in S : CartKnown(e)
    BY <1>0, <2>1, <2>2 DEF CartKnown, SameCart
  <2> QED
    BY <1>2, <2>1, <2>3
<1>7. ASSUME NEW x \in Orders, CommitOrder(x) PROVE Kept
  <2>1. PICK c \in cart[x] : c.step = "priced" /\ (CommitFree(x, c) \/ CommitPaid(x, c) \/ RollBack)
    BY <1>7 DEF CommitOrder
  <2>2. PICK S : S = {} /\ cart' = [cart EXCEPT ![x] = S]
    BY <1>7 DEF CommitOrder
  <2>3. \A d \in S : CartKnown(d)
    BY <2>2
  <2>4. CASE RollBack
    BY <1>2, <2>2, <2>3, <2>4 DEF RollBack
  <2>5. CASE ~RollBack
    <3>1. PICK q, status : q = NewOrder(c, status) /\ order' = [order EXCEPT ![x] = {q}]
      BY <2>1, <2>5 DEF CommitFree, CommitPaid
    <3>2. q.offer = c.offer /\ q.name = c.name
      BY <3>1 DEF NewOrder
    <3>3. CartKnown(c) /\ offer[c.offer] # {}
      BY <1>s, <1>0 DEF RowsFit
    <3>4. OrderKnown(q)
      BY <2>1, <3>2, <3>3 DEF CartKnown, OrderKnown
    <3>5. \A y \in Orders : cart'[y] \subseteq cart[y]
      BY <1>s, <2>2 DEF StoreTypes
    <3> QED
      BY <1>3, <3>1, <3>4, <3>5
  <2> QED
    BY <2>4, <2>5
<1>8. ASSUME NEW x \in Orders, Captured(x) \/ Failed(x) \/ SweepFinds(x) \/ Abandon(x) \/ RefundSettles(x) PROVE Kept
  <2>1. PICK r, q : r \in order[x] /\ order' = [order EXCEPT ![x] = {q}] /\ SameOrder(r, q) /\ UNCHANGED cart
    <3>1. CASE Captured(x)
      BY <1>s, <3>1, Capturing
    <3>2. CASE ~Captured(x)
      <4>1. PICK r, q : r \in order[x] /\ Untaken(x, r, q)
        BY <1>s, <1>8, <3>2, Touches
      <4> QED
        BY <4>1 DEF Untaken
    <3> QED
      BY <3>1, <3>2
  <2>2. OrderKnown(q)
    BY <1>0, <2>1 DEF OrderKnown, SameOrder
  <2>3. \A y \in Orders : cart'[y] \subseteq cart[y]
    BY <2>1
  <2> QED
    BY <1>3, <2>1, <2>2, <2>3
<1>9. CASE UNCHANGED storeVars
  BY <1>1, <1>9 DEF storeVars
<1>10. CASE Next
  BY <1>1, <1>4, <1>5, <1>6, <1>7, <1>8, <1>10 DEF Next, CreateOffer, UpdateOffer, ArchiveOffer,
     CreateDiscountCode, DeactivateDiscountCode, CreateInviteToken, Tick
<1> QED
  BY <1>9, <1>10

(* Orders that say what they said give what they gave.                      *)
StillGiven(xs) ==
  \A y \in xs : \A r \in order'[y] : Taken(r) /\ r.name \in Names =>
     \E q \in order[y] : q.offer = r.offer /\ q.name = r.name /\ Taken(q)

LEMMA GivenShrinks ==
  ASSUME RowsFit', StillGiven(Orders), NEW o, NEW n \in Names
  PROVE  GivenFor(o, n)' \subseteq GivenFor(o, n)
<1> SUFFICES ASSUME NEW y \in GivenFor(o, n)' PROVE y \in GivenFor(o, n)
  OBVIOUS
<1>1. PICK r \in order'[y] : y \in Orders /\ r.offer = o /\ Taken(r) /\ r.name = n
  <2>1. y \in Orders /\ (\E r \in order'[y] : r.offer = o /\ Taken(r)) /\ \E r \in order'[y] : r.name = n
    BY DEF GivenFor, Given, Taken
  <2> QED
    BY <2>1 DEF RowsFit
<1>2. PICK q \in order[y] : q.offer = o /\ q.name = n /\ Taken(q)
  BY <1>1 DEF StillGiven
<1> QED
  BY <1>1, <1>2 DEF GivenFor, Given

(* A step that takes nothing new of an order with a code.                   *)
LEMMA CodesKept ==
  ASSUME CodeInv, MoneyInv', CodesKnown', CodesGrow, OffersStay, crossed \subseteq crossed', StillGiven(Orders),
         \A y \in Orders : \A c \in cart'[y] :
            c.step = "priced" /\ c.name # None /\ c.row.type # "free" => Found(y, c.offer, c.name),
         \A y \in Orders : \A r \in order'[y] :
            ~Taken(r) /\ ~FreeOffer(r.offer) /\ r.name # None => Found(y, r.offer, r.name)
  PROVE  CodeInv'
<1>s. /\ CodesFit /\ CodesFit' /\ GivenFinite /\ GivenFinite' /\ CodesKnown /\ CodesCounted /\ CodesInTurn /\ RowsFit /\ RowsFit'
      /\ \A y \in Orders : \A c \in cart'[y] : c.offer \in Offers /\ c.name \in Names \cup {None}
      /\ \A y \in Orders : \A r \in order'[y] : r.offer \in Offers /\ r.name \in Names \cup {None}
  <2>1. CodesFit /\ CodesFit' /\ GivenFinite /\ GivenFinite' /\ CodesKnown /\ CodesCounted /\ CodesInTurn /\ RowsFit /\ RowsFit'
    BY DEF CodeInv, MoneyInv, SeatInv
  <2>2. \A y \in Orders : \A c \in cart'[y] : c.offer \in Offers /\ c.name \in Names \cup {None}
    BY DEF MoneyInv, SeatInv, StoreInv, CartsSound, PricesFit
  <2>3. \A y \in Orders : \A r \in order'[y] : r.offer \in Offers /\ r.name \in Names \cup {None}
    BY DEF MoneyInv, SeatInv, RowsFit, CodesKnown
  <2> QED
    BY <2>1, <2>2, <2>3
<1>1. ASSUME NEW o \in Offers, NEW n \in Names
      PROVE  /\ Cardinality(GivenFor(o, n)') <= Cardinality(GivenFor(o, n))
             /\ Cardinality(GivenFor(o, n)') \in Nat /\ Cardinality(GivenFor(o, n)) \in Nat
             /\ discount[o][n] = {} \/ offer[o] = {} => Cardinality(GivenFor(o, n)') = 0
  <2>1. IsFiniteSet(GivenFor(o, n)) /\ GivenFor(o, n)' \subseteq GivenFor(o, n)
    BY <1>s, GivenShrinks, GivenForFinite
  <2>2. ASSUME discount[o][n] = {} \/ offer[o] = {} PROVE GivenFor(o, n) = {}
    <3>1. n # None
      BY StorefrontAssumption
    <3> QED
      BY <1>s, <2>2, <3>1 DEF GivenFor, Given, CodesKnown, RowsFit
  <2>3. Cardinality({}) = 0
    BY FS_EmptySet
  <2>4. discount[o][n] = {} \/ offer[o] = {} => GivenFor(o, n)' = {}
    BY <2>1, <2>2
  <2> QED
    BY <2>1, <2>3, <2>4, FS_Subset, FS_CardinalityType
<1>2. CodesCounted'
  <2> SUFFICES ASSUME NEW o \in Offers, NEW n \in Names, NEW e \in discount'[o][n],
                      e.terms.cap # None, e.used < e.terms.cap \/ FreeOffer(o)'
               PROVE  Cardinality(GivenFor(o, n)') <= e.used
    BY DEF CodesCounted
  <2>e. e.used \in Nat /\ e.terms.cap \in Int
    <3>1. CodeFits(e)
      BY <1>s DEF CodesFit
    <3> QED
      BY <3>1, StorefrontAssumption DEF CodeFits
  <2>1. CASE discount[o][n] = {} \/ offer[o] = {}
    BY <1>1, <2>1, <2>e
  <2>2. CASE discount[o][n] # {} /\ offer[o] # {}
    <3>1. PICK d \in discount[o][n] : d.terms = e.terms /\ d.used <= e.used
      BY <2>2 DEF CodesGrow
    <3>2. FreeOffer(o)' <=> FreeOffer(o)
      BY <2>2 DEF OffersStay
    <3>3. d.used \in Nat
      BY <1>s, CappedCode
    <3>4. d.used < d.terms.cap \/ FreeOffer(o)
      BY <2>e, <3>1, <3>2, <3>3
    <3>5. Cardinality(GivenFor(o, n)) <= d.used
      BY <1>s, <3>1, <3>4 DEF CodesCounted
    <3> QED
      BY <1>1, <2>e, <3>1, <3>3, <3>5
  <2> QED
    BY <2>1, <2>2
<1>3. ASSUME NEW y \in Orders, NEW o \in Offers, NEW n \in Names, Found(y, o, n)
      PROVE  Found(y, o, n)'
  <2> SUFFICES ASSUME NEW e \in discount'[o][n], e.terms.cap # None
               PROVE  Cardinality(UncrossedFor(y, o, n)') < e.terms.cap
    BY DEF Found
  <2>1. e.terms.cap \in Int /\ e.terms.cap > 0
    <3>1. CodeFits(e)
      BY <1>s DEF CodesFit
    <3> QED
      BY <3>1, StorefrontAssumption DEF CodeFits, DiscountFits
  <2>2. /\ UncrossedFor(y, o, n)' \subseteq UncrossedFor(y, o, n)
        /\ UncrossedFor(y, o, n)' \subseteq GivenFor(o, n)' /\ UncrossedFor(y, o, n) \subseteq GivenFor(o, n)
    BY <1>s, GivenShrinks DEF UncrossedFor
  <2>3. IsFiniteSet(GivenFor(o, n)) /\ IsFiniteSet(GivenFor(o, n)')
    <3>1. GivenFor(o, n)' \subseteq GivenFor(o, n) /\ IsFiniteSet(GivenFor(o, n))
      BY <1>s, GivenShrinks, GivenForFinite
    <3> QED
      BY <3>1, FS_Subset
  <2>4. /\ Cardinality(UncrossedFor(y, o, n)') \in Nat /\ Cardinality(UncrossedFor(y, o, n)) \in Nat
        /\ Cardinality(UncrossedFor(y, o, n)') <= Cardinality(UncrossedFor(y, o, n))
        /\ Cardinality(UncrossedFor(y, o, n)') <= Cardinality(GivenFor(o, n)')
    <3>1. IsFiniteSet(UncrossedFor(y, o, n)) /\ IsFiniteSet(UncrossedFor(y, o, n)')
      BY <2>2, <2>3, FS_Subset
    <3> QED
      BY <2>2, <2>3, <3>1, FS_Subset, FS_CardinalityType
  <2>5. CASE discount[o][n] = {}
    BY <1>1, <2>1, <2>4, <2>5
  <2>6. CASE discount[o][n] # {}
    <3>1. PICK d \in discount[o][n] : d.terms = e.terms
      BY <2>6 DEF CodesGrow
    <3>2. Cardinality(UncrossedFor(y, o, n)) < e.terms.cap
      BY <1>3, <3>1 DEF Found
    <3> QED
      BY <2>1, <2>4, <3>2
  <2> QED
    BY <2>5, <2>6
<1>4. CodesFound'
  <2>1. ASSUME NEW y \in Orders, NEW c \in cart'[y], c.step = "priced", c.name # None, c.row.type # "free"
        PROVE  Found(y, c.offer, c.name)'
    <3>1. c.offer \in Offers /\ c.name \in Names /\ Found(y, c.offer, c.name)
      BY <1>s, <2>1
    <3> QED
      BY <1>3, <3>1
  <2>2. ASSUME NEW y \in Orders, NEW r \in order'[y], ~Taken(r), ~FreeOffer(r.offer)', r.name # None
        PROVE  Found(y, r.offer, r.name)'
    <3>1. r.offer \in Offers /\ r.name \in Names
      BY <1>s, <2>2
    <3>2. CASE offer[r.offer] = {}
      <4>1. Found(y, r.offer, r.name)
        BY <2>2, <3>2 DEF FreeOffer
      <4> QED
        BY <1>3, <3>1, <4>1
    <3>3. CASE offer[r.offer] # {}
      <4>1. Found(y, r.offer, r.name)
        BY <2>2, <3>1, <3>3 DEF OffersStay
      <4> QED
        BY <1>3, <3>1, <4>1
    <3> QED
      BY <3>2, <3>3
  <2>3. \A r : Taken(r)' <=> Taken(r)
    BY DEF Taken
  <2> QED
    BY <2>1, <2>2, <2>3 DEF CodesFound
<1>5. CodesInTurn'
  <2> SUFFICES ASSUME NEW o \in Offers, NEW n \in Names, NEW xs \in SUBSET GivenFor(o, n)', NEW e \in discount'[o][n],
                      e.terms.cap # None, e.terms.cap < Cardinality(xs)
               PROVE  Crossed("code", xs)' /\ ~FreeOffer(o)'
    BY DEF CodesInTurn, FreeOffer
  <2>1. discount[o][n] # {} /\ offer[o] # {}
    <3>1. e.terms.cap \in Int /\ e.terms.cap > 0
      <4>1. CodeFits(e)
        BY <1>s DEF CodesFit
      <4> QED
        BY <4>1, StorefrontAssumption DEF CodeFits, DiscountFits
    <3>2. Cardinality(xs) <= Cardinality(GivenFor(o, n)') /\ Cardinality(xs) \in Nat /\ Cardinality(GivenFor(o, n)') \in Nat
      <4>1. GivenFor(o, n)' \subseteq GivenFor(o, n) /\ IsFiniteSet(GivenFor(o, n))
        BY <1>s, GivenShrinks, GivenForFinite
      <4>2. IsFiniteSet(GivenFor(o, n)') /\ IsFiniteSet(xs)
        BY <4>1, FS_Subset
      <4> QED
        BY <4>2, FS_Subset, FS_CardinalityType
    <3> QED
      BY <1>1, <3>1, <3>2
  <2>2. PICK d \in discount[o][n] : d.terms = e.terms
    BY <2>1 DEF CodesGrow
  <2>3. xs \in SUBSET GivenFor(o, n)
    BY <1>s, GivenShrinks
  <2>4. Crossed("code", xs) /\ ~FreeOffer(o)
    BY <1>s, <2>2, <2>3 DEF CodesInTurn, FreeOffer
  <2> QED
    BY <2>1, <2>4 DEF Crossed, OffersStay
<1> QED
  BY <1>2, <1>4, <1>5 DEF CodeInv

(* A step that gives one order its discount: a free one redeems for it;     *)
(* another had found the code, and crosses whoever has and is under way.    *)
LEMMA GivenGrows ==
  ASSUME CodeInv, MoneyInv', CodesKnown', UNCHANGED offer, crossed \subseteq crossed',
         NEW x \in Orders, NEW o \in Offers, NEW n \in Names, IncrementRedemption(o, n),
         \A y \in Orders \ {x} : order'[y] = order[y],
         \A y \in Orders : cart'[y] \subseteq cart[y], cart'[x] = {},
         \A q \in order'[x] : q.offer = o /\ q.name = n /\ q.status = "succeeded",
         FreeOffer(o) => Redeemable(o, n),
         ~FreeOffer(o) => Found(x, o, n),
         \A y \in Orders \ {x} : \A c \in cart[y] :
            ~FreeOffer(o) /\ c.step = "priced" /\ c.offer = o /\ c.name = n => <<"code", x, y>> \in crossed',
         \A y \in Orders \ {x} : \A r \in order[y] :
            ~FreeOffer(o) /\ ~Taken(r) /\ r.offer = o /\ r.name = n => <<"code", x, y>> \in crossed'
  PROVE  CodeInv'
<1>s. /\ CodesFit /\ GivenFinite /\ GivenFinite' /\ CodesKnown /\ CodesCounted /\ CodesFound /\ CodesInTurn
      /\ RowsFit /\ RowsFit' /\ OffersFit
      /\ \A y \in Orders : \A c \in cart[y] : c.offer \in Offers /\ c.name \in Names \cup {None}
      /\ \A y \in Orders : \A r \in order[y] : r.offer \in Offers /\ r.name \in Names \cup {None}
  <2>1. /\ CodesFit /\ GivenFinite /\ GivenFinite' /\ CodesKnown /\ CodesCounted /\ CodesFound /\ CodesInTurn
        /\ RowsFit /\ RowsFit' /\ OffersFit
    BY DEF CodeInv, MoneyInv, SeatInv
  <2>2. \A y \in Orders : \A c \in cart[y] : c.offer \in Offers /\ c.name \in Names \cup {None}
    BY DEF CodeInv, MoneyInv, SeatInv, StoreInv, CartsSound, PricesFit
  <2>3. \A y \in Orders : \A r \in order[y] : r.offer \in Offers /\ r.name \in Names \cup {None}
    BY <2>1 DEF RowsFit, CodesKnown
  <2> QED
    BY <2>1, <2>2, <2>3
<1>f. \A p : FreeOffer(p)' <=> FreeOffer(p)
  BY DEF FreeOffer
<1>t. \A r : Taken(r)' <=> Taken(r)
  BY DEF Taken
<1>1. ASSUME NEW p \in Offers, NEW m \in Names
      PROVE  /\ p = o /\ m = n => GivenFor(p, m)' \subseteq GivenFor(p, m) \cup {x}
             /\ ~(p = o /\ m = n) => GivenFor(p, m)' \subseteq GivenFor(p, m)
  <2> SUFFICES ASSUME NEW y \in GivenFor(p, m)'
               PROVE  y \in GivenFor(p, m) \/ (y = x /\ p = o /\ m = n)
    OBVIOUS
  <2>1. y \in Orders /\ (\E r \in order'[y] : r.offer = p /\ Taken(r)) /\ \E r \in order'[y] : r.name = m
    BY DEF GivenFor, Given, Taken
  <2>2. CASE y = x
    BY <2>1, <2>2
  <2>3. CASE y # x
    <3>1. order'[y] = order[y]
      BY <2>1, <2>3
    <3> QED
      BY <2>1, <3>1 DEF GivenFor, Given
  <2> QED
    BY <2>2, <2>3
<1>2. ASSUME NEW p \in Offers, NEW m \in Names
      PROVE  /\ IsFiniteSet(GivenFor(p, m)')
             /\ Cardinality(GivenFor(p, m)') \in Nat /\ Cardinality(GivenFor(p, m)) \in Nat
             /\ Cardinality(GivenFor(p, m)') <= Cardinality(GivenFor(p, m)) + 1
             /\ ~(p = o /\ m = n) => Cardinality(GivenFor(p, m)') <= Cardinality(GivenFor(p, m))
  <2>1. IsFiniteSet(GivenFor(p, m)) /\ Cardinality(GivenFor(p, m)) \in Nat
    BY <1>s, GivenForFinite
  <2> PICK more : more = GivenFor(p, m) \cup {x}
    OBVIOUS
  <2>2. IsFiniteSet(more) /\ Cardinality(more) \in Nat /\ Cardinality(more) <= Cardinality(GivenFor(p, m)) + 1
    <3>1. /\ IsFiniteSet(more)
          /\ Cardinality(more) = (IF x \in GivenFor(p, m) THEN Cardinality(GivenFor(p, m)) ELSE Cardinality(GivenFor(p, m)) + 1)
      BY <2>1, FS_AddElement
    <3> QED
      BY <2>1, <3>1
  <2>3. GivenFor(p, m)' \subseteq more
    BY <1>1
  <2>4. /\ IsFiniteSet(GivenFor(p, m)') /\ Cardinality(GivenFor(p, m)') \in Nat
        /\ Cardinality(GivenFor(p, m)') <= Cardinality(more)
    BY <2>2, <2>3, FS_Subset, FS_CardinalityType
  <2>5. ~(p = o /\ m = n) => Cardinality(GivenFor(p, m)') <= Cardinality(GivenFor(p, m))
    BY <1>1, <2>1, FS_Subset
  <2> QED
    BY <2>1, <2>2, <2>4, <2>5
<1>3. ASSUME NEW p \in Offers, NEW m \in Names, NEW e \in discount'[p][m]
      PROVE  \E d \in discount[p][m] :
                /\ e.terms = d.terms
                /\ e.used = IF p = o /\ m = n /\ (d.terms.cap # None => d.used < d.terms.cap) THEN d.used + 1 ELSE d.used
  BY <1>s, Redeemed
<1>4. ASSUME FreeOffer(o), NEW d \in discount[o][n] PROVE d.terms.cap # None => d.used < d.terms.cap
  <2>1. PICK k \in discount[o][n] : k.terms.cap # None => k.used < k.terms.cap
    BY <1>4 DEF Redeemable
  <2> QED
    BY <1>s, <2>1, CappedCode
<1>5. CodesCounted'
  <2> SUFFICES ASSUME NEW p \in Offers, NEW m \in Names, NEW e \in discount'[p][m],
                      e.terms.cap # None, e.used < e.terms.cap \/ FreeOffer(p)
               PROVE  Cardinality(GivenFor(p, m)') <= e.used
    BY <1>f DEF CodesCounted
  <2>1. PICK d \in discount[p][m] :
           /\ e.terms = d.terms
           /\ e.used = IF p = o /\ m = n /\ (d.terms.cap # None => d.used < d.terms.cap) THEN d.used + 1 ELSE d.used
    BY <1>3
  <2>2. d.used \in Nat /\ d.terms.cap \in Int
    BY <1>s, <2>1, CappedCode
  <2>3. d.used < d.terms.cap \/ FreeOffer(p) => Cardinality(GivenFor(p, m)) <= d.used
    BY <1>s, <2>1 DEF CodesCounted
  <2>4. CASE p = o /\ m = n
    <3>1. d.used < d.terms.cap
      BY <1>4, <2>1, <2>2, <2>4
    <3> QED
      BY <1>2, <2>1, <2>2, <2>3, <2>4, <3>1
  <2>5. CASE ~(p = o /\ m = n)
    <3>1. e.used = d.used /\ Cardinality(GivenFor(p, m)') <= Cardinality(GivenFor(p, m))
      BY <1>2, <2>1, <2>5
    <3> QED
      BY <1>2, <2>1, <2>2, <2>3, <3>1
  <2> QED
    BY <2>4, <2>5
<1>6. ASSUME NEW y \in Orders, NEW p \in Offers, NEW m \in Names, Found(y, p, m),
             p = o /\ m = n => <<"code", x, y>> \in crossed'
      PROVE  Found(y, p, m)'
  <2> SUFFICES ASSUME NEW e \in discount'[p][m], e.terms.cap # None
               PROVE  Cardinality(UncrossedFor(y, p, m)') < e.terms.cap
    BY DEF Found
  <2>1. PICK d \in discount[p][m] : e.terms = d.terms
    BY <1>3
  <2>2. d.terms.cap \in Int /\ Cardinality(UncrossedFor(y, p, m)) < d.terms.cap
    BY <1>s, <1>6, <2>1, CappedCode DEF Found
  <2>3. UncrossedFor(y, p, m)' \subseteq UncrossedFor(y, p, m) /\ UncrossedFor(y, p, m) \subseteq GivenFor(p, m)
    BY <1>1, <1>6 DEF UncrossedFor
  <2>4. IsFiniteSet(UncrossedFor(y, p, m))
    BY <1>s, <2>3, GivenForFinite, FS_Subset
  <2>5. /\ Cardinality(UncrossedFor(y, p, m)') \in Nat /\ Cardinality(UncrossedFor(y, p, m)) \in Nat
        /\ Cardinality(UncrossedFor(y, p, m)') <= Cardinality(UncrossedFor(y, p, m))
    BY <2>3, <2>4, FS_Subset, FS_CardinalityType
  <2> QED
    BY <2>1, <2>2, <2>5
<1>7. CodesFound'
  <2>1. ASSUME NEW y \in Orders, NEW c \in cart'[y], c.step = "priced", c.name # None, c.row.type # "free"
        PROVE  Found(y, c.offer, c.name)'
    <3>1. y # x /\ c \in cart[y] /\ c.offer \in Offers /\ c.name \in Names
      BY <1>s, <2>1
    <3>2. Found(y, c.offer, c.name)
      BY <1>s, <2>1, <3>1 DEF CodesFound
    <3>3. ~FreeOffer(c.offer)
      <4>1. PICK row \in offer[c.offer] : row.type = c.row.type
        BY <1>s, <3>1 DEF RowsFit
      <4>2. \A other \in offer[c.offer] : other = row
        BY <1>s, <3>1 DEF OffersFit
      <4> QED
        BY <2>1, <4>1, <4>2 DEF FreeOffer
    <3> QED
      BY <1>6, <2>1, <3>1, <3>2, <3>3
  <2>2. ASSUME NEW y \in Orders, NEW r \in order'[y], ~Taken(r), ~FreeOffer(r.offer), r.name # None
        PROVE  Found(y, r.offer, r.name)'
    <3>1. y # x
      BY <2>2 DEF Taken
    <3>2. r \in order[y] /\ r.offer \in Offers /\ r.name \in Names
      BY <1>s, <2>2, <3>1
    <3>3. Found(y, r.offer, r.name)
      BY <1>s, <2>2, <3>2 DEF CodesFound
    <3> QED
      BY <1>6, <2>2, <3>1, <3>2, <3>3
  <2> QED
    BY <1>f, <1>t, <2>1, <2>2 DEF CodesFound
<1>8. CodesInTurn'
  <2> SUFFICES ASSUME NEW p \in Offers, NEW m \in Names, NEW xs \in SUBSET GivenFor(p, m)', NEW e \in discount'[p][m],
                      e.terms.cap # None, e.terms.cap < Cardinality(xs)
               PROVE  Crossed("code", xs)' /\ ~FreeOffer(p)
    BY <1>f DEF CodesInTurn, FreeOffer
  <2>1. PICK d \in discount[p][m] :
           /\ e.terms = d.terms
           /\ e.used = IF p = o /\ m = n /\ (d.terms.cap # None => d.used < d.terms.cap) THEN d.used + 1 ELSE d.used
    BY <1>3
  <2>2. d.used \in Nat /\ d.terms.cap \in Int /\ d.used <= d.terms.cap
    BY <1>s, <2>1, CappedCode
  <2>3. /\ IsFiniteSet(xs) /\ Cardinality(xs) \in Nat /\ Cardinality(xs) <= Cardinality(GivenFor(p, m)')
        /\ Cardinality(GivenFor(p, m)') \in Nat
    BY <1>2, FS_Subset, FS_CardinalityType
  <2>4. CASE xs \subseteq GivenFor(p, m)
    <3>1. Crossed("code", xs) /\ ~FreeOffer(p)
      BY <1>s, <2>1, <2>4 DEF CodesInTurn, FreeOffer
    <3> QED
      BY <3>1 DEF Crossed
  <2>5. CASE ~(xs \subseteq GivenFor(p, m))
    <3>1. p = o /\ m = n /\ x \in xs /\ xs \ {x} \subseteq GivenFor(p, m)
      BY <1>1, <2>5
    <3>2. ~FreeOffer(o)
      <4> SUFFICES ASSUME FreeOffer(o) PROVE FALSE
        OBVIOUS
      <4>1. d.used < d.terms.cap /\ Cardinality(GivenFor(o, n)) <= d.used
        BY <1>s, <1>4, <2>1, <3>1 DEF CodesCounted
      <4> QED
        BY <1>2, <2>1, <2>2, <2>3, <3>1, <4>1
    <3>3. ASSUME ~Crossed("code", xs)' PROVE FALSE
      <4>1. Cardinality(UncrossedFor(x, o, n)) < d.terms.cap
        BY <2>1, <3>1, <3>2 DEF Found
      <4>2. xs \ {x} \subseteq UncrossedFor(x, o, n) /\ UncrossedFor(x, o, n) \subseteq GivenFor(o, n)
        BY <3>1, <3>3 DEF UncrossedFor, Crossed
      <4>3. IsFiniteSet(UncrossedFor(x, o, n))
        BY <1>s, <4>2, GivenForFinite, FS_Subset
      <4>4. /\ Cardinality(xs \ {x}) = Cardinality(xs) - 1
            /\ Cardinality(xs \ {x}) <= Cardinality(UncrossedFor(x, o, n))
            /\ Cardinality(UncrossedFor(x, o, n)) \in Nat
        BY <2>3, <3>1, <4>2, <4>3, FS_Subset, FS_CardinalityType, FS_RemoveElement
      <4> QED
        BY <2>1, <2>2, <2>3, <4>1, <4>4
    <3> QED
      BY <3>1, <3>2, <3>3
  <2> QED
    BY <2>4, <2>5
<1> QED
  BY <1>5, <1>7, <1>8 DEF CodeInv

(* A code is found below its cap, given by captures that cross whoever has  *)
(* found it, and by free orders, which redeem at once.                      *)
LEMMA CodeSteps == CodeInv /\ [Next]_storeVars => CodeInv'
<1> SUFFICES ASSUME CodeInv, [Next]_storeVars PROVE CodeInv'
  OBVIOUS
<1>f. MoneyInv' /\ CodesKnown' /\ CodesGrow /\ OffersStay
  BY MoneySteps, CodesStayKnown, CodesOnlyGrow, OffersOnlyStay DEF CodeInv
<1>s. /\ StoreTypes /\ CartsSound /\ OffersFit /\ RowsFit /\ CodesFit /\ GivenFinite
      /\ CodesKnown /\ CodesCounted /\ CodesFound
      /\ \A x \in Orders : \A c \in cart[x] : c.name \in Names \cup {None}
  BY DEF CodeInv, MoneyInv, SeatInv, StoreInv, PricesFit
<1>n. None \notin Names
  BY StorefrontAssumption
<1>1. ASSUME UNCHANGED <<cart, order, crossed>> PROVE CodeInv'
  <2>1. /\ \A y \in Orders : \A c \in cart'[y] :
              c.step = "priced" /\ c.name # None /\ c.row.type # "free" => Found(y, c.offer, c.name)
        /\ \A y \in Orders : \A r \in order'[y] :
              ~Taken(r) /\ ~FreeOffer(r.offer) /\ r.name # None => Found(y, r.offer, r.name)
    BY <1>s, <1>1 DEF CodesFound
  <2>2. StillGiven(Orders) /\ crossed \subseteq crossed'
    BY <1>1 DEF StillGiven
  <2> QED
    BY <1>f, <2>1, <2>2, CodesKept
<1>2. ASSUME NEW x \in Orders, NEW S, cart' = [cart EXCEPT ![x] = S], UNCHANGED <<order, crossed>>,
             \A c \in S : c.step = "priced" /\ c.name # None /\ c.row.type # "free" => Found(x, c.offer, c.name)
      PROVE  CodeInv'
  <2>0. \A y \in Orders : cart'[y] = IF y = x THEN S ELSE cart[y]
    BY <1>s, <1>2 DEF StoreTypes
  <2>1. /\ \A y \in Orders : \A c \in cart'[y] :
              c.step = "priced" /\ c.name # None /\ c.row.type # "free" => Found(y, c.offer, c.name)
        /\ \A y \in Orders : \A r \in order'[y] :
              ~Taken(r) /\ ~FreeOffer(r.offer) /\ r.name # None => Found(y, r.offer, r.name)
    BY <1>s, <1>2, <2>0 DEF CodesFound
  <2>2. StillGiven(Orders) /\ crossed \subseteq crossed'
    BY <1>2 DEF StillGiven
  <2> QED
    BY <1>f, <2>1, <2>2, CodesKept
<1>3. ASSUME NEW x \in Orders, NEW r, NEW q, order' = [order EXCEPT ![x] = {q}], crossed \subseteq crossed',
             \A y \in Orders : cart'[y] \subseteq cart[y],
             Taken(q) /\ q.name # None => r \in order[x] /\ r.offer = q.offer /\ r.name = q.name /\ Taken(r),
             ~Taken(q) /\ ~FreeOffer(q.offer) /\ q.name # None => Found(x, q.offer, q.name)
      PROVE  CodeInv'
  <2>0. \A y \in Orders : order'[y] = IF y = x THEN {q} ELSE order[y]
    BY <1>s, <1>3 DEF StoreTypes
  <2>1. \A y \in Orders : \A c \in cart'[y] :
           c.step = "priced" /\ c.name # None /\ c.row.type # "free" => Found(y, c.offer, c.name)
    BY <1>s, <1>3 DEF CodesFound
  <2>2. \A y \in Orders : \A k \in order'[y] :
           ~Taken(k) /\ ~FreeOffer(k.offer) /\ k.name # None => Found(y, k.offer, k.name)
    BY <1>s, <1>3, <2>0 DEF CodesFound
  <2>3. StillGiven(Orders)
    BY <1>n, <1>3, <2>0 DEF StillGiven
  <2> QED
    BY <1>f, <1>3, <2>1, <2>2, <2>3, CodesKept
<1>4. ASSUME NEW x \in Orders, NEW u \in Learners, NEW o \in Offers, NEW n, NEW t, ReadOffer(x, u, o, n, t)
      PROVE  CodeInv'
  <2>1. PICK c : cart' = [cart EXCEPT ![x] = {c}] /\ c.step = "read" /\ UNCHANGED <<order, crossed>>
    BY <1>4, Reads
  <2>2. PICK S : S = {c} /\ cart' = [cart EXCEPT ![x] = S]
    BY <2>1
  <2>3. \A d \in S : d.step # "priced"
    BY <2>1, <2>2
  <2> QED
    BY <1>2, <2>1, <2>2, <2>3
<1>5. ASSUME NEW x \in Orders, AdmitBuyer(x) PROVE CodeInv'
  <2>1. PICK d, S : /\ cart' = [cart EXCEPT ![x] = S] /\ S \subseteq {d} /\ d.step = "admitted"
                    /\ UNCHANGED <<order, crossed>>
    BY <1>s, <1>5, Admitting
  <2> QED
    BY <1>2, <2>1
<1>6. ASSUME NEW x \in Orders, PriceOrder(x) PROVE CodeInv'
  <2>1. PICK c, d, S :
           /\ c \in cart[x] /\ cart' = [cart EXCEPT ![x] = S]
           /\ S = (IF c.name = None \/ lookupValidDiscountCode(c.offer, c.name) # {} THEN {d} ELSE {})
           /\ SameCart(c, d) /\ UNCHANGED <<order, crossed>>
    BY <1>s, <1>6, Pricing
  <2>2. ASSUME c.name # None, lookupValidDiscountCode(c.offer, c.name) # {} PROVE Found(x, c.offer, c.name)
    <3>1. c.offer \in Offers /\ c.name \in Names
      BY <1>s, <2>1, <2>2 DEF CartsSound
    <3>2. PICK k \in discount[c.offer][c.name] : k.terms.cap # None => k.used < k.terms.cap
      BY <2>2 DEF lookupValidDiscountCode
    <3>3. /\ k.used \in Nat /\ \A e \in discount[c.offer][c.name] : e = k
          /\ k.terms.cap # None => k.terms.cap \in Int
      BY <1>s, <3>1, CappedCode
    <3>4. IsFiniteSet(GivenFor(c.offer, c.name)) /\ UncrossedFor(x, c.offer, c.name) \subseteq GivenFor(c.offer, c.name)
      BY <1>s, <3>1, GivenForFinite DEF UncrossedFor
    <3>5. /\ Cardinality(UncrossedFor(x, c.offer, c.name)) <= Cardinality(GivenFor(c.offer, c.name))
          /\ Cardinality(UncrossedFor(x, c.offer, c.name)) \in Nat /\ Cardinality(GivenFor(c.offer, c.name)) \in Nat
      BY <3>4, FS_Subset, FS_CardinalityType
    <3>6. k.terms.cap # None => Cardinality(GivenFor(c.offer, c.name)) <= k.used
      BY <1>s, <3>1, <3>2 DEF CodesCounted
    <3>7. k.terms.cap # None => Cardinality(UncrossedFor(x, c.offer, c.name)) < k.terms.cap
      BY <3>2, <3>3, <3>5, <3>6
    <3> QED
      BY <3>3, <3>7 DEF Found
  <2>3. \A e \in S : e.name # None => Found(x, e.offer, e.name)
    BY <2>1, <2>2 DEF SameCart
  <2> QED
    BY <1>2, <2>1, <2>3
<1>7. ASSUME NEW x \in Orders, CommitOrder(x) PROVE CodeInv'
  <2>1. PICK c \in cart[x] : c.step = "priced" /\ (CommitFree(x, c) \/ CommitPaid(x, c) \/ RollBack)
    BY <1>7 DEF CommitOrder
  <2>2. cart' = [cart EXCEPT ![x] = {}] /\ \A y \in Orders : cart'[y] = IF y = x THEN {} ELSE cart[y]
    BY <1>s, <1>7 DEF CommitOrder, StoreTypes
  <2>3. c.offer \in Offers /\ c.name \in Names \cup {None}
    BY <1>s DEF CartsSound
  <2>4. cart'[x] = {} /\ \A y \in Orders : cart'[y] \subseteq cart[y]
    BY <2>2
  <2>5. CASE CommitFree(x, c)
    <3> PICK q : q = NewOrder(c, "succeeded")
      OBVIOUS
    <3>1. /\ order' = [order EXCEPT ![x] = {q}] /\ crossed' = crossed /\ c.row.type = "free"
          /\ IncrementRedemption(c.offer, c.name) /\ (c.name # None => Redeemable(c.offer, c.name))
          /\ UNCHANGED offer
      BY <1>7, <2>5 DEF CommitFree, CommitOrder
    <3>2. q.offer = c.offer /\ q.name = c.name /\ q.status = "succeeded" /\ Taken(q)
      BY DEF NewOrder, Taken
    <3>3. CASE c.name = None
      BY <1>3, <2>4, <3>1, <3>2, <3>3
    <3>4. CASE c.name # None
      <4>1. FreeOffer(c.offer)
        BY <1>s, <3>1 DEF RowsFit, FreeOffer
      <4>2. \A y \in Orders : order'[y] = IF y = x THEN {q} ELSE order[y]
        BY <1>s, <3>1 DEF StoreTypes
      <4>3. \A p \in order'[x] : p.offer = c.offer /\ p.name = c.name /\ p.status = "succeeded"
        BY <3>2, <4>2
      <4>4. c.name \in Names /\ crossed \subseteq crossed' /\ \A y \in Orders \ {x} : order'[y] = order[y]
        BY <2>3, <3>1, <3>4, <4>2
      <4> QED
        BY <1>f, <2>3, <2>4, <3>1, <3>4, <4>1, <4>3, <4>4, GivenGrows
    <3> QED
      BY <3>3, <3>4
  <2>6. CASE CommitPaid(x, c)
    <3> PICK q : q = NewOrder(c, "payment_initiated")
      OBVIOUS
    <3>1. order' = [order EXCEPT ![x] = {q}] /\ crossed \subseteq crossed' /\ c.row.type # "free"
      BY <2>6 DEF CommitPaid
    <3>2. q.offer = c.offer /\ q.name = c.name /\ ~Taken(q)
      BY DEF NewOrder, Taken
    <3>3. q.name # None => Found(x, q.offer, q.name)
      BY <1>s, <2>1, <3>1, <3>2 DEF CodesFound
    <3> QED
      BY <1>3, <2>4, <3>1, <3>2, <3>3
  <2>7. CASE RollBack
    <3>1. PICK S : S = {} /\ cart' = [cart EXCEPT ![x] = S]
      BY <2>2
    <3>2. \A d \in S : d.step = "priced" /\ d.name # None /\ d.row.type # "free" => Found(x, d.offer, d.name)
      BY <3>1
    <3>3. UNCHANGED <<order, crossed>>
      BY <2>7 DEF RollBack
    <3> QED
      BY <1>2, <3>1, <3>2, <3>3
  <2> QED
    BY <2>1, <2>5, <2>6, <2>7
<1>8. ASSUME NEW x \in Orders, Captured(x) PROVE CodeInv'
  <2>1. PICK r, q :
            /\ r \in order[x]
            /\ order' = [order EXCEPT ![x] = {q}] /\ SameOrder(r, q) /\ q.status = "succeeded"
            /\ ToBePaid(r) /\ IncrementRedemption(r.offer, r.name)
            /\ crossed' = crossed \cup Crossing("seat", x, Seating(r.offer))
                                  \cup Crossing("code", x, Discounting(r.offer, r.name))
            /\ UNCHANGED <<offer, cart>>
    BY <1>s, <1>8, Capturing
  <2>2. q.offer = r.offer /\ q.name = r.name /\ Taken(q)
    BY <2>1 DEF SameOrder, Taken
  <2>3. crossed \subseteq crossed' /\ \A y \in Orders : cart'[y] \subseteq cart[y]
    BY <2>1
  <2>4. CASE r.name = None \/ Taken(r)
    <3>1. Taken(q) /\ q.name # None => r \in order[x] /\ r.offer = q.offer /\ r.name = q.name /\ Taken(r)
      BY <2>1, <2>2, <2>4
    <3> QED
      BY <1>3, <2>1, <2>2, <2>3, <3>1
  <2>5. CASE r.name # None /\ ~Taken(r)
    <3>1. r.offer \in Offers /\ r.name \in Names /\ cart[x] = {} /\ ~FreeOffer(r.offer)
      BY <1>s, <2>1, <2>5 DEF RowsFit, CodesKnown, ToBePaid, FreeOffer
    <3>2. \A y \in Orders : order'[y] = IF y = x THEN {q} ELSE order[y]
      BY <1>s, <2>1 DEF StoreTypes
    <3>3. \A p \in order'[x] : p.offer = r.offer /\ p.name = r.name /\ p.status = "succeeded"
      BY <2>1, <2>2, <3>2
    <3>4. Found(x, r.offer, r.name)
      BY <1>s, <2>1, <2>5, <3>1 DEF CodesFound
    <3>5. ASSUME NEW y \in Orders, y # x, y \in Discounting(r.offer, r.name) PROVE <<"code", x, y>> \in crossed'
      BY <2>1, <3>5 DEF Crossing
    <3>6. \A y \in Orders \ {x} : \A c \in cart[y] :
             ~FreeOffer(r.offer) /\ c.step = "priced" /\ c.offer = r.offer /\ c.name = r.name => <<"code", x, y>> \in crossed'
      BY <2>5, <3>5 DEF Discounting
    <3>7. \A y \in Orders \ {x} : \A k \in order[y] :
             ~FreeOffer(r.offer) /\ ~Taken(k) /\ k.offer = r.offer /\ k.name = r.name => <<"code", x, y>> \in crossed'
      <4> SUFFICES ASSUME NEW y \in Orders \ {x}, NEW k \in order[y], ~Taken(k), k.offer = r.offer, k.name = r.name
                   PROVE  <<"code", x, y>> \in crossed'
        OBVIOUS
      <4>1. k.status # "succeeded" /\ k.captures = 0
        BY <1>s DEF Taken, RowsFit
      <4>2. y \in Discounting(r.offer, r.name)
        BY <2>5, <4>1 DEF Discounting
      <4> QED
        BY <3>5, <4>2
    <3>8. cart'[x] = {} /\ \A y \in Orders \ {x} : order'[y] = order[y]
      BY <2>1, <3>1, <3>2
    <3> QED
      BY <1>f, <2>1, <2>3, <3>1, <3>3, <3>4, <3>6, <3>7, <3>8, GivenGrows
  <2> QED
    BY <2>4, <2>5
<1>9. ASSUME NEW x \in Orders, Failed(x) \/ SweepFinds(x) \/ Abandon(x) \/ RefundSettles(x) PROVE CodeInv'
  <2>1. PICK r, q : r \in order[x] /\ Untaken(x, r, q)
    BY <1>s, <1>9, Touches
  <2>2. Taken(q) <=> Taken(r)
    BY <1>s, <2>1, UntakenStays
  <2>3. /\ q.offer = r.offer /\ q.name = r.name /\ order' = [order EXCEPT ![x] = {q}]
        /\ crossed \subseteq crossed' /\ \A y \in Orders : cart'[y] \subseteq cart[y]
    BY <2>1 DEF Untaken, SameOrder
  <2>4. ~Taken(q) /\ ~FreeOffer(q.offer) /\ q.name # None => Found(x, q.offer, q.name)
    BY <1>s, <2>1, <2>2, <2>3 DEF CodesFound
  <2>5. Taken(q) /\ q.name # None => r \in order[x] /\ r.offer = q.offer /\ r.name = q.name /\ Taken(r)
    BY <2>1, <2>2, <2>3
  <2> QED
    BY <1>3, <2>3, <2>4, <2>5
<1>10. CASE UNCHANGED storeVars
  BY <1>1, <1>10 DEF storeVars
<1>11. CASE Next
  BY <1>1, <1>4, <1>5, <1>6, <1>7, <1>8, <1>9, <1>11 DEF Next, CreateOffer, UpdateOffer, ArchiveOffer,
     CreateDiscountCode, DeactivateDiscountCode, CreateInviteToken, Tick
<1> QED
  BY <1>10, <1>11

(* A code is given to more orders than its cap only if one was paid while   *)
(* another had found it and was not, and never for a free offer: for any    *)
(* number of checkouts and codes, captures in any order and any number of   *)
(* times, whatever becomes of the offer and the code in between.            *)
THEOREM CodesGivenInTurn == Spec => []CodesInTurn
BY CodesStart, CodeSteps, PTL DEF Spec, CodeInv

===============================================================================
