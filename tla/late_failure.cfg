CONSTANTS
  k1 = k1  k2 = k2
  o1 = o1  o2 = o2
  a1 = a1  a2 = a2  a3 = a3
  r1 = r1  r2 = r2
  c1 = c1
  w1 = w1  w2 = w2
  NoCode = NoCode
  Keys = {k1}
  Orders = {o1, o2}
  Buyer <- BuyerSame
  FreeOrders = {}
  FixedTerm = {o1}
  StaleOrders = {}
  Codes = {c1}
  CodeOf <- CodeOnAll
  Cap <- CapOne
  Attempts = {a1, a2, a3}
  OrderOf <- RetryThenRenew
  Disputable = {}
  Refunds = {}
  RefundOf <- RefundsOfFirst
  Workers = {w1, w2}
  AnalyticsOutcomes = {TRUE}
  MaxGrants = 0
  MaxCrashes = 0

SPECIFICATION Spec
PROPERTY SucceededStaysSucceeded
CHECK_DEADLOCK FALSE
