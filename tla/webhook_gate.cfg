CONSTANTS
  e1 = e1  e2 = e2
  k1 = k1  k2 = k2
  NoEvent = NoEvent
  Events = {e1, e2}
  Keys = {k1, k2}
  KeysOf <- HeaderKeys
  Handlers = {h1, h2}
  Workers = {w1, w2}
  MaxRetries = 1
  MaxRepeats = 1
  MaxFaults = 2

SPECIFICATION FairSpec
PROPERTIES ImplementsFeed EmittedIsSettled
CHECK_DEADLOCK FALSE
