CONSTANTS
  Clients = {c1, c2, c3}
  Talkers = {c1}
  Fragile = {c2}
  Buffer = 2
  MaxSends = 2

SPECIFICATION HubFairSpec
INVARIANTS SendChannelsSafe RelayedInOrder
PROPERTIES BrokenIsRemoved
CHECK_DEADLOCK FALSE
