SPECIFICATION Spec
CONSTANTS
  Requests = {r1, r2}
  Sweep = sweep
  Nobody = nobody
  Visitors = {}
  Authors = {}
  Ops <- ApiOps
  MaxRequests = 4
  MaxFaults = 0
PROPERTY DocumentedEdges
CHECK_DEADLOCK FALSE
