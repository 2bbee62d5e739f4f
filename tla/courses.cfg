SPECIFICATION Spec
CONSTANTS
  Requests = {r1, r2}
  Sweep = sweep
  Nobody = nobody
  Visitors = {v1}
  Authors = {a1}
  Ops <- AllOps
  MaxRequests = 3
  MaxFaults = 1
INVARIANTS ViewsFollowStatus
PROPERTIES PublishSnapshots DuePublished
