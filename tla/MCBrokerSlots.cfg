SPECIFICATION Spec
CONSTANTS
  j1 = j1
  j2 = j2
  c1 = c1
  p1 = p1
  p2 = p2
  r1 = r1
  r2 = r2
  Jobs = {j1, j2}
  Reconciles = {}
  Parent <- OneParent
  Principals = {p1}
  Principal <- OnePrincipal
  Resources = {r1, r2}
  Needs <- OwnResource
  Free = Free
  Reported = {}
  MaxQueued = 2
  MaxRunning = 1
  MaxRestarts = 1
INVARIANTS RunningBounded
