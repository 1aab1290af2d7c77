SPECIFICATION Spec
CONSTANTS
  j1 = j1
  j2 = j2
  c1 = c1
  p1 = p1
  p2 = p2
  r1 = r1
  r2 = r2
  Jobs = {j1, j2}
  Reconciles = {}
  Parent <- OneParent
  Principals = {p1}
  Principal <- OnePrincipal
  Resources = {r1, r2}
  Needs <- Overlapping
  Free = Free
  Reported = {"SUCCEEDED"}
  MaxQueued = 2
  MaxRunning = 2
  MaxRestarts = 1
PROPERTIES ImplementsBarrier
