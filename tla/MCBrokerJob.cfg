SPECIFICATION FairSpec
CONSTANTS
  j1 = j1
  j2 = j2
  c1 = c1
  p1 = p1
  p2 = p2
  r1 = r1
  r2 = r2
  Jobs = {j1}
  Reconciles = {}
  Parent <- OneParent
  Principals = {p1}
  Principal <- OnePrincipal
  Resources = {r1}
  Needs <- SameResource
  Free = Free
  Reported = {"SUCCEEDED", "FAILED", "CANCELLED"}
  MaxQueued = 2
  MaxRunning = 1
  MaxRestarts = 2
INVARIANTS TypeOK AtMostOnce SettledIsQuiet FrozenResultKept
PROPERTIES TerminalIsFinal NoStartAfterCancel CancelSettles
