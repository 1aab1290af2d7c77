SPECIFICATION Spec
CONSTANTS
  task = task
  a1 = a1
  Ops = {o1, o2}
  NSteps = 2
  StartSteps = {2}
  Deployments = {d0, d1}
  Base = d0
  Keys <- OneKey
  Tasks = {task}
  Attempts = {a1}
  Boot = Boot
  Nobody = Nobody
  NoExpectation = NoExpectation
  SyncLoss = FALSE
  MaxSequence = 5
  MaxAttempts = 1
INVARIANTS FinishedOwnsNothing
