SPECIFICATION Spec
CONSTANTS
  task = task
  a1 = a1
  Ops = {o1}
  NSteps = 1
  StartSteps = {1}
  Deployments = {d0, d1}
  Base = d0
  Keys <- OneKey
  Tasks = {task}
  Attempts = {a1}
  Boot = Boot
  Nobody = Nobody
  NoExpectation = NoExpectation
  SyncLoss = TRUE
  MaxSequence = 3
  MaxAttempts = 1
INVARIANTS OpenMeansInstalled
