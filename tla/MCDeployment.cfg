\* Every subject may stop: an action is done, an operation is released.
SPECIFICATION PartsSpec
CONSTANTS
  None = None
  op = op
  a1 = a1
  Owners = {o1, o2}
  Operations = {op}
  Attempts = {a1}
  Keys <- PrepareOnly
  Deployments = {d1, d2}
  Boots = {b1}
  Decisions = {c1}
  NoOwner = NoOwner
  NoExpectation = NoExpectation
  MaxSequence = 5
INVARIANTS
  AcknowledgedSurvives RetiredNeverOwns AdmittedUnderSelected AdapterSafety
  ImportSafety AdmissionSafety
PROPERTIES
  NoAdmissionWhileHeld DeploymentSteps DeploymentSettles
CHECK_DEADLOCK FALSE
