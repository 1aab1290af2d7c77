\* Every subject may stop: no calls are left, a phase is closed.
SPECIFICATION PartsSpec
CONSTANTS
  None = None
  NP = 2
  NS = 1
  CallLimit = 2
  MaxRecoveries = 1
  MayExpire = FALSE
INVARIANTS
  GatewaySafety ManagerSafety ObserverSafety
PROPERTIES
  RecordSteps ServicesSettle
CHECK_DEADLOCK FALSE
