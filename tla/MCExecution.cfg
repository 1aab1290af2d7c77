\* Every subject may stop: a task ends, an archive is complete.
SPECIFICATION PartsSpec
CONSTANTS
  None = None
  Faults = TRUE
  MaxRestarts = 1
INVARIANTS
  StageSafety BudgetSafety TaskSafety MailboxSafety
PROPERTIES
  ExecutionSteps EvidenceSteps MailboxSteps TasksEnd
CHECK_DEADLOCK FALSE
