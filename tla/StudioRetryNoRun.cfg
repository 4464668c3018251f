SPECIFICATION Spec
CONSTANTS
  MaxAttempts = 2
  Job = {j1}
  Thread = {t1}
  Process = {}
  Handler = {h1}
  Nobody = Nobody
  Endpoints = {"create", "ops"}
  MaxRequests = 1
  MaxPrompts = 2
  AttemptBound = 9
  MaxCrashes = 0
  SlowEntries = FALSE
  PatientUsers = TRUE
PROPERTIES
  RetryRunsTheJob
CHECK_DEADLOCK FALSE
