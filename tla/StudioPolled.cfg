SPECIFICATION PolledSpec
CONSTANTS
  MaxAttempts = 2
  Job = {j1}
  Thread = {t1}
  Process = {}
  Handler = {h1, h2}
  Nobody = Nobody
  Endpoints = {"create", "get", "retry", "ops"}
  MaxRequests = 2
  MaxPrompts = 2
  AttemptBound = 9
  MaxCrashes = 0
  SlowEntries = FALSE
  PatientUsers = TRUE
PROPERTIES
  ActiveJobFinishes
CHECK_DEADLOCK FALSE
