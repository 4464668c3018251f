SPECIFICATION FairSpec
CONSTANTS
  MaxAttempts = 1
  Job = {j1}
  Thread = {t1}
  Process = {p1}
  Handler = {h1}
  Nobody = Nobody
  Endpoints = {"create", "stop", "start"}
  MaxRequests = 1
  MaxPrompts = 1
  AttemptBound = 9
  MaxCrashes = 0
  SlowEntries = FALSE
  PatientUsers = TRUE
PROPERTIES
  StopDrains
CHECK_DEADLOCK FALSE
