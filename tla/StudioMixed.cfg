SPECIFICATION Spec
CONSTANTS
  MaxAttempts = 1
  Job = {j1}
  Thread = {t1}
  Process = {p1}
  Handler = {h1}
  Nobody = Nobody
  Endpoints = {"create", "cancel", "start"}
  MaxRequests = 1
  MaxPrompts = 1
  AttemptBound = 1
  MaxCrashes = 1
  SlowEntries = TRUE
  PatientUsers = TRUE
INVARIANTS
  NoHeartbeatOutlivesItsWorker
PROPERTIES
  QuietEndIsFinal
CHECK_DEADLOCK FALSE
