SPECIFICATION Spec
CONSTANTS
  MaxAttempts = 1
  Job = {j1}
  Thread = {t1}
  Process = {}
  Handler = {h1, h2}
  Nobody = Nobody
  Endpoints = {"create", "get", "cancel", "retry", "ops"}
  MaxRequests = 2
  MaxPrompts = 3
  AttemptBound = 2
  MaxCrashes = 1
  SlowEntries = FALSE
  PatientUsers = TRUE
INVARIANTS
  TypeOK
  ResubmissionsNeedCrashes
  UnsubmittedJobIsTracked
PROPERTIES
  KeepsPromise
SYMMETRY Symmetry
CHECK_DEADLOCK FALSE
