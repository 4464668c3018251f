SPECIFICATION BoardSpec
CONSTANTS
  MaxAttempts = 2
  Job = {j1}
  Thread = {t1, t2}
  Process = {}
  Handler = {h1}
  Nobody = Nobody
  Endpoints = {"create", "get", "retry", "ops"}
  MaxRequests = 2
  MaxPrompts = 2
  AttemptBound = 9
  MaxCrashes = 1
  SlowEntries = FALSE
  PatientUsers = TRUE
INVARIANTS
  OneEmbeddedPass
  AttemptsWithinBudget
PROPERTIES
  EntryLeavesQueue
  OrphanIsRecovered
CHECK_DEADLOCK FALSE
