SPECIFICATION ProviderFairSpec
CONSTANTS
  MaxAttempts = 1
  Job = {j1}
  Thread = {t1}
  Process = {}
  Handler = {h1}
  Nobody = Nobody
  Endpoints = {"create", "get", "ops"}
  MaxRequests = 1
  MaxPrompts = 3
  AttemptBound = 2
  MaxCrashes = 1
  SlowEntries = FALSE
  PatientUsers = TRUE
  MaxPauses = 1
  MaxResumes = 1
  Requested = {}
INVARIANTS
  CheckpointedJobsOutliveThePod
  ResubmissionsNeedResumes
  AcceptedJobIsKnown
PROPERTIES
  CheckpointedJobFinishes
CHECK_DEADLOCK FALSE
