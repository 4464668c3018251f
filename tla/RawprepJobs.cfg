SPECIFICATION FairSpec
CONSTANTS
  MaxAttempts = 2
  Frames = 3
  Job = {j1, j2}
  Shown = {j1}
  Groups = 2
  Handler = {h1}
  Worker = Worker
  Nobody = Nobody
  MaxRequests = 2
  MaxCrashes = 1
  AttemptBound = 3
  PatientUsers = TRUE
INVARIANTS
  RawTypeOK
  QueuedRawJobIsTracked
  RunsAreDemanded
PROPERTIES
  RawQuietEndIsFinal
  DoneJobIsFused
  QueuedRawJobEnds
CHECK_DEADLOCK FALSE
