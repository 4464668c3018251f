SPECIFICATION Spec
CONSTANTS
  Sample = {s1, s2}
  Carried = {s1}
  Nothing = Nothing
  Handler = {h1, h2}
  Kind = {"stage", "handoff", "script", "preflight"}
  MaxRequests = 2
  MaxChanges = 1
  MaxUploads = 2
  MaxRuns = 2
INVARIANTS
  PodTypeOK
  BootBringsTheSample
  ReadinessSaysWhatTheRunFound
PROPERTIES
  SoloHandoffIsTrue
  PassedSmokeIsOfThisCode
SYMMETRY Symmetry
CHECK_DEADLOCK FALSE
