SPECIFICATION Spec
CONSTANTS
  Single = {s1}
  Tri = {t1}
  Preference = {p1}
  NoPath = NoPath
  Handler = {h1, h2}
  Kind = {"sync", "single", "tri", "packet", "decision"}
  Part = {"review", "none"}
  MaxRequests = 2
  MaxChanges = 1
INVARIANTS
  ReleaseTypeOK
  MeasuredReadyMeansMeasured
PROPERTIES
  DecisionIsBacked
  SoloDecisionIsCalledFor
SYMMETRY Symmetry
CHECK_DEADLOCK FALSE
