SPECIFICATION SessionSpec
CONSTANTS
  None = None
  Session = {a, b}
  Job = {j1}
  Mask = {m1, m2}
  Room = {r1, r2}
  Handler = {h1, h2}
  Kinds = {{"catalog"}, {"apply", "sync", "refresh"}, {"investigate", "retry"}, {"decision"}, {"refresh", "package", "recovery", "pause"}, {"intake", "upload", "develop"}, {"assess", "propose"}}
  Shape = {"raw", "image", "bracket", "odd"}
  Preference = {"auto", "direct_edit"}
  QualityPreset = {"safe", "balanced"}
  ModePreference = {"auto"}
  Tool = {"compare", "replaceBg"}
  Look <- Looks
  MaxRequests = 2
  MaxAssessments = 1
  MaxChanges = 1
  MaxLetters = 2
INVARIANTS
  SessionTypeOK
  ApprovalsAsPromised
PROPERTIES
  UndisturbedEditsAreLocal
  LinkageFollowsSelection
  LoneRetryTakesFailures
  LonePackageIsComplete
  PauseHadAPackage
  LonePlanIsOfItsPhotos
  AcceptedPassIsClean
SYMMETRY Symmetry
CHECK_DEADLOCK FALSE
