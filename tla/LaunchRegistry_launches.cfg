\* Two launches at a time in one place, four ids, workers that boot in time.
SPECIFICATION Spec
CONSTANTS
  Ids = {s1, s2, s3, s4}
  Places = {p1}
  None = None
  MaxSessions = 2
  AttachPlaces = {}
  Stoppable = {}
  LateWorkers = FALSE
  ReliableClose = TRUE
CHECK_DEADLOCK FALSE
SYMMETRY Symmetry
CONSTRAINT BeforeShutdown
INVARIANTS CapHolds BoundIsOwn
PROPERTY HandleDroppedWhenGone
