\* Stops that race registrations, takeovers, evictions and shutdown, with closes that may fail.
SPECIFICATION FairSpec
CONSTANTS
  Ids = {s1, s2}
  Places = {p1}
  None = None
  MaxSessions = 2
  AttachPlaces = {p1}
  Stoppable = {s1, s2}
  LateWorkers = TRUE
  ReliableClose = FALSE
CHECK_DEADLOCK FALSE
PROPERTIES StoppedIsWitnessed ImplementsLifecycle GhostIsReaped
