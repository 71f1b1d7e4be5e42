\* Two stops or evictions of one terminal, with the shutdown.
SPECIFICATION Spec
CONSTANTS
  Requests = {r1, r2}
  Shutdown = down
CHECK_DEADLOCK FALSE
INVARIANTS StoppedIsGone NoSignalToReaped
PROPERTY ClosedPtyIsReaped
