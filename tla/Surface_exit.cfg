\* The same terminal and the promise of the shutdown.
SPECIFICATION Spec
CONSTANTS
  Requests = {r1}
  Shutdown = down
CHECK_DEADLOCK FALSE
INVARIANT ExitsAfterRelease
