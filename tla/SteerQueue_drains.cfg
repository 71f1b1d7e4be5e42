\* Two sessions that may each move on once, two commands.
SPECIFICATION Spec
CONSTANTS
  Sessions = {s1, s2}
  Null = Null
  MaxEvents = 1
  MaxSteers = 2
INVARIANTS NothingStranded FiredOnceNeverCancelled HeldNeedsAYes DrainKeepsOrder
PROPERTY QueuedIsSettled
