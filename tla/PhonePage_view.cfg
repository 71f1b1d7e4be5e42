\* Two sessions with two block numbers each, three stops.
SPECIFICATION Spec
CONSTANTS
  Sessions = {s1, s2}
  Null = Null
  MaxSeq = 2
  MaxStops = 3
CHECK_DEADLOCK FALSE
SYMMETRY Symmetry
INVARIANTS ShownIsOfTheView ForceIsConsented StoppedStaysStopped
