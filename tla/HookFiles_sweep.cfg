SPECIFICATION Spec
CONSTANTS
  Pids = {p1, p2}
  Launches = {l1}
  Nobody = Nobody
INVARIANT InstallStands
PROPERTY SweepTakesOnlyOrphans
PROPERTY OrphansGo
