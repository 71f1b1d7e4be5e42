\* A grant to provision, two edits of the operator's, two uses of --off.
SPECIFICATION TunnelSpec
CONSTANTS
  Provisioning = TRUE
  MaxEdits = 2
  MaxOffs = 2
CHECK_DEADLOCK FALSE
INVARIANTS OperatorsPolicySurvives CleanExitLeavesNothing RemedyClears
PROPERTY SignalEndsDaemon
