\* Two sessions, three polls, two environments, one shutdown.
SPECIFICATION FairSpec
CONSTANTS
  Environments = {e1, e2}
  Sessions = {s1, s2}
  Polls = {p1, p2, p3}
  NoWork = NoWork
CHECK_DEADLOCK FALSE
INVARIANTS DeliveredOnceInOrder NoWorkHeldBack ResolvedOnce
PROPERTIES HeldPollIsResolved
