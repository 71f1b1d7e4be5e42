---------------------------- MODULE SessionModel ----------------------------
(***************************************************************************)
(* The session model of @ccctl/core: the pure functions the server applies *)
(* to a session's row.  Absolute clocks are replaced by ages: what a row   *)
(* keeps is the gap since its last heartbeat, saturating one past the      *)
(* staleness window, which is all that isSessionStale can tell apart.      *)
(***************************************************************************)
EXTENDS Integers

CONSTANT StaleAfter        \* the heartbeat staleness window, in ticks

ASSUME StaleAfterAssumption == StaleAfter \in Nat

\* A gap is counted up to the first value that is stale.
Gaps == 0 .. (StaleAfter + 1)

\* One tick older.
Older(gap) == IF gap > StaleAfter THEN gap ELSE gap + 1

\* A gap equal to the window is still live: the comparison is strict.
IsSessionStale(gap) == gap > StaleAfter

\* The first open of a worker's event stream; every later one changes nothing.
MarkSessionReady(status) == IF status = "connecting" THEN "ready" ELSE status
=============================================================================
