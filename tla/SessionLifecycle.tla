-------------------------- MODULE SessionLifecycle --------------------------
(***************************************************************************)
(* What ccctl promises about the life of a session id, whoever moves it:   *)
(* the launch registry, the environments bridge, the worker channel, the   *)
(* eviction timer or the operator's stop.  An id is minted once, is bound  *)
(* to a registration at most once, becomes ready only after it was bound,  *)
(* and once it has ended it never comes back.                              *)
(*                                                                         *)
(* Modules of the detailed model implement this one under a mapping of     *)
(* their session rows (see WorkerChannel and LaunchRegistry).              *)
(***************************************************************************)
CONSTANT Sessions          \* the session ids ever minted

VARIABLE phase             \* where each id is in its life

Phases == {"unborn", "registering", "connecting", "ready", "gone"}

\* The rows GET /api/sessions lists: the ids present in the session registry.
Listed == {"registering", "connecting", "ready"}

Init == phase = [s \in Sessions |-> "unborn"]

\* The steps a session may take, as a relation on phases.
MayBecome ==
  {<<"unborn", "registering">>,      \* a launched terminal, not yet registered
   <<"unborn", "connecting">>,       \* a session that attaches by itself
   <<"registering", "connecting">>,  \* the launch's own registration arrives
   <<"connecting", "ready">>,        \* the worker opens its event stream
   <<"registering", "gone">>, <<"connecting", "gone">>, <<"ready", "gone">>}

\* One step may move several ids: a registration ends one row and begins another.
Next ==
  /\ phase' \in [Sessions -> Phases]
  /\ \A s \in Sessions : phase'[s] = phase[s] \/ <<phase[s], phase'[s]>> \in MayBecome

\* Shutdown may stop every session where it stands, so no step is owed.
Spec == Init /\ [][Next]_phase

TypeOK == phase \in [Sessions -> Phases]
=============================================================================
