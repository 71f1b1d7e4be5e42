---------------------------- MODULE LaunchRegistry ----------------------------
(***************************************************************************)
(* From POST /api/sessions to the launched worker's own registration, and  *)
(* the three ways a launched terminal is taken down again: the ghost       *)
(* reaper, the operator's stop and shutdown.  A launch and the             *)
(* registration that completes it share no id; they are matched by place,  *)
(* the pair of a directory and a permission mode, which several launches   *)
(* may share.  Every reading of a terminal and every close of one is       *)
(* awaited, so the registry moves on between them.                         *)
(*                                                                         *)
(* A terminal is named by the session id its launch minted.  What becomes  *)
(* of a session once its worker has a channel is in WorkerChannel: here it *)
(* is connecting until it ends.                                            *)
(***************************************************************************)
EXTENDS Integers, FiniteSets

CONSTANTS
  Ids,             \* session ids: random UUIDs, never reused
  Places,          \* directories, each under one permission mode
  None,            \* no session
  MaxSessions,     \* the cap on live sessions
  AttachPlaces,    \* where workers this server did not launch register from
  Stoppable,       \* the sessions an operator may stop
  LateWorkers,     \* a worker may register after its registration window
  ReliableClose    \* a close() of a terminal that resolves has closed it

ASSUME RegistryAssumption ==
  /\ IsFiniteSet(Ids) /\ None \notin Ids
  /\ MaxSessions \in Nat \ {0}
  /\ AttachPlaces \subseteq Places
  /\ Stoppable \subseteq Ids
  /\ LateWorkers \in BOOLEAN /\ ReliableClose \in BOOLEAN

VARIABLES
  \* the server
  row,         \* sessions: the status of each row, and the ids not in it
  reserved,    \* launchReservations, by the id the launch is going to mint
  place,       \* where each launch was rooted
  pending,     \* pendingLaunches: a record whose timer is armed
  rank,        \* the place of each record in the insertion order of the map
  ambiguous,   \* the marks on the records
  mayHold,     \* mayHoldLiveWorker
  held,        \* launchedSurfaces
  hooks,       \* hookInstalls
  releasing,   \* a release under way: its reading, then its close
  stop,        \* a stop under way: decided, tearing down, confirming
  blind,       \* the stops decided on a reading that saw nothing
  closing,     \* close() has released the launches
  \* the terminals
  surface,     \* each terminal, and who ended it
  runsAs,      \* the session its worker registered as
  timedOut     \* the launches whose registration window has passed

pendingVars == <<place, pending, rank, ambiguous, mayHold>>
asyncVars == <<releasing, stop, blind>>
terminalVars == <<surface, runsAs>>
vars == <<row, reserved, pendingVars, held, hooks, asyncVars, closing, terminalVars, timedOut>>

Rows == {"unborn", "registering", "connecting", "gone"}
Listed == {s \in Ids : row[s] \in {"registering", "connecting"}}

Alive == {"up", "taken"}
Surfaces == Alive \cup {"none", "exited", "reaped", "stopped"}

Init ==
  /\ row = [s \in Ids |-> "unborn"]
  /\ reserved = {}
  /\ place = [s \in Ids |-> None]
  /\ pending = {}
  /\ rank = [s \in Ids |-> 0]
  /\ ambiguous = {}
  /\ mayHold = {}
  /\ held = {}
  /\ hooks = {}
  /\ releasing = [s \in Ids |-> "no"]
  /\ stop = [s \in Ids |-> "no"]
  /\ blind = {}
  /\ closing = FALSE
  /\ surface = [s \in Ids |-> "none"]
  /\ runsAs = [s \in Ids |-> None]
  /\ timedOut = {}

-----------------------------------------------------------------------------
\* The launch.

Fresh(s) == row[s] = "unborn" /\ s \notin reserved

\* Mutant: the cap counts the rows and forgets the launches under way.
LaunchSessionUncounted(s) ==
  /\ Fresh(s)
  /\ Cardinality(Listed) < MaxSessions
  /\ reserved' = reserved \cup {s}
  /\ UNCHANGED <<row, pendingVars, held, hooks, asyncVars, closing, terminalVars, timedOut>>

\* The count, the check and the reservation are one synchronous stretch.
LaunchSession(s) ==
  /\ Fresh(s)
  /\ Cardinality(Listed) + Cardinality(reserved) < MaxSessions
  /\ reserved' = reserved \cup {s}
  /\ UNCHANGED <<row, pendingVars, held, hooks, asyncVars, closing, terminalVars, timedOut>>

\* The launcher rejects: the slot is given back, the hook files are removed.
LaunchFails(s) ==
  /\ s \in reserved
  /\ reserved' = reserved \ {s}
  /\ UNCHANGED <<row, pendingVars, held, hooks, asyncVars, closing, terminalVars, timedOut>>

\* The pending launches a registration from p could be of.
Group(p) == {s \in pending : place[s] = p}

\* The terminal is up: trackPendingLaunch, whatever happened to the server since.
\* From the second launch of a place on, the place identifies none of them.
\* (A hook install that failed leaves no record: that launch is not modelled.)
TrackPendingLaunch(s, p) ==
  LET siblings == Group(p) IN
  /\ s \in reserved
  /\ reserved' = reserved \ {s}
  /\ row' = [row EXCEPT ![s] = "registering"]
  /\ surface' = [surface EXCEPT ![s] = "up"]
  /\ held' = held \cup {s}
  /\ pending' = pending \cup {s}
  /\ place' = [place EXCEPT ![s] = p]
  /\ rank' = [rank EXCEPT ![s] = Cardinality({t \in Ids : surface[t] # "none"})]
  /\ ambiguous' = IF siblings = {} THEN ambiguous ELSE ambiguous \cup siblings \cup {s}
  /\ hooks' = hooks \cup {s}
  /\ UNCHANGED <<mayHold, asyncVars, closing, runsAs, timedOut>>

-----------------------------------------------------------------------------
\* The registration.

Oldest(p) == {s \in Group(p) : \A t \in Group(p) : rank[s] <= rank[t]}

\* claimPendingLaunch: nothing this server launched is waiting at p ...
RegisterAttached(p, id) ==
  /\ Group(p) = {}
  /\ Fresh(id)
  /\ row' = [row EXCEPT ![id] = "connecting"]
  /\ UNCHANGED <<pending, mayHold>>

\* Mutant: the oldest launch lends its id, whoever else is waiting.
RegisterClaimedFirst(p, id) ==
  /\ id \in Oldest(p)
  /\ row' = [row EXCEPT ![id] = "connecting"]
  /\ pending' = pending \ {id}
  /\ UNCHANGED mayHold

\* Mutant: the record that lent its id can lend it again.
RegisterClaimedKept(p, id) ==
  /\ id \in Oldest(p) \ ambiguous
  /\ row' = [row EXCEPT ![id] = "connecting"]
  /\ UNCHANGED <<pending, mayHold>>

\* ... or one launch is, and lends the registration its id ...
RegisterClaimed(p, id) ==
  /\ id \in Oldest(p) \ ambiguous
  /\ row' = [row EXCEPT ![id] = "connecting"]
  /\ pending' = pending \ {id}
  /\ UNCHANGED mayHold

\* ... or one that lends none: its row is dropped, and every terminal left in
\* the group may be the one this worker runs in.
RegisterAmbiguous(p, id) ==
  /\ Fresh(id)
  /\ \E s \in Oldest(p) \cap ambiguous :
       /\ row' = [row EXCEPT ![s] = "gone", ![id] = "connecting"]
       /\ pending' = pending \ {s}
       /\ mayHold' = mayHold \cup (Group(p) \ {s})

HandleSessionCreate(p, id) ==
  /\ RegisterAttached(p, id) \/ RegisterClaimed(p, id) \/ RegisterAmbiguous(p, id)
  /\ UNCHANGED <<reserved, place, rank, ambiguous, held, hooks, asyncVars, closing, surface, timedOut>>

\* A worker boots within its registration window, unless it is late: when a
\* launch has timed out, so have the launches before it.
InWindow(t) == LateWorkers \/ ~\E s \in timedOut : rank[t] <= rank[s]

WorkerRegisters(t, id) ==
  /\ surface[t] \in Alive
  /\ runsAs[t] = None
  /\ InWindow(t)
  /\ HandleSessionCreate(place[t], id)
  /\ runsAs' = [runsAs EXCEPT ![t] = id]

WorkerAttaches(p, id) ==
  /\ p \in AttachPlaces
  /\ HandleSessionCreate(p, id)
  /\ UNCHANGED runsAs

\* closeSession, for a session whose worker is gone (WorkerChannel says when):
\* the record of its terminal stays until the server releases it.
SessionEnds(s) ==
  /\ row[s] = "connecting"
  /\ row' = [row EXCEPT ![s] = "gone"]
  /\ hooks' = hooks \ {s}
  /\ UNCHANGED <<reserved, pendingVars, held, asyncVars, closing, terminalVars, timedOut>>

-----------------------------------------------------------------------------
\* Readings and releases of a terminal.

\* What a backend may answer of a terminal: the truth, or one of two non-answers
\* (readLiveness files a probe that throws under the first).
Readings(s) ==
  {"host-unreachable", "surface-indeterminate"} \cup
    (IF surface[s] = "up" THEN {"alive-server-owned"}
     ELSE IF surface[s] = "taken" THEN {"taken-over"} ELSE {"exited"})

\* RELEASE_BY_LIVENESS and FORCED_STOP_BY_LIVENESS, the readings that kill.
TearsDown(force) ==
  IF force THEN {"alive-server-owned", "taken-over", "surface-indeterminate"}
           ELSE {"alive-server-owned"}

\* The terminal after a close(): the one that resolves may have failed silently.
AfterClose(s, how) ==
  IF surface[s] \notin Alive THEN {surface[s]}
  ELSE IF ReliableClose THEN {how} ELSE {how, surface[s]}

\* Mutant: the terminal is released and the row it came with is kept.
EvictPendingLaunchRowKept(s) ==
  /\ s \in pending
  /\ pending' = pending \ {s}
  /\ releasing' = IF s \in mayHold THEN releasing ELSE [releasing EXCEPT ![s] = "probing"]
  /\ timedOut' = timedOut \cup {s}
  /\ UNCHANGED <<row, reserved, place, rank, ambiguous, mayHold, held, hooks, stop, blind, closing, terminalVars>>

\* evictPendingLaunch: the row goes at once, the terminal is looked at if no
\* worker can be in it.  dropPlaceholder touches the row alone.
EvictPendingLaunch(s) ==
  /\ s \in pending
  /\ pending' = pending \ {s}
  /\ row' = [row EXCEPT ![s] = "gone"]
  /\ releasing' = IF s \in mayHold THEN releasing ELSE [releasing EXCEPT ![s] = "probing"]
  /\ timedOut' = timedOut \cup {s}
  /\ UNCHANGED <<reserved, place, rank, ambiguous, mayHold, held, hooks, stop, blind, closing, terminalVars>>

\* Mutant: a terminal left running is forgotten like one that has exited.
ReleaseProbesForgets(s) ==
  /\ releasing[s] = "probing"
  /\ \E reading \in Readings(s) :
       /\ releasing' = [releasing EXCEPT ![s] = IF reading \in TearsDown(FALSE) THEN "tearing" ELSE "no"]
       /\ held' = IF reading \in TearsDown(FALSE) THEN held ELSE held \ {s}
  /\ UNCHANGED <<row, reserved, pendingVars, hooks, stop, blind, closing, terminalVars, timedOut>>

\* The awaited reading of releaseLaunchedSession: the handle is dropped of a
\* terminal that has exited, kept of one that is left running.
ReleaseProbes(s) ==
  /\ releasing[s] = "probing"
  /\ \E reading \in Readings(s) :
       /\ releasing' = [releasing EXCEPT ![s] = IF reading \in TearsDown(FALSE) THEN "tearing" ELSE "no"]
       /\ held' = IF reading = "exited" THEN held \ {s} ELSE held
  /\ UNCHANGED <<row, reserved, pendingVars, hooks, stop, blind, closing, terminalVars, timedOut>>

\* The awaited close, which is believed.
ReleaseCloses(s) ==
  /\ releasing[s] = "tearing"
  /\ releasing' = [releasing EXCEPT ![s] = "no"]
  /\ \E after \in AfterClose(s, "reaped") : surface' = [surface EXCEPT ![s] = after]
  /\ held' = held \ {s}
  /\ UNCHANGED <<row, reserved, pendingVars, hooks, stop, blind, closing, runsAs, timedOut>>

\* close(): pending launches are forgotten with their timers, and every terminal
\* is released; nothing keeps a launch under way from arriving afterwards.
ReleaseLaunchedSessions ==
  /\ ~closing
  /\ closing' = TRUE
  /\ pending' = {}
  /\ releasing' = [s \in Ids |-> IF s \in held /\ releasing[s] = "no" THEN "probing" ELSE releasing[s]]
  /\ held' = {}
  /\ UNCHANGED <<row, reserved, place, rank, ambiguous, mayHold, hooks, stop, blind, terminalVars, timedOut>>

-----------------------------------------------------------------------------
\* The operator's stop.

\* The refusals that need no reading come first: no row, no terminal of ours, a
\* terminal that may hold another session's worker (not even force overrides).
BeginStop(s, force) ==
  /\ s \in Stoppable \cap Listed \cap held
  /\ ~(s \in pending /\ s \in mayHold)
  /\ stop[s] = "no"
  /\ stop' = [stop EXCEPT ![s] = IF force THEN "forced" ELSE "asked"]
  /\ UNCHANGED <<row, reserved, pendingVars, held, hooks, releasing, blind, closing, terminalVars, timedOut>>

\* Everything the session owned is retired, whatever became of it meanwhile.
Retire(s) ==
  /\ held' = held \ {s}
  /\ pending' = pending \ {s}
  /\ row' = IF s \in Listed THEN [row EXCEPT ![s] = "gone"] ELSE row
  /\ hooks' = IF s \in Listed THEN hooks \ {s} ELSE hooks
  /\ stop' = [stop EXCEPT ![s] = "no"]
  /\ blind' = blind \ {s}

Refuse(s) ==
  /\ stop' = [stop EXCEPT ![s] = "no"]
  /\ blind' = blind \ {s}
  /\ UNCHANGED <<held, pending, row, hooks>>

stopFrame == <<reserved, place, rank, ambiguous, mayHold, releasing, closing, runsAs, timedOut>>

\* The deciding reading: tear down, refuse, or find it already gone.
StopProbes(s) ==
  /\ stop[s] \in {"asked", "forced"}
  /\ \E reading \in Readings(s) :
       \/ /\ reading \in TearsDown(stop[s] = "forced")
          /\ stop' = [stop EXCEPT ![s] = "tearing"]
          /\ blind' = IF reading = "surface-indeterminate" THEN blind \cup {s} ELSE blind
          /\ UNCHANGED <<held, pending, row, hooks>>
       \/ reading = "exited" /\ Retire(s)
       \/ reading \notin TearsDown(stop[s] = "forced") \cup {"exited"} /\ Refuse(s)
  /\ UNCHANGED <<stopFrame, surface>>

\* The awaited close: it resolves, and is not believed ...
StopCloses(s) ==
  /\ stop[s] = "tearing"
  /\ stop' = [stop EXCEPT ![s] = "confirming"]
  /\ \E after \in AfterClose(s, "stopped") : surface' = [surface EXCEPT ![s] = after]
  /\ UNCHANGED <<stopFrame, held, pending, row, hooks, blind>>

\* ... or rejects or times out, whatever it has done.
StopCloseFails(s) ==
  /\ stop[s] = "tearing"
  /\ Refuse(s)
  /\ surface' \in {surface, [surface EXCEPT ![s] = IF @ \in Alive THEN "stopped" ELSE @]}
  /\ UNCHANGED stopFrame

\* Mutant: a second reading that sees nothing confirms a stop that saw nothing.
StopConfirmsBlind(s) ==
  /\ stop[s] = "confirming"
  /\ \E reading \in Readings(s) :
       IF reading \in {"exited", "surface-indeterminate"} THEN Retire(s) ELSE Refuse(s)
  /\ UNCHANGED <<stopFrame, surface>>

\* The reading that confirms it: a sighting or an unreachable host contradicts
\* the close, and a stop that never saw the terminal must see it gone.
StopConfirms(s) ==
  /\ stop[s] = "confirming"
  /\ \E reading \in Readings(s) :
       IF reading = "exited" \/ (reading = "surface-indeterminate" /\ s \notin blind)
         THEN Retire(s) ELSE Refuse(s)
  /\ UNCHANGED <<stopFrame, surface>>

-----------------------------------------------------------------------------
\* The terminal is the operator's too: taken over, handed back, closed by hand.
SurfaceMoves(s) ==
  /\ \E next \in {"up", "taken", "exited"} :
       surface[s] \in Alive /\ next # surface[s] /\ surface' = [surface EXCEPT ![s] = next]
  /\ UNCHANGED <<row, reserved, pendingVars, held, hooks, asyncVars, closing, runsAs, timedOut>>

Next ==
  \/ \E s \in Ids, p \in Places : TrackPendingLaunch(s, p)
  \/ \E t \in Ids, id \in Ids : WorkerRegisters(t, id)
  \/ \E p \in Places, id \in Ids : WorkerAttaches(p, id)
  \/ \E s \in Ids, force \in BOOLEAN : BeginStop(s, force)
  \/ \E s \in Ids :
       \/ LaunchSession(s) \/ LaunchFails(s) \/ SessionEnds(s) \/ SurfaceMoves(s)
       \/ EvictPendingLaunch(s) \/ ReleaseProbes(s) \/ ReleaseCloses(s)
       \/ StopProbes(s) \/ StopCloses(s) \/ StopCloseFails(s) \/ StopConfirms(s)
  \/ ReleaseLaunchedSessions

Spec == Init /\ [][Next]_vars

\* A registration timer that is armed fires: setTimeout owes that much.
FairSpec == Spec /\ \A s \in Ids : WF_vars(EvictPendingLaunch(s))

-----------------------------------------------------------------------------
TypeOK ==
  /\ row \in [Ids -> Rows]
  /\ place \in [Ids -> Places \cup {None}]
  /\ rank \in [Ids -> Nat]
  /\ reserved \in SUBSET Ids /\ pending \in SUBSET Ids /\ held \in SUBSET Ids
  /\ ambiguous \in SUBSET Ids /\ mayHold \in SUBSET Ids /\ hooks \in SUBSET Ids
  /\ blind \in SUBSET Ids /\ timedOut \in SUBSET Ids
  /\ releasing \in [Ids -> {"no", "probing", "tearing"}]
  /\ stop \in [Ids -> {"no", "asked", "forced", "tearing", "confirming"}]
  /\ surface \in [Ids -> Surfaces]
  /\ runsAs \in [Ids -> Ids \cup {None}]
  /\ closing \in BOOLEAN

\* No half-registered ghost: while the server is up, every row that waits for a
\* registration has a record with an armed timer, and every record has the row
\* and the terminal it stands for, through claims, evictions and stops that race.
RegistriesAgree ==
  /\ ~closing => \A s \in Ids : row[s] = "registering" => s \in pending
  /\ \A s \in pending : row[s] = "registering" /\ s \in held

\* The mark that protects a live worker is never missing: a terminal whose own
\* worker has registered and whose launch is still pending may not be closed.
RegisteredIsMarked == \A s \in pending : runsAs[s] # None => s \in mayHold

\* Two pending launches of one place are told apart by nothing, and know it.
SiblingsAreAmbiguous ==
  \A s, t \in pending : s # t /\ place[s] = place[t] => s \in ambiguous

\* The cap bounds a burst of launches: rows of launches and launches under way
\* never outnumber it, however slow the launcher is and whoever attaches.
CapHolds ==
  Cardinality({s \in Listed : surface[s] # "none"}) + Cardinality(reserved) <= MaxSessions

\* No cross-wire: the session of a launch is the conversation in that launch's
\* own terminal (as long as the server keeps track of its launches).
BoundIsOwn ==
  ~closing => \A s \in Ids : row[s] = "connecting" /\ surface[s] # "none" => runsAs[s] = s

\* A worker that is listed runs in terminal s.
Occupied(s) == runsAs[s] # None /\ row[runsAs[s]] = "connecting"

\* The ghost reaper never closes the terminal of a live session.  (Violated with late
\* workers: it decides, then awaits the reading and the close, and a worker registers
\* meanwhile.  Without them it holds.)
EvictionSparesWorkers ==
  [][\A s \in Ids :
       surface'[s] = "reaped" /\ surface[s] # "reaped" /\ ~closing => ~Occupied(s)]_vars

\* Force is consent to destroy the session the operator named: the terminal it
\* takes down runs no other session's worker.
StopKillsItsOwn ==
  [][\A s \in Ids :
       surface'[s] = "stopped" /\ surface[s] # "stopped" /\ Occupied(s) => runsAs[s] = s]_vars

\* The record of a terminal is dropped only when the terminal is gone, or the
\* server is going: no live terminal is left that nothing will ever release.
HandleDroppedWhenGone ==
  [][\A s \in held \ held' : surface'[s] \notin Alive \/ closing']_vars

\* A stop never reports a live terminal stopped that nothing in it ever saw.
StoppedIsWitnessed ==
  [][\A s \in blind :
       stop[s] # "no" /\ stop'[s] = "no" /\ s \in held \ held' => surface[s] \notin Alive]_vars

\* A launch that never registers does not stay in the list.
GhostIsReaped ==
  \A s \in Ids : row[s] = "registering" ~> row[s] # "registering" \/ closing

\* Every hook install record belongs to a session that is listed.
HooksAreOwned == hooks \subseteq Listed

\* Shutdown leaves no pending launch behind, to fire against a dead server.
NothingPendingAfterClose == closing => pending = {}

Lifecycle == INSTANCE SessionLifecycle WITH Sessions <- Ids, phase <- row

\* The launch registry keeps the promise of SessionLifecycle.
ImplementsLifecycle == Lifecycle!Spec
=============================================================================
