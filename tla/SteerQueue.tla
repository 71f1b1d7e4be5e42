------------------------------ MODULE SteerQueue ------------------------------
(***************************************************************************)
(* Steering from the phone: the poll of the session list that is the page's *)
(* heartbeat, the cursors by which the page knows what the operator has     *)
(* seen of each session, and the queue that holds the steers made offline   *)
(* until the next reconnect drains it.                                      *)
(*                                                                          *)
(* The page is one thread: an action is a stretch of it between two awaits. *)
(* A command has no content but its number; the numbers are also the order  *)
(* the operator made the commands in.  Of the server there is the session   *)
(* list, the event cursor of each session and the commands it has taken.    *)
(* A request whose fetch has failed is not delivered afterwards.            *)
(***************************************************************************)
EXTENDS Integers, Sequences, SequencesExt, FiniteSets

CONSTANTS
  Sessions,     \* the sessions of the hub
  Null,         \* no session
  MaxEvents,    \* bound on the events of a session
  MaxSteers     \* bound on the commands the operator gives

ASSUME SteerAssumption ==
  /\ Null \notin Sessions
  /\ MaxEvents \in Nat
  /\ MaxSteers \in Nat

VARIABLES
  \* the server and the link to it
  up,              \* requests reach the server and its answers come back
  listed,          \* the sessions that are alive
  head,            \* the last event id of each
  accepted,        \* the commands taken, with how they were sent
  \* the page
  poll,            \* the poll: idle, or answered with the list it found
  pollState,       \* pending, ok or failed
  renderedSessions,
  currentSessionId,
  sessionCursors,  \* Absent: no entry
  viewedCursors,
  steerQueue,
  sending,         \* the items of the drain in flight; firingQueue while any is left
  posts,           \* commands under way outside a drain
  steerSeq,        \* the number of the last command
  \* history
  cancelled        \* commands cancelled while they were queued

serverVars == <<up, listed, head, accepted>>
viewVars == <<renderedSessions, currentSessionId, sessionCursors, viewedCursors>>
vars == <<serverVars, poll, pollState, viewVars, steerQueue, sending, posts, steerSeq, cancelled>>

Absent == -1
Idle == [stage |-> "idle", list |-> {}, cursor |-> [s \in Sessions |-> 0]]
firingQueue == sending # <<>>

Init ==
  /\ up = TRUE
  /\ listed = Sessions
  /\ head = [s \in Sessions |-> 0]
  /\ accepted = <<>>
  /\ poll = Idle
  /\ pollState = "pending"
  /\ renderedSessions = {}
  /\ currentSessionId \in Sessions \cup {Null}    \* a deep link names one
  /\ sessionCursors = [s \in Sessions |-> Absent]
  /\ viewedCursors = [s \in Sessions |-> Absent]
  /\ steerQueue = <<>>
  /\ sending = <<>>
  /\ posts = {}
  /\ steerSeq = 0
  /\ cancelled = {}

-----------------------------------------------------------------------------
\* The server, and the link.

EmitEvent(s) ==
  /\ s \in listed
  /\ head[s] < MaxEvents
  /\ head' = [head EXCEPT ![s] = @ + 1]
  /\ UNCHANGED <<up, listed, accepted, poll, pollState, viewVars, steerQueue, sending, posts, steerSeq, cancelled>>

EndSession(s) ==
  /\ s \in listed
  /\ listed' = listed \ {s}
  /\ UNCHANGED <<up, head, accepted, poll, pollState, viewVars, steerQueue, sending, posts, steerSeq, cancelled>>

LinkFlaps ==
  /\ up' = ~up
  /\ UNCHANGED <<listed, head, accepted, poll, pollState, viewVars, steerQueue, sending, posts, steerSeq, cancelled>>

-----------------------------------------------------------------------------
\* Cursors.

\* bumpCursor: an entry is made or moved only by a genuine advance.
Later(stored, incoming) ==
  IF incoming > (IF stored = Absent THEN 0 ELSE stored) THEN incoming ELSE stored

OrZero(cursor) == IF cursor = Absent THEN 0 ELSE cursor

\* Mutant: a queued command is judged against what the operator has seen by now.
MovedOnFromView(item, cursors) == OrZero(cursors[item.session]) > OrZero(viewedCursors[item.session])

\* sessionMovedOn, of a queued item: its session has emitted events since.
MovedOn(item, cursors) == OrZero(cursors[item.session]) > item.cursor

\* recordViewedEvent: the stream of the viewed session delivers one of its events.
RecordViewedEvent(s, id) ==
  /\ s = currentSessionId
  /\ up
  /\ id <= head[s] /\ id > OrZero(viewedCursors[s])
  /\ sessionCursors' = [sessionCursors EXCEPT ![s] = Later(@, id)]
  /\ viewedCursors' = [viewedCursors EXCEPT ![s] = Later(@, id)]
  /\ UNCHANGED <<serverVars, poll, pollState, renderedSessions, currentSessionId, steerQueue, sending, posts, steerSeq, cancelled>>

\* selectSession, of a row: viewing a session whose head is known is seeing it.
Viewed(s, cursors, viewed) ==
  IF cursors[s] # Absent THEN [viewed EXCEPT ![s] = Later(@, cursors[s])] ELSE viewed

SelectSession(s) ==
  /\ s \in renderedSessions
  /\ s # currentSessionId
  /\ currentSessionId' = s
  /\ viewedCursors' = Viewed(s, sessionCursors, viewedCursors)
  /\ UNCHANGED <<serverVars, poll, pollState, renderedSessions, sessionCursors, steerQueue, sending, posts, steerSeq, cancelled>>

-----------------------------------------------------------------------------
\* The drain.

\* connectionHealth: offline is a missed heartbeat, whatever the stream says; only
\* then are commands queued.
Offline == pollState = "failed"

\* The items of seq at the positions in at, in the order of seq: the one in the
\* k-th place has k of the positions up to its own.
Picked(seq, at) ==
  [k \in 1 .. Cardinality(at) |-> seq[CHOOSE i \in at : Cardinality({j \in at : j <= i}) = k]]

Moved(cursors) == {i \in DOMAIN steerQueue : MovedOn(steerQueue[i], cursors)}

\* Mutant: the items stay in the queue until the drain is over.
DrainKeeping(cursors) ==
  sending' = Picked(steerQueue, DOMAIN steerQueue \ Moved(cursors)) /\ UNCHANGED steerQueue

\* The partition of fireSteerQueue: what has not moved on leaves the queue to be
\* sent, in order, and the rest is held.  The queue must not be empty.
Drain(cursors) ==
  LET held == Picked(steerQueue, Moved(cursors))
  IN  /\ steerQueue' = [i \in DOMAIN held |-> [held[i] EXCEPT !.status = "stale"]]
      /\ sending' = Picked(steerQueue, DOMAIN steerQueue \ Moved(cursors))

\* Mutant: only the first connection of the page drains.
FireOnFirst(cursors) ==
  IF firingQueue \/ steerQueue = <<>> \/ pollState # "pending"
    THEN UNCHANGED <<steerQueue, sending>> ELSE Drain(cursors)

\* Mutant: a reconnect drains beside a drain in flight, and its request is the first
\* to be answered.
FireOverlapping(cursors) ==
  IF steerQueue = <<>> \/ pollState = "ok" THEN UNCHANGED <<steerQueue, sending>>
  ELSE /\ steerQueue' = Picked(steerQueue, Moved(cursors))
       /\ sending' = Picked(steerQueue, DOMAIN steerQueue \ Moved(cursors)) \o sending

\* fireSteerQueue on a reconnect: skipped while a drain is in flight.
FireOnReconnect(cursors) ==
  IF firingQueue \/ steerQueue = <<>> \/ pollState = "ok"
    THEN UNCHANGED <<steerQueue, sending>> ELSE Drain(cursors)

\* Mutant: a drain that ends does not look at the queue again.
NoRearm == sending' = <<>> /\ UNCHANGED steerQueue

\* The finally of a drain: what was queued during it is drained now if the link is
\* back, for the reconnect that should have drained it found this one in flight.
Rearm ==
  IF steerQueue # <<>> /\ ~Offline THEN Drain(sessionCursors)
  ELSE sending' = <<>> /\ UNCHANGED steerQueue

\* A POST is taken by the server or not, and its answer comes back or not.
Taken(item, took, by) ==
  /\ took => up /\ item.session \in listed
  /\ accepted' = IF took THEN Append(accepted, [id |-> item.id, by |-> by, status |-> item.status]) ELSE accepted

\* The success of sendSteerTo: the operator has acted on what is on screen.
Acted(item, ok) ==
  viewedCursors' =
    IF ok /\ item.session = currentSessionId
      THEN [viewedCursors EXCEPT ![item.session] = Later(@, OrZero(sessionCursors[item.session]))]
      ELSE viewedCursors

\* The POST the drain awaits is answered or fails, and the next one goes out.
DrainedSteerSettles(took, ok) ==
  /\ firingQueue
  /\ ok => took
  /\ Taken(Head(sending), took, "drain")
  /\ Acted(Head(sending), ok)
  /\ IF Len(sending) > 1
       THEN sending' = Tail(sending) /\ UNCHANGED steerQueue
       ELSE Rearm
  /\ UNCHANGED <<up, listed, head, poll, pollState, renderedSessions, currentSessionId, sessionCursors, posts, steerSeq, cancelled>>

-----------------------------------------------------------------------------
\* The poll.

\* pollSessions, by its timer or by a refresh, never two at once: the server lists
\* its sessions with their cursors.
PollIsServed ==
  /\ poll.stage = "idle"
  /\ up
  /\ poll' = [stage |-> "answered", list |-> listed, cursor |-> head]
  /\ UNCHANGED <<serverVars, pollState, viewVars, steerQueue, sending, posts, steerSeq, cancelled>>

\* The request or its answer is lost: the heartbeat is missed.
PollFails ==
  /\ ~up
  /\ poll' = Idle
  /\ pollState' = "failed"
  /\ UNCHANGED <<serverVars, viewVars, steerQueue, sending, posts, steerSeq, cancelled>>

\* applySessionList, of the head cursors: advanced, and dropped with their row.
ListedCursors ==
  [s \in Sessions |->
     IF s \in poll.list THEN Later(sessionCursors[s], poll.cursor[s])
     ELSE IF s \in renderedSessions \/ poll.list = {} THEN Absent ELSE sessionCursors[s]]

\* The same of the viewed cursors.
RowsOnly(viewed) ==
  [s \in Sessions |->
     IF s \notin poll.list /\ (s \in renderedSessions \/ poll.list = {}) THEN Absent ELSE viewed[s]]

\* nextSelection: the first session if none is viewed, none if the viewed is gone.
NextSelection ==
  IF currentSessionId = Null THEN IF poll.list = {} THEN {Null} ELSE poll.list
  ELSE {IF currentSessionId \in poll.list THEN currentSessionId ELSE Null}

\* The rest of loadSessions once its answer is in.
PollIsApplied ==
  /\ poll.stage = "answered"
  /\ poll' = Idle
  /\ pollState' = "ok"
  /\ renderedSessions' = poll.list
  /\ sessionCursors' = ListedCursors
  /\ \E s \in NextSelection :
       LET rows == RowsOnly(viewedCursors)
           opened == IF s \notin {Null, currentSessionId} THEN Viewed(s, ListedCursors, rows) ELSE rows
       IN  /\ currentSessionId' = s
           /\ viewedCursors' =
                IF s # Null /\ opened[s] = Absent
                  THEN [opened EXCEPT ![s] = OrZero(ListedCursors[s])] ELSE opened
  /\ FireOnReconnect(ListedCursors)
  /\ UNCHANGED <<serverVars, posts, steerSeq, cancelled>>

-----------------------------------------------------------------------------
\* The operator.

Item(status) ==
  [id |-> steerSeq + 1, session |-> currentSessionId,
   cursor |-> OrZero(viewedCursors[currentSessionId]), status |-> status]

\* enqueueSteer and holdStaleSteer: behind the others.
Enqueued(item) == Append(steerQueue, item)

\* steer while the heartbeat is missed: kept for the next reconnect.
SteerOffline ==
  /\ Offline
  /\ steerQueue' = Enqueued(Item("pending"))
  /\ UNCHANGED posts

\* steer of a session that has moved on unseen: held for the operator to confirm.
SteerHeld ==
  /\ ~Offline
  /\ MovedOn(Item("stale"), sessionCursors)
  /\ steerQueue' = Enqueued(Item("stale"))
  /\ UNCHANGED posts

\* steer otherwise: sent at once.
SteerOnline ==
  /\ ~Offline
  /\ ~MovedOn(Item("sent"), sessionCursors)
  /\ posts' = posts \cup {Item("sent")}
  /\ UNCHANGED steerQueue

Steer ==
  /\ currentSessionId # Null
  /\ steerSeq < MaxSteers
  /\ SteerOffline \/ SteerHeld \/ SteerOnline
  /\ steerSeq' = steerSeq + 1
  /\ UNCHANGED <<serverVars, poll, pollState, viewVars, sending, cancelled>>

\* cancelQueued, of the item at position i.
CancelSteerQueued(i) ==
  /\ i \in DOMAIN steerQueue
  /\ cancelled' = cancelled \cup {steerQueue[i].id}
  /\ steerQueue' = RemoveAt(steerQueue, i)
  /\ UNCHANGED <<serverVars, poll, pollState, viewVars, sending, posts, steerSeq>>

\* sendSteerAnyway, which only a held row offers.
SendSteerAnyway(i) ==
  /\ i \in DOMAIN steerQueue
  /\ steerQueue[i].status = "stale"
  /\ posts' = posts \cup {steerQueue[i]}
  /\ steerQueue' = RemoveAt(steerQueue, i)
  /\ UNCHANGED <<serverVars, poll, pollState, viewVars, sending, steerSeq, cancelled>>

\* A command sent outside a drain is answered or fails.
SteerSettles(item, took, ok) ==
  /\ item \in posts
  /\ ok => took
  /\ posts' = posts \ {item}
  /\ Taken(item, took, "hand")
  /\ Acted(item, ok)
  /\ UNCHANGED <<up, listed, head, poll, pollState, renderedSessions, currentSessionId, sessionCursors, steerQueue, sending, steerSeq, cancelled>>

Next ==
  \/ LinkFlaps \/ PollIsServed \/ PollFails \/ PollIsApplied \/ Steer
  \/ \E s \in Sessions : EmitEvent(s) \/ EndSession(s) \/ SelectSession(s)
  \/ \E s \in Sessions, id \in 1 .. MaxEvents : RecordViewedEvent(s, id)
  \/ \E took, ok \in BOOLEAN : DrainedSteerSettles(took, ok)
  \/ \E item \in posts, took, ok \in BOOLEAN : SteerSettles(item, took, ok)
  \/ \E i \in 1 .. MaxSteers : CancelSteerQueued(i) \/ SendSteerAnyway(i)

\* The page's timer polls again and every request settles: by the server's answer
\* while the link is up, by an error while it is not.
Fairness ==
  /\ WF_vars(PollIsServed) /\ WF_vars(PollFails) /\ WF_vars(PollIsApplied)
  /\ WF_vars(\E took, ok \in BOOLEAN : DrainedSteerSettles(took, ok))

Spec == Init /\ [][Next]_vars /\ Fairness

-----------------------------------------------------------------------------
IsPending(id) == \E i \in DOMAIN steerQueue : steerQueue[i].id = id /\ steerQueue[i].status = "pending"

\* No command waits for a reconnect that has happened: once the page is back
\* online and no drain is in flight, no pending item is left in the queue.
NothingStranded ==
  ~Offline /\ ~firingQueue => \A id \in 1 .. MaxSteers : ~IsPending(id)

\* However polls, drains and the operator interleave, no command reaches its
\* session twice, and none after it was cancelled.
FiredOnceNeverCancelled ==
  /\ \A i, j \in DOMAIN accepted : i # j => accepted[i].id # accepted[j].id
  /\ \A i \in DOMAIN accepted : accepted[i].id \notin cancelled

\* A command a session has taken while it was held had the operator's yes.
TakenNeedsAYes ==
  \A i \in DOMAIN accepted : accepted[i].status = "stale" => accepted[i].by = "hand"

\* A command held because its session moved on goes to no living session without the
\* operator's yes, whatever the operator looks at and however often the link flaps: a
\* later drain sends it only when its session has ended, and no session takes it then.
HeldNeedsAYes ==
  /\ TakenNeedsAYes
  /\ \A i \in DOMAIN sending : sending[i].status = "stale" => sending[i].session \notin listed

\* "A held item stays held on later drains ... until the operator confirms or cancels
\* it": no drain sends one.  (Violated: when the session leaves the list its cursor is
\* dropped, and the next drain no longer sees that it had moved on.)
HeldStaysHeld == \A i \in DOMAIN sending : sending[i].status # "stale"

\* The commands of the queue reach the sessions in the order they were given, over
\* all drains: a later redirect is never countermanded by an earlier input.
DrainKeepsOrder ==
  \A i, j \in DOMAIN accepted :
    i < j /\ accepted[i].by = "drain" /\ accepted[j].by = "drain" => accepted[i].id < accepted[j].id

\* Once the link stays up, every queued command is sent, held or cancelled.
QueuedIsSettled ==
  <>[]up => \A id \in 1 .. MaxSteers : IsPending(id) ~> ~IsPending(id)

\* Over all the commands, queued or not, the order does not hold: a command given
\* while a drain is in flight is sent at once and overtakes it.
SentInOrder ==
  \A i, j \in DOMAIN accepted : i < j => accepted[i].id < accepted[j].id
=============================================================================
