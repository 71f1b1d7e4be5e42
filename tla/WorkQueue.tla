------------------------------- MODULE WorkQueue -------------------------------
(***************************************************************************)
(* The bridge's dispatch of a session to the worker that is to run it: the *)
(* environments in the order they registered, the queue of work of each,   *)
(* and the polls held open on them.  A poll that finds no work is held     *)
(* until an item is enqueued, its window lapses, its client goes away or   *)
(* the server closes, and any of these may meet another.                   *)
(*                                                                         *)
(* A work item is named by the session it dispatches.  The verbs a worker  *)
(* posts of an item it was given change nothing and are left out.          *)
(***************************************************************************)
EXTENDS Integers, Sequences, Functions, FiniteSets

CONSTANTS
  Environments,   \* environment ids, one per registration
  Sessions,       \* session ids, and the work items that dispatch them
  Polls,          \* requests of GET .../work/poll
  NoWork          \* the empty body

ASSUME QueueAssumption == NoWork \notin Sessions /\ IsFiniteSet(Polls)

VARIABLES
  \* the server
  registered,   \* environments, in the insertion order of the map
  queue,        \* the work queue of each
  waiters,      \* the polls held on each
  settled,      \* the polls whose held response has been resolved
  timer,        \* the polls whose window is running
  closing,      \* close() has settled the polls
  \* the polls, as their clients see them
  target,       \* the environments a poll names, at most one
  place,        \* its place among the polls, 0 before it is asked: a Set keeps
                \* the waiters in the order of their insertion
  replies,      \* what has been written to it
  destroyed,    \* its client has gone away
  \* history
  created,      \* the sessions that exist
  sent,         \* what was enqueued on each environment
  delivered     \* what was written to a response that was still open

serverVars == <<registered, queue, waiters, settled, timer, closing>>
vars == <<serverVars, target, place, replies, destroyed, created, sent, delivered>>

Init ==
  /\ registered = <<>>
  /\ queue = [e \in Environments |-> <<>>]
  /\ waiters = [e \in Environments |-> {}]
  /\ settled = {}
  /\ timer = {}
  /\ closing = FALSE
  /\ target = [p \in Polls |-> {}]
  /\ place = [p \in Polls |-> 0]
  /\ replies = [p \in Polls |-> <<>>]
  /\ destroyed = {}
  /\ created = {}
  /\ sent = [e \in Environments |-> <<>>]
  /\ delivered = [e \in Environments |-> <<>>]

-----------------------------------------------------------------------------
\* isResponseClosed: ended by us, or given up by the client.
IsResponseClosed(p) == replies[p] # <<>> \/ p \in destroyed

\* What is written to a response is delivered if the client can still read it.
Write(p, e, body) ==
  /\ replies' = [replies EXCEPT ![p] = Append(@, body)]
  /\ delivered' = IF body = NoWork \/ p \in destroyed THEN delivered
                  ELSE [delivered EXCEPT ![e] = Append(@, body)]

\* Mutant: the poll leaves the waiters, but neither is it marked nor its window closed.
SettleUnmarked(p, e) ==
  /\ waiters' = [waiters EXCEPT ![e] = @ \ {p}]
  /\ UNCHANGED <<settled, timer>>

\* The waiter of a poll is dropped, the poll marked and its window closed.
Settle(p, e) ==
  /\ settled' = settled \cup {p}
  /\ waiters' = [waiters EXCEPT ![e] = @ \ {p}]
  /\ timer' = timer \ {p}

\* finish, of a poll that has not been settled.
Finish(p, e, body) ==
  /\ Settle(p, e)
  /\ Write(p, e, body)

-----------------------------------------------------------------------------
\* Each register mints an environment, with an empty queue.
HandleEnvironmentRegister(e) ==
  /\ e \notin Range(registered)
  /\ registered' = Append(registered, e)
  /\ UNCHANGED <<queue, waiters, settled, timer, closing, target, place, replies, destroyed, created, sent, delivered>>

\* Mutant: the oldest waiter is handed the work, whatever became of its client.
DeliverableUnchecked(e) == waiters[e]

\* Mutant: the wake-up stops at the first waiter, live or not.
DeliverableFirst(e) ==
  {p \in waiters[e] : /\ p \notin settled /\ ~IsResponseClosed(p)
                      /\ \A q \in waiters[e] : place[p] <= place[q]}

\* The held polls that deliverQueued would not decline.
Deliverable(e) == {p \in waiters[e] : p \notin settled /\ ~IsResponseClosed(p)}

\* enqueueWork and flushWaiter: the oldest item goes to the first live poll, or
\* the queue keeps it.
EnqueueWork(e, s) ==
  LET items == Append(queue[e], s) IN
  /\ sent' = [sent EXCEPT ![e] = Append(@, s)]
  /\ \/ /\ Deliverable(e) = {}
        /\ queue' = [queue EXCEPT ![e] = items]
        /\ UNCHANGED <<settled, waiters, timer, replies, delivered>>
     \/ \E p \in Deliverable(e) :
          /\ \A q \in Deliverable(e) : place[p] <= place[q]
          /\ queue' = [queue EXCEPT ![e] = Tail(items)]
          /\ Finish(p, e, Head(items))

\* A session is created and dispatched to the environment registered last; with
\* none registered it is created all the same.
HandleSessionCreate(s) ==
  /\ s \notin created
  /\ created' = created \cup {s}
  /\ IF registered = <<>>
       THEN UNCHANGED <<queue, settled, waiters, timer, replies, sent, delivered>>
       ELSE EnqueueWork(registered[Len(registered)], s)
  /\ UNCHANGED <<registered, closing, target, place, destroyed>>

\* A poll takes the item at the head of the queue ...
PollTakesWork(e, p) ==
  /\ queue[e] # <<>>
  /\ queue' = [queue EXCEPT ![e] = Tail(@)]
  /\ Write(p, e, Head(queue[e]))
  /\ UNCHANGED <<waiters, settled, timer>>

\* Mutant: the window of a held poll is never started.
PollIsHeldUntimed(e, p) ==
  /\ queue[e] = <<>>
  /\ waiters' = [waiters EXCEPT ![e] = @ \cup {p}]
  /\ UNCHANGED <<queue, settled, timer, replies, delivered>>

\* ... or is held.
PollIsHeld(e, p) ==
  /\ queue[e] = <<>>
  /\ waiters' = [waiters EXCEPT ![e] = @ \cup {p}]
  /\ timer' = timer \cup {p}
  /\ UNCHANGED <<queue, settled, replies, delivered>>

\* A poll of an environment nobody registered is refused and is not modelled.
HandleWorkPoll(e, p) ==
  /\ e \in Range(registered)
  /\ target[p] = {}
  /\ target' = [target EXCEPT ![p] = {e}]
  /\ place' = [place EXCEPT ![p] = 1 + Cardinality({q \in Polls : target[q] # {}})]
  /\ PollTakesWork(e, p) \/ PollIsHeld(e, p)
  /\ UNCHANGED <<registered, closing, destroyed, created, sent>>

\* The window of a held poll lapses: it is answered that there is no work, and
\* if its client has gone nobody reads it.
PollTimeout(p) ==
  /\ p \in timer \ settled
  /\ \E e \in target[p] : Finish(p, e, NoWork)
  /\ UNCHANGED <<registered, queue, closing, target, place, destroyed, created, sent>>

\* The client of a held poll goes away; its close event is yet to come.
Disconnect(p) ==
  /\ target[p] # {}
  /\ ~IsResponseClosed(p)
  /\ destroyed' = destroyed \cup {p}
  /\ UNCHANGED <<serverVars, target, place, replies, created, sent, delivered>>

\* req.on("close"): nothing is left to do for a poll already settled.
RequestClose(p) ==
  /\ p \in destroyed \ settled
  /\ \E e \in target[p] : Settle(p, e)
  /\ UNCHANGED <<registered, queue, closing, target, place, replies, destroyed, created, sent, delivered>>

\* close(): every held poll is answered that there is no work.
SettlePendingPolls ==
  LET held == UNION {waiters[e] : e \in Environments} IN
  /\ ~closing
  /\ closing' = TRUE
  /\ settled' = settled \cup held
  /\ waiters' = [e \in Environments |-> {}]
  /\ timer' = timer \ held
  /\ replies' = [p \in Polls |-> IF p \in held \ settled THEN Append(replies[p], NoWork) ELSE replies[p]]
  /\ UNCHANGED <<registered, queue, target, place, destroyed, created, sent, delivered>>

Next ==
  \/ \E e \in Environments : HandleEnvironmentRegister(e)
  \/ \E s \in Sessions : HandleSessionCreate(s)
  \/ \E e \in Environments, p \in Polls : HandleWorkPoll(e, p)
  \/ \E p \in Polls : PollTimeout(p) \/ Disconnect(p) \/ RequestClose(p)
  \/ SettlePendingPolls

Spec == Init /\ [][Next]_vars

\* A window that is running lapses: setTimeout owes that much.
FairSpec == Spec /\ \A p \in Polls : WF_vars(PollTimeout(p))

-----------------------------------------------------------------------------
TypeOK ==
  /\ registered \in Seq(Environments)
  /\ queue \in [Environments -> Seq(Sessions)]
  /\ waiters \in [Environments -> SUBSET Polls]
  /\ settled \in SUBSET Polls /\ timer \in SUBSET Polls /\ destroyed \in SUBSET Polls
  /\ closing \in BOOLEAN
  /\ target \in [Polls -> SUBSET Environments]
  /\ place \in [Polls -> Nat]
  /\ replies \in [Polls -> Seq(Sessions \cup {NoWork})]
  /\ created \in SUBSET Sessions
  /\ sent \in [Environments -> Seq(Sessions)]
  /\ delivered \in [Environments -> Seq(Sessions)]

\* The environment of a poll holds it as long as it has not been resolved.
Held(p) == target[p] # {} /\ p \notin settled /\ replies[p] = <<>>

\* Work is delivered in the order it was enqueued, each item once, and never to a
\* client that is known to be gone: an environment's queue is just what is left.
DeliveredOnceInOrder == \A e \in Environments : sent[e] = delivered[e] \o queue[e]

\* No wake-up is lost: while work is queued for an environment, no client waits
\* on it, whichever waiters died before their close events came.
NoWorkHeldBack ==
  \A p \in Polls, e \in Environments :
    Held(p) /\ p \notin destroyed /\ e \in target[p] => queue[e] = <<>>

\* A held response is resolved at most once, whatever meets whatever: a second
\* write would throw out of the timer or the request that made it.
ResolvedOnce == \A p \in Polls : Len(replies[p]) <= 1

\* A poll is not held for ever: neither work nor a disconnect has to come.
HeldPollIsResolved == \A p \in Polls : Held(p) ~> ~Held(p)
=============================================================================
