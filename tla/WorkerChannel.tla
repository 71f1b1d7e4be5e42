---------------------------- MODULE WorkerChannel ----------------------------
(***************************************************************************)
(* The per-session worker channel: the epoch a worker registers under, the *)
(* event stream the server holds open to it, the liveness interval and the *)
(* eviction check armed against it, and the three ways a session's channel *)
(* ends (eviction, the operator's stop, shutdown).                         *)
(*                                                                         *)
(* A channel record is an object the code replaces on every re-register    *)
(* while timers and stream callbacks keep hold of the old one, so a record *)
(* is named by its session and its epoch and outlives its replacement.     *)
(* The idle timer and the status high-water mark of the same record are in *)
(* StatusFold, which looks at one channel from the worker's reports.       *)
(***************************************************************************)
EXTENDS SessionModel

CONSTANTS
  Sessions,     \* session ids: random UUIDs, never reused
  Streams,      \* responses of GET worker/events/stream, one per request
  Null,         \* no response, no session
  MaxEpoch,     \* bound on re-registrations
  MaxSeq        \* bound on the frames pushed to one session

ASSUME ChannelAssumption ==
  /\ Null \notin Streams \cup Sessions
  /\ MaxEpoch \in Nat
  /\ MaxSeq \in Nat

VARIABLES
  status,         \* the session registry: each row's status, and the ids not in it
  gap,            \* ticks since each row's last heartbeat
  cur,            \* workerChannels: the epoch of the session's record, 0 for none
  downstream,     \* the response each record pushes to
  eviction,       \* the eviction check each record has armed
  nextSeq,        \* the next downstream sequence number, handed from record to record
  streamState,    \* each response: not yet requested, open, ended by the server, closed
  streamSession,  \* the session it was opened for
  streamEpoch,    \* and the epoch of the record it was opened on
  beating,        \* the responses whose liveness interval is running
  stopping,       \* sessions whose emergency-stop is waiting on the terminal
  closing         \* close() has torn the channels down

rowVars == <<status, gap>>
recordVars == <<cur, downstream, eviction>>
streamVars == <<streamState, streamSession, streamEpoch, beating>>
vars == <<rowVars, recordVars, streamVars, nextSeq, stopping, closing>>

Epochs == 1 .. MaxEpoch

\* sessionEvictionGraceMs is both the delay of the check and the staleness window.
Grace == StaleAfter

\* A timer holds the ticks it has left; at 0 it is due, and fires when it fires.
Off == -1
Timers == {Off} \cup 0 .. Grace
Elapsed(timer) == IF timer > 0 THEN timer - 1 ELSE timer

Listed == {"registering", "connecting", "ready"}
StreamStates == {"unused", "open", "ended", "closed"}

InRegistry(s) == status[s] \in Listed
\* Past rejectIfRegistering: the session has registered over the bridge.
Registered(s) == status[s] \in {"connecting", "ready"}

Init ==
  /\ status = [s \in Sessions |-> "unborn"]
  /\ gap = [s \in Sessions |-> 0]
  /\ cur = [s \in Sessions |-> 0]
  /\ downstream = [s \in Sessions |-> [e \in Epochs |-> Null]]
  /\ eviction = [s \in Sessions |-> [e \in Epochs |-> Off]]
  /\ nextSeq = [s \in Sessions |-> 1]
  /\ streamState = [t \in Streams |-> "unused"]
  /\ streamSession = [t \in Streams |-> Null]
  /\ streamEpoch = [t \in Streams |-> 0]
  /\ beating = {}
  /\ stopping = {}
  /\ closing = FALSE

-----------------------------------------------------------------------------
\* The response of the session's current record, if it has one.
Downstream(s) == IF cur[s] = 0 THEN Null ELSE downstream[s][cur[s]]

\* endDownstream, on the session's current record: every way a stream is torn
\* down ends the response and clears the record's timers; the record still
\* names the response afterwards, until the caller replaces it.
Ended(s) ==
  [t \in Streams |->
     IF t = Downstream(s) /\ streamState[t] = "open" THEN "ended" ELSE streamState[t]]

Disarmed(s) ==
  [e \in Epochs |-> IF e = cur[s] THEN Off ELSE eviction[s][e]]

-----------------------------------------------------------------------------
\* Rows come from the launch registry and the environments bridge.

\* trackPendingLaunch: a launched terminal is listed before it registers.
TrackPendingLaunch(s) ==
  /\ status[s] = "unborn"
  /\ status' = [status EXCEPT ![s] = "registering"]
  /\ gap' = [gap EXCEPT ![s] = 0]
  /\ UNCHANGED <<recordVars, streamVars, nextSeq, stopping, closing>>

\* Mutant: an id whose session has ended is taken for a new one.
HandleSessionCreateReused(s) ==
  /\ status[s] \in {"unborn", "registering", "gone"}
  /\ status' = [status EXCEPT ![s] = "connecting"]
  /\ gap' = [gap EXCEPT ![s] = 0]
  /\ UNCHANGED <<recordVars, streamVars, nextSeq, stopping, closing>>

\* handleSessionCreate: a bound launch, or a session that attached by itself.
HandleSessionCreate(s) ==
  /\ status[s] \in {"unborn", "registering"}
  /\ status' = [status EXCEPT ![s] = "connecting"]
  /\ gap' = [gap EXCEPT ![s] = 0]
  /\ UNCHANGED <<recordVars, streamVars, nextSeq, stopping, closing>>

\* dropPlaceholder: the launch never registered.
DropPlaceholder(s) ==
  /\ status[s] = "registering"
  /\ status' = [status EXCEPT ![s] = "gone"]
  /\ UNCHANGED <<gap, recordVars, streamVars, nextSeq, stopping, closing>>

-----------------------------------------------------------------------------
\* The worker's own requests.

\* Mutant: the superseded stream is left open, its interval running.
HandleWorkerRegisterOver(s) ==
  /\ Registered(s)
  /\ cur[s] < MaxEpoch
  /\ cur' = [cur EXCEPT ![s] = @ + 1]
  /\ downstream' = [downstream EXCEPT ![s][cur[s] + 1] = Null]
  /\ eviction' = [eviction EXCEPT ![s] = [Disarmed(s) EXCEPT ![cur[s] + 1] = Off]]
  /\ nextSeq' = [nextSeq EXCEPT ![s] = IF cur[s] = 0 THEN 1 ELSE @]
  /\ UNCHANGED <<rowVars, streamVars, stopping, closing>>

\* A new generation: the old stream is ended, the new record has no stream and
\* no timer, and the downstream ids go on from where they were.
HandleWorkerRegister(s) ==
  /\ Registered(s)
  /\ cur[s] < MaxEpoch
  /\ streamState' = Ended(s)
  /\ beating' = beating \ {Downstream(s)}
  /\ cur' = [cur EXCEPT ![s] = @ + 1]
  /\ downstream' = [downstream EXCEPT ![s][cur[s] + 1] = Null]
  /\ eviction' = [eviction EXCEPT ![s] = [Disarmed(s) EXCEPT ![cur[s] + 1] = Off]]
  /\ nextSeq' = [nextSeq EXCEPT ![s] = IF cur[s] = 0 THEN 1 ELSE @]
  /\ UNCHANGED <<rowVars, streamSession, streamEpoch, stopping, closing>>

\* Opening a second stream supersedes the first; no heartbeat is implied.
HandleWorkerEventsStream(s, t) ==
  /\ InRegistry(s)
  /\ cur[s] # 0
  /\ streamState[t] = "unused"
  /\ streamState' = [Ended(s) EXCEPT ![t] = "open"]
  /\ streamSession' = [streamSession EXCEPT ![t] = s]
  /\ streamEpoch' = [streamEpoch EXCEPT ![t] = cur[s]]
  /\ beating' = (beating \ {Downstream(s)}) \cup {t}
  /\ downstream' = [downstream EXCEPT ![s][cur[s]] = t]
  /\ eviction' = [eviction EXCEPT ![s] = Disarmed(s)]
  /\ status' = [status EXCEPT ![s] = MarkSessionReady(@)]
  /\ UNCHANGED <<gap, cur, nextSeq, stopping, closing>>

\* Mutant: a dropped stream arms no check.
StreamCloseUnwatched(t) ==
  /\ streamState[t] \in {"open", "ended"}
  /\ downstream[streamSession[t]][streamEpoch[t]] = t
  /\ streamState' = [streamState EXCEPT ![t] = "closed"]
  /\ beating' = beating \ {t}
  /\ downstream' = [downstream EXCEPT ![streamSession[t]][streamEpoch[t]] = Null]
  /\ UNCHANGED <<rowVars, cur, eviction, streamSession, streamEpoch, nextSeq, stopping, closing>>

\* res.on("close"): the worker went away, or a response the server ended has
\* finished.  Only the response its record still names moves the record on.
StreamClose(t) ==
  LET s == streamSession[t]
      e == streamEpoch[t]
  IN  /\ streamState[t] \in {"open", "ended"}
      /\ streamState' = [streamState EXCEPT ![t] = "closed"]
      /\ beating' = beating \ {t}
      /\ IF downstream[s][e] = t
           THEN /\ downstream' = [downstream EXCEPT ![s][e] = Null]
                /\ eviction' = [eviction EXCEPT ![s][e] = Grace]
           ELSE UNCHANGED <<downstream, eviction>>
      /\ UNCHANGED <<rowVars, cur, streamSession, streamEpoch, nextSeq, stopping, closing>>

\* The heartbeat leg does not look at the epoch, or at the channel at all.
HandleWorkerHeartbeat(s) ==
  /\ Registered(s)
  /\ gap' = [gap EXCEPT ![s] = 0]
  /\ UNCHANGED <<status, recordVars, streamVars, nextSeq, stopping, closing>>

-----------------------------------------------------------------------------
\* Frames pushed down to the worker, numbered in the order they are written.

WriteClientEventFrame(s) ==
  /\ nextSeq[s] <= MaxSeq
  /\ nextSeq' = [nextSeq EXCEPT ![s] = @ + 1]
  /\ UNCHANGED <<rowVars, recordVars, streamVars, stopping, closing>>

\* A turn or a steer; refused when there is no channel to carry it.
PushClientEvent(s) ==
  /\ Downstream(s) # Null
  /\ WriteClientEventFrame(s)

\* The interval writes only while its response is its record's and is not ended.
WriteLivenessFrame(t) ==
  /\ t \in beating
  /\ downstream[streamSession[t]][streamEpoch[t]] = t
  /\ streamState[t] = "open"
  /\ WriteClientEventFrame(streamSession[t])

-----------------------------------------------------------------------------
\* The ends of a session.

\* closeSession: the row leaves the registry, if it is still there.
CloseSession(s) ==
  status' = IF InRegistry(s) THEN [status EXCEPT ![s] = "gone"] ELSE status

\* reapWorkerChannel: end the stream, disarm the record, forget it.
ReapWorkerChannel(s) ==
  /\ streamState' = Ended(s)
  /\ beating' = beating \ {Downstream(s)}
  /\ eviction' = [eviction EXCEPT ![s] = Disarmed(s)]
  /\ cur' = [cur EXCEPT ![s] = 0]

EvictionDue(s, e) == eviction[s][e] = 0

\* The record is the session's own and streams to nobody.
Unattended(s, e) == cur[s] = e /\ downstream[s][e] = Null /\ InRegistry(s)

\* The check of a record the session no longer uses, or that streams again.
EvictionBails(s, e) ==
  /\ EvictionDue(s, e)
  /\ ~Unattended(s, e)
  /\ eviction' = [eviction EXCEPT ![s][e] = Off]
  /\ UNCHANGED <<rowVars, cur, downstream, streamVars, nextSeq, stopping, closing>>

\* Still beating without a stream: look again one grace window later.
EvictionRetains(s, e) ==
  /\ EvictionDue(s, e)
  /\ Unattended(s, e)
  /\ ~IsSessionStale(gap[s])
  /\ eviction' = [eviction EXCEPT ![s][e] = Grace]
  /\ UNCHANGED <<rowVars, cur, downstream, streamVars, nextSeq, stopping, closing>>

\* Mutant: a worker without a stream is reaped, still beating or not.
EvictionReapsBeating(s, e) ==
  /\ EvictionDue(s, e)
  /\ Unattended(s, e)
  /\ CloseSession(s)
  /\ ReapWorkerChannel(s)
  /\ UNCHANGED <<gap, downstream, streamSession, streamEpoch, nextSeq, stopping, closing>>

\* No stream and no heartbeat for a full window: the worker is gone.
EvictionReaps(s, e) ==
  /\ EvictionDue(s, e)
  /\ Unattended(s, e)
  /\ IsSessionStale(gap[s])
  /\ CloseSession(s)
  /\ ReapWorkerChannel(s)
  /\ UNCHANGED <<gap, downstream, streamSession, streamEpoch, nextSeq, stopping, closing>>

ConsiderEviction(s, e) ==
  EvictionBails(s, e) \/ EvictionRetains(s, e) \/ EvictionReaps(s, e)

\* The emergency-stop asks the terminal and waits ...
BeginStop(s) ==
  /\ InRegistry(s)
  /\ s \notin stopping
  /\ stopping' = stopping \cup {s}
  /\ UNCHANGED <<rowVars, recordVars, streamVars, nextSeq, closing>>

\* ... is refused, and leaves everything where it stands ...
StopRefused(s) ==
  /\ s \in stopping
  /\ stopping' = stopping \ {s}
  /\ UNCHANGED <<rowVars, recordVars, streamVars, nextSeq, closing>>

\* ... or ends the session, which may have been evicted meanwhile.
FinishStop(s) ==
  /\ s \in stopping
  /\ stopping' = stopping \ {s}
  /\ ReapWorkerChannel(s)
  /\ CloseSession(s)
  /\ UNCHANGED <<gap, downstream, streamSession, streamEpoch, nextSeq, closing>>

\* close(): every record is torn down and none is forgotten.  The server keeps
\* no flag of it: a request on a connection already open is still served.
CloseWorkerChannels ==
  /\ ~closing
  /\ closing' = TRUE
  /\ streamState' = [t \in Streams |->
                       IF streamState[t] = "open" /\ Downstream(streamSession[t]) = t
                         THEN "ended" ELSE streamState[t]]
  /\ beating' = {t \in beating : Downstream(streamSession[t]) # t}
  /\ downstream' = [s \in Sessions |->
                      [e \in Epochs |-> IF e = cur[s] THEN Null ELSE downstream[s][e]]]
  /\ eviction' = [s \in Sessions |-> Disarmed(s)]
  /\ UNCHANGED <<rowVars, cur, streamSession, streamEpoch, nextSeq, stopping>>

-----------------------------------------------------------------------------
\* Rows age and timers run down.
Tick ==
  /\ gap' = [s \in Sessions |-> IF InRegistry(s) THEN Older(gap[s]) ELSE gap[s]]
  /\ eviction' = [s \in Sessions |-> [e \in Epochs |-> Elapsed(eviction[s][e])]]
  /\ UNCHANGED <<status, cur, downstream, streamVars, nextSeq, stopping, closing>>

SessionStep(s) ==
  \/ TrackPendingLaunch(s) \/ HandleSessionCreate(s) \/ DropPlaceholder(s)
  \/ HandleWorkerRegister(s) \/ HandleWorkerHeartbeat(s) \/ PushClientEvent(s)
  \/ \E t \in Streams : HandleWorkerEventsStream(s, t)
  \/ \E e \in Epochs : ConsiderEviction(s, e)
  \/ BeginStop(s) \/ StopRefused(s) \/ FinishStop(s)

StreamStep(t) == StreamClose(t) \/ WriteLivenessFrame(t)

Next ==
  \/ \E s \in Sessions : SessionStep(s)
  \/ \E t \in Streams : StreamStep(t)
  \/ CloseWorkerChannels
  \/ Tick

Spec == Init /\ [][Next]_vars

\* Time passes and an armed check fires: setTimeout owes nothing else, and a
\* worker owes nothing at all.
Fairness ==
  /\ WF_vars(Tick)
  /\ \A s \in Sessions, e \in Epochs : WF_vars(ConsiderEviction(s, e))

FairSpec == Spec /\ Fairness

-----------------------------------------------------------------------------
TypeOK ==
  /\ status \in [Sessions -> Listed \cup {"unborn", "gone"}]
  /\ gap \in [Sessions -> Gaps]
  /\ cur \in [Sessions -> 0 .. MaxEpoch]
  /\ downstream \in [Sessions -> [Epochs -> Streams \cup {Null}]]
  /\ eviction \in [Sessions -> [Epochs -> Timers]]
  /\ nextSeq \in [Sessions -> 1 .. MaxSeq + 1]
  /\ streamState \in [Streams -> StreamStates]
  /\ streamSession \in [Streams -> Sessions \cup {Null}]
  /\ streamEpoch \in [Streams -> 0 .. MaxEpoch]
  /\ beating \in SUBSET Streams
  /\ stopping \in SUBSET Sessions
  /\ closing \in BOOLEAN

\* The registry of channels does not outgrow the registry of sessions: a record
\* belongs to a session that is listed and has registered over the bridge,
\* whether the session ended by its eviction timer or under the operator's stop.
ChannelHasRow == \A s \in Sessions : cur[s] # 0 => Registered(s)

\* A response left open to a worker is the one the session's current record
\* pushes to: no superseded generation and no ended session keeps a stream.
OneLiveStream ==
  \A t \in Streams :
    streamState[t] = "open" =>
      /\ streamEpoch[t] = cur[streamSession[t]]
      /\ Downstream(streamSession[t]) = t

\* No interval dangles: one beats against a response only while it is open.
NoDanglingInterval == \A t \in beating : streamState[t] = "open"

Opened(s, e) ==
  \E t \in Streams : streamSession[t] = s /\ streamEpoch[t] = e

\* A dropped worker is never forgotten: while the server is up, a record that
\* has had a stream and has none has its eviction check armed.
DroppedIsWatched ==
  ~closing => \A s \in Sessions :
    cur[s] # 0 /\ Downstream(s) = Null /\ Opened(s, cur[s])
      => eviction[s][cur[s]] # Off

\* A registered session leaves the registry only under the operator's stop, or
\* when it has no stream and its worker has been silent for a full window: a
\* reconnecting or still-beating worker is never evicted from under itself.
EvictedOnlyWhenGone ==
  [][\A s \in Sessions :
       Registered(s) /\ status'[s] = "gone" /\ s \notin stopping =>
         /\ IsSessionStale(gap[s])
         /\ \A t \in Streams : streamSession[t] = s => streamState[t] # "open"]_vars

\* A downstream id is never handed out twice in a session's life: the counter
\* survives every re-register and moves only up.
DownstreamIdsNeverRepeat ==
  [][\A s \in Sessions : cur[s] # 0 => nextSeq'[s] >= nextSeq[s]]_vars

\* The worker dropped its stream and has been silent past the window.
SilentlyDropped(s) ==
  /\ cur[s] # 0 /\ Downstream(s) = Null /\ Opened(s, cur[s])
  /\ IsSessionStale(gap[s])
  /\ ~closing

\* A session whose worker dropped its stream and fell silent does not stay so:
\* it is reaped, unless the worker comes back or the server goes down.
SilentDropIsReaped ==
  \A s \in Sessions : SilentlyDropped(s) ~> ~SilentlyDropped(s)

\* Nobody has heard from a registered worker for a full window, and it holds no
\* stream: what considerEviction calls terminally gone.
TerminallyGone(s) ==
  /\ Registered(s) /\ Downstream(s) = Null
  /\ IsSessionStale(gap[s])
  /\ ~closing

\* The promise of worker-channel.ts that the registry does not grow unbounded
\* across worker exits: a session terminally gone does not stay listed.
SilentWorkerIsReaped ==
  \A s \in Sessions : TerminallyGone(s) ~> ~TerminallyGone(s)

\* reapWorkerChannel's promise that nothing is left armed against a record
\* nobody holds: once a session's channel is dropped, no check is pending.
NothingArmedAfterReap ==
  \A s \in Sessions : status[s] = "gone" => \A e \in Epochs : eviction[s][e] = Off

\* The life of a session id, as the channel moves it.
Lifecycle == INSTANCE SessionLifecycle WITH phase <- status

\* The channel keeps the promise of SessionLifecycle.
ImplementsLifecycle == Lifecycle!Spec
=============================================================================
