----------------------------- MODULE StatusFold -----------------------------
(***************************************************************************)
(* How the server classifies one session from its worker's status reports. *)
(* Every report travels twice, bare on the status leg and with its detail  *)
(* on the events leg, on connections of their own: the two legs of a       *)
(* report, and the legs of different reports, arrive in any order, late,   *)
(* twice, or never.  The channel record orders them by the sequence number *)
(* the worker stamps, within the generation (epoch) that stamped it.       *)
(*                                                                         *)
(* The module follows one session while its row exists; its stream and its *)
(* end are in WorkerChannel.                                               *)
(***************************************************************************)
EXTENDS SessionModel, FiniteSets

CONSTANTS
  IdleThreshold,   \* sessionIdleThresholdMs, in ticks
  MaxEpoch,        \* bound on the worker's registrations
  MaxReports,      \* bound on the reports of one generation
  MaxResends       \* bound on the requests a worker sends again

ASSUME FoldAssumption ==
  /\ IdleThreshold \in Nat
  /\ MaxEpoch \in Nat \ {0}
  /\ MaxReports \in Nat
  /\ MaxResends \in Nat

Epochs == 1 .. MaxEpoch
Reports == 1 .. MaxReports
NoSeq == 0                    \* a null sequence
Kinds == {"idle", "running", "requires_action"}
Legs == {"status", "events"}

\* A report is known by the generation that made it and its place in it.
Blocks == Epochs \X Reports
DefaultDetail == <<0, 0>>     \* "Awaiting input."

Off == -1
Timers == {Off} \cup 0 .. IdleThreshold

VARIABLES
  \* the worker
  epoch,         \* its current registration
  stamps,        \* the generations whose build stamps a sequence
  last,          \* how many reports each generation has made
  report,        \* what each of them said
  wire,          \* upstream requests under way, read in any order
  resends,       \* requests sent again so far
  \* the server: the session's row and its channel record
  kind,          \* the kind of the session's activity
  detail,        \* whose detail a requires_action activity carries
  highest,       \* highestStatusSeq
  idleTimer,     \* the idle-threshold check
  gap,           \* ticks since the last heartbeat
  \* what reached the session's UI stream
  shown,         \* the last report relayed from the current generation
  nudges,        \* needs-input events raised in this awaiting stretch
  muted,         \* the stretch began with a lapsed heartbeat
  idleFor,       \* ticks of this idle stretch, a turn pushed down starting it anew
  idleNudges     \* idle events raised in this idle stretch

workerVars == <<epoch, stamps, last, report, wire, resends>>
activityVars == <<kind, detail>>
uiVars == <<shown, nudges, muted, idleFor, idleNudges>>
vars == <<workerVars, activityVars, highest, idleTimer, gap, uiVars>>

Frames == [leg : Legs, epoch : Epochs, n : Reports]

\* The stamp a request carries, if its generation stamps at all.
Seq(f) == IF f.epoch \in stamps THEN f.n ELSE NoSeq

Init ==
  /\ epoch = 1
  /\ stamps \in {{}, {1}}
  /\ last = [e \in Epochs |-> 0]
  /\ report = [e \in Epochs |-> [n \in Reports |-> "idle"]]
  /\ wire = {}
  /\ resends = 0
  /\ kind = "idle"
  /\ detail = DefaultDetail
  /\ highest = NoSeq
  /\ idleTimer = Off
  /\ gap = 0
  /\ shown = NoSeq
  /\ nudges = 0
  /\ muted = FALSE
  /\ idleFor = 0
  /\ idleNudges = 0

-----------------------------------------------------------------------------
\* The worker, under the emitter contract of WorkerStatusEvent: one number per
\* report, the same on both legs, never decreasing within a registration.

MakeReport(k) ==
  LET n == last[epoch] + 1 IN
  /\ n \in Reports
  /\ last' = [last EXCEPT ![epoch] = n]
  /\ report' = [report EXCEPT ![epoch][n] = k]
  /\ wire' = wire \cup {[leg |-> l, epoch |-> epoch, n |-> n] : l \in Legs}
  /\ UNCHANGED <<epoch, stamps, resends, activityVars, highest, idleTimer, gap, uiVars>>

\* A request whose answer was lost is sent again.
Resend(f) ==
  /\ resends < MaxResends
  /\ f.epoch = epoch /\ f.n <= last[epoch] /\ f \notin wire
  /\ wire' = wire \cup {f}
  /\ resends' = resends + 1
  /\ UNCHANGED <<epoch, stamps, last, report, activityVars, highest, idleTimer, gap, uiVars>>

\* handleWorkerRegister, for this part of the record: a new generation counts
\* from the start, the mark does not carry over, and the idle check is cleared.
HandleWorkerRegister(stamping) ==
  /\ epoch < MaxEpoch
  /\ epoch' = epoch + 1
  /\ stamps' = IF stamping THEN stamps \cup {epoch + 1} ELSE stamps
  /\ highest' = NoSeq
  /\ idleTimer' = Off
  /\ shown' = NoSeq
  /\ UNCHANGED <<last, report, wire, resends, activityVars, gap,
                 nudges, muted, idleFor, idleNudges>>

-----------------------------------------------------------------------------
\* The two status legs.

\* Mutant: no frame is ever out of order.
IsStaleNever(seq) == FALSE

\* Mutant: the twin of the report that stands counts as older than it.
IsStaleTwin(seq) == seq # NoSeq /\ highest # NoSeq /\ seq <= highest

IsStaleWorkerStatusSequence(seq) ==
  seq # NoSeq /\ highest # NoSeq /\ seq < highest

\* The epoch gate of readWorkerBody, taken after the body has been read.
RefuseSuperseded(f) ==
  /\ f.epoch # epoch
  /\ wire' = wire \ {f}
  /\ UNCHANGED <<epoch, stamps, last, report, resends, activityVars, highest, idleTimer, gap, uiVars>>

\* A frame that lost a race moves nothing and is not relayed.
RefuseStale(f) ==
  /\ f.epoch = epoch
  /\ IsStaleWorkerStatusSequence(Seq(f))
  /\ wire' = wire \ {f}
  /\ UNCHANGED <<epoch, stamps, last, report, resends, activityVars, highest, idleTimer, gap, uiVars>>

RecordStatusSequence(seq) ==
  highest' = IF seq # NoSeq /\ (highest = NoSeq \/ seq > highest) THEN seq ELSE highest

\* The bare leg keeps the detail a block was first reported with.
ApplyWorkerStatus(f, k) ==
  /\ kind' = k
  /\ detail' = IF k = "requires_action" /\ f.leg = "events" THEN <<f.epoch, f.n>>
               ELSE IF k = "requires_action" /\ kind = "requires_action" THEN detail
               ELSE DefaultDetail

\* Armed once per stretch: a check already running is left to run.
ReconcileIdleTimer(k) ==
  /\ idleTimer' = IF k # "idle" THEN Off
                  ELSE IF idleTimer = Off THEN IdleThreshold ELSE idleTimer
  /\ idleFor' = IF k = "idle" /\ kind = "idle" THEN idleFor ELSE 0
  /\ idleNudges' = IF k = "idle" /\ kind = "idle" THEN idleNudges ELSE 0

\* Mutant: raised by every frame that finds the session awaiting.
ReconcileNeedsInputEach(k) ==
  /\ nudges' = IF k # "requires_action" THEN 0
               ELSE IF IsSessionStale(gap) THEN nudges ELSE nudges + 1
  /\ muted' = (k = "requires_action" /\ (muted \/ (kind # "requires_action" /\ IsSessionStale(gap))))

\* Raised on the move into awaiting, unless the heartbeat has lapsed.
ReconcileNeedsInput(k) ==
  LET entered == k = "requires_action" /\ kind # "requires_action" IN
  /\ nudges' = IF k # "requires_action" THEN 0
               ELSE IF entered /\ ~IsSessionStale(gap) THEN nudges + 1 ELSE nudges
  /\ muted' = IF entered THEN IsSessionStale(gap) ELSE muted /\ k = "requires_action"

\* handleWorkerStatus, and foldWorkerStatus with the relay that follows it.
ApplyFrame(f) ==
  LET k == report[f.epoch][f.n] IN
  /\ f.epoch = epoch
  /\ ~IsStaleWorkerStatusSequence(Seq(f))
  /\ RecordStatusSequence(Seq(f))
  /\ ApplyWorkerStatus(f, k)
  /\ ReconcileIdleTimer(k)
  /\ ReconcileNeedsInput(k)
  /\ shown' = IF f.leg = "events" THEN f.n ELSE shown
  /\ wire' = wire \ {f}
  /\ UNCHANGED <<epoch, stamps, last, report, resends, gap>>

Receive(f) == f \in wire /\ (RefuseSuperseded(f) \/ RefuseStale(f) \/ ApplyFrame(f))

-----------------------------------------------------------------------------
\* The idle check, the heartbeat and the operator's turn.

\* A turn pushed down to the worker is activity, whatever the worker echoes.
PushClientEvent ==
  /\ idleTimer' = Off
  /\ idleFor' = 0
  /\ UNCHANGED <<workerVars, activityVars, highest, gap, shown, nudges, muted, idleNudges>>

\* Opening the worker's stream clears the check through endDownstream, and only a
\* report of idle starts another.
HandleWorkerEventsStream ==
  /\ idleTimer' = Off
  /\ UNCHANGED <<workerVars, activityVars, highest, gap, uiVars>>

FireIdleEvent ==
  /\ idleTimer = 0
  /\ idleTimer' = Off
  /\ idleNudges' = IF kind = "idle" /\ ~IsSessionStale(gap) /\ idleNudges < 2
                     THEN idleNudges + 1 ELSE idleNudges
  /\ UNCHANGED <<workerVars, activityVars, highest, gap, shown, nudges, muted, idleFor>>

HandleWorkerHeartbeat ==
  /\ gap' = 0
  /\ UNCHANGED <<workerVars, activityVars, highest, idleTimer, uiVars>>

Tick ==
  /\ gap' = Older(gap)
  /\ idleTimer' = IF idleTimer > 0 THEN idleTimer - 1 ELSE idleTimer
  /\ idleFor' = IF kind = "idle" /\ idleFor < IdleThreshold THEN idleFor + 1 ELSE idleFor
  /\ UNCHANGED <<workerVars, activityVars, highest, shown, nudges, muted, idleNudges>>

Next ==
  \/ \E k \in Kinds : MakeReport(k)
  \/ \E f \in Frames : Resend(f) \/ Receive(f)
  \/ \E stamping \in BOOLEAN : HandleWorkerRegister(stamping)
  \/ PushClientEvent \/ HandleWorkerEventsStream \/ FireIdleEvent \/ HandleWorkerHeartbeat \/ Tick

Spec == Init /\ [][Next]_vars

-----------------------------------------------------------------------------
TypeOK ==
  /\ epoch \in Epochs
  /\ stamps \in SUBSET Epochs
  /\ last \in [Epochs -> 0 .. MaxReports]
  /\ report \in [Epochs -> [Reports -> Kinds]]
  /\ wire \in SUBSET Frames
  /\ resends \in 0 .. MaxResends
  /\ kind \in Kinds
  /\ detail \in Blocks \cup {DefaultDetail}
  /\ highest \in 0 .. MaxReports
  /\ idleTimer \in Timers
  /\ gap \in Gaps
  /\ shown \in 0 .. MaxReports
  /\ nudges \in Nat
  /\ muted \in BOOLEAN
  /\ idleFor \in 0 .. IdleThreshold
  /\ idleNudges \in 0 .. 2

\* However the two legs of the reports race, repeat or go missing, the session
\* shows what the worker said in the latest report any leg has delivered in this
\* generation: a late frame never undoes a newer one, across re-registers too.
TruthfulActivity ==
  epoch \in stamps /\ highest # NoSeq => kind = report[epoch][highest]

\* The detail of a block survives its bare twin: once the detailed frame of the
\* report that stands has been applied, the session carries that report's detail
\* and no other block's.
RichDetailSurvives ==
  /\ epoch \in stamps /\ highest # NoSeq /\ shown = highest
  /\ kind = "requires_action"
  => detail = <<epoch, highest>>

\* No leg of the current generation is still under way.
Settled == {f \in wire : f.epoch = epoch} = {} /\ last[epoch] > 0

\* When every leg has been read the session stands on the worker's last report,
\* and a block it waits on carries that block's own detail: refusing what lost a
\* race never refuses the twin that carries the detail.
SettledOnLastReport ==
  epoch \in stamps /\ Settled =>
    /\ kind = report[epoch][last[epoch]]
    /\ kind = "requires_action" => detail = <<epoch, last[epoch]>>

\* One adjudicator: the status the browser renders as the live turn never moves
\* back to an older report than it has shown, nor past what the model applied.
BrowserNeverRegresses ==
  [][epoch' = epoch /\ epoch \in stamps => shown' >= shown /\ shown' <= highest']_vars

\* A stretch of waiting for the operator raises its blocking notification once,
\* on whichever leg enters it first, and misses it only when it was entered with
\* a lapsed heartbeat.
NeedsInputOncePerStretch ==
  kind = "requires_action" => nudges = IF muted THEN 0 ELSE 1

\* "idle > X" is raised only for a session that has been idle for the whole
\* threshold with no turn pushed to it, and whose worker still beats.
IdleEventIsEarned ==
  [][idleNudges' > idleNudges =>
       kind = "idle" /\ idleFor = IdleThreshold /\ ~IsSessionStale(gap)]_vars

\* The promise that the idle check is armed only on a transition into idle, and
\* so measures one continuous stretch: one stretch raises at most one event.
OneIdleEventPerStretch == idleNudges <= 1
=============================================================================
