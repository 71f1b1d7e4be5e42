--------------------------- MODULE AnswerGateProofs ---------------------------
(***************************************************************************)
(* StatusFold and, over it, AnswerGate, for every number of generations,   *)
(* reports and resends and every threshold.  The gate's theorems are about *)
(* the sessions whose questions reach the server in one way: by the        *)
(* launch's hook or by the worker's frames, not by both.                   *)
(***************************************************************************)
EXTENDS AnswerGate, TLAPS


\* What the worker has not said yet is nowhere: no request carries a report its
\* generation has not made, and no generation to come has made one.
WireIsPast ==
  /\ \A f \in wire : f.epoch <= epoch /\ f.n <= last[f.epoch]
  /\ \A e \in Epochs : e > epoch => last[e] = 0

\* The mark follows the worker, and the browser follows the mark.
MarkIsPast == highest <= last[epoch]
ShownIsPast == epoch \in stamps => shown <= highest

\* Each leg of the last report is under way or has been applied.
LastIsPending ==
  epoch \in stamps /\ last[epoch] > 0 =>
    /\ [leg |-> "status", epoch |-> epoch, n |-> last[epoch]] \in wire \/ highest = last[epoch]
    /\ [leg |-> "events", epoch |-> epoch, n |-> last[epoch]] \in wire \/ shown = last[epoch]

\* Outside a stretch of waiting nothing is counted.
NoNudgeOutsideStretch == kind # "requires_action" => nudges = 0

\* An armed check and the idle stretch so far make up the threshold.
TimerMeasuresStretch ==
  idleTimer # Off => kind = "idle" /\ idleFor + idleTimer >= IdleThreshold

IInv ==
  /\ TypeOK
  /\ WireIsPast /\ MarkIsPast /\ ShownIsPast /\ LastIsPending
  /\ NoNudgeOutsideStretch /\ TimerMeasuresStretch
  /\ TruthfulActivity /\ RichDetailSurvives /\ NeedsInputOncePerStretch

\* The initial states: nothing reported, nothing under way.
LEMMA InvInit == Init => IInv
<1> SUFFICES ASSUME Init PROVE IInv
  OBVIOUS
<1> USE FoldAssumption, StaleAfterAssumption
    DEF Init, Epochs, Reports, NoSeq, DefaultDetail, Off
<1>1. TypeOK
  <2>1. muted \in BOOLEAN
    OBVIOUS
  <2>2. stamps \in SUBSET Epochs /\ epoch \in Epochs
    OBVIOUS
  <2>3. report \in [Epochs -> [Reports -> Kinds]] /\ last \in [Epochs -> 0 .. MaxReports]
    BY DEF Kinds
  <2>4. wire \in SUBSET Frames /\ resends \in 0 .. MaxResends /\ kind \in Kinds
    BY DEF Kinds
  <2>5. highest \in 0 .. MaxReports /\ idleTimer \in Timers /\ gap \in Gaps /\ shown \in 0 .. MaxReports
    BY DEF Timers, Gaps
  <2> QED BY <2>1, <2>2, <2>3, <2>4, <2>5 DEF TypeOK
<1>2. WireIsPast /\ MarkIsPast /\ ShownIsPast /\ LastIsPending
  BY DEF WireIsPast, MarkIsPast, ShownIsPast, LastIsPending
<1>3. NoNudgeOutsideStretch /\ TimerMeasuresStretch
  BY DEF NoNudgeOutsideStretch, TimerMeasuresStretch
<1>4. TruthfulActivity /\ RichDetailSurvives /\ NeedsInputOncePerStretch
  BY DEF TruthfulActivity, RichDetailSurvives, NeedsInputOncePerStretch
<1> QED BY <1>1, <1>2, <1>3, <1>4 DEF IInv

\* The worker speaks: a report is made, a request repeated.
LEMMA WorkerStep ==
  ASSUME IInv, NEW k \in Kinds, NEW f \in Frames, MakeReport(k) \/ Resend(f)
  PROVE  IInv'
<1> USE FoldAssumption, StaleAfterAssumption DEF Epochs, Reports, NoSeq, DefaultDetail, Off,
    IInv, uiVars, activityVars
<1>1. CASE MakeReport(k)
  <2> DEFINE n == last[epoch] + 1
  <2>1. /\ n \in Reports /\ epoch \in Epochs
        /\ last' = [last EXCEPT ![epoch] = n]
        /\ report' = [report EXCEPT ![epoch][n] = k]
        /\ wire' = wire \cup {[leg |-> l, epoch |-> epoch, n |-> n] : l \in Legs}
    BY <1>1 DEF MakeReport, TypeOK
  <2>2. report' \in [Epochs -> [Reports -> Kinds]]
    BY <2>1 DEF TypeOK
  <2>3. TypeOK'
    BY <1>1, <2>1, <2>2 DEF MakeReport, TypeOK, Frames
  <2>4. WireIsPast' /\ MarkIsPast' /\ ShownIsPast'
    BY <1>1, <2>1, SMTT(40) DEF MakeReport, TypeOK, WireIsPast, MarkIsPast, ShownIsPast, Frames
  <2>5. LastIsPending'
    BY <1>1, <2>1 DEF MakeReport, TypeOK, LastIsPending, Legs
  <2>6. NoNudgeOutsideStretch' /\ TimerMeasuresStretch' /\ NeedsInputOncePerStretch' /\ RichDetailSurvives'
    BY <1>1, <2>1 DEF MakeReport, NoNudgeOutsideStretch, TimerMeasuresStretch, NeedsInputOncePerStretch,
       RichDetailSurvives
  <2>7. TruthfulActivity'
    <3>1. highest < n /\ highest \in 0 .. MaxReports
      BY <2>1 DEF TypeOK, MarkIsPast
    <3>2. highest # 0 => report'[epoch][highest] = report[epoch][highest]
      BY <2>1, <3>1 DEF TypeOK
    <3> QED BY <1>1, <3>2 DEF MakeReport, TruthfulActivity
  <2> QED BY <2>3, <2>4, <2>5, <2>6, <2>7
<1>2. CASE Resend(f)
  <2>1. TypeOK'
    BY <1>2 DEF Resend, TypeOK
  <2>2. WireIsPast' /\ MarkIsPast' /\ ShownIsPast' /\ LastIsPending'
    BY <1>2 DEF Resend, TypeOK, WireIsPast, MarkIsPast, ShownIsPast, LastIsPending
  <2>3. /\ NoNudgeOutsideStretch' /\ TimerMeasuresStretch' /\ NeedsInputOncePerStretch'
        /\ RichDetailSurvives' /\ TruthfulActivity'
    BY <1>2 DEF Resend, NoNudgeOutsideStretch, TimerMeasuresStretch, NeedsInputOncePerStretch,
       RichDetailSurvives, TruthfulActivity
  <2> QED BY <2>1, <2>2, <2>3
<1> QED BY <1>1, <1>2

\* A new generation starts its reports and its mark afresh.
LEMMA RegisterStep ==
  ASSUME IInv, NEW stamping \in BOOLEAN, HandleWorkerRegister(stamping)
  PROVE  IInv'
<1> USE FoldAssumption, StaleAfterAssumption DEF Epochs, Reports, NoSeq, DefaultDetail, Off,
    IInv, activityVars
<1>1. TypeOK'
  BY DEF HandleWorkerRegister, TypeOK, Timers
<1>2. WireIsPast' /\ MarkIsPast' /\ ShownIsPast' /\ LastIsPending'
  BY DEF HandleWorkerRegister, TypeOK, WireIsPast, MarkIsPast, ShownIsPast, LastIsPending, Frames
<1>3. NoNudgeOutsideStretch' /\ TimerMeasuresStretch' /\ NeedsInputOncePerStretch'
  BY DEF HandleWorkerRegister, NoNudgeOutsideStretch, TimerMeasuresStretch, NeedsInputOncePerStretch
<1>4. RichDetailSurvives' /\ TruthfulActivity'
  BY DEF HandleWorkerRegister, RichDetailSurvives, TruthfulActivity
<1> QED BY <1>1, <1>2, <1>3, <1>4

\* A frame refused leaves the wire and nothing else.  It is never the last
\* report's own: that one is of this generation and not older than the mark.
LEMMA RefuseStep ==
  ASSUME IInv, NEW f \in Frames, f \in wire, RefuseSuperseded(f) \/ RefuseStale(f)
  PROVE  IInv'
<1> USE FoldAssumption, StaleAfterAssumption DEF Epochs, Reports, NoSeq, DefaultDetail, Off,
    IInv, activityVars, uiVars
<1>1. /\ wire' = wire \ {f}
      /\ UNCHANGED <<epoch, stamps, last, report, resends, kind, detail, highest, idleTimer, gap,
                     shown, nudges, muted, idleFor, idleNudges>>
  BY DEF RefuseSuperseded, RefuseStale
<1>2. epoch \in stamps => f.epoch # epoch \/ f.n # last[epoch]
  BY DEF RefuseSuperseded, RefuseStale, IsStaleWorkerStatusSequence, Seq, TypeOK, MarkIsPast, Frames
<1>3. TypeOK'
  BY <1>1 DEF TypeOK
<1>4. WireIsPast' /\ MarkIsPast' /\ ShownIsPast'
  BY <1>1 DEF WireIsPast, MarkIsPast, ShownIsPast
<1>5. LastIsPending'
  BY <1>1, <1>2 DEF LastIsPending
<1>6. /\ NoNudgeOutsideStretch' /\ TimerMeasuresStretch' /\ NeedsInputOncePerStretch'
      /\ RichDetailSurvives' /\ TruthfulActivity'
  BY <1>1 DEF NoNudgeOutsideStretch, TimerMeasuresStretch, NeedsInputOncePerStretch,
     RichDetailSurvives, TruthfulActivity
<1> QED BY <1>3, <1>4, <1>5, <1>6

\* A frame applied is of this generation, and where it is stamped the mark is on
\* it afterwards or beyond it.
LEMMA ApplyStep ==
  ASSUME IInv, NEW f \in Frames, f \in wire, ApplyFrame(f)
  PROVE  /\ IInv'
         /\ epoch \in stamps => shown' >= shown /\ shown' <= highest'
<1> DEFINE k == report[epoch][f.n]
<1> USE FoldAssumption, StaleAfterAssumption DEF Epochs, Reports, NoSeq, DefaultDetail, Off, IInv
<1>1. /\ f.epoch = epoch /\ epoch \in Epochs
      /\ f.n \in Reports /\ f.n <= last[epoch] /\ last[epoch] \in Nat
      /\ f.leg \in {"status", "events"}
      /\ k \in Kinds /\ kind' = k
      /\ wire' = wire \ {f}
      /\ UNCHANGED <<epoch, stamps, last, report, resends, gap>>
  BY DEF ApplyFrame, ApplyWorkerStatus, TypeOK, Frames, WireIsPast, Legs
<1>2. epoch \in stamps => highest' = f.n /\ f.n >= highest
  BY <1>1 DEF ApplyFrame, RecordStatusSequence, IsStaleWorkerStatusSequence, Seq, TypeOK
<1>3. epoch \notin stamps => highest' = highest
  BY <1>1 DEF ApplyFrame, RecordStatusSequence, Seq
<1>4. shown' = IF f.leg = "events" THEN f.n ELSE shown
  BY DEF ApplyFrame
<1>5. TypeOK'
  <2>1. detail' \in Blocks \cup {DefaultDetail}
    BY <1>1 DEF ApplyFrame, ApplyWorkerStatus, TypeOK, Blocks
  <2>2. idleTimer' \in Timers /\ idleFor' \in 0 .. IdleThreshold /\ idleNudges' \in 0 .. 2
    BY <1>1 DEF ApplyFrame, ReconcileIdleTimer, TypeOK, Timers
  <2>3. nudges' \in Nat
    BY <1>1 DEF ApplyFrame, ReconcileNeedsInput, TypeOK
  <2>4. muted' \in BOOLEAN
    <3>1. muted' = IsSessionStale(gap) \/ muted' = (muted /\ k = "requires_action")
      BY <1>1 DEF ApplyFrame, ReconcileNeedsInput
    <3>2. IsSessionStale(gap) \in BOOLEAN
      BY DEF IsSessionStale, TypeOK, Gaps
    <3>3. (muted /\ k = "requires_action") \in BOOLEAN
      BY Zenon
    <3> QED BY <3>1, <3>2, <3>3
  <2> QED BY <1>1, <1>2, <1>3, <1>4, <2>1, <2>2, <2>3, <2>4, SMTT(40) DEF TypeOK
<1>6. WireIsPast' /\ MarkIsPast'
  BY <1>1, <1>2, <1>3 DEF WireIsPast, MarkIsPast
<1>7. (epoch \in stamps => shown' >= shown /\ shown' <= highest') /\ ShownIsPast'
  BY <1>1, <1>2, <1>4 DEF ShownIsPast, TypeOK
<1>8. LastIsPending'
  BY <1>1, <1>2, <1>4 DEF LastIsPending, MarkIsPast, ShownIsPast, Frames, TypeOK
<1>9. NoNudgeOutsideStretch' /\ NeedsInputOncePerStretch'
  <2>1. CASE k # "requires_action"
    BY <1>1, <2>1 DEF ApplyFrame, ReconcileNeedsInput, NoNudgeOutsideStretch, NeedsInputOncePerStretch
  <2>2. CASE k = "requires_action" /\ kind = "requires_action"
    <3>1. nudges' = nudges /\ muted' = muted
      BY <1>1, <2>2, Zenon DEF ApplyFrame, ReconcileNeedsInput, TypeOK
    <3> QED BY <1>1, <2>2, <3>1 DEF NoNudgeOutsideStretch, NeedsInputOncePerStretch
  <2>3. CASE k = "requires_action" /\ kind # "requires_action"
    <3>1. muted' = IsSessionStale(gap)
      BY <1>1, <2>3 DEF ApplyFrame, ReconcileNeedsInput
    <3>2. nudges' = IF ~IsSessionStale(gap) THEN nudges + 1 ELSE nudges
      BY <1>1, <2>3 DEF ApplyFrame, ReconcileNeedsInput
    <3>3. nudges = 0
      BY <2>3 DEF NoNudgeOutsideStretch
    <3>4. CASE IsSessionStale(gap)
      BY <1>1, <2>3, <3>1, <3>2, <3>3, <3>4 DEF NoNudgeOutsideStretch, NeedsInputOncePerStretch
    <3>5. CASE ~IsSessionStale(gap)
      BY <1>1, <2>3, <3>1, <3>2, <3>3, <3>5 DEF NoNudgeOutsideStretch, NeedsInputOncePerStretch
    <3> QED BY <3>4, <3>5
  <2> QED BY <2>1, <2>2, <2>3
<1>10. TimerMeasuresStretch'
  BY <1>1 DEF ApplyFrame, ReconcileIdleTimer, TimerMeasuresStretch, TypeOK, Timers
<1>11. TruthfulActivity'
  BY <1>1, <1>2 DEF TruthfulActivity
<1>12. RichDetailSurvives'
  <2>1. f.leg = "events" /\ k = "requires_action" => detail' = <<epoch, f.n>>
    BY <1>1 DEF ApplyFrame, ApplyWorkerStatus
  <2>2. f.leg = "status" /\ k = "requires_action" /\ kind = "requires_action" => detail' = detail
    BY <1>1 DEF ApplyFrame, ApplyWorkerStatus
  <2>3. epoch \in stamps /\ highest # 0 /\ f.n = highest => kind = k
    BY <1>1 DEF TruthfulActivity
  <2> QED BY <1>1, <1>2, <1>4, <2>1, <2>2, <2>3 DEF RichDetailSurvives, ShownIsPast, TypeOK
<1> QED BY <1>5, <1>6, <1>7, <1>8, <1>9, <1>10, <1>11, <1>12

\* Turns, streams, checks, heartbeats and time move no status.
LEMMA TimerStep ==
  ASSUME IInv, PushClientEvent \/ HandleWorkerEventsStream \/ FireIdleEvent \/ HandleWorkerHeartbeat \/ Tick
  PROVE  IInv'
<1> USE FoldAssumption, StaleAfterAssumption DEF Epochs, Reports, NoSeq, DefaultDetail, Off,
    IInv, activityVars, workerVars, uiVars
<1>1. UNCHANGED <<epoch, stamps, last, report, wire, resends, kind, detail, highest, shown, nudges, muted>>
  BY DEF PushClientEvent, HandleWorkerEventsStream, FireIdleEvent, HandleWorkerHeartbeat, Tick
<1>2. gap' \in Gaps
  BY SMTT(40) DEF PushClientEvent, HandleWorkerEventsStream, FireIdleEvent, HandleWorkerHeartbeat, Tick, TypeOK, Gaps, Older
<1>3. idleTimer' \in Timers /\ idleFor' \in 0 .. IdleThreshold /\ idleNudges' \in 0 .. 2
  <2>1. idleTimer \in Timers /\ idleFor \in 0 .. IdleThreshold /\ idleNudges \in 0 .. 2
    BY DEF TypeOK
  <2>2. CASE PushClientEvent \/ HandleWorkerEventsStream \/ HandleWorkerHeartbeat
    BY <2>1, <2>2 DEF PushClientEvent, HandleWorkerEventsStream, HandleWorkerHeartbeat, Timers
  <2>3. CASE FireIdleEvent
    BY <2>1, <2>3 DEF FireIdleEvent, Timers
  <2>4. CASE Tick
    BY <2>1, <2>4 DEF Tick, Timers
  <2> QED BY <2>2, <2>3, <2>4
<1>4. TypeOK'
  BY <1>1, <1>2, <1>3 DEF TypeOK
<1>5. WireIsPast' /\ MarkIsPast' /\ ShownIsPast' /\ LastIsPending'
  BY <1>1 DEF WireIsPast, MarkIsPast, ShownIsPast, LastIsPending
<1>6. NoNudgeOutsideStretch' /\ NeedsInputOncePerStretch' /\ RichDetailSurvives' /\ TruthfulActivity'
  BY <1>1 DEF NoNudgeOutsideStretch, NeedsInputOncePerStretch, RichDetailSurvives, TruthfulActivity
<1>7. TimerMeasuresStretch'
  BY <1>1 DEF PushClientEvent, HandleWorkerEventsStream, FireIdleEvent, HandleWorkerHeartbeat, Tick, TimerMeasuresStretch, TypeOK,
     Timers
<1> QED BY <1>4, <1>5, <1>6, <1>7

\* Every step preserves the invariant.
LEMMA InvStep == IInv /\ [Next]_vars => IInv'
<1> SUFFICES ASSUME IInv, [Next]_vars PROVE IInv'
  OBVIOUS
<1>1. ASSUME NEW k \in Kinds, MakeReport(k) PROVE IInv'
  <2>1. [leg |-> "status", epoch |-> epoch, n |-> last[epoch] + 1] \in Frames
    BY <1>1 DEF MakeReport, Frames, Legs, IInv, TypeOK
  <2> QED BY <1>1, <2>1, WorkerStep
<1>2. ASSUME NEW f \in Frames, Resend(f) PROVE IInv'
  <2>1. "idle" \in Kinds
    BY DEF Kinds
  <2> QED BY <1>2, <2>1, WorkerStep
<1>3. ASSUME NEW f \in Frames, Receive(f) PROVE IInv'
  BY <1>3, RefuseStep, ApplyStep DEF Receive
<1>4. ASSUME NEW stamping \in BOOLEAN, HandleWorkerRegister(stamping) PROVE IInv'
  BY <1>4, RegisterStep
<1>5. CASE PushClientEvent \/ HandleWorkerEventsStream \/ FireIdleEvent \/ HandleWorkerHeartbeat \/ Tick
  BY <1>5, TimerStep
<1>6. CASE UNCHANGED vars
  BY <1>6 DEF vars, workerVars, activityVars, uiVars, IInv, TypeOK, WireIsPast, MarkIsPast, ShownIsPast,
     LastIsPending, NoNudgeOutsideStretch, TimerMeasuresStretch, TruthfulActivity, RichDetailSurvives,
     NeedsInputOncePerStretch
<1> QED BY <1>1, <1>2, <1>3, <1>4, <1>5, <1>6 DEF Next

\* The strengthened invariant, on which the rest is read off.
THEOREM Invariant == Spec => []IInv
<1>1. Init => IInv
  BY InvInit
<1>2. IInv /\ [Next]_vars => IInv'
  BY InvStep
<1> QED BY <1>1, <1>2, PTL DEF Spec

\* Type correctness of the fold.
THEOREM TypeCorrect == Spec => []TypeOK
<1>1. IInv => TypeOK
  BY DEF IInv
<1> QED BY <1>1, Invariant, PTL

\* A late, repeated or reordered frame never undoes a newer one.
THEOREM TruthfulActivityAlways == Spec => []TruthfulActivity
<1>1. IInv => TruthfulActivity
  BY DEF IInv
<1> QED BY <1>1, Invariant, PTL

\* The bare twin of a block's report never wipes its detail.
THEOREM RichDetailSurvivesAlways == Spec => []RichDetailSurvives
<1>1. IInv => RichDetailSurvives
  BY DEF IInv
<1> QED BY <1>1, Invariant, PTL

\* A stretch of waiting raises its notification once.
THEOREM NeedsInputOncePerStretchAlways == Spec => []NeedsInputOncePerStretch
<1>1. IInv => NeedsInputOncePerStretch
  BY DEF IInv
<1> QED BY <1>1, Invariant, PTL

\* With nothing of this generation under way, both legs of the last report are in.
LEMMA SettledFollows == IInv => SettledOnLastReport
<1> SUFFICES ASSUME IInv, epoch \in stamps, Settled
             PROVE  /\ kind = report[epoch][last[epoch]]
                    /\ kind = "requires_action" => detail = <<epoch, last[epoch]>>
  BY DEF SettledOnLastReport
<1>1. highest = last[epoch] /\ shown = last[epoch] /\ last[epoch] # 0
  <2>1. \A l \in Legs : [leg |-> l, epoch |-> epoch, n |-> last[epoch]] \notin wire
    BY DEF Settled
  <2> QED BY <2>1 DEF IInv, LastIsPending, Settled, Legs
<1> QED BY <1>1 DEF IInv, TruthfulActivity, RichDetailSurvives, NoSeq

\* Once every leg of a generation is read, the session stands on the last report.
THEOREM SettledOnLastReportAlways == Spec => []SettledOnLastReport
<1> QED BY SettledFollows, Invariant, PTL

\* What the browser shows moves only forward and never past the model.
THEOREM BrowserNeverRegressesAlways == Spec => BrowserNeverRegresses
<1>1. IInv /\ [Next]_vars =>
        [epoch' = epoch /\ epoch \in stamps => shown' >= shown /\ shown' <= highest']_vars
  <2> SUFFICES ASSUME IInv, Next, epoch' = epoch, epoch \in stamps
               PROVE  shown' >= shown /\ shown' <= highest'
    BY DEF BrowserNeverRegresses
  <2>1. /\ shown \in Nat /\ highest \in Nat /\ shown <= highest
        /\ epoch \in Nat
    BY DEF IInv, TypeOK, ShownIsPast, Epochs
  <2>2. ASSUME NEW k \in Kinds, MakeReport(k) PROVE shown' = shown /\ highest' = highest
    BY <2>2 DEF MakeReport, uiVars
  <2>3. ASSUME NEW f \in Frames, Resend(f) PROVE shown' = shown /\ highest' = highest
    BY <2>3 DEF Resend, uiVars
  <2>4. ASSUME NEW f \in Frames, Receive(f) PROVE shown' >= shown /\ shown' <= highest'
    <3>1. CASE ApplyFrame(f)
      BY <2>4, <3>1, ApplyStep DEF Receive
    <3>2. CASE RefuseSuperseded(f) \/ RefuseStale(f)
      BY <2>1, <3>2 DEF RefuseSuperseded, RefuseStale, uiVars
    <3> QED BY <2>4, <3>1, <3>2 DEF Receive
  <2>5. ASSUME NEW stamping \in BOOLEAN, HandleWorkerRegister(stamping) PROVE FALSE
    BY <2>1, <2>5 DEF HandleWorkerRegister
  <2>6. CASE PushClientEvent \/ HandleWorkerEventsStream \/ FireIdleEvent \/ HandleWorkerHeartbeat \/ Tick
    BY <2>1, <2>6 DEF PushClientEvent, HandleWorkerEventsStream, FireIdleEvent, HandleWorkerHeartbeat, Tick, uiVars
  <2> QED BY <2>1, <2>2, <2>3, <2>4, <2>5, <2>6 DEF Next
<1> QED BY <1>1, Invariant, PTL DEF Spec, BrowserNeverRegresses

\* An idle event is raised only for a whole threshold of unbroken idling.
THEOREM IdleEventIsEarnedAlways == Spec => IdleEventIsEarned
<1>1. IInv /\ [Next]_vars =>
        [idleNudges' > idleNudges =>
           kind = "idle" /\ idleFor = IdleThreshold /\ ~IsSessionStale(gap)]_vars
  <2> SUFFICES ASSUME IInv, Next, idleNudges' > idleNudges
               PROVE  kind = "idle" /\ idleFor = IdleThreshold /\ ~IsSessionStale(gap)
    OBVIOUS
  <2>1. idleNudges \in 0 .. 2 /\ idleFor \in 0 .. IdleThreshold
    BY DEF IInv, TypeOK
  <2>2. ASSUME idleNudges' = idleNudges \/ idleNudges' = 0 PROVE FALSE
    BY <2>1, <2>2
  <2>3. ASSUME NEW k \in Kinds, MakeReport(k) PROVE FALSE
    BY <2>2, <2>3 DEF MakeReport, uiVars
  <2>4. ASSUME NEW f \in Frames, Resend(f) PROVE FALSE
    BY <2>2, <2>4 DEF Resend, uiVars
  <2>5. ASSUME NEW f \in Frames, Receive(f) PROVE FALSE
    BY <2>2, <2>5 DEF Receive, RefuseSuperseded, RefuseStale, ApplyFrame, ReconcileIdleTimer, uiVars
  <2>6. ASSUME NEW stamping \in BOOLEAN, HandleWorkerRegister(stamping) PROVE FALSE
    BY <2>2, <2>6 DEF HandleWorkerRegister
  <2>7. CASE PushClientEvent \/ HandleWorkerEventsStream \/ HandleWorkerHeartbeat \/ Tick
    BY <2>2, <2>7 DEF PushClientEvent, HandleWorkerEventsStream, HandleWorkerHeartbeat, Tick, uiVars
  <2>8. CASE FireIdleEvent
    BY <2>1, <2>2, <2>8, FoldAssumption DEF FireIdleEvent, IInv, TimerMeasuresStretch, Off, IsSessionStale
  <2> QED BY <2>3, <2>4, <2>5, <2>6, <2>7, <2>8 DEF Next
<1> QED BY <1>1, Invariant, PTL DEF Spec, IdleEventIsEarned

-----------------------------------------------------------------------------
(* The gate.  Every question answered was put to the server, and each of its
   ways puts it once, resends aside; a stamp names one question.              *)


\* What the theorems assume of the sessions.
OneWayOnly == {"hook", "frame"} \notin Wirings

\* An enrichment's stamp is of a generation that stamps.  A frame is stamped with
\* its own block; a capture of this generation with a report that was applied, and
\* that said the worker is blocked.
Stamped(x) ==
  /\ x.stamp = NoBlock => x.block = NoBlock
  /\ x.stamp # NoBlock =>
       /\ x.block # NoBlock
       /\ x.stamp[1] <= epoch /\ x.stamp[1] \in stamps
       /\ InBand => x.block = x.stamp
       /\ ~InBand /\ x.stamp[1] = epoch =>
            x.stamp[2] <= highest /\ report[epoch][x.stamp[2]] = "requires_action"

\* Only a worker with in-band frames has any under way.
FramesInBand == asking # {} => InBand

\* One stamp, one question.
StampNamesOne == phone.stamp = buffer.stamp => phone.block = buffer.block

\* Where a question that can still be answered stands: buffered, captured, under way.
Held(b) ==
  (IF buffer.block = b THEN 1 ELSE 0) + (IF handoff = b THEN 1 ELSE 0)
    + (IF b \in asking THEN 1 ELSE 0)

\* Every answer given, and every one that can be, was asked for.
AnswersAreAsked == \A b \in Blocks : answered[b] + Held(b) <= asked[b]
AsksAreCounted == \A b \in Blocks : asked[b] <= 2 + resends

\* A question of a report to come has not been asked.
UnmadeIsUnasked == \A b \in Blocks : b[2] > last[b[1]] => asked[b] = 0

GateInv ==
  /\ IInv
  /\ GateTypeOK
  /\ ~(HookInstalled /\ InBand)
  /\ FramesInBand /\ Stamped(buffer) /\ Stamped(phone) /\ StampNamesOne
  /\ AnswersAreAsked /\ AsksAreCounted /\ UnmadeIsUnasked
  /\ AnswersWhatWasSeen

\* No block is the absence of one.
LEMMA NoBlockIsNone == NoBlock \notin Blocks
  BY FoldAssumption DEF NoBlock, Blocks, Epochs, Reports

LEMMA NoEnrichmentIsOne == NoEnrichment \in Enrichments /\ NoEnrichment.stamp = NoBlock /\ NoEnrichment.block = NoBlock
  BY DEF NoEnrichment, Enrichment, Enrichments, Known

\* Two ways at most.
LEMMA WaysAreFew == Ways \in 0 .. 2 /\ Ways = (IF HookInstalled THEN 1 ELSE 0) + (IF InBand THEN 1 ELSE 0)
  BY DEF Ways

\* The initial states: nothing asked.
LEMMA GateInvInit == OneWayOnly /\ GateInit => GateInv
<1> SUFFICES ASSUME OneWayOnly, GateInit PROVE GateInv
  OBVIOUS
<1>1. IInv
  BY InvInit DEF GateInit
<1>2. GateTypeOK
  <2>1. 0 \in 0 .. MaxResends + 2 /\ 0 \in 0 .. MaxAnswers
    BY FoldAssumption DEF MaxAnswers
  <2> QED BY <2>1, NoEnrichmentIsOne DEF GateInit, GateTypeOK, Known
<1>3. ~(HookInstalled /\ InBand)
  <2>1. wired \in SUBSET {"hook", "frame"} /\ wired # {"hook", "frame"}
    BY GateAssumption DEF GateInit, OneWayOnly
  <2> QED BY <2>1 DEF HookInstalled, InBand
<1>4. Stamped(buffer) /\ Stamped(phone) /\ StampNamesOne /\ FramesInBand
  BY NoEnrichmentIsOne DEF GateInit, Stamped, StampNamesOne, FramesInBand
<1>5. AnswersAreAsked
  <2> SUFFICES ASSUME NEW b \in Blocks PROVE answered[b] + Held(b) <= asked[b]
    BY DEF AnswersAreAsked
  <2>1. b # NoBlock
    BY NoBlockIsNone
  <2>2. Held(b) = 0
    BY <2>1, NoEnrichmentIsOne DEF GateInit, Held
  <2> QED BY <2>2 DEF GateInit
<1>6. AsksAreCounted
  BY FoldAssumption DEF GateInit, Init, AsksAreCounted
<1>7. AnswersWhatWasSeen /\ UnmadeIsUnasked
  BY DEF GateInit, AnswersWhatWasSeen, UnmadeIsUnasked
<1> QED BY <1>1, <1>2, <1>3, <1>4, <1>5, <1>6, <1>7 DEF GateInv

\* What a step of the fold leaves as it was, for the gate's part of the invariant.
LEMMA ReportKeeps ==
  ASSUME GateInv, NEW k \in Kinds, MakeReport(k)
  PROVE  /\ UNCHANGED <<epoch, stamps, highest, kind, resends>>
         /\ last' = [last EXCEPT ![epoch] = last[epoch] + 1] /\ last[epoch] \in Nat /\ epoch \in Epochs
         /\ \A n \in Reports : n <= highest => report'[epoch][n] = report[epoch][n]
<1> USE FoldAssumption DEF GateInv, IInv, TypeOK, Epochs, Reports
<1>1. UNCHANGED <<epoch, stamps, highest, kind, resends>>
  BY DEF MakeReport, activityVars
<1>2. highest < last[epoch] + 1 /\ last[epoch] \in Nat /\ highest \in Nat
  BY DEF MarkIsPast
<1>3. report' = [report EXCEPT ![epoch][last[epoch] + 1] = k] /\ last' = [last EXCEPT ![epoch] = last[epoch] + 1]
  BY DEF MakeReport
<1> QED BY <1>1, <1>2, <1>3

LEMMA RestKeeps ==
  ASSUME GateInv,
         \/ \E f \in Frames : Resend(f) \/ RefuseSuperseded(f) \/ RefuseStale(f)
         \/ PushClientEvent \/ HandleWorkerEventsStream \/ FireIdleEvent \/ HandleWorkerHeartbeat \/ Tick
  PROVE  UNCHANGED <<epoch, stamps, highest, kind, report, last>> /\ resends' >= resends
  BY FoldAssumption DEF Resend, RefuseSuperseded, RefuseStale, PushClientEvent, HandleWorkerEventsStream, FireIdleEvent,
     HandleWorkerHeartbeat, Tick, activityVars, workerVars, GateInv, IInv, TypeOK

LEMMA StampedTypes ==
  ASSUME GateInv
  PROVE  /\ phone.stamp \in Known /\ phone.block \in Known
         /\ buffer.stamp \in Known /\ buffer.block \in Known
         /\ \A b \in Blocks : b[1] \in Epochs /\ b[2] \in Reports /\ b = <<b[1], b[2]>>
         /\ epoch \in Epochs /\ highest \in 0 .. MaxReports
         /\ \A b \in Blocks : asked[b] \in Nat /\ answered[b] \in Nat
  BY FoldAssumption DEF GateInv, GateTypeOK, IInv, TypeOK, Enrichments, Blocks, MaxAnswers

\* The worker speaks: it moves on, or blocks and perhaps asks.
LEMMA MoveOnStep ==
  ASSUME GateInv, NEW k \in Kinds, MoveOn(k)
  PROVE  GateInv'
<1>1. UNCHANGED gateVars /\ MakeReport(k)
  BY DEF MoveOn
<1>2. IInv'
  BY <1>1, InvStep DEF Next, GateInv
<1>3. /\ UNCHANGED <<epoch, stamps, highest, kind, resends>>
      /\ last' = [last EXCEPT ![epoch] = last[epoch] + 1] /\ last[epoch] \in Nat /\ epoch \in Epochs
      /\ \A n \in Reports : n <= highest => report'[epoch][n] = report[epoch][n]
  BY <1>1, ReportKeeps
<1>4. Stamped(buffer)' /\ Stamped(phone)'
  BY <1>1, <1>3, StampedTypes, NoBlockIsNone DEF GateInv, gateVars, Stamped, Known, InBand
<1>5. GateTypeOK' /\ ~(HookInstalled /\ InBand)' /\ FramesInBand' /\ StampNamesOne' /\ AnswersWhatWasSeen'
  BY <1>1 DEF GateInv, FramesInBand, gateVars, GateTypeOK, HookInstalled, InBand, StampNamesOne, AnswersWhatWasSeen
<1>6. AnswersAreAsked' /\ AsksAreCounted'
  BY <1>1, <1>3 DEF GateInv, gateVars, AnswersAreAsked, AsksAreCounted, Held
<1>7. UnmadeIsUnasked'
  <2> SUFFICES ASSUME NEW b \in Blocks, b[2] > last'[b[1]] PROVE asked'[b] = 0
    BY DEF UnmadeIsUnasked
  <2>1. b[1] \in Epochs /\ b[2] \in Nat /\ last \in [Epochs -> Nat]
    BY StampedTypes DEF GateInv, IInv, TypeOK, Reports
  <2>2. b[2] > last[b[1]]
    BY <1>3, <2>1
  <2> QED BY <1>1, <2>2 DEF GateInv, gateVars, UnmadeIsUnasked
<1> QED BY <1>2, <1>4, <1>5, <1>6, <1>7 DEF GateInv

LEMMA BlockStep ==
  ASSUME GateInv, NEW question \in BOOLEAN, Block(question)
  PROVE  GateInv'
<1> DEFINE q == <<epoch, last[epoch] + 1>>
<1>1. /\ MakeReport("requires_action") /\ "requires_action" \in Kinds
      /\ UNCHANGED <<wired, buffer, phone, accepted, answered>>
      /\ handoff' = IF question /\ HookInstalled THEN q ELSE handoff
      /\ asking' = IF question /\ InBand THEN asking \cup {q} ELSE asking
      /\ asked' = IF question THEN [asked EXCEPT ![q] = Ways] ELSE asked
  BY DEF Block, Kinds
<1>2. IInv'
  BY <1>1, InvStep DEF Next, GateInv
<1>3. /\ UNCHANGED <<epoch, stamps, highest, kind, resends>>
      /\ last' = [last EXCEPT ![epoch] = last[epoch] + 1] /\ last[epoch] \in Nat /\ epoch \in Epochs
      /\ \A n \in Reports : n <= highest => report'[epoch][n] = report[epoch][n]
  BY <1>1, ReportKeeps
<1>4. q \in Blocks
  BY <1>1 DEF MakeReport, Blocks, GateInv, IInv, TypeOK
<1>5. Stamped(buffer)' /\ Stamped(phone)'
  BY <1>1, <1>3, StampedTypes, NoBlockIsNone DEF GateInv, Stamped, Known, InBand
<1>6. ~(HookInstalled /\ InBand)' /\ FramesInBand' /\ StampNamesOne' /\ AnswersWhatWasSeen'
  BY <1>1 DEF GateInv, FramesInBand, HookInstalled, InBand, StampNamesOne, AnswersWhatWasSeen
<1>7. GateTypeOK'
  BY <1>1, <1>4, WaysAreFew, FoldAssumption DEF GateInv, GateTypeOK, Known
<1>8. AsksAreCounted'
  BY <1>1, <1>3, <1>4, WaysAreFew, StampedTypes, FoldAssumption
  DEF GateInv, GateTypeOK, AsksAreCounted, IInv, TypeOK
<1>9. AnswersAreAsked'
  <2> SUFFICES ASSUME NEW b \in Blocks PROVE answered'[b] + Held(b)' <= asked'[b]
    BY DEF AnswersAreAsked
  <2>1. answered[b] + Held(b) <= asked[b] /\ answered[b] \in Nat /\ asked[b] \in Nat
    BY StampedTypes DEF GateInv, AnswersAreAsked
  <2>2. CASE ~question \/ b # q
    <3>1. asked'[b] = asked[b] /\ Held(b)' <= Held(b) /\ Held(b) \in Nat /\ Held(b)' \in Nat
      BY <1>1, <1>4, <2>2 DEF Held, GateInv, GateTypeOK
    <3> QED BY <1>1, <2>1, <3>1
  <2>3. CASE question /\ b = q
    <3>1. asked[b] = 0
      BY <1>3, <1>4, <2>3 DEF GateInv, UnmadeIsUnasked
    <3>2. answered[b] = 0 /\ buffer.block # b /\ handoff # b /\ b \notin asking
      BY <2>1, <3>1 DEF Held
    <3>3. /\ Held(b)' <= (IF HookInstalled THEN 1 ELSE 0) + (IF InBand THEN 1 ELSE 0)
          /\ Held(b)' \in Nat
      BY <1>1, <3>2 DEF Held
    <3>4. asked'[b] = Ways
      BY <1>1, <1>4, <2>3 DEF GateInv, GateTypeOK
    <3> QED BY <1>1, <3>2, <3>3, <3>4, WaysAreFew
  <2> QED BY <2>2, <2>3
<1>10. UnmadeIsUnasked'
  <2> SUFFICES ASSUME NEW b \in Blocks, b[2] > last'[b[1]] PROVE asked'[b] = 0
    BY DEF UnmadeIsUnasked
  <2>1. b[1] \in Epochs /\ b[2] \in Nat /\ last \in [Epochs -> Nat]
    BY StampedTypes DEF GateInv, IInv, TypeOK, Reports
  <2>2. b[2] > last[b[1]]
    BY <1>3, <2>1
  <2>3. b # q
    BY <1>3, <2>1
  <2> QED BY <1>1, <1>4, <2>2, <2>3 DEF GateInv, GateTypeOK, UnmadeIsUnasked
<1> QED BY <1>2, <1>5, <1>6, <1>7, <1>8, <1>9, <1>10 DEF GateInv

\* A re-register begins a generation that no stamp names yet.
LEMMA ReregisterStep ==
  ASSUME GateInv, NEW stamping \in BOOLEAN, Reregister(stamping)
  PROVE  GateInv'
<1>1. UNCHANGED gateVars /\ HandleWorkerRegister(stamping)
  BY DEF Reregister
<1>2. IInv'
  BY <1>1, InvStep DEF Next, GateInv
<1>3. /\ epoch' = epoch + 1 /\ stamps \subseteq stamps'
      /\ UNCHANGED <<last, resends>>
  BY <1>1 DEF HandleWorkerRegister
<1>4. Stamped(buffer)' /\ Stamped(phone)'
  BY <1>1, <1>3, StampedTypes, FoldAssumption DEF GateInv, gateVars, Stamped, Known, InBand, Epochs
<1>5. GateTypeOK' /\ ~(HookInstalled /\ InBand)' /\ FramesInBand' /\ StampNamesOne' /\ AnswersWhatWasSeen'
  BY <1>1 DEF GateInv, FramesInBand, gateVars, GateTypeOK, HookInstalled, InBand, StampNamesOne, AnswersWhatWasSeen
<1>6. AnswersAreAsked' /\ AsksAreCounted' /\ UnmadeIsUnasked'
  BY <1>1, <1>3 DEF GateInv, gateVars, AnswersAreAsked, AsksAreCounted, UnmadeIsUnasked, Held
<1> QED BY <1>2, <1>4, <1>5, <1>6 DEF GateInv

\* Whatever leaves the gate alone, and the reports, the mark and the activity.
LEMMA IdleStep ==
  ASSUME GateInv, IInv', UNCHANGED gateVars,
         UNCHANGED <<epoch, stamps, highest, kind, report, last>>, resends' >= resends
  PROVE  GateInv'
<1>1. Stamped(buffer)' /\ Stamped(phone)'
  BY DEF GateInv, gateVars, Stamped, InBand
<1>2. GateTypeOK' /\ ~(HookInstalled /\ InBand)' /\ FramesInBand' /\ StampNamesOne' /\ AnswersWhatWasSeen'
  BY DEF GateInv, FramesInBand, gateVars, GateTypeOK, HookInstalled, InBand, StampNamesOne, AnswersWhatWasSeen
<1>3. AnswersAreAsked' /\ UnmadeIsUnasked'
  BY DEF GateInv, gateVars, AnswersAreAsked, UnmadeIsUnasked, Held
<1>4. AsksAreCounted'
  BY StampedTypes DEF GateInv, gateVars, AsksAreCounted, IInv, TypeOK
<1> QED BY <1>1, <1>2, <1>3, <1>4 DEF GateInv

LEMMA ResendStatusStep ==
  ASSUME GateInv, NEW f \in Frames, ResendStatus(f)
  PROVE  GateInv'
<1>1. IInv'
  BY InvStep DEF Next, GateInv, ResendStatus
<1> QED BY <1>1, RestKeeps, IdleStep DEF ResendStatus

LEMMA ElapseStep ==
  ASSUME GateInv, Elapse
  PROVE  GateInv'
<1>1. IInv'
  BY InvStep DEF Next, GateInv, Elapse
<1> QED BY <1>1, RestKeeps, IdleStep DEF Elapse

\* A question's frame sent again is one more asking.
LEMMA ResendQuestionStep ==
  ASSUME GateInv, NEW b \in Blocks, ResendQuestion(b)
  PROVE  GateInv'
<1>1. /\ UNCHANGED <<epoch, stamps, last, report, wire, kind, detail, highest, idleTimer, gap, shown,
                     nudges, muted, idleFor, idleNudges, wired, handoff, buffer, phone, accepted, answered>>
      /\ asking' = asking \cup {b} /\ b \notin asking /\ InBand
      /\ asked' = [asked EXCEPT ![b] = @ + 1] /\ b[2] <= last[b[1]]
      /\ resends' = resends + 1 /\ resends < MaxResends
  BY DEF ResendQuestion, activityVars, uiVars
<1>2. asked[b] + 1 \in 0 .. MaxResends + 2
  BY <1>1, StampedTypes, FoldAssumption DEF GateInv, AsksAreCounted, IInv, TypeOK
<1>3. IInv'
  <2>1. TypeOK'
    BY <1>1, FoldAssumption DEF GateInv, IInv, TypeOK
  <2> QED BY <1>1, <2>1 DEF GateInv, IInv, WireIsPast, MarkIsPast, ShownIsPast, LastIsPending,
          NoNudgeOutsideStretch, TimerMeasuresStretch, TruthfulActivity, RichDetailSurvives,
          NeedsInputOncePerStretch
<1>4. Stamped(buffer)' /\ Stamped(phone)'
  BY <1>1 DEF GateInv, Stamped, InBand
<1>5. GateTypeOK'
  BY <1>1, <1>2 DEF GateInv, GateTypeOK
<1>6. ~(HookInstalled /\ InBand)' /\ FramesInBand' /\ StampNamesOne' /\ AnswersWhatWasSeen'
  BY <1>1 DEF GateInv, FramesInBand, HookInstalled, InBand, StampNamesOne, AnswersWhatWasSeen
<1>7. AnswersAreAsked'
  <2> SUFFICES ASSUME NEW c \in Blocks PROVE answered'[c] + Held(c)' <= asked'[c]
    BY DEF AnswersAreAsked
  <2>1. answered[c] + Held(c) <= asked[c] /\ answered[c] \in Nat /\ asked[c] \in Nat
    BY StampedTypes DEF GateInv, AnswersAreAsked
  <2>2. Held(c)' = Held(c) + (IF c = b THEN 1 ELSE 0) /\ Held(c) \in Nat
    BY <1>1 DEF Held
  <2>3. asked'[c] = asked[c] + (IF c = b THEN 1 ELSE 0)
    BY <1>1, <2>1 DEF GateInv, GateTypeOK
  <2> QED BY <1>1, <2>1, <2>2, <2>3
<1>8. AsksAreCounted'
  BY <1>1, StampedTypes DEF GateInv, GateTypeOK, AsksAreCounted, IInv, TypeOK
<1>9. UnmadeIsUnasked'
  <2> SUFFICES ASSUME NEW c \in Blocks, c[2] > last'[c[1]] PROVE asked'[c] = 0
    BY DEF UnmadeIsUnasked
  <2>1. c # b
    BY <1>1, StampedTypes DEF GateInv, IInv, TypeOK, Reports
  <2> QED BY <1>1, <2>1 DEF GateInv, GateTypeOK, UnmadeIsUnasked
<1> QED BY <1>3, <1>4, <1>5, <1>6, <1>7, <1>8, <1>9 DEF GateInv

\* What a step does that changes the buffer or the phone and neither the reports
\* nor the mark, once both are known to be stamped and to agree.
LEMMA BufferStep ==
  ASSUME GateInv, IInv',
         UNCHANGED <<last, resends, wired, asked, accepted>>,
         Stamped(buffer)', Stamped(phone)', StampNamesOne',
         buffer' \in Enrichments, phone' \in Enrichments,
         asking' \subseteq asking, handoff' \in Known, answered' \in [Blocks -> 0 .. MaxAnswers],
         \A b \in Blocks : answered'[b] + Held(b)' <= answered[b] + Held(b)
  PROVE  GateInv'
<1>1. /\ GateTypeOK' /\ ~(HookInstalled /\ InBand)' /\ FramesInBand'
      /\ AnswersWhatWasSeen' /\ AsksAreCounted' /\ UnmadeIsUnasked'
  BY DEF GateInv, FramesInBand, GateTypeOK, HookInstalled, InBand, AnswersWhatWasSeen, AsksAreCounted, UnmadeIsUnasked
<1>2. AnswersAreAsked'
  <2> SUFFICES ASSUME NEW b \in Blocks PROVE answered'[b] + Held(b)' <= asked'[b]
    BY DEF AnswersAreAsked
  <2>1. answered[b] + Held(b) <= asked[b] /\ answered[b] \in Nat /\ asked[b] \in Nat
    BY StampedTypes DEF GateInv, AnswersAreAsked
  <2>2. Held(b) \in Nat /\ Held(b)' \in Nat
    BY DEF Held
  <2>3. answered'[b] \in Nat
    BY FoldAssumption DEF MaxAnswers
  <2> QED BY <2>1, <2>2, <2>3
<1> QED BY <1>1, <1>2 DEF GateInv

\* The phone sees what the buffer holds, or nothing.
LEMMA ServeStep ==
  ASSUME GateInv, ServeEnrichment
  PROVE  GateInv'
<1>1. UNCHANGED <<vars, wired, asking, handoff, buffer, accepted, asked, answered>>
  BY DEF ServeEnrichment
<1>2. phone' = buffer \/ phone' = NoEnrichment
  BY DEF ServeEnrichment
<1>3. IInv' /\ UNCHANGED <<epoch, stamps, highest, kind, report, last, resends>>
  BY <1>1, InvStep DEF GateInv, vars, workerVars, activityVars
<1>4. Stamped(buffer)' /\ Stamped(phone)' /\ StampNamesOne'
  BY <1>1, <1>2, <1>3, NoEnrichmentIsOne DEF GateInv, Stamped, StampNamesOne, InBand
<1>5. phone' \in Enrichments /\ buffer' \in Enrichments /\ handoff' \in Known
      /\ answered' \in [Blocks -> 0 .. MaxAnswers]
  BY <1>1, <1>2, NoEnrichmentIsOne DEF GateInv, GateTypeOK
<1>6. \A b \in Blocks : answered'[b] + Held(b)' <= answered[b] + Held(b)
  BY <1>1, StampedTypes DEF Held
<1> QED BY <1>1, <1>3, <1>4, <1>5, <1>6, BufferStep

\* A frame of this generation is buffered under its own block.
LEMMA ReceiveQuestionStep ==
  ASSUME GateInv, NEW b \in Blocks, ReceiveQuestion(b)
  PROVE  GateInv'
<1>1. /\ UNCHANGED <<vars, wired, handoff, phone, accepted, asked, answered>>
      /\ b \in asking /\ asking' = asking \ {b}
  BY DEF ReceiveQuestion
<1>2. (buffer' = Enrichment(b, b) /\ b[1] = epoch /\ epoch \in stamps) \/ buffer' = buffer
  BY DEF ReceiveQuestion
<1>3. IInv' /\ UNCHANGED <<epoch, stamps, highest, kind, report, last, resends>>
  BY <1>1, InvStep DEF GateInv, vars, workerVars, activityVars
<1>4. InBand
  BY <1>1 DEF GateInv, FramesInBand
<1>5. Enrichment(b, b) \in Enrichments /\ Enrichment(b, b).stamp = b /\ Enrichment(b, b).block = b /\ b # NoBlock
  BY NoBlockIsNone DEF Enrichment, Enrichments, Known
<1>6. Stamped(buffer)' /\ Stamped(phone)'
  BY <1>1, <1>2, <1>3, <1>4, <1>5, StampedTypes DEF GateInv, Stamped, InBand, Epochs
<1>7. StampNamesOne'
  <2>1. InBand'
    BY <1>1, <1>4 DEF InBand
  <2> QED BY <1>6, <2>1 DEF Stamped, StampNamesOne
<1>8. phone' \in Enrichments /\ buffer' \in Enrichments /\ handoff' \in Known
      /\ answered' \in [Blocks -> 0 .. MaxAnswers]
  BY <1>1, <1>2, <1>5 DEF GateInv, GateTypeOK
<1>9. ASSUME NEW c \in Blocks PROVE answered'[c] + Held(c)' <= answered[c] + Held(c)
  <2>1. Held(c)' <= Held(c) /\ Held(c) \in Nat /\ Held(c)' \in Nat
    BY <1>1, <1>2, <1>5 DEF Held
  <2> QED BY <1>1, <2>1, StampedTypes
<1> QED BY <1>1, <1>3, <1>6, <1>7, <1>8, <1>9, BufferStep

\* A capture is taken with a stamp the phone cannot have yet: were it the stamp of
\* what the phone shows, the mark would be on that report, the session would be
\* awaiting, and no frame could move it there.
LEMMA CaptureIsNew ==
  ASSUME GateInv, NEW f \in Frames, f \in wire, ApplyFrame(f), TakesHandoff(f),
         phone.stamp = <<epoch, f.n>>
  PROVE  FALSE
<1>1. /\ epoch \in stamps /\ ~InBand /\ kind # "requires_action" /\ f.n \in Reports /\ f.n # 0
  BY FoldAssumption DEF TakesHandoff, Seq, ApplyFrame, Frames, GateInv, Reports, NoSeq
<1>2. phone.stamp # NoBlock /\ phone.stamp[1] = epoch /\ phone.stamp[2] = f.n
  BY <1>1 DEF NoBlock
<1>3. f.n <= highest /\ report[epoch][f.n] = "requires_action"
  BY <1>1, <1>2 DEF GateInv, Stamped
<1>4. highest = f.n
  BY <1>1, <1>3, StampedTypes DEF ApplyFrame, IsStaleWorkerStatusSequence, Seq, Reports, NoSeq
<1> QED BY <1>1, <1>3, <1>4 DEF GateInv, IInv, TruthfulActivity, NoSeq

LEMMA ReceiveStatusStep ==
  ASSUME GateInv, NEW f \in Frames, ReceiveStatus(f)
  PROVE  GateInv'
<1>1. f \in wire /\ UNCHANGED <<wired, asking, phone, accepted, asked, answered>>
  BY DEF ReceiveStatus
<1>2. Receive(f)
  BY <1>1 DEF ReceiveStatus, Receive
<1>3. IInv'
  BY <1>2, InvStep DEF Next, GateInv
<1>4. CASE (RefuseSuperseded(f) \/ RefuseStale(f)) /\ UNCHANGED <<buffer, handoff>>
  BY <1>1, <1>3, <1>4, RestKeeps, IdleStep DEF gateVars
<1>5. CASE /\ ApplyFrame(f)
           /\ buffer' = IF kind' # "requires_action" THEN NoEnrichment
                        ELSE IF TakesHandoff(f) THEN Enrichment(<<epoch, Seq(f)>>, handoff) ELSE buffer
           /\ handoff' = IF TakesHandoff(f) THEN NoBlock ELSE handoff
  <2>1. /\ UNCHANGED <<epoch, stamps, last, report, resends>> /\ f.epoch = epoch
        /\ highest' \in Nat /\ highest' >= highest
        /\ f.epoch \in stamps => highest' >= f.n
        /\ kind' = report[epoch][f.n]
        /\ f.n \in Reports /\ f.n \in Nat
    BY <1>5, StampedTypes, FoldAssumption
    DEF ApplyFrame, ApplyWorkerStatus, RecordStatusSequence, IsStaleWorkerStatusSequence, Seq, NoSeq, Frames, Reports
  <2>2. Stamped(phone)'
    BY <1>1, <2>1, StampedTypes DEF GateInv, Stamped, InBand, Reports, Known
  <2>3. CASE buffer' = buffer \/ buffer' = NoEnrichment
    <3>1. Stamped(buffer)' /\ StampNamesOne'
      BY <1>1, <2>1, <2>2, <2>3, StampedTypes, NoEnrichmentIsOne
      DEF GateInv, Stamped, StampNamesOne, InBand, Reports, Known
    <3>2. phone' \in Enrichments /\ buffer' \in Enrichments /\ handoff' \in Known
          /\ answered' \in [Blocks -> 0 .. MaxAnswers]
      BY <1>1, <1>5, <2>3, NoEnrichmentIsOne DEF GateInv, GateTypeOK, Known
    <3>3. ASSUME NEW c \in Blocks PROVE answered'[c] + Held(c)' <= answered[c] + Held(c)
      <4>1. Held(c)' <= Held(c) /\ Held(c) \in Nat /\ Held(c)' \in Nat
        BY <1>1, <1>5, <2>3, NoEnrichmentIsOne, NoBlockIsNone DEF Held
      <4> QED BY <1>1, <4>1, StampedTypes
    <3> QED BY <1>1, <1>3, <2>1, <2>2, <3>1, <3>2, <3>3, BufferStep
  <2>4. CASE TakesHandoff(f) /\ kind' = "requires_action"
    <3>1. /\ buffer' = Enrichment(<<epoch, f.n>>, handoff) /\ handoff' = NoBlock
          /\ handoff # NoBlock /\ epoch \in stamps /\ HookInstalled
      BY <1>5, <2>1, <2>4 DEF TakesHandoff, Seq
    <3>2. /\ <<epoch, f.n>> \in Blocks /\ <<epoch, f.n>> # NoBlock /\ handoff \in Blocks
          /\ buffer'.stamp = <<epoch, f.n>> /\ buffer'.block = handoff /\ buffer' \in Enrichments
      BY <2>1, <3>1, StampedTypes, NoBlockIsNone DEF Blocks, Enrichment, Enrichments, Known, GateInv, GateTypeOK
    <3>3. Stamped(buffer)'
      <4>1. f.n <= highest' /\ report'[epoch'][f.n] = "requires_action" /\ epoch' = epoch /\ epoch \in Nat
        BY <2>1, <2>4, <3>1, StampedTypes, FoldAssumption DEF Epochs
      <4>2. ~InBand' /\ epoch \in stamps'
        BY <1>1, <2>1, <3>1 DEF GateInv, InBand, HookInstalled
      <4>3. buffer'.stamp[1] = epoch /\ buffer'.stamp[2] = f.n
        BY <3>2
      <4> QED BY <3>1, <3>2, <4>1, <4>2, <4>3 DEF Stamped
    <3>4. StampNamesOne'
      BY <1>1, <1>5, <2>4, <3>2, CaptureIsNew DEF StampNamesOne
    <3>5. phone' \in Enrichments /\ handoff' \in Known /\ answered' \in [Blocks -> 0 .. MaxAnswers]
      BY <1>1, <3>1 DEF GateInv, GateTypeOK, Known
    <3>6. ASSUME NEW c \in Blocks PROVE answered'[c] + Held(c)' <= answered[c] + Held(c)
      <4>1. Held(c)' <= Held(c) /\ Held(c) \in Nat /\ Held(c)' \in Nat
        BY <1>1, <3>1, <3>2, NoBlockIsNone DEF Held
      <4> QED BY <1>1, <4>1, StampedTypes
    <3> QED BY <1>1, <1>3, <2>1, <2>2, <3>2, <3>3, <3>4, <3>5, <3>6, BufferStep
  <2> QED BY <1>5, <2>3, <2>4
<1> QED BY <1>4, <1>5 DEF ReceiveStatus

\* The answer names the buffered stamp, the generation apart, and spends it.
LEMMA AnswerStep ==
  ASSUME GateInv, Answer
  PROVE  GateInv'
<1>1. /\ phone # NoEnrichment /\ buffer # NoEnrichment /\ phone.stamp[2] = buffer.stamp[2]
      /\ buffer' = NoEnrichment /\ UNCHANGED <<wired, asking, handoff, phone, asked>>
      /\ accepted' = accepted \cup {[seen |-> phone, given |-> buffer, standing |-> Outstanding]}
      /\ answered' = [answered EXCEPT ![buffer.block] = IF @ < MaxAnswers THEN @ + 1 ELSE @]
  BY DEF Answer, Number
<1>2. IInv'
  BY InvStep DEF Answer, Next, GateInv
<1>3. UNCHANGED <<epoch, stamps, highest, kind, report, last, resends>>
  BY DEF Answer, PushClientEvent, workerVars, activityVars
<1>4. buffer.stamp \in Blocks /\ buffer.block \in Blocks /\ phone.stamp \in Blocks
  <2>1. \A x \in Enrichments : x = Enrichment(x.stamp, x.block)
    BY DEF Enrichment, Enrichments
  <2> QED BY <1>1, <2>1, StampedTypes DEF GateInv, GateTypeOK, Stamped, NoEnrichment, Known
<1>5. Stamped(buffer)' /\ Stamped(phone)'
  BY <1>1, <1>3, NoEnrichmentIsOne DEF GateInv, Stamped, InBand
<1>6. StampNamesOne' /\ ~(HookInstalled /\ InBand)' /\ FramesInBand'
  BY <1>1, <1>4, NoEnrichmentIsOne, NoBlockIsNone DEF GateInv, StampNamesOne, HookInstalled, InBand, FramesInBand
<1>7. AnswersWhatWasSeen'
  <2>1. phone.stamp[1] = buffer.stamp[1] => phone.block = buffer.block
    BY <1>1, <1>4, StampedTypes DEF GateInv, StampNamesOne
  <2> QED BY <1>1, <2>1 DEF GateInv, AnswersWhatWasSeen
<1>8. AsksAreCounted' /\ UnmadeIsUnasked'
  BY <1>1, <1>3 DEF GateInv, AsksAreCounted, UnmadeIsUnasked
<1>9. AnswersAreAsked'
  <2> SUFFICES ASSUME NEW c \in Blocks PROVE answered'[c] + Held(c)' <= asked'[c]
    BY DEF AnswersAreAsked
  <2>1. answered[c] + Held(c) <= asked[c] /\ answered[c] \in Nat /\ asked[c] \in Nat
    BY StampedTypes DEF GateInv, AnswersAreAsked
  <2>2. Held(c)' = Held(c) - (IF c = buffer.block THEN 1 ELSE 0) /\ Held(c) \in Nat
    BY <1>1, NoEnrichmentIsOne, NoBlockIsNone DEF Held
  <2>3. answered'[c] <= answered[c] + (IF c = buffer.block THEN 1 ELSE 0) /\ answered'[c] \in Nat
    BY <1>1, <2>1, FoldAssumption DEF GateInv, GateTypeOK, MaxAnswers
  <2> QED BY <1>1, <2>1, <2>2, <2>3
<1>10. GateTypeOK'
  <2>1. answered' \in [Blocks -> 0 .. MaxAnswers]
    <3>1. answered \in [Blocks -> 0 .. MaxAnswers] /\ MaxAnswers \in Nat
      BY FoldAssumption DEF GateInv, GateTypeOK, MaxAnswers
    <3>2. \A n \in 0 .. MaxAnswers : (IF n < MaxAnswers THEN n + 1 ELSE n) \in 0 .. MaxAnswers
      BY <3>1
    <3> QED BY <1>1, <3>1, <3>2
  <2>2. accepted' \in SUBSET [seen : Enrichments, given : Enrichments, standing : Epochs \X (0 .. MaxReports)]
    BY <1>1, StampedTypes DEF GateInv, GateTypeOK, Outstanding
  <2> QED BY <1>1, <2>1, <2>2, NoEnrichmentIsOne DEF GateInv, GateTypeOK
<1> QED BY <1>2, <1>5, <1>6, <1>7, <1>8, <1>9, <1>10 DEF GateInv

\* Every step of the gate preserves the invariant.
LEMMA GateInvStep == GateInv /\ [GateNext]_allVars => GateInv'
<1> SUFFICES ASSUME GateInv, [GateNext]_allVars PROVE GateInv'
  OBVIOUS
<1>1. CASE UNCHANGED allVars
  <2>1. UNCHANGED <<vars, gateVars, epoch, stamps, highest, kind, report, last, resends>>
    BY <1>1 DEF allVars, vars, workerVars, activityVars
  <2>2. IInv' /\ resends' >= resends
    BY <2>1, InvStep DEF GateInv, IInv, TypeOK
  <2> QED BY <2>1, <2>2, IdleStep
<1>2. CASE GateNext
  BY <1>2, BlockStep, MoveOnStep, ReregisterStep, ResendStatusStep, ReceiveStatusStep,
     ResendQuestionStep, ReceiveQuestionStep, ServeStep, AnswerStep, ElapseStep DEF GateNext
<1> QED BY <1>1, <1>2

\* The strengthened invariant, on which the rest is read off.
THEOREM GateInvariant == OneWayOnly /\ GateSpec => []GateInv
<1>1. OneWayOnly /\ GateInit => GateInv
  BY GateInvInit
<1>2. GateInv /\ [GateNext]_allVars => GateInv'
  BY GateInvStep
<1> QED BY <1>1, <1>2, PTL DEF GateSpec

\* Type correctness of the gate.
THEOREM GateTypeCorrect == OneWayOnly /\ GateSpec => []GateTypeOK
<1>1. GateInv => GateTypeOK
  BY DEF GateInv
<1> QED BY <1>1, GateInvariant, PTL

\* The number an answer echoes names the question the operator was looking at.
THEOREM AnswersWhatWasSeenAlways == OneWayOnly /\ GateSpec => []AnswersWhatWasSeen
<1>1. GateInv => AnswersWhatWasSeen
  BY DEF GateInv
<1> QED BY <1>1, GateInvariant, PTL

\* No decision is answered more often than it was put to the server.
THEOREM AnsweredOnceAlways == OneWayOnly /\ GateSpec => []AnsweredOnce
<1>1. GateInv => AnsweredOnce
  <2> SUFFICES ASSUME GateInv, NEW b \in Blocks PROVE answered[b] <= asked[b]
    BY DEF AnsweredOnce
  <2>1. answered[b] + Held(b) <= asked[b] /\ Held(b) \in Nat
    BY DEF GateInv, AnswersAreAsked, Held
  <2> QED BY <2>1, StampedTypes
<1> QED BY <1>1, GateInvariant, PTL

\* The fold keeps what it promises when the gate rides on its handlers.
THEOREM FoldHoldsInGate ==
  OneWayOnly /\ GateSpec => [](TruthfulActivity /\ SettledOnLastReport /\ NeedsInputOncePerStretch)
<1>1. GateInv => TruthfulActivity /\ SettledOnLastReport /\ NeedsInputOncePerStretch
  BY SettledFollows DEF GateInv, IInv
<1> QED BY <1>1, GateInvariant, PTL
===============================================================================
