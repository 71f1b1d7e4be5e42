---------------------------- MODULE PhonePageProofs ----------------------------
(***************************************************************************)
(* What PhonePage's run checks with two sessions, proved for any number of  *)
(* sessions, of block numbers and of stops.                                 *)
(***************************************************************************)
EXTENDS PhonePage, TLAPS

\* The question the list has, and the block the stream has named, are of the session
\* on view; so is what is painted, and a stream is somebody's.
QuestionIsOfTheView == viewedEnrichment # None => viewedEnrichment.session = currentSessionId
BlockIsOfTheView == currentBlock # 0 => blockFrom = currentSessionId
StreamIsOfASession == streamState # "idle" => currentSessionId # Null

\* One stop at a time, while the page says it is stopping.
OneStop ==
  /\ stops # {} => stopping
  /\ \A a, b \in stops : a = b

\* The escalation is offered of a session that was refused.
OfferIsOfARefusal == stopStatus.force # Null => stopStatus.force \in refused

\* Once a stop is confirmed nothing is under way, while the session is on view.
ConfirmedIsQuiet ==
  confirmed # Null => stops = {} /\ ~stopEnabled /\ stopStatus.force = Null

ViewInv == QuestionIsOfTheView /\ BlockIsOfTheView /\ StreamIsOfASession /\ ShownIsOfTheView
StopInv == OneStop /\ OfferIsOfARefusal /\ ForceIsConsented /\ ConfirmedIsQuiet

IInv == TypeOK /\ ViewInv /\ StopInv

\* What panel rests on of the view.
viewVars == <<currentSessionId, streamState, activity, currentBlock, blockFrom, viewedEnrichment, panel>>
controlVars == <<stops, stopping, stopEnabled, stopStatus, refused, forced, confirmed>>

\* A step that moves neither the view nor the control keeps what is claimed of them.
LEMMA ViewKept == ASSUME ViewInv, UNCHANGED viewVars PROVE ViewInv'
  BY DEF ViewInv, viewVars, QuestionIsOfTheView, BlockIsOfTheView, StreamIsOfASession, ShownIsOfTheView

LEMMA ControlKept == ASSUME StopInv, UNCHANGED controlVars PROVE StopInv'
  BY DEF StopInv, controlVars, OneStop, OfferIsOfARefusal, ForceIsConsented, ConfirmedIsQuiet

\* The initial states: nothing on view.
LEMMA InvInit == Init => IInv
<1> SUFFICES ASSUME Init PROVE IInv
  OBVIOUS
<1> USE PageAssumption DEF Init, None, Hidden
<1>1. TypeOK
  <2>1. viewedEnrichment \in Questions /\ panel \in Questions
    BY DEF Questions
  <2>2. stopStatus \in [state : {"hidden", "stopping", "stopped", "failed"}, force : Sessions \cup {Null}]
    OBVIOUS
  <2>3. /\ activity \in BOOLEAN /\ stopping \in BOOLEAN /\ stopEnabled \in BOOLEAN
        /\ streamState \in {"idle", "connecting", "open", "reconnecting"}
    OBVIOUS
  <2>4. DOMAIN renderedSessions = {}
    OBVIOUS
  <2>5. /\ alive \in SUBSET Sessions /\ list = Null
        /\ stops \in SUBSET [number : 1 .. MaxStops, session : Sessions, force : BOOLEAN, outcome : Outcomes]
        /\ refused \in SUBSET Sessions /\ forced \in SUBSET Sessions
    OBVIOUS
  <2>6. /\ currentSessionId \in Sessions \cup {Null} /\ blockFrom \in Sessions \cup {Null}
        /\ confirmed \in Sessions \cup {Null}
        /\ currentBlock \in 0 .. MaxSeq /\ answered \in 0 .. MaxSeq /\ asked \in 0 .. MaxStops
    OBVIOUS
  <2> QED BY ONLY <2>1, <2>2, <2>3, <2>4, <2>5, <2>6 DEF TypeOK
<1>2. ViewInv
  BY DEF ViewInv, QuestionIsOfTheView, BlockIsOfTheView, StreamIsOfASession, ShownIsOfTheView
<1>3. StopInv
  BY DEF StopInv, OneStop, OfferIsOfARefusal, ForceIsConsented, ConfirmedIsQuiet
<1> QED BY <1>1, <1>2, <1>3 DEF IInv

\* renderEnrichment paints the question of the view, or none, or leaves a panel that
\* is of the view already.
LEMMA PaintIsOfTheView ==
  ASSUME TypeOK, ShownIsOfTheView, RenderEnrichment,
         QuestionIsOfTheView', BlockIsOfTheView',
         viewedEnrichment' \in Questions, currentBlock' \in 0 .. MaxSeq,
         currentSessionId' = currentSessionId \/ currentBlock' = 0
  PROVE  /\ panel' \in Questions
         /\ panel' # None => /\ panel'.session = currentSessionId' /\ blockFrom' = currentSessionId'
                             /\ panel'.seq = currentBlock'
<1> USE PageAssumption
<1>1. None \in Questions /\ None.seq = 0
  BY DEF None, Questions
<1>2. CASE ~Shows(viewedEnrichment', currentBlock', answered')
  BY <1>1, <1>2 DEF RenderEnrichment, Painted
<1>3. CASE Shows(viewedEnrichment', currentBlock', answered')
  <2>1. /\ viewedEnrichment' # None /\ currentBlock' # 0 /\ viewedEnrichment'.seq = currentBlock'
        /\ currentSessionId' = currentSessionId
    BY <1>3 DEF Shows
  <2>2. panel' = IF panel.seq = viewedEnrichment'.seq THEN panel ELSE viewedEnrichment'
    BY <1>3 DEF RenderEnrichment, Painted
  <2>3. CASE panel.seq = viewedEnrichment'.seq
    <3>1. panel # None
      BY <1>1, <2>1, <2>3
    <3>2. panel.session = currentSessionId
      BY <3>1 DEF ShownIsOfTheView
    <3> QED BY <2>1, <2>2, <2>3, <3>1, <3>2 DEF TypeOK, BlockIsOfTheView
  <2>4. CASE panel.seq # viewedEnrichment'.seq
    BY <2>1, <2>2, <2>4 DEF QuestionIsOfTheView, BlockIsOfTheView
  <2> QED BY <2>3, <2>4
<1> QED BY <1>2, <1>3

\* A question read from a list is of the row it was read from.
LEMMA EnrichmentIsOfTheRow ==
  ASSUME TypeOK, NEW s \in Sessions, NEW rows, \A r \in DOMAIN rows : rows[r] \in 0 .. MaxSeq
  PROVE  /\ EnrichmentOf(s, rows) \in Questions
         /\ EnrichmentOf(s, rows) # None => EnrichmentOf(s, rows).session = s
  BY PageAssumption DEF EnrichmentOf, Questions, None


\* The panel and its stream: frames, connection and answer, of one session on view.
LEMMA PanelStep ==
  ASSUME IInv,
         SubmitAnswer \/ TurnFrame \/ SessionClosedFrame \/ StreamOpens \/ StreamErrors
           \/ \E seq \in 0 .. MaxSeq : BlockFrame(seq)
  PROVE  IInv'
<1> USE PageAssumption DEF IInv
<1> DEFINE Calm ==
      /\ UNCHANGED <<alive, list, renderedSessions, currentSessionId, stops, stopping, stopEnabled,
                     stopStatus, asked, refused, forced, confirmed>>
      /\ streamState' \in {"idle", "connecting", "open", "reconnecting"}
      /\ activity' \in BOOLEAN
      /\ currentBlock' \in 0 .. MaxSeq /\ answered' \in 0 .. MaxSeq
      /\ viewedEnrichment' \in Questions /\ blockFrom' \in Sessions \cup {Null}
<1>1. Calm
  <2>1. CASE SubmitAnswer
    BY <2>1 DEF SubmitAnswer, listVars, stopVars, TypeOK, Questions
  <2>2. CASE TurnFrame
    BY <2>2 DEF TurnFrame, listVars, stopVars, TypeOK
  <2>3. CASE SessionClosedFrame
    <3>1. viewedEnrichment' = None /\ None \in Questions
      BY <2>3 DEF SessionClosedFrame, DropPanel, None, Questions
    <3>2. activity' \in BOOLEAN
      BY <2>3 DEF SessionClosedFrame
    <3>3. /\ currentBlock' = 0 /\ answered' = answered /\ blockFrom' = Null /\ streamState' = "idle"
          /\ UNCHANGED <<alive, list, renderedSessions, currentSessionId, stops, stopping, stopEnabled,
                         stopStatus, asked, refused, forced, confirmed>>
      BY <2>3 DEF SessionClosedFrame, DropPanel, listVars, stopVars
    <3>4. currentBlock' \in 0 .. MaxSeq /\ answered' \in 0 .. MaxSeq
      BY <3>3 DEF TypeOK
    <3> QED BY <3>1, <3>2, <3>3, <3>4
  <2>4. CASE StreamOpens \/ StreamErrors
    BY <2>4 DEF StreamOpens, StreamErrors, listVars, panelVars, stopVars, TypeOK
  <2>5. ASSUME NEW seq \in 0 .. MaxSeq, BlockFrame(seq) PROVE Calm
    BY <2>5 DEF BlockFrame, listVars, stopVars, TypeOK
  <2> QED BY <2>1, <2>2, <2>3, <2>4, <2>5
<1>2. QuestionIsOfTheView' /\ BlockIsOfTheView' /\ StreamIsOfASession'
  BY <1>1 DEF SubmitAnswer, TurnFrame, SessionClosedFrame, StreamOpens, StreamErrors, BlockFrame, DropPanel,
     panelVars, ViewInv, QuestionIsOfTheView, BlockIsOfTheView, StreamIsOfASession, None
<1>3. activity' => currentSessionId' # Null /\ streamState' # "idle"
  BY <1>1 DEF SubmitAnswer, TurnFrame, SessionClosedFrame, StreamOpens, StreamErrors, BlockFrame,
     ViewInv, StreamIsOfASession, ShownIsOfTheView
<1>4. /\ panel' \in Questions
      /\ panel' # None => /\ panel'.session = currentSessionId' /\ blockFrom' = currentSessionId'
                          /\ panel'.seq = currentBlock'
  <2>1. CASE RenderEnrichment
    BY <1>1, <1>2, <2>1, PaintIsOfTheView DEF ViewInv
  <2>2. CASE StreamOpens \/ StreamErrors
    BY <1>1, <2>2 DEF StreamOpens, StreamErrors, panelVars, ViewInv, ShownIsOfTheView, TypeOK
  <2> QED BY <2>1, <2>2 DEF SubmitAnswer, TurnFrame, SessionClosedFrame, BlockFrame, DropPanel
<1>5. TypeOK'
  BY <1>1, <1>4 DEF TypeOK
<1>6. ViewInv'
  BY <1>2, <1>3, <1>4 DEF ViewInv, ShownIsOfTheView
<1>7. StopInv'
  BY <1>1, ControlKept DEF controlVars
<1> QED BY <1>5, <1>6, <1>7

\* A selection starts the view clean.
LEMMA SelectStep ==
  ASSUME IInv, NEW s \in Sessions, NEW rows, \A r \in DOMAIN rows : rows[r] \in 0 .. MaxSeq,
         Select(s, rows), UNCHANGED <<stops, stopping, asked, refused, forced>>
  PROVE  /\ ViewInv' /\ StopInv'
         /\ (alive' \in SUBSET Sessions /\ (list' = Null \/ list' \in SUBSET Sessions)
             /\ DOMAIN renderedSessions' \in SUBSET Sessions
             /\ \A r \in DOMAIN renderedSessions' : renderedSessions'[r] \in 0 .. MaxSeq) => TypeOK'
<1> USE PageAssumption DEF IInv
<1>1. /\ currentSessionId' = s /\ streamState' = "connecting" /\ activity' = FALSE
      /\ currentBlock' = 0 /\ blockFrom' = Null /\ answered' = 0
      /\ viewedEnrichment' = EnrichmentOf(s, rows) /\ RenderEnrichment
      /\ stopStatus' = Hidden /\ stopEnabled' = ~stopping /\ confirmed' = Null
  BY DEF Select
<1>2. viewedEnrichment' \in Questions /\ QuestionIsOfTheView' /\ BlockIsOfTheView' /\ StreamIsOfASession'
  BY <1>1, EnrichmentIsOfTheRow DEF QuestionIsOfTheView, BlockIsOfTheView, StreamIsOfASession
<1>3. /\ panel' \in Questions
      /\ panel' # None => /\ panel'.session = currentSessionId' /\ blockFrom' = currentSessionId'
                          /\ panel'.seq = currentBlock'
  BY <1>1, <1>2, PaintIsOfTheView DEF ViewInv
<1>4. ViewInv'
  BY <1>1, <1>2, <1>3 DEF ViewInv, ShownIsOfTheView
<1>5. StopInv'
  BY <1>1 DEF StopInv, OneStop, OfferIsOfARefusal, ForceIsConsented, ConfirmedIsQuiet, Hidden
<1>6. stopStatus' \in [state : {"hidden", "stopping", "stopped", "failed"}, force : Sessions \cup {Null}]
  BY <1>1 DEF Hidden
<1>7. stopEnabled' \in BOOLEAN
  BY <1>1 DEF TypeOK
<1>8. /\ refused' \in SUBSET Sessions /\ forced' \in SUBSET Sessions /\ asked' \in 0 .. MaxStops
      /\ stops' \in SUBSET [number : 1 .. MaxStops, session : Sessions, force : BOOLEAN, outcome : Outcomes]
      /\ stopping' \in BOOLEAN
  BY DEF TypeOK
<1>9. activity' \in BOOLEAN
  BY <1>1
<1>10. /\ currentSessionId' \in Sessions \cup {Null} /\ blockFrom' \in Sessions \cup {Null}
      /\ confirmed' \in Sessions \cup {Null}
      /\ streamState' \in {"idle", "connecting", "open", "reconnecting"}
      /\ currentBlock' \in 0 .. MaxSeq /\ answered' \in 0 .. MaxSeq
  BY <1>1 DEF TypeOK
<1> QED BY <1>2, <1>3, <1>4, <1>5, <1>6, <1>7, <1>8, <1>9, <1>10 DEF TypeOK

LEMMA ListStep ==
  ASSUME IInv, PollIsServed \/ PollIsApplied \/ \E s \in Sessions : SelectSession(s) \/ EndSession(s)
  PROVE  IInv'
<1> USE PageAssumption DEF IInv
<1>1. CASE PollIsServed \/ \E s \in Sessions : EndSession(s)
  <2>1. TypeOK'
    BY <1>1 DEF PollIsServed, EndSession, TypeOK, panelVars, stopVars
  <2>2. UNCHANGED <<viewVars, controlVars>>
    BY <1>1 DEF PollIsServed, EndSession, viewVars, controlVars, panelVars, stopVars
  <2> QED BY <2>1, <2>2, ViewKept, ControlKept
<1>2. ASSUME NEW s \in Sessions, SelectSession(s) PROVE IInv'
  <2>1. Select(s, renderedSessions) /\ UNCHANGED <<alive, list, renderedSessions, stops, stopping, asked, refused, forced>>
    BY <1>2 DEF SelectSession, listVars
  <2> QED BY <2>1, SelectStep DEF TypeOK
<1>3. CASE PollIsApplied
  <2>1. /\ list # Null /\ list' = Null /\ alive' = alive /\ list \in SUBSET Sessions
        /\ list' = Null \/ list' \in SUBSET Sessions
    BY <1>3 DEF PollIsApplied, TypeOK
  <2>2. PICK rows \in [list -> 0 .. MaxSeq] :
          /\ renderedSessions' = rows
          /\ \/ currentSessionId = Null /\ list # {} /\ (\E s \in list : Select(s, rows))
                /\ UNCHANGED <<stops, stopping, asked, refused, forced>>
             \/ currentSessionId # Null /\ currentSessionId \notin list /\ Clear
                /\ UNCHANGED <<stops, stopping, asked, refused, forced>>
             \/ /\ viewedEnrichment' = EnrichmentOf(currentSessionId, rows)
                /\ currentSessionId # Null \/ list = {}
                /\ UNCHANGED <<currentBlock, answered, blockFrom>>
                /\ RenderEnrichment
                /\ UNCHANGED <<currentSessionId, streamState, activity, stopVars, confirmed>>
    BY <1>3 DEF PollIsApplied
  <2>3. /\ DOMAIN renderedSessions' \in SUBSET Sessions
        /\ \A r \in DOMAIN renderedSessions' : renderedSessions'[r] \in 0 .. MaxSeq
        /\ \A r \in DOMAIN rows : rows[r] \in 0 .. MaxSeq
    BY <2>1, <2>2
  <2>4. ASSUME NEW s \in list, Select(s, rows), UNCHANGED <<stops, stopping, asked, refused, forced>> PROVE IInv'
    BY <2>1, <2>3, <2>4, SelectStep DEF TypeOK
  <2>5. CASE Clear /\ UNCHANGED <<stops, stopping, asked, refused, forced>>
    <3>1. /\ currentSessionId' = Null /\ streamState' = "idle" /\ activity' = FALSE
          /\ currentBlock' = 0 /\ blockFrom' = Null /\ viewedEnrichment' = None
          /\ answered' = answered /\ RenderEnrichment
          /\ stopEnabled' = FALSE /\ stopStatus' \in {Hidden, stopStatus} /\ confirmed' = Null
          /\ UNCHANGED <<stops, stopping, asked, refused, forced>>
      BY <2>5 DEF Clear, DropPanel
    <3>2. viewedEnrichment' \in Questions /\ QuestionIsOfTheView' /\ BlockIsOfTheView' /\ StreamIsOfASession'
      BY <3>1 DEF QuestionIsOfTheView, BlockIsOfTheView, StreamIsOfASession, Questions, None
    <3>3. /\ panel' \in Questions
          /\ panel' # None => /\ panel'.session = currentSessionId' /\ blockFrom' = currentSessionId'
                              /\ panel'.seq = currentBlock'
      BY <3>1, <3>2, PaintIsOfTheView DEF ViewInv
    <3>4. ViewInv'
      BY <3>1, <3>2, <3>3 DEF ViewInv, ShownIsOfTheView
    <3>5. StopInv'
      BY <3>1 DEF StopInv, OneStop, OfferIsOfARefusal, ForceIsConsented, ConfirmedIsQuiet, Hidden
    <3>6. TypeOK'
      <4>1. stopStatus' \in [state : {"hidden", "stopping", "stopped", "failed"}, force : Sessions \cup {Null}]
        BY <3>1 DEF TypeOK, Hidden
      <4>2. /\ refused' \in SUBSET Sessions /\ forced' \in SUBSET Sessions /\ asked' \in 0 .. MaxStops
            /\ stops' \in SUBSET [number : 1 .. MaxStops, session : Sessions, force : BOOLEAN, outcome : Outcomes]
            /\ stopping' \in BOOLEAN
        BY <3>1 DEF TypeOK
      <4>3. activity' \in BOOLEAN /\ stopEnabled' \in BOOLEAN
        BY <3>1
      <4>4. /\ alive' \in SUBSET Sessions
            /\ currentSessionId' \in Sessions \cup {Null} /\ blockFrom' \in Sessions \cup {Null}
            /\ confirmed' \in Sessions \cup {Null}
            /\ streamState' \in {"idle", "connecting", "open", "reconnecting"}
            /\ currentBlock' \in 0 .. MaxSeq /\ answered' \in 0 .. MaxSeq
        BY <2>1, <3>1 DEF TypeOK
      <4> QED BY <2>1, <2>3, <3>2, <3>3, <4>1, <4>2, <4>3, <4>4 DEF TypeOK
    <3> QED BY <3>4, <3>5, <3>6
  <2>6. CASE /\ viewedEnrichment' = EnrichmentOf(currentSessionId, rows)
             /\ currentSessionId # Null \/ list = {}
             /\ UNCHANGED <<currentBlock, answered, blockFrom>>
             /\ RenderEnrichment
             /\ UNCHANGED <<currentSessionId, streamState, activity, stopVars, confirmed>>
    <3>1. viewedEnrichment' \in Questions /\ QuestionIsOfTheView'
      <4>1. CASE currentSessionId \in Sessions
        BY <2>3, <2>6, <4>1, EnrichmentIsOfTheRow DEF QuestionIsOfTheView
      <4>2. CASE currentSessionId = Null
        <5>1. viewedEnrichment' = None
          BY <2>2, <2>6, <4>2 DEF EnrichmentOf
        <5> QED BY <5>1 DEF QuestionIsOfTheView, None, Questions
      <4> QED BY <4>1, <4>2 DEF TypeOK
    <3>2. BlockIsOfTheView' /\ StreamIsOfASession'
      BY <2>6 DEF ViewInv, BlockIsOfTheView, StreamIsOfASession
    <3>3. /\ panel' \in Questions
          /\ panel' # None => /\ panel'.session = currentSessionId' /\ blockFrom' = currentSessionId'
                              /\ panel'.seq = currentBlock'
      BY <2>6, <3>1, <3>2, PaintIsOfTheView DEF ViewInv, TypeOK
    <3>4. ViewInv'
      BY <2>6, <3>1, <3>2, <3>3 DEF ViewInv, ShownIsOfTheView
    <3>5. StopInv'
      BY <2>6, ControlKept DEF controlVars, stopVars
    <3>6. TypeOK'
      BY <2>1, <2>3, <2>6, <3>1, <3>3 DEF TypeOK, stopVars
    <3> QED BY <3>4, <3>5, <3>6
  <2> QED BY <2>2, <2>4, <2>5, <2>6
<1> QED BY <1>1, <1>2, <1>3

\* A stop is asked for: only one whose control is enabled or whose escalation is
\* offered, so none of a session whose stop is confirmed.
LEMMA TapStep ==
  ASSUME IInv, TapStop \/ TapForce
  PROVE  IInv'
<1> USE PageAssumption DEF IInv
<1>1. PICK s \in Sessions, force \in BOOLEAN :
        /\ Stop(s, force) /\ confirmed = Null
        /\ force => s \in refused
  BY DEF TapStop, TapForce, StopInv, OfferIsOfARefusal, ConfirmedIsQuiet, TypeOK
<1>2. /\ ~stopping /\ asked' = asked + 1 /\ asked < MaxStops /\ stopping' = TRUE /\ stopEnabled' = FALSE
      /\ stopStatus' = [state |-> "stopping", force |-> Null]
      /\ stops' = stops \cup {[number |-> asked', session |-> s, force |-> force, outcome |-> "asked"]}
      /\ forced' = IF force THEN forced \cup {s} ELSE forced
      /\ UNCHANGED <<alive, list, renderedSessions, currentSessionId, streamState, activity, currentBlock,
                     viewedEnrichment, answered, panel, blockFrom, refused, confirmed>>
  BY <1>1 DEF Stop, listVars, panelVars
<1>3. TypeOK'
  <2>1. asked' \in 1 .. MaxStops
    BY <1>2 DEF TypeOK
  <2>2. [number |-> asked', session |-> s, force |-> force, outcome |-> "asked"] \in
          [number : 1 .. MaxStops, session : Sessions, force : BOOLEAN, outcome : Outcomes]
    BY <2>1 DEF Outcomes
  <2>3. stops' \in SUBSET [number : 1 .. MaxStops, session : Sessions, force : BOOLEAN, outcome : Outcomes]
    BY <1>2, <2>2 DEF TypeOK
  <2>4. stopStatus' \in [state : {"hidden", "stopping", "stopped", "failed"}, force : Sessions \cup {Null}]
    BY <1>2
  <2>5. forced' \in SUBSET Sessions /\ stopping' \in BOOLEAN /\ stopEnabled' \in BOOLEAN
    BY <1>2 DEF TypeOK
  <2> QED BY <1>2, <2>1, <2>3, <2>4, <2>5 DEF TypeOK
<1>4. ViewInv'
  BY <1>2, ViewKept DEF viewVars
<1>5. StopInv'
  BY <1>1, <1>2 DEF StopInv, OneStop, OfferIsOfARefusal, ForceIsConsented, ConfirmedIsQuiet
<1> QED BY <1>3, <1>4, <1>5

\* A stop is decided, and answered or lost.
LEMMA StopStep ==
  ASSUME IInv, NEW stop \in stops,
         \/ StopSettles(stop) \/ StopIsLost(stop)
         \/ \E outcome \in {"stopped", "forceable", "refused"} : StopIsDecided(stop, outcome)
  PROVE  IInv'
<1> USE PageAssumption DEF IInv
<1>1. /\ stop \in [number : 1 .. MaxStops, session : Sessions, force : BOOLEAN, outcome : Outcomes]
      /\ \A a \in stops : a = stop
      /\ confirmed = Null
  BY DEF TypeOK, StopInv, OneStop, ConfirmedIsQuiet
<1>2. UNCHANGED viewVars
  BY DEF StopSettles, StopIsLost, StopIsDecided, viewVars, panelVars
<1>3. ViewInv'
  BY <1>2, ViewKept
<1>4. ASSUME NEW outcome \in {"stopped", "forceable", "refused"}, StopIsDecided(stop, outcome) PROVE IInv'
  <2>1. [stop EXCEPT !.outcome = outcome] \in
          [number : 1 .. MaxStops, session : Sessions, force : BOOLEAN, outcome : Outcomes]
    BY <1>1 DEF Outcomes
  <2>2. TypeOK'
    BY <1>4, <2>1 DEF StopIsDecided, TypeOK, panelVars
  <2>3. StopInv'
    BY <1>1, <1>4 DEF StopIsDecided, StopInv, OneStop, OfferIsOfARefusal, ForceIsConsented, ConfirmedIsQuiet
  <2> QED BY <1>3, <2>2, <2>3
<1>5. CASE StopSettles(stop)
  <2>1. /\ stops' = {} /\ stopping' = FALSE /\ refused \subseteq refused' /\ refused' \in SUBSET Sessions
        /\ stopEnabled' = Enabled(stop.outcome = "stopped", stop.session)
        /\ stopEnabled' \in BOOLEAN
        /\ stopStatus'.force = (IF stop.outcome = "forceable" THEN stop.session ELSE Null)
        /\ stopStatus' \in [state : {"hidden", "stopping", "stopped", "failed"}, force : Sessions \cup {Null}]
        /\ stop.outcome = "forceable" => stop.session \in refused'
        /\ confirmed' = IF stop.outcome = "stopped" /\ stop.session = currentSessionId
                          THEN stop.session ELSE confirmed
        /\ UNCHANGED <<alive, list, renderedSessions, currentSessionId, streamState, activity,
                       currentBlock, viewedEnrichment, answered, panel, blockFrom, asked, forced>>
    BY <1>1, <1>5 DEF StopSettles, Enabled, listVars, panelVars, TypeOK
  <2>2. TypeOK'
    BY <1>1, <2>1 DEF TypeOK
  <2>3. StopInv'
    BY <1>1, <2>1 DEF StopInv, OneStop, OfferIsOfARefusal, ForceIsConsented, ConfirmedIsQuiet, Enabled
  <2> QED BY <1>3, <2>2, <2>3
<1>6. CASE StopIsLost(stop)
  <2>1. TypeOK'
    BY <1>6 DEF StopIsLost, Enabled, TypeOK, listVars, panelVars
  <2>2. StopInv'
    BY <1>1, <1>6 DEF StopIsLost, StopInv, OneStop, OfferIsOfARefusal, ForceIsConsented, ConfirmedIsQuiet
  <2> QED BY <1>3, <2>1, <2>2
<1> QED BY <1>4, <1>5, <1>6

\* Every step preserves the invariant.
LEMMA InvStep == IInv /\ [Next]_vars => IInv'
<1> SUFFICES ASSUME IInv, [Next]_vars PROVE IInv'
  OBVIOUS
<1>1. CASE UNCHANGED vars
  <2>1. UNCHANGED <<viewVars, controlVars>>
    BY <1>1 DEF vars, viewVars, controlVars, panelVars, stopVars
  <2>2. TypeOK'
    BY <1>1 DEF vars, listVars, panelVars, stopVars, IInv, TypeOK
  <2> QED BY <2>1, <2>2, ViewKept, ControlKept DEF IInv
<1>2. CASE Next
  BY <1>2, PanelStep, ListStep, TapStep, StopStep DEF Next
<1> QED BY <1>1, <1>2

\* The strengthened invariant, on which the rest is read off.
THEOREM Invariant == Spec => []IInv
<1>1. Init => IInv
  BY InvInit
<1>2. IInv /\ [Next]_vars => IInv'
  BY InvStep
<1> QED BY <1>1, <1>2, PTL DEF Spec

\* Type correctness of the page.
THEOREM TypeCorrect == Spec => []TypeOK
<1>1. IInv => TypeOK
  BY DEF IInv
<1> QED BY <1>1, Invariant, PTL

\* The question on the panel is of the session on view and of its own block.
THEOREM ShownIsOfTheViewAlways == Spec => []ShownIsOfTheView
<1>1. IInv => ShownIsOfTheView
  BY DEF IInv, ViewInv
<1> QED BY <1>1, Invariant, PTL

\* A stop is forced only of a session whose own stop was refused.
THEOREM ForceIsConsentedAlways == Spec => []ForceIsConsented
<1>1. IInv => ForceIsConsented
  BY DEF IInv, StopInv
<1> QED BY <1>1, Invariant, PTL

\* A confirmed stop is not followed by a second one of the session on view.
THEOREM StoppedStaysStoppedAlways == Spec => []StoppedStaysStopped
<1>1. IInv => StoppedStaysStopped
  BY DEF IInv, StopInv, ConfirmedIsQuiet, StoppedStaysStopped
<1> QED BY <1>1, Invariant, PTL
===============================================================================
