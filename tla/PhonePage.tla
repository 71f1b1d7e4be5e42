------------------------------- MODULE PhonePage -------------------------------
(***************************************************************************)
(* What the page shows of the session it views, and what the operator can   *)
(* do about it: the current-turn indicator and the stream it lives on, the  *)
(* panel that puts the agent's question, and the stop control with its      *)
(* "Stop anyway".                                                           *)
(*                                                                          *)
(* The page is one thread: an action is a stretch of it between two awaits. *)
(* Of the sessions there is whether they are alive.  What a stream carries  *)
(* and what a list says of a session's question are arbitrary: any block    *)
(* number may come at any time, the same number from two sessions included. *)
(***************************************************************************)
EXTENDS Integers, FiniteSets

CONSTANTS
  Sessions,   \* the sessions of the hub
  Null,       \* no session, no list
  MaxSeq,     \* bound on the block numbers of a worker
  MaxStops    \* bound on the stops the operator asks for

ASSUME PageAssumption == Null \notin Sessions /\ MaxSeq \in Nat /\ MaxStops \in Nat

VARIABLES
  \* the server
  alive,                  \* the sessions that have not ended
  list,                   \* the list a poll has been answered with, until it is applied
  \* the view
  renderedSessions,       \* the rows, each with the number of its question, 0 for none
  currentSessionId,
  streamState,            \* idle: no source; connecting, open or reconnecting
  activity,               \* the current-turn indicator is shown
  \* the question panel
  currentBlock,           \* the number of the block the session is in, 0 for unknown
  viewedEnrichment,       \* the question the list has of the session
  answered,               \* the number answered last, 0 for none
  panel,                  \* the question painted
  \* the stop control
  stops,                  \* the stops under way, each with its outcome once decided
  stopping,
  stopEnabled,
  stopStatus,             \* the line under it: its state, and the session of a refusal
                          \* that offers "Stop anyway"
  asked,                  \* the number of stops asked for
  \* history
  blockFrom,              \* the session whose frame named currentBlock
  refused,                \* sessions whose stop was refused in a way force overrides
  forced,                 \* sessions named by a forced stop
  confirmed               \* the session on view, once its stop is confirmed

listVars == <<alive, list>>
panelVars == <<currentBlock, viewedEnrichment, answered, panel, blockFrom>>
stopVars == <<stops, stopping, stopEnabled, stopStatus, asked, refused, forced>>
vars == <<listVars, renderedSessions, currentSessionId, streamState, activity, panelVars, stopVars, confirmed>>

None == [session |-> Null, seq |-> 0]
Hidden == [state |-> "hidden", force |-> Null]

Init ==
  /\ alive = Sessions
  /\ list = Null
  /\ renderedSessions = [s \in {} |-> 0]
  /\ currentSessionId = Null
  /\ streamState = "idle"
  /\ activity = FALSE
  /\ currentBlock = 0
  /\ viewedEnrichment = None
  /\ answered = 0
  /\ panel = None
  /\ stops = {}
  /\ stopping = FALSE
  /\ stopEnabled = FALSE
  /\ stopStatus = Hidden
  /\ asked = 0
  /\ blockFrom = Null
  /\ refused = {}
  /\ forced = {}
  /\ confirmed = Null

-----------------------------------------------------------------------------
\* The panel.

\* enrichmentMatchesBlock, and not answered already.
Shows(enrichment, block, done) ==
  enrichment # None /\ block # 0 /\ enrichment.seq = block /\ enrichment.seq # done

\* renderEnrichment, over the values it reads: a question with the number of the
\* painted one is not painted again.
Painted(enrichment, block, done) ==
  IF ~Shows(enrichment, block, done) THEN None
  ELSE IF panel.seq = enrichment.seq THEN panel ELSE enrichment

RenderEnrichment == panel' = Painted(viewedEnrichment', currentBlock', answered')

\* decodeEnrichment of the row of a session, in a list.
EnrichmentOf(s, rows) ==
  IF s \in DOMAIN rows /\ rows[s] # 0 THEN [session |-> s, seq |-> rows[s]] ELSE None

\* The panel of a session that is not, or no longer, viewed is dropped.
DropPanel ==
  /\ currentBlock' = 0
  /\ blockFrom' = Null
  /\ viewedEnrichment' = None
  /\ UNCHANGED answered
  /\ RenderEnrichment

\* submitAnswer: a complete answer hides the panel and is steered to the session viewed.
SubmitAnswer ==
  /\ panel # None
  /\ answered' = panel.seq
  /\ UNCHANGED <<currentBlock, viewedEnrichment, blockFrom>>
  /\ RenderEnrichment
  /\ UNCHANGED <<listVars, renderedSessions, currentSessionId, streamState, activity, stopVars, confirmed>>

-----------------------------------------------------------------------------
\* The stream of the viewed session.

StreamOpens ==
  /\ streamState \in {"connecting", "reconnecting"}
  /\ streamState' = "open"
  /\ UNCHANGED <<listVars, renderedSessions, currentSessionId, activity, panelVars, stopVars, confirmed>>

StreamErrors ==
  /\ streamState \in {"connecting", "open"}
  /\ streamState' = "reconnecting"
  /\ UNCHANGED <<listVars, renderedSessions, currentSessionId, activity, panelVars, stopVars, confirmed>>

\* A worker_status frame that blocks, with its number or none, and one that does not.
BlockFrame(seq) ==
  /\ streamState = "open"
  /\ activity' = TRUE
  /\ currentBlock' = seq
  /\ blockFrom' = currentSessionId
  /\ UNCHANGED <<viewedEnrichment, answered>>
  /\ RenderEnrichment
  /\ UNCHANGED <<listVars, renderedSessions, currentSessionId, streamState, stopVars, confirmed>>

TurnFrame ==
  /\ streamState = "open"
  /\ activity' = TRUE
  /\ currentBlock' = 0
  /\ blockFrom' = currentSessionId
  /\ answered' = 0
  /\ UNCHANGED viewedEnrichment
  /\ RenderEnrichment
  /\ UNCHANGED <<listVars, renderedSessions, currentSessionId, streamState, stopVars, confirmed>>

\* renderSessionClosed: the terminal frame, the last of the stream.
SessionClosedFrame ==
  /\ streamState = "open"
  /\ currentSessionId \notin alive
  /\ streamState' = "idle"
  /\ activity' = FALSE
  /\ DropPanel
  /\ UNCHANGED <<listVars, renderedSessions, currentSessionId, stopVars, confirmed>>

-----------------------------------------------------------------------------
\* The selection.

\* Mutant: the block number of the last session stays.
SelectKeepingBlock(s, rows) ==
  /\ currentSessionId' = s
  /\ streamState' = "connecting"
  /\ activity' = FALSE
  /\ viewedEnrichment' = EnrichmentOf(s, rows)
  /\ UNCHANGED <<currentBlock, answered, blockFrom>>
  /\ RenderEnrichment
  /\ stopStatus' = Hidden
  /\ stopEnabled' = ~stopping
  /\ confirmed' = Null

\* selectSession: the view starts clean.  The question is seeded from the last list.
Select(s, rows) ==
  /\ currentSessionId' = s
  /\ streamState' = "connecting"
  /\ activity' = FALSE
  /\ currentBlock' = 0
  /\ blockFrom' = Null
  /\ answered' = 0
  /\ viewedEnrichment' = EnrichmentOf(s, rows)
  /\ RenderEnrichment
  /\ stopStatus' = Hidden
  /\ stopEnabled' = ~stopping
  /\ confirmed' = Null

\* A row is tapped, or a push names the session.
SelectSession(s) ==
  /\ s # currentSessionId
  /\ Select(s, renderedSessions)
  /\ UNCHANGED <<listVars, renderedSessions, stops, stopping, asked, refused, forced>>

\* The clear branch of loadSessions: the viewed session is gone.  Only a refusal is
\* wiped from the stop line; the word of a stop that succeeded stays.
Clear ==
  /\ currentSessionId' = Null
  /\ streamState' = "idle"
  /\ activity' = FALSE
  /\ DropPanel
  /\ stopEnabled' = FALSE
  /\ stopStatus' = IF stopStatus.state = "failed" THEN Hidden ELSE stopStatus
  /\ confirmed' = Null

-----------------------------------------------------------------------------
\* The list.

EndSession(s) ==
  /\ s \in alive
  /\ alive' = alive \ {s}
  /\ UNCHANGED <<list, renderedSessions, currentSessionId, streamState, activity, panelVars, stopVars, confirmed>>

PollIsServed ==
  /\ list = Null
  /\ list' = alive
  /\ UNCHANGED <<alive, renderedSessions, currentSessionId, streamState, activity, panelVars, stopVars, confirmed>>

\* loadSessions once its list is in, with what it says of each session's question.
PollIsApplied ==
  /\ list # Null
  /\ list' = Null
  /\ \E rows \in [list -> 0 .. MaxSeq] :
       /\ renderedSessions' = rows
       /\ CASE currentSessionId = Null /\ list # {} ->
                 /\ \E s \in list : Select(s, rows)
                 /\ UNCHANGED <<stops, stopping, asked, refused, forced>>
            [] currentSessionId # Null /\ currentSessionId \notin list ->
                 Clear /\ UNCHANGED <<stops, stopping, asked, refused, forced>>
            [] OTHER ->
                 /\ viewedEnrichment' = EnrichmentOf(currentSessionId, rows)
                 /\ UNCHANGED <<currentBlock, answered, blockFrom>>
                 /\ RenderEnrichment
                 /\ UNCHANGED <<currentSessionId, streamState, activity, stopVars, confirmed>>
  /\ UNCHANGED alive

-----------------------------------------------------------------------------
\* Stopping.

\* stop: a stop under way is not doubled.
Stop(s, force) ==
  /\ ~stopping
  /\ asked < MaxStops
  /\ asked' = asked + 1
  /\ stopping' = TRUE
  /\ stopEnabled' = FALSE
  /\ stopStatus' = [state |-> "stopping", force |-> Null]
  /\ stops' = stops \cup {[number |-> asked', session |-> s, force |-> force, outcome |-> "asked"]}
  /\ forced' = IF force THEN forced \cup {s} ELSE forced
  /\ UNCHANGED <<listVars, renderedSessions, currentSessionId, streamState, activity, panelVars, refused, confirmed>>

TapStop == stopEnabled /\ currentSessionId # Null /\ Stop(currentSessionId, FALSE)

\* Mutant: the escalation stops the session on view.
TapForceCurrent == stopStatus.force # Null /\ currentSessionId # Null /\ Stop(currentSessionId, TRUE)

\* The escalation re-sends the stop of the session that was refused.
TapForce == stopStatus.force # Null /\ Stop(stopStatus.force, TRUE)

\* The server ends the session, or refuses in a way force overrides or not.
StopIsDecided(stop, outcome) ==
  /\ stop \in stops /\ stop.outcome = "asked"
  /\ outcome # "refused" => stop.session \in alive
  /\ outcome = "forceable" => ~stop.force
  /\ alive' = IF outcome = "stopped" THEN alive \ {stop.session} ELSE alive
  /\ stops' = (stops \ {stop}) \cup {[stop EXCEPT !.outcome = outcome]}
  /\ UNCHANGED <<list, renderedSessions, currentSessionId, streamState, activity, panelVars, stopping, stopEnabled, stopStatus, asked, refused, forced, confirmed>>

\* Mutant: the control always comes back with the answer.
EnabledAgain(stopped, session) == currentSessionId # Null

\* The finally of stop: after a confirmed stop of the session still on view the
\* control stays disabled (keepStopControlDisabled), else it follows the selection.
Enabled(stopped, session) == currentSessionId # Null /\ ~(stopped /\ currentSessionId = session)

\* submitStop's answer is in: the line says what became of the stop.
StopSettles(stop) ==
  /\ stop \in stops /\ stop.outcome # "asked"
  /\ stops' = stops \ {stop}
  /\ stopping' = FALSE
  /\ stopEnabled' = Enabled(stop.outcome = "stopped", stop.session)
  /\ stopStatus' = CASE stop.outcome = "stopped" -> [state |-> "stopped", force |-> Null]
                     [] stop.outcome = "forceable" -> [state |-> "failed", force |-> stop.session]
                     [] OTHER -> [state |-> "failed", force |-> Null]
  /\ refused' = IF stop.outcome = "forceable" THEN refused \cup {stop.session} ELSE refused
  /\ confirmed' = IF stop.outcome = "stopped" /\ stop.session = currentSessionId
                    THEN stop.session ELSE confirmed
  /\ UNCHANGED <<listVars, renderedSessions, currentSessionId, streamState, activity, panelVars, asked, forced>>

\* No answer comes: nothing can be claimed of the stop, decided or not.
StopIsLost(stop) ==
  /\ stop \in stops
  /\ stops' = stops \ {stop}
  /\ stopping' = FALSE
  /\ stopEnabled' = Enabled(FALSE, stop.session)
  /\ stopStatus' = [state |-> "failed", force |-> Null]
  /\ UNCHANGED <<listVars, renderedSessions, currentSessionId, streamState, activity, panelVars, asked, refused, forced, confirmed>>

Next ==
  \/ SubmitAnswer \/ StreamOpens \/ StreamErrors \/ TurnFrame \/ SessionClosedFrame
  \/ PollIsServed \/ PollIsApplied \/ TapStop \/ TapForce
  \/ \E seq \in 0 .. MaxSeq : BlockFrame(seq)
  \/ \E s \in Sessions : SelectSession(s) \/ EndSession(s)
  \/ \E stop \in stops : StopSettles(stop) \/ StopIsLost(stop)
  \/ \E stop \in stops, outcome \in {"stopped", "forceable", "refused"} : StopIsDecided(stop, outcome)

Spec == Init /\ [][Next]_vars

-----------------------------------------------------------------------------
Questions == [session : Sessions \cup {Null}, seq : 0 .. MaxSeq]
Outcomes == {"asked", "stopped", "forceable", "refused"}

TypeOK ==
  /\ alive \in SUBSET Sessions
  /\ list = Null \/ list \in SUBSET Sessions
  /\ DOMAIN renderedSessions \in SUBSET Sessions
  /\ \A s \in DOMAIN renderedSessions : renderedSessions[s] \in 0 .. MaxSeq
  /\ currentSessionId \in Sessions \cup {Null}
  /\ streamState \in {"idle", "connecting", "open", "reconnecting"}
  /\ activity \in BOOLEAN
  /\ currentBlock \in 0 .. MaxSeq /\ answered \in 0 .. MaxSeq
  /\ viewedEnrichment \in Questions /\ panel \in Questions
  /\ stops \in SUBSET [number : 1 .. MaxStops, session : Sessions, force : BOOLEAN, outcome : Outcomes]
  /\ stopping \in BOOLEAN /\ stopEnabled \in BOOLEAN
  /\ stopStatus \in [state : {"hidden", "stopping", "stopped", "failed"}, force : Sessions \cup {Null}]
  /\ asked \in 0 .. MaxStops
  /\ blockFrom \in Sessions \cup {Null}
  /\ refused \in SUBSET Sessions /\ forced \in SUBSET Sessions
  /\ confirmed \in Sessions \cup {Null}

\* What the page claims is of the session on view.  The question on the panel is of
\* the block that session was last seen to be in, so that an answer tapped there never
\* reaches another session; the indicator of what it does now is shown only while a
\* stream of the session is held, open or reconnecting.
ShownIsOfTheView ==
  /\ panel # None => /\ panel.session = currentSessionId /\ blockFrom = currentSessionId
                     /\ panel.seq = currentBlock
  /\ activity => currentSessionId # Null /\ streamState # "idle"

\* A stop is forced only of a session whose own stop was refused for want of the
\* operator's consent, whatever was selected since.
ForceIsConsented == forced \subseteq refused

\* A stop that succeeded is not followed by the failure of a second one: while the
\* session stays on view, none is under way and none can be tapped.
StoppedStaysStopped ==
  confirmed # Null => ~stopEnabled /\ stopStatus.force = Null /\ \A stop \in stops : stop.session # confirmed

\* "A refusal about a session we are no longer looking at, still offering to
\* force-kill it, is the worst thing this control could leave on screen."
ForceIsOfTheView == stopStatus.force # Null => stopStatus.force = currentSessionId
=============================================================================
