----------------------------- MODULE AnswerGate -----------------------------
(***************************************************************************)
(* The question an agent asks, served to the operator's phone and answered *)
(* from it: StatusFold with the enrichment buffer the same handlers keep,  *)
(* the launch hook's handoff file, and the answer gate of the UI command.  *)
(*                                                                         *)
(* A block is a requires_action report.  The enrichment of a block reaches *)
(* the buffer as the worker's input_request frame, or from the file the    *)
(* hook left, stamped with the report that moved the session into          *)
(* awaiting.  The stamp is that report's sequence number; the generation   *)
(* of it is history here, and no code sees it.  All questions offer the    *)
(* same labels, so the gate's check on labels never decides: an answer is  *)
(* matched by its sequence number.                                         *)
(***************************************************************************)
EXTENDS StatusFold

CONSTANTS
  Wirings          \* the wirings a session may have: the launch's hook, the worker's frames, or both

ASSUME GateAssumption == Wirings \subseteq SUBSET {"hook", "frame"}

VARIABLES
  wired,       \* how this session's questions reach the server
  asking,      \* input_request frames under way, by the block they ask about
  handoff,     \* the block whose questions the hook's file holds
  buffer,      \* requiresActionEnrichments: the session's buffered enrichment
  phone,       \* the enrichment the operator's phone has rendered
  accepted,    \* answers relayed: what was seen, what the buffer held, what stood
  asked,       \* how often each question was put to the server, over all its ways
  answered     \* how many answers each question was given

gateVars == <<wired, asking, handoff, buffer, phone, accepted, asked, answered>>
allVars == <<vars, gateVars>>

HookInstalled == "hook" \in wired   \* the launch wired the AskUserQuestion hook
InBand == "frame" \in wired         \* the worker's build emits input_request frames

Ways == (IF HookInstalled THEN 1 ELSE 0) + (IF InBand THEN 1 ELSE 0)

NoBlock == <<0, 0>>
Enrichment(stamp, block) == [stamp |-> stamp, block |-> block]
NoEnrichment == Enrichment(NoBlock, NoBlock)
Number(enrichment) == enrichment.stamp[2]

\* The report the session stands on, as far as the server knows.
Outstanding == <<epoch, highest>>

\* Bound on the count of the answers to one question.
MaxAnswers == MaxResends + 3

GateInit ==
  /\ Init
  /\ wired \in Wirings
  /\ asking = {}
  /\ handoff = NoBlock
  /\ buffer = NoEnrichment
  /\ phone = NoEnrichment
  /\ accepted = {}
  /\ asked = [b \in Blocks |-> 0]
  /\ answered = [b \in Blocks |-> 0]

-----------------------------------------------------------------------------
\* The worker blocks: on a permission prompt, or on a question, which the hook
\* has captured by then and the worker may report in band.  Between two blocks
\* of a generation it says that it moved on.
Block(question) ==
  LET b == <<epoch, last[epoch] + 1>> IN
  /\ last[epoch] > 0 => report[epoch][last[epoch]] # "requires_action"
  /\ MakeReport("requires_action")
  /\ handoff' = IF question /\ HookInstalled THEN b ELSE handoff
  /\ asking' = IF question /\ InBand THEN asking \cup {b} ELSE asking
  /\ asked' = IF question THEN [asked EXCEPT ![b] = Ways] ELSE asked
  /\ UNCHANGED <<wired, buffer, phone, accepted, answered>>

MoveOn(k) ==
  /\ k # "requires_action"
  /\ MakeReport(k)
  /\ UNCHANGED gateVars

\* A re-register leaves the enrichment and the hook's file where they are.
Reregister(stamping) ==
  /\ HandleWorkerRegister(stamping)
  /\ UNCHANGED gateVars

ResendStatus(f) == Resend(f) /\ UNCHANGED gateVars

\* The worker sends a question's frame again.
ResendQuestion(b) ==
  /\ InBand
  /\ resends < MaxResends
  /\ b[1] = epoch /\ b[2] <= last[epoch]
  /\ report[b[1]][b[2]] = "requires_action"
  /\ b \notin asking
  /\ asking' = asking \cup {b}
  /\ asked[b] > 0
  /\ asked' = [asked EXCEPT ![b] = @ + 1]
  /\ resends' = resends + 1
  /\ UNCHANGED <<epoch, stamps, last, report, wire, activityVars, highest, idleTimer, gap, uiVars,
                 wired, handoff, buffer, phone, accepted, answered>>

-----------------------------------------------------------------------------
\* reconcileHookHandoff: only on the edge into awaiting, and only if stamped.
TakesHandoff(f) ==
  /\ kind # "requires_action" /\ kind' = "requires_action"
  /\ Seq(f) # NoSeq
  /\ HookInstalled /\ handoff # NoBlock

\* A status frame, with what the same handler does to the enrichment after it.
ReceiveStatus(f) ==
  /\ f \in wire
  /\ \/ (RefuseSuperseded(f) \/ RefuseStale(f)) /\ UNCHANGED <<buffer, handoff>>
     \/ /\ ApplyFrame(f)
        /\ buffer' = IF kind' # "requires_action" THEN NoEnrichment
                     ELSE IF TakesHandoff(f) THEN Enrichment(<<epoch, Seq(f)>>, handoff) ELSE buffer
        /\ handoff' = IF TakesHandoff(f) THEN NoBlock ELSE handoff
  /\ UNCHANGED <<wired, asking, phone, accepted, asked, answered>>

\* bufferInputRequestEnrichment: past the epoch gate, whatever the session is
\* doing; a frame its worker did not stamp is not an enrichment.
ReceiveQuestion(b) ==
  /\ b \in asking
  /\ asking' = asking \ {b}
  /\ buffer' = IF b[1] = epoch /\ epoch \in stamps THEN Enrichment(b, b) ELSE buffer
  /\ UNCHANGED <<vars, wired, handoff, phone, accepted, asked, answered>>

-----------------------------------------------------------------------------
\* The phone polls the session list: an enrichment is served while awaiting.
ServeEnrichment ==
  /\ phone' = IF kind = "requires_action" THEN buffer ELSE NoEnrichment
  /\ UNCHANGED <<vars, wired, asking, handoff, buffer, accepted, asked, answered>>

\* Mutant: the sequence number the phone echoes is not compared.
AnswerAny ==
  /\ phone # NoEnrichment
  /\ buffer # NoEnrichment
  /\ PushClientEvent
  /\ buffer' = NoEnrichment
  /\ accepted' = accepted \cup {[seen |-> phone, given |-> buffer, standing |-> Outstanding]}
  /\ answered' = [answered EXCEPT ![buffer.block] = IF @ < MaxAnswers THEN @ + 1 ELSE @]
  /\ UNCHANGED <<wired, asking, handoff, phone, asked>>

\* Mutant: an answered decision stays in the buffer.
AnswerUnspent ==
  /\ phone # NoEnrichment
  /\ buffer # NoEnrichment
  /\ Number(phone) = Number(buffer)
  /\ PushClientEvent
  /\ accepted' = accepted \cup {[seen |-> phone, given |-> buffer, standing |-> Outstanding]}
  /\ answered' = [answered EXCEPT ![buffer.block] = IF @ < MaxAnswers THEN @ + 1 ELSE @]
  /\ UNCHANGED <<wired, asking, handoff, buffer, phone, asked>>

\* An answer tapped on the phone: refused unless it names the buffered decision,
\* else relayed to the worker, and the decision is spent.  (With no stream to
\* relay on, it is refused and nothing changes.)
Answer ==
  /\ phone # NoEnrichment
  /\ buffer # NoEnrichment
  /\ Number(phone) = Number(buffer)
  /\ PushClientEvent
  /\ buffer' = NoEnrichment
  /\ accepted' = accepted \cup {[seen |-> phone, given |-> buffer, standing |-> Outstanding]}
  /\ answered' = [answered EXCEPT ![buffer.block] = IF @ < MaxAnswers THEN @ + 1 ELSE @]
  /\ UNCHANGED <<wired, asking, handoff, phone, asked>>

\* Time, the heartbeat, the worker's stream and a turn other than an answer touch no
\* enrichment.
Elapse ==
  /\ Tick \/ HandleWorkerHeartbeat \/ HandleWorkerEventsStream \/ FireIdleEvent \/ PushClientEvent
  /\ UNCHANGED gateVars

GateNext ==
  \/ \E question \in BOOLEAN : Block(question)
  \/ \E k \in Kinds : MoveOn(k)
  \/ \E stamping \in BOOLEAN : Reregister(stamping)
  \/ \E f \in Frames : ResendStatus(f) \/ ReceiveStatus(f)
  \/ \E b \in Blocks : ResendQuestion(b) \/ ReceiveQuestion(b)
  \/ ServeEnrichment \/ Answer \/ Elapse

GateSpec == GateInit /\ [][GateNext]_allVars

-----------------------------------------------------------------------------
Known == Blocks \cup {NoBlock}
Enrichments == [stamp : Known, block : Known]

\* The types of what the gate adds; TypeOK has those of the fold.
GateTypeOK ==
  /\ wired \in Wirings
  /\ asking \in SUBSET Blocks
  /\ handoff \in Known
  /\ buffer \in Enrichments /\ phone \in Enrichments
  /\ accepted \in SUBSET [seen : Enrichments, given : Enrichments, standing : Epochs \X (0 .. MaxReports)]
  /\ asked \in [Blocks -> 0 .. MaxResends + 2]
  /\ answered \in [Blocks -> 0 .. MaxAnswers]

\* Within a generation an accepted answer answers the question the operator was
\* looking at: the sequence number the phone echoes names one question only,
\* whichever block's capture the hook's file held when it was stamped.  (A
\* re-register starts the numbers again; see the README for an answer that
\* crosses one, and for a session with both the hook and in-band frames.)
AnswersWhatWasSeen ==
  \A a \in accepted : a.seen.stamp[1] = a.given.stamp[1] => a.seen.block = a.given.block

\* A question is answered once each time it was put to the server: a second tap,
\* or a replay of the first, finds the decision spent, however the worker's own
\* transition is delayed, and no capture of the hook is taken twice.
AnsweredOnce == \A b \in Blocks : answered[b] <= asked[b]

\* Over all its ways to the server a question is answered once.  Not so of one
\* whose frame was sent again.
AnsweredAtMostOnce == \A b \in Blocks : answered[b] <= 1

\* The anti-phantom guard as its comments state it: an answer is for exactly the
\* block the session stands on, never for one the session has moved on from.
AnswersStandingBlock == \A a \in accepted : a.given.block = a.standing

\* What the hook's file held is tied to the block that the hook captured.
HandoffDecoratesItsBlock == buffer.block = buffer.stamp
=============================================================================
