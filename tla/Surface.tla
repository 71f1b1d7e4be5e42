------------------------------- MODULE Surface -------------------------------
(***************************************************************************)
(* One launched terminal: the launch that falls back from tmux to an owned  *)
(* pty, the readings and the close() of each backend, the stops and releases *)
(* that use them at the same time, and the exit of the daemon.              *)
(*                                                                          *)
(* The backends are awaited wherever the code awaits them: a reading and a  *)
(* kill by tmux are commands that answer later, a close of a pty waits for  *)
(* the child to be reaped.  tmux and the operator are external: the session *)
(* may be created or destroyed, attached to, the window moved or closed, the *)
(* server out of reach or restarted, after which another window may bear    *)
(* the id of ours.  A window that closes hangs up on its worker; whether    *)
(* the worker heeds that is the worker's own affair on either backend.      *)
(***************************************************************************)
EXTENDS FiniteSets

CONSTANTS
  Requests,    \* stops and evictions, each one at a time
  Shutdown     \* the release the shutdown starts

ASSUME SurfaceAssumption == Requests # {} /\ Shutdown \notin Requests

Closers == Requests \cup {Shutdown}

VARIABLES
  \* the launch
  host,        \* whether tmux works, and the worker binary is found
  launch,      \* the command of the chain that is awaited, up or failed
  code,        \* the code a failed launch is answered with, or none
  excused,     \* history: tmux has refused this launch for a reason of its own
  \* the terminal
  backend,     \* tmux, pty or none
  child,       \* the worker in it: none, alive or dead
  heeds,       \* what ends the worker: the polite signal, only the forced one, neither
  session,     \* the ccctl tmux session exists
  place,       \* the session the window is in
  attached,    \* a client is attached to the ccctl session
  reachable,   \* tmux answers
  window,      \* the window that bears our id: ours, another, none
  \* the handle
  held,        \* the server has the handle
  closed,      \* the latch of close()
  kill,        \* the one kill-window: none, sent, settled
  signalled,   \* the worker has been hung up on
  escalation,  \* the timer of the forced signal: off, armed, fired
  exited,      \* onExit has fired
  \* whoever uses the handle
  kind,        \* asked, forced or release
  phase,       \* what it awaits, or its answer
  daemon       \* up, closing, clean or forced

tmuxVars == <<session, place, attached, reachable, window>>
handleVars == <<held, closed, kill, signalled, escalation, exited>>
launchVars == <<host, launch, code, excused, backend, heeds>>
vars == <<launchVars, child, tmuxVars, handleVars, kind, phase, daemon>>

Init ==
  /\ host \in [tmux : BOOLEAN, worker : BOOLEAN]
  /\ heeds \in {"polite", "forced", "neither"}
  /\ launch = "probe" /\ code = "none" /\ excused = FALSE
  /\ backend = "none" /\ child = "none"
  /\ session \in BOOLEAN
  /\ place = "ccctl" /\ attached = FALSE /\ reachable = TRUE /\ window = "none"
  /\ held = FALSE /\ closed = FALSE /\ kill = "none"
  /\ signalled = FALSE /\ escalation = "off" /\ exited = FALSE
  /\ kind = [r \in Closers |-> "release"]
  /\ phase = [r \in Closers |-> "idle"]
  /\ daemon = "up"

Alive == daemon \in {"up", "closing"}
Launching == launch \notin {"up", "failed"}

-----------------------------------------------------------------------------
\* The launch: the tmux backend, then the owned pty.

LaunchFrame == <<host, heeds, place, attached, reachable, window, closed, kill, signalled, escalation, exited, kind, phase, daemon>>

\* A caller's fault among the failures wins over the host's.
FailsWith(codes) ==
  /\ launch' = "failed"
  /\ code' = IF "worker-not-found" \in codes THEN "worker-not-found" ELSE "backend-unavailable"
  /\ UNCHANGED <<backend, child, held>>

ComesUp(with) ==
  /\ launch' = "up" /\ backend' = with /\ child' = "alive" /\ held' = TRUE
  /\ UNCHANGED code

Awaits(command) == launch' = command /\ UNCHANGED <<code, backend, child, held>>

\* The worker binary is probed before tmux runs; has-session says not up of a tmux
\* that does not work.
TmuxProbes ==
  /\ launch = "probe"
  /\ Awaits(IF host.worker THEN "has-session" ELSE "pty")
  /\ excused' = ~host.worker
  /\ UNCHANGED <<LaunchFrame, session>>

TmuxHasSession ==
  /\ launch = "has-session"
  /\ Awaits(IF host.tmux /\ session THEN "new-window" ELSE "new-session")
  /\ UNCHANGED <<LaunchFrame, session, excused>>

\* new-session fails when a concurrent launch has created the session meanwhile.
TmuxNewSession ==
  /\ launch = "new-session"
  /\ session' = (session \/ host.tmux)
  /\ Awaits(IF host.tmux /\ ~session THEN "new-window" ELSE "has-session-again")
  /\ UNCHANGED <<LaunchFrame, excused>>

TmuxHasSessionAgain ==
  /\ launch = "has-session-again"
  /\ Awaits(IF host.tmux /\ session THEN "new-window" ELSE "pty")
  /\ excused' = (excused \/ ~(host.tmux /\ session))
  /\ UNCHANGED <<LaunchFrame, session>>

\* new-window names no session: tmux opens it in the one it takes for current, the
\* ccctl session or the operator's own, and fails if there is none.
TmuxNewWindow ==
  /\ launch = "new-window"
  /\ \E opens \in {"ccctl", "operator", "nowhere"} :
       /\ opens = "ccctl" => session
       /\ opens = "nowhere" => ~session
       /\ IF opens = "nowhere" THEN Awaits("pty") /\ excused' = TRUE /\ UNCHANGED <<place, window>>
          ELSE ComesUp("tmux") /\ place' = opens /\ window' = "ours" /\ UNCHANGED excused
  /\ UNCHANGED <<host, heeds, session, attached, reachable, closed, kill, signalled, escalation, exited, kind, phase, daemon>>

\* node-pty does not load, or refuses, or brings up a child: of a missing binary too,
\* where it is the child that finds out and exits.  tmux has named a missing binary.
PtyLaunches ==
  /\ launch = "pty"
  /\ \/ FailsWith({"backend-unavailable", IF host.worker THEN "spawn-failed" ELSE "worker-not-found"})
     \/ ComesUp("pty")
  /\ UNCHANGED <<LaunchFrame, session, excused>>

-----------------------------------------------------------------------------
\* liveness and the rules of release and stop.

\* An owned pty has two readings.
PtyLiveness == IF exited THEN "exited" ELSE "alive-server-owned"

\* readWindowLiveness, of whatever window has our id.
WindowLiveness ==
  IF window = "none" THEN "exited"
  ELSE IF place = "ccctl" /\ ~attached THEN "alive-server-owned"
  ELSE "taken-over"

TmuxLiveness == IF reachable THEN WindowLiveness ELSE "host-unreachable"

Liveness == IF backend = "pty" THEN PtyLiveness ELSE TmuxLiveness

TearsDown(k) ==
  IF k = "forced" THEN {"alive-server-owned", "taken-over", "surface-indeterminate"}
                  ELSE {"alive-server-owned"}

Begin(r, k) ==
  /\ daemon = "up" /\ held
  /\ r \in Requests
  /\ phase[r] \notin {"probing", "closing", "confirming"}
  /\ kind' = [kind EXCEPT ![r] = k]
  /\ phase' = [phase EXCEPT ![r] = "probing"]
  /\ UNCHANGED <<launchVars, child, tmuxVars, handleVars, daemon>>

\* What follows a close that resolves: a release believes it, a stop looks again.
AfterClose(r) == IF kind[r] = "release" THEN "released" ELSE "confirming"

\* close(): whoever comes second returns at once; tmux is sent the kill, the child
\* of a pty is signalled politely and given its time.
CloseStarts(r) ==
  /\ closed' = TRUE
  /\ kill' = IF backend = "tmux" /\ ~closed THEN "sent" ELSE kill
  /\ IF backend = "pty" /\ ~closed /\ ~exited
       THEN signalled' = TRUE /\ escalation' = "armed"
       ELSE UNCHANGED <<signalled, escalation>>
  /\ phase' = [phase EXCEPT ![r] =
                IF closed \/ (backend = "pty" /\ exited) THEN AfterClose(r) ELSE "closing"]
  /\ held' = IF phase'[r] = "released" THEN FALSE ELSE held
  /\ UNCHANGED exited

\* The deciding reading, and close() in the same turn.
Probe(r) ==
  /\ Alive /\ phase[r] = "probing"
  /\ \/ Liveness \in TearsDown(kind[r]) /\ CloseStarts(r)
     \/ /\ Liveness = "exited"
        /\ phase' = [phase EXCEPT ![r] = "already-exited"]
        /\ held' = FALSE
        /\ UNCHANGED <<closed, kill, signalled, escalation, exited>>
     \/ /\ Liveness \notin TearsDown(kind[r]) \cup {"exited"}
        /\ phase' = [phase EXCEPT ![r] = "left-running"]
        /\ UNCHANGED handleVars
  /\ UNCHANGED <<launchVars, child, tmuxVars, kind, daemon>>

\* A window that closes hangs up on its worker, which lives on if it does not heed that.
WindowCloses ==
  /\ window' = "none"
  /\ signalled' = (signalled \/ window = "ours")

\* kill-window: it hits whatever window has the id, and its failure is swallowed.
KillWindow ==
  /\ kill = "sent"
  /\ kill' = "settled"
  /\ IF reachable THEN WindowCloses ELSE UNCHANGED <<window, signalled>>
  /\ UNCHANGED <<launchVars, child, session, place, attached, reachable, held, closed, escalation, exited, kind, phase, daemon>>

\* Mutant: the child that declines is waited for.
EscalatesNever == escalation' = "off"

Escalates == escalation' = "fired"

\* The forced signal, after the time of the polite one.
Escalate ==
  /\ Alive /\ escalation = "armed"
  /\ Escalates
  /\ UNCHANGED <<launchVars, child, tmuxVars, held, closed, kill, signalled, exited, kind, phase, daemon>>

\* Mutant: the timer is left to run.
ReapedKeepsTimer == exited' = TRUE /\ UNCHANGED escalation

\* onExit: the waiters go on, and the close clears its timer in the same turn.
Reaped == exited' = TRUE /\ escalation' = IF escalation = "armed" THEN "off" ELSE escalation

OnExit ==
  /\ Alive /\ backend = "pty" /\ child = "dead" /\ ~exited
  /\ Reaped
  /\ UNCHANGED <<launchVars, child, tmuxVars, held, closed, kill, signalled, kind, phase, daemon>>

CloseResolves(r) ==
  /\ Alive /\ phase[r] = "closing"
  /\ IF backend = "pty" THEN exited ELSE kill = "settled"
  /\ phase' = [phase EXCEPT ![r] = AfterClose(r)]
  /\ held' = IF kind[r] = "release" THEN FALSE ELSE held
  /\ UNCHANGED <<launchVars, child, tmuxVars, closed, kill, signalled, escalation, exited, kind, daemon>>

\* closeWithinTimeout: a stop's patience is longer than the time the child is given.
PatienceEnds(r) ==
  /\ Alive /\ phase[r] = "closing"
  /\ kind[r] # "release"
  /\ backend = "pty" => escalation = "fired"
  /\ phase' = [phase EXCEPT ![r] = "failed"]
  /\ UNCHANGED <<launchVars, child, tmuxVars, handleVars, kind, daemon>>

\* Mutant: a host that cannot be asked cannot contradict the close.
ContradictsSightings == {"alive-server-owned", "taken-over"}

\* The readings after a close that resolved which contradict it.
Contradicts == {"alive-server-owned", "taken-over", "host-unreachable"}

Confirm(r) ==
  /\ Alive /\ phase[r] = "confirming"
  /\ phase' = [phase EXCEPT ![r] = IF Liveness \in Contradicts THEN "failed" ELSE "stopped"]
  /\ held' = IF Liveness \in Contradicts THEN held ELSE FALSE
  /\ UNCHANGED <<launchVars, child, tmuxVars, closed, kill, signalled, escalation, exited, kind, daemon>>

-----------------------------------------------------------------------------
\* The daemon.  close() starts the release and does not wait for it; what it waits
\* for are the requests that are being answered.  (LaunchRegistry has the launch that
\* is under way then.)

CloseServer ==
  /\ daemon = "up" /\ ~Launching
  /\ daemon' = "closing"
  /\ phase' = IF held THEN [phase EXCEPT ![Shutdown] = "probing"] ELSE phase
  /\ held' = FALSE
  /\ UNCHANGED <<launchVars, child, tmuxVars, closed, kill, signalled, escalation, exited, kind>>

\* A pty hangs up on its child when the daemon is gone.
Exits(how) ==
  /\ daemon' = how
  /\ signalled' = (signalled \/ (backend = "pty" /\ child = "alive"))
  /\ UNCHANGED <<launchVars, child, tmuxVars, held, closed, kill, escalation, exited, kind, phase>>

Answering(r) == kind[r] # "release" /\ phase[r] \in {"probing", "closing", "confirming"}

ExitsClean == daemon = "closing" /\ ~(\E r \in Requests : Answering(r)) /\ Exits("clean")

SecondSignal == daemon = "closing" /\ Exits("forced")

-----------------------------------------------------------------------------
\* The operator, tmux and the worker.

SessionComesOrGoes ==
  /\ Launching /\ host.tmux
  /\ session' = ~session
  /\ UNCHANGED <<launchVars, child, place, attached, reachable, window, handleVars, kind, phase, daemon>>

OperatorAttachesOrDetaches ==
  /\ backend = "tmux"
  /\ attached' = ~attached
  /\ UNCHANGED <<launchVars, child, session, place, reachable, window, handleVars, kind, phase, daemon>>

OperatorMovesWindow ==
  /\ window = "ours"
  /\ place' = IF place = "ccctl" THEN "operator" ELSE "ccctl"
  /\ UNCHANGED <<launchVars, child, session, attached, reachable, window, handleVars, kind, phase, daemon>>

TmuxReachableOrNot ==
  /\ backend = "tmux"
  /\ reachable' = ~reachable
  /\ UNCHANGED <<launchVars, child, session, place, attached, window, handleVars, kind, phase, daemon>>

\* The server dies with its windows; the next one counts its window ids afresh.
TmuxServerRestarts ==
  /\ backend = "tmux"
  /\ window' \in {"none", "another"}
  /\ signalled' = (signalled \/ window = "ours")
  /\ IF window' = "another" THEN place' \in {"ccctl", "operator"} ELSE UNCHANGED place
  /\ UNCHANGED <<launchVars, child, session, attached, reachable, held, closed, kill, escalation, exited, kind, phase, daemon>>

OperatorClosesWindow ==
  /\ window # "none"
  /\ WindowCloses
  /\ UNCHANGED <<launchVars, child, session, place, attached, reachable, held, closed, kill, escalation, exited, kind, phase, daemon>>

\* With the worker goes its window.
WorkerEnds ==
  /\ child' = "dead"
  /\ window' = IF window = "ours" THEN "none" ELSE window
  /\ UNCHANGED <<launchVars, session, place, attached, reachable, handleVars, kind, phase, daemon>>

WorkerExits == child = "alive" /\ WorkerEnds

WorkerHeedsSignal ==
  /\ child = "alive"
  /\ \/ signalled /\ heeds = "polite"
     \/ escalation = "fired" /\ heeds # "neither"
  /\ WorkerEnds

Next ==
  \/ TmuxProbes \/ TmuxHasSession \/ TmuxNewSession \/ TmuxHasSessionAgain \/ TmuxNewWindow
  \/ PtyLaunches
  \/ \E r \in Closers : Probe(r) \/ CloseResolves(r) \/ PatienceEnds(r) \/ Confirm(r)
  \/ \E r \in Requests, k \in {"asked", "forced", "release"} : Begin(r, k)
  \/ KillWindow \/ Escalate \/ OnExit
  \/ CloseServer \/ ExitsClean \/ SecondSignal
  \/ SessionComesOrGoes \/ OperatorAttachesOrDetaches \/ OperatorMovesWindow
  \/ TmuxReachableOrNot \/ TmuxServerRestarts \/ OperatorClosesWindow \/ WorkerExits \/ WorkerHeedsSignal

\* The escalation is a timer, a signal that is heeded ends the child, and an exit is
\* observed; no command of tmux is taken to answer.
Fairness == WF_vars(Escalate) /\ WF_vars(WorkerHeedsSignal) /\ WF_vars(OnExit)

Spec == Init /\ [][Next]_vars /\ Fairness

-----------------------------------------------------------------------------
Phases == {"idle", "probing", "closing", "confirming", "released", "stopped", "already-exited",
           "left-running", "failed"}

\* The types: of what the closers go by, of the other words, and of the flags.
Typed ==
  /\ child \in {"none", "alive", "dead"}
  /\ kind \in [Closers -> {"asked", "forced", "release"}]
  /\ phase \in [Closers -> Phases]

Words ==
  /\ host \in [tmux : BOOLEAN, worker : BOOLEAN]
  /\ launch \in {"probe", "has-session", "new-session", "has-session-again", "new-window", "pty", "up", "failed"}
  /\ code \in {"none", "worker-not-found", "backend-unavailable"}
  /\ backend \in {"none", "tmux", "pty"}
  /\ heeds \in {"polite", "forced", "neither"}
  /\ place \in {"ccctl", "operator"}
  /\ window \in {"none", "ours", "another"}
  /\ kill \in {"none", "sent", "settled"}
  /\ escalation \in {"off", "armed", "fired"}
  /\ daemon \in {"up", "closing", "clean", "forced"}

Flags ==
  /\ excused \in BOOLEAN /\ session \in BOOLEAN /\ attached \in BOOLEAN /\ reachable \in BOOLEAN
  /\ held \in BOOLEAN /\ closed \in BOOLEAN /\ signalled \in BOOLEAN
  /\ exited \in BOOLEAN

TypeOK == Typed /\ Words /\ Flags

ReportsStopped(r) == kind[r] # "release" /\ phase[r] \in {"stopped", "already-exited"}

\* What a backend can see of a worker's end: the pty that it was reaped, tmux only that
\* its window is closed, which has hung up on it.
Gone == child = "dead" \/ (backend = "tmux" /\ window # "ours" /\ signalled)

\* A stop is answered with stopped or already exited only of a worker that is gone as
\* far as its backend can see, whoever else was closing it, whatever tmux would say.
StoppedIsGone == \A r \in Requests : ReportsStopped(r) => Gone

\* "'Stopped' about a live runaway ... is the single failure an emergency-stop exists
\* to prevent": a stop reported done leaves no worker that ignores being hung up on.
\* (Violated on tmux, which closes the window and has no forced signal.)
NoRunawayReportedStopped ==
  \A r \in Requests : ReportsStopped(r) => child = "dead" \/ heeds = "polite"

\* While tmux can host it, a launch is not dropped onto the degraded pty or failed
\* because another launch has created the session first.
TmuxIsPreferred == backend = "pty" \/ launch = "failed" => excused

\* The forced signal is never aimed at a pid that has been reaped and may be
\* somebody else's.
NoSignalToReaped == escalation = "armed" => ~exited

\* A pty that is being closed is reaped while the daemon lives, however the worker
\* takes the polite signal and whether or not a stop has lost its patience.
ClosedPtyIsReaped ==
  (backend = "pty" /\ closed /\ heeds # "neither") ~> (exited \/ ~Alive)

\* The daemon "releases every terminal this server launched ... and THEN exits 0".
ExitsAfterRelease ==
  daemon = "clean" /\ child = "alive" => phase[Shutdown] \notin {"probing", "closing"}
=============================================================================
