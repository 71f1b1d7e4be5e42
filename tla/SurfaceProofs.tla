----------------------------- MODULE SurfaceProofs -----------------------------
(***************************************************************************)
(* What Surface's run checks with two requests, proved for any number of    *)
(* stops and evictions of one terminal.                                     *)
(***************************************************************************)
EXTENDS Surface, TLAPS

\* Nobody has the handle of a terminal before it is up, and a worker that has been
\* started is never again none.
HandleOfATerminal ==
  /\ launch = "up" => child # "none" /\ backend \in {"tmux", "pty"}
  /\ launch # "up" => /\ child = "none" /\ backend = "none" /\ kill = "none"
                      /\ window = "none" /\ ~signalled /\ ~held /\ ~exited /\ escalation = "off"
                      /\ \A r \in Closers : phase[r] = "idle"

\* An exit is observed only of a child that is dead.
ExitIsOfTheDead == exited => child = "dead"

\* A worker of tmux is in its window until it ends or is hung up on, and the window does
\* not outlive it; a pty has no window.
WindowIsOfWorker ==
  /\ window = "ours" => child = "alive"
  /\ window # "none" => backend = "tmux"
  /\ backend = "tmux" /\ child = "alive" => window = "ours" \/ signalled

IInv ==
  /\ Typed /\ HandleOfATerminal /\ ExitIsOfTheDead /\ WindowIsOfWorker
  /\ StoppedIsGone /\ NoSignalToReaped

\* What the argument reads of the state.
handleState == <<launch, backend, child, window, signalled, held, kill, exited, escalation, kind, phase>>

LEMMA Kept == ASSUME IInv, UNCHANGED handleState PROVE IInv'
  BY DEF IInv, handleState, Typed, HandleOfATerminal, ExitIsOfTheDead, WindowIsOfWorker, StoppedIsGone,
     ReportsStopped, Gone, NoSignalToReaped

\* A reading of exited is of a worker that is gone: tmux says so only when it answers
\* and no window bears the id, the pty only of a child that was reaped.
LEMMA ExitedIsGone ==
  ASSUME IInv, launch = "up", Liveness = "exited"
  PROVE  Gone
  BY DEF IInv, Typed, HandleOfATerminal, ExitIsOfTheDead, WindowIsOfWorker, Gone,
     Liveness, PtyLiveness, TmuxLiveness, WindowLiveness

\* The initial states: nothing is launched.
LEMMA InvInit == Init => IInv
<1> SUFFICES ASSUME Init PROVE IInv
  OBVIOUS
<1> USE DEF Init
<1>1. Typed
  <2>1. "idle" \in Phases /\ "release" \in {"asked", "forced", "release"}
    BY DEF Phases
  <2> QED BY <2>1 DEF Typed
<1>2. HandleOfATerminal /\ ExitIsOfTheDead /\ WindowIsOfWorker /\ StoppedIsGone /\ NoSignalToReaped
  BY DEF Closers, HandleOfATerminal, ExitIsOfTheDead, WindowIsOfWorker, StoppedIsGone, ReportsStopped, NoSignalToReaped
<1> QED BY <1>1, <1>2 DEF IInv

\* The launch: until it is up nobody asks anything of the terminal.
LEMMA LaunchStep ==
  ASSUME IInv,
         \/ TmuxProbes \/ TmuxHasSession \/ TmuxNewSession \/ TmuxHasSessionAgain
         \/ TmuxNewWindow \/ PtyLaunches
  PROVE  IInv'
<1>1. launch # "up" /\ UNCHANGED <<kill, exited, escalation, kind, phase>>
  BY DEF TmuxProbes, TmuxHasSession, TmuxNewSession, TmuxHasSessionAgain, TmuxNewWindow, PtyLaunches, LaunchFrame
<1>2. \/ launch' # "up" /\ UNCHANGED <<backend, child, held, window, signalled>>
      \/ /\ launch' = "up" /\ child' = "alive" /\ signalled' = signalled
         /\ \/ backend' = "tmux" /\ window' = "ours"
            \/ backend' = "pty" /\ window' = window
  <2>1. CASE TmuxProbes \/ TmuxHasSession \/ TmuxNewSession \/ TmuxHasSessionAgain
    BY <1>1, <2>1 DEF TmuxProbes, TmuxHasSession, TmuxNewSession, TmuxHasSessionAgain, LaunchFrame, Awaits
  <2>2. CASE TmuxNewWindow
    BY <2>2 DEF TmuxNewWindow, Awaits, ComesUp
  <2>3. CASE PtyLaunches
    BY <2>3 DEF PtyLaunches, LaunchFrame, FailsWith, ComesUp
  <2> QED BY <2>1, <2>2, <2>3
<1>3. \A r \in Closers : phase[r] = "idle"
  BY <1>1 DEF IInv, HandleOfATerminal
<1>4. Typed'
  BY <1>1, <1>2 DEF IInv, Typed
<1>5. HandleOfATerminal' /\ ExitIsOfTheDead' /\ WindowIsOfWorker' /\ NoSignalToReaped'
  BY <1>1, <1>2 DEF IInv, HandleOfATerminal, ExitIsOfTheDead, WindowIsOfWorker, NoSignalToReaped
<1>6. StoppedIsGone'
  BY <1>1, <1>3 DEF StoppedIsGone, ReportsStopped, Closers
<1> QED BY <1>4, <1>5, <1>6 DEF IInv

\* A worker that is gone stays gone, and a window that has closed is never ours again.
GoneStays == Gone => Gone'

\* Only the phase of one closer moves, to a value that claims nothing or is of the gone.
LEMMA PhaseStep ==
  ASSUME IInv, launch = "up", NEW r \in Closers, NEW now \in Phases,
         now \in {"stopped", "already-exited"} => Gone,
         phase' = [phase EXCEPT ![r] = now], UNCHANGED <<launch, backend, child, window, kind>>,
         exited' = exited, signalled => signalled',
         escalation' = "armed" => escalation = "armed" \/ ~exited
  PROVE  IInv'
<1>1. Typed'
  BY DEF IInv, Typed
<1>2. HandleOfATerminal' /\ ExitIsOfTheDead' /\ WindowIsOfWorker'
  BY DEF IInv, HandleOfATerminal, ExitIsOfTheDead, WindowIsOfWorker
<1>3. NoSignalToReaped'
  BY DEF IInv, NoSignalToReaped
<1>4. StoppedIsGone'
  <2>1. GoneStays
    BY DEF GoneStays, Gone
  <2>2. ASSUME NEW q \in Requests, ReportsStopped(q)'
        PROVE  Gone'
    <3>1. CASE q = r
      BY <2>1, <2>2, <3>1 DEF IInv, Typed, ReportsStopped, GoneStays
    <3>2. CASE q # r
      BY <2>1, <2>2, <3>2 DEF IInv, Typed, StoppedIsGone, ReportsStopped, GoneStays, Closers
    <3> QED BY <3>1, <3>2
  <2> QED BY <2>2 DEF StoppedIsGone
<1> QED BY <1>1, <1>2, <1>3, <1>4 DEF IInv

\* Whoever uses the handle: each step of it moves one closer.
LEMMA CloserStep ==
  ASSUME IInv, NEW r \in Closers, Probe(r) \/ CloseResolves(r) \/ PatienceEnds(r) \/ Confirm(r)
  PROVE  IInv'
<1>1. launch = "up"
  BY DEF IInv, HandleOfATerminal, Probe, CloseResolves, PatienceEnds, Confirm
<1>2. CASE Probe(r)
  <2>1. UNCHANGED <<launch, backend, child, window, kind, exited>>
    BY <1>2 DEF Probe, launchVars, tmuxVars, CloseStarts, handleVars
  <2>5. signalled => signalled'
    <3>1. CASE CloseStarts(r)
      BY <3>1 DEF CloseStarts
    <3>2. CASE signalled' = signalled
      BY <3>2
    <3> QED BY <1>2, <3>1, <3>2 DEF Probe, handleVars
  <2>2. CASE Liveness \in TearsDown(kind[r]) /\ CloseStarts(r)
    <3>1. PICK now \in {"released", "confirming", "closing"} : phase' = [phase EXCEPT ![r] = now]
      BY <2>2 DEF CloseStarts, AfterClose
    <3>2. escalation' = "armed" => escalation = "armed" \/ ~exited
      BY <2>2 DEF CloseStarts
    <3> QED BY <1>1, <2>1, <2>5, <3>1, <3>2, PhaseStep DEF Phases
  <2>3. CASE Liveness = "exited" /\ phase' = [phase EXCEPT ![r] = "already-exited"] /\ escalation' = escalation
    BY <1>1, <2>1, <2>3, <2>5, ExitedIsGone, PhaseStep DEF Phases
  <2>4. CASE phase' = [phase EXCEPT ![r] = "left-running"] /\ escalation' = escalation
    BY <1>1, <2>1, <2>4, <2>5, PhaseStep DEF Phases
  <2> QED BY <1>2, <2>2, <2>3, <2>4 DEF Probe, handleVars
<1>3. CASE CloseResolves(r)
  <2>1. PICK now \in {"released", "confirming"} : phase' = [phase EXCEPT ![r] = now]
    BY <1>3 DEF CloseResolves, AfterClose
  <2>2. UNCHANGED <<launch, backend, child, window, kind, exited, signalled, escalation>>
    BY <1>3 DEF CloseResolves, launchVars, tmuxVars
  <2> QED BY <1>1, <2>1, <2>2, PhaseStep DEF Phases
<1>4. CASE PatienceEnds(r)
  <2>1. phase' = [phase EXCEPT ![r] = "failed"]
    BY <1>4 DEF PatienceEnds
  <2>2. UNCHANGED <<launch, backend, child, window, kind, exited, signalled, escalation>>
    BY <1>4 DEF PatienceEnds, launchVars, tmuxVars, handleVars
  <2> QED BY <1>1, <2>1, <2>2, PhaseStep DEF Phases
<1>5. CASE Confirm(r)
  <2>1. PICK now \in {"failed", "stopped"} :
          phase' = [phase EXCEPT ![r] = now] /\ (now = "stopped" => Liveness \notin Contradicts)
    BY <1>5 DEF Confirm
  <2>2. UNCHANGED <<launch, backend, child, window, kind, exited, signalled, escalation>>
    BY <1>5 DEF Confirm, launchVars, tmuxVars
  <2>3. Liveness \notin Contradicts => Liveness = "exited"
    BY DEF Contradicts, Liveness, PtyLiveness, TmuxLiveness, WindowLiveness
  <2>4. now \in {"stopped", "already-exited"} => Gone
    BY <1>1, <2>1, <2>3, ExitedIsGone
  <2> QED BY <1>1, <2>1, <2>2, <2>4, PhaseStep DEF Phases
<1> QED BY <1>2, <1>3, <1>4, <1>5

\* A request begins, or the shutdown takes the handle: what was answered before is
\* forgotten, and nothing is claimed yet.
LEMMA BeginStep ==
  ASSUME IInv, CloseServer \/ \E r \in Requests, k \in {"asked", "forced", "release"} : Begin(r, k)
  PROVE  IInv'
<1>1. ASSUME NEW r \in Requests, NEW k \in {"asked", "forced", "release"}, Begin(r, k) PROVE IInv'
  <2>1. /\ launch = "up" /\ kind' = [kind EXCEPT ![r] = k] /\ phase' = [phase EXCEPT ![r] = "probing"]
        /\ UNCHANGED <<launch, backend, child, window, signalled, held, kill, exited, escalation>>
    BY <1>1 DEF Begin, launchVars, tmuxVars, handleVars, IInv, HandleOfATerminal
  <2>2. Typed'
    BY <2>1 DEF IInv, Typed, Phases
  <2>3. HandleOfATerminal' /\ ExitIsOfTheDead' /\ WindowIsOfWorker' /\ NoSignalToReaped'
    BY <2>1 DEF IInv, HandleOfATerminal, ExitIsOfTheDead, WindowIsOfWorker, NoSignalToReaped
  <2>4. StoppedIsGone'
    BY <2>1 DEF IInv, Typed, StoppedIsGone, ReportsStopped, Gone, Closers
  <2> QED BY <2>2, <2>3, <2>4 DEF IInv
<1>2. CASE CloseServer
  <2>1. /\ held' = FALSE /\ UNCHANGED <<launch, backend, child, window, signalled, kill, exited, escalation, kind>>
        /\ phase' = IF held THEN [phase EXCEPT ![Shutdown] = "probing"] ELSE phase
    BY <1>2 DEF CloseServer, launchVars, tmuxVars
  <2>2. Typed'
    BY <2>1 DEF IInv, Typed, Phases
  <2>3. HandleOfATerminal' /\ ExitIsOfTheDead' /\ WindowIsOfWorker' /\ NoSignalToReaped'
    BY <2>1 DEF IInv, HandleOfATerminal, ExitIsOfTheDead, WindowIsOfWorker, NoSignalToReaped
  <2>4. \A r \in Requests : phase'[r] = phase[r]
    BY <2>1, SurfaceAssumption DEF IInv, Typed, Closers
  <2>5. StoppedIsGone'
    BY <2>1, <2>4 DEF IInv, StoppedIsGone, ReportsStopped, Gone
  <2> QED BY <2>2, <2>3, <2>5 DEF IInv
<1> QED BY <1>1, <1>2

\* The kill, the escalation, the exit, and the end of the window or the worker by other
\* hands: a worker that is gone stays gone, and the exit of a reaped one disarms the
\* forced signal.
LEMMA EndsStep ==
  ASSUME IInv,
         \/ KillWindow \/ Escalate \/ OnExit \/ TmuxServerRestarts \/ OperatorClosesWindow
         \/ WorkerExits \/ WorkerHeedsSignal \/ ExitsClean \/ SecondSignal
  PROVE  IInv'
<1> USE DEF WorkerExits, WorkerHeedsSignal, ExitsClean, SecondSignal
<1>1. UNCHANGED <<launch, backend, held, kind, phase>>
  BY DEF KillWindow, Escalate, OnExit, TmuxServerRestarts, OperatorClosesWindow, WorkerEnds, Exits, launchVars, handleVars
<1>2. CASE launch = "up"
  <2>1. \/ /\ child = "alive" /\ child' = "dead" /\ signalled' = signalled
           /\ window' = IF window = "ours" THEN "none" ELSE window
        \/ child' = child /\ window' = window /\ (signalled => signalled')
        \/ /\ child' = child /\ signalled' = (signalled \/ window = "ours")
           /\ window' = "none" \/ (window' = "another" /\ backend = "tmux")
    <3>1. CASE KillWindow \/ TmuxServerRestarts \/ OperatorClosesWindow
      BY <3>1 DEF KillWindow, WindowCloses, TmuxServerRestarts, OperatorClosesWindow
    <3>2. CASE WorkerExits \/ WorkerHeedsSignal
      BY <3>2 DEF WorkerEnds, handleVars
    <3>3. CASE Escalate \/ OnExit
      BY <3>3 DEF Escalate, OnExit, tmuxVars
    <3>4. CASE ExitsClean \/ SecondSignal
      BY <3>4 DEF Exits, tmuxVars
    <3> QED BY <3>1, <3>2, <3>3, <3>4
  <2>2. exited' = exited \/ (exited' = TRUE /\ child = "dead")
    BY DEF KillWindow, Escalate, OnExit, TmuxServerRestarts, OperatorClosesWindow, WorkerEnds, Exits, handleVars, Reaped
  <2>3. escalation' = "armed" => escalation = "armed" /\ exited' = exited
    BY DEF KillWindow, Escalate, OnExit, TmuxServerRestarts, OperatorClosesWindow, WorkerEnds, Exits, handleVars,
       Reaped, Escalates
  <2>4. Typed'
    BY <1>1, <2>1 DEF IInv, Typed
  <2>5. HandleOfATerminal'
    <3>1. child' # "none"
      BY <1>2, <2>1 DEF IInv, HandleOfATerminal
    <3> QED BY <1>1, <1>2, <3>1 DEF IInv, HandleOfATerminal
  <2>10. ExitIsOfTheDead'
    BY <2>1, <2>2 DEF IInv, ExitIsOfTheDead
  <2>6. WindowIsOfWorker'
    BY <1>1, <2>1 DEF IInv, WindowIsOfWorker
  <2>7. GoneStays
    BY <1>1, <2>1 DEF GoneStays, Gone
  <2>8. StoppedIsGone'
    BY <1>1, <2>7 DEF IInv, StoppedIsGone, ReportsStopped, GoneStays
  <2>9. NoSignalToReaped'
    BY <2>3 DEF IInv, NoSignalToReaped
  <2> QED BY <2>4, <2>5, <2>6, <2>8, <2>9, <2>10 DEF IInv
<1>3. CASE launch # "up"
  <2>1. child = "none" /\ backend = "none" /\ kill = "none" /\ window = "none" /\ escalation = "off"
    BY <1>3 DEF IInv, HandleOfATerminal
  <2>2. ExitsClean \/ SecondSignal
    BY <2>1 DEF KillWindow, Escalate, OnExit, TmuxServerRestarts, OperatorClosesWindow
  <2>3. Exits("clean") \/ Exits("forced")
    BY <2>2
  <2>4. UNCHANGED <<launch, backend, child, window, held, kill, exited, escalation, kind, phase>>
    BY <2>3 DEF Exits, launchVars, tmuxVars
  <2>5. ~signalled'
    BY <1>3, <2>1, <2>3 DEF Exits, IInv, HandleOfATerminal
  <2>6. Typed' /\ ExitIsOfTheDead' /\ NoSignalToReaped'
    BY <2>4 DEF IInv, Typed, ExitIsOfTheDead, NoSignalToReaped
  <2>7. HandleOfATerminal' /\ WindowIsOfWorker'
    BY <1>3, <2>1, <2>4, <2>5 DEF IInv, HandleOfATerminal, WindowIsOfWorker
  <2>8. StoppedIsGone'
    BY <1>3, <2>4 DEF IInv, HandleOfATerminal, StoppedIsGone, ReportsStopped, Closers
  <2> QED BY <2>6, <2>7, <2>8 DEF IInv
<1> QED BY <1>2, <1>3

\* Type correctness, which the argument above does not rest on but for Typed.
LEMMA WordsStep == Words /\ [Next]_vars => Words'
<1> SUFFICES ASSUME Words, [Next]_vars PROVE Words'
  OBVIOUS
<1>1. CASE TmuxProbes \/ TmuxHasSession \/ TmuxNewSession \/ TmuxHasSessionAgain
  BY <1>1 DEF TmuxProbes, TmuxHasSession, TmuxNewSession, TmuxHasSessionAgain, Awaits, LaunchFrame, Words
<1>2. CASE TmuxNewWindow
  BY <1>2 DEF TmuxNewWindow, Awaits, ComesUp, LaunchFrame, Words
<1>3. CASE PtyLaunches
  BY <1>3 DEF PtyLaunches, FailsWith, ComesUp, LaunchFrame, Words
<1>4. ASSUME NEW r \in Closers, Probe(r) \/ CloseResolves(r) \/ PatienceEnds(r) \/ Confirm(r) PROVE Words'
  <2>1. UNCHANGED <<launchVars, tmuxVars, daemon>>
    BY <1>4 DEF Probe, CloseResolves, PatienceEnds, Confirm
  <2>2. kill' \in {kill, "sent"} /\ escalation' \in {escalation, "armed"}
    <3>1. CASE CloseStarts(r)
      BY <3>1 DEF CloseStarts
    <3>2. CASE UNCHANGED <<kill, escalation>>
      BY <3>2
    <3> QED BY <1>4, <3>1, <3>2 DEF Probe, CloseResolves, PatienceEnds, Confirm, handleVars
  <2> QED BY <2>1, <2>2 DEF launchVars, tmuxVars, Words
<1>5. ASSUME NEW r \in Requests, NEW k \in {"asked", "forced", "release"}, Begin(r, k) PROVE Words'
  BY <1>5 DEF Begin, launchVars, tmuxVars, handleVars, Words
<1>6. CASE KillWindow \/ Escalate \/ OnExit
  BY <1>6 DEF KillWindow, WindowCloses, Escalate, Escalates, OnExit, Reaped, launchVars, tmuxVars, handleVars, Words
<1>7. CASE CloseServer \/ ExitsClean \/ SecondSignal
  BY <1>7 DEF CloseServer, ExitsClean, SecondSignal, Exits, launchVars, tmuxVars, Words
<1>8. CASE SessionComesOrGoes \/ OperatorAttachesOrDetaches \/ OperatorMovesWindow \/ TmuxReachableOrNot
  BY <1>8 DEF SessionComesOrGoes, OperatorAttachesOrDetaches, OperatorMovesWindow, TmuxReachableOrNot,
     launchVars, tmuxVars, handleVars, Words
<1>9. CASE TmuxServerRestarts \/ OperatorClosesWindow \/ WorkerExits \/ WorkerHeedsSignal
  BY <1>9 DEF TmuxServerRestarts, OperatorClosesWindow, WindowCloses, WorkerExits, WorkerHeedsSignal, WorkerEnds,
     launchVars, tmuxVars, handleVars, Words
<1>10. CASE UNCHANGED vars
  BY <1>10 DEF vars, launchVars, tmuxVars, handleVars, Words
<1> QED BY <1>1, <1>2, <1>3, <1>4, <1>5, <1>6, <1>7, <1>8, <1>9, <1>10 DEF Next

LEMMA FlagsStep == Words /\ Flags /\ [Next]_vars => Flags'
<1> SUFFICES ASSUME Words, Flags, [Next]_vars PROVE Flags'
  OBVIOUS
<1>1. CASE TmuxProbes
  BY <1>1 DEF TmuxProbes, Awaits, LaunchFrame, launchVars, tmuxVars, handleVars, Flags
<1>2. CASE TmuxHasSession
  BY <1>2 DEF TmuxHasSession, Awaits, LaunchFrame, launchVars, tmuxVars, handleVars, Flags
<1>3. CASE TmuxNewSession
  BY <1>3 DEF TmuxNewSession, Awaits, LaunchFrame, launchVars, tmuxVars, handleVars, Flags
<1>4. CASE TmuxHasSessionAgain
  BY <1>4 DEF TmuxHasSessionAgain, Awaits, LaunchFrame, launchVars, tmuxVars, handleVars, Flags
<1>5. CASE TmuxNewWindow
  BY <1>5 DEF TmuxNewWindow, Awaits, ComesUp, launchVars, tmuxVars, handleVars, Flags
<1>6. CASE PtyLaunches
  BY <1>6 DEF PtyLaunches, FailsWith, ComesUp, LaunchFrame, launchVars, tmuxVars, handleVars, Flags
<1>7. CASE KillWindow
  BY <1>7 DEF KillWindow, WindowCloses, launchVars, tmuxVars, handleVars, Words, Flags
<1>8. CASE Escalate
  BY <1>8 DEF Escalate, launchVars, tmuxVars, handleVars, Flags
<1>9. CASE OnExit
  BY <1>9 DEF OnExit, Reaped, launchVars, tmuxVars, handleVars, Flags
<1>10. CASE CloseServer
  BY <1>10 DEF CloseServer, launchVars, tmuxVars, handleVars, Flags
<1>11. CASE ExitsClean
  BY <1>11 DEF ExitsClean, Exits, launchVars, tmuxVars, handleVars, Flags
<1>12. CASE SecondSignal
  BY <1>12 DEF SecondSignal, Exits, launchVars, tmuxVars, handleVars, Flags
<1>13. CASE SessionComesOrGoes
  BY <1>13 DEF SessionComesOrGoes, launchVars, tmuxVars, handleVars, Flags
<1>14. CASE OperatorAttachesOrDetaches
  BY <1>14 DEF OperatorAttachesOrDetaches, launchVars, tmuxVars, handleVars, Flags
<1>15. CASE OperatorMovesWindow
  BY <1>15 DEF OperatorMovesWindow, launchVars, tmuxVars, handleVars, Flags
<1>16. CASE TmuxReachableOrNot
  BY <1>16 DEF TmuxReachableOrNot, launchVars, tmuxVars, handleVars, Flags
<1>17. CASE TmuxServerRestarts
  BY <1>17 DEF TmuxServerRestarts, launchVars, tmuxVars, handleVars, Flags
<1>18. CASE WorkerExits
  BY <1>18 DEF WorkerExits, WorkerEnds, launchVars, tmuxVars, handleVars, Flags
<1>19. CASE WorkerHeedsSignal
  BY <1>19 DEF WorkerHeedsSignal, WorkerEnds, launchVars, tmuxVars, handleVars, Flags
<1>20. ASSUME NEW r \in Closers, Probe(r) PROVE Flags'
  BY <1>20 DEF Probe, CloseStarts, launchVars, tmuxVars, handleVars, Flags
<1>21. ASSUME NEW r \in Closers, CloseResolves(r) PROVE Flags'
  BY <1>21 DEF CloseResolves, launchVars, tmuxVars, handleVars, Flags
<1>22. ASSUME NEW r \in Closers, PatienceEnds(r) PROVE Flags'
  BY <1>22 DEF PatienceEnds, launchVars, tmuxVars, handleVars, Flags
<1>23. ASSUME NEW r \in Closers, Confirm(r) PROVE Flags'
  BY <1>23 DEF Confirm, launchVars, tmuxVars, handleVars, Flags
<1>24. ASSUME NEW r \in Requests, NEW k \in {"asked", "forced", "release"}, Begin(r, k) PROVE Flags'
  BY <1>24 DEF Begin, launchVars, tmuxVars, handleVars, Flags
<1>25. CASE OperatorClosesWindow
  BY <1>25 DEF OperatorClosesWindow, WindowCloses, launchVars, tmuxVars, handleVars, Flags
<1>26. CASE UNCHANGED vars
  BY <1>26 DEF vars, launchVars, tmuxVars, handleVars, Flags
<1> QED BY <1>1, <1>2, <1>3, <1>4, <1>5, <1>6, <1>7, <1>8, <1>9, <1>10, <1>11, <1>12, <1>13, <1>14, <1>15, <1>16, <1>17, <1>18, <1>19, <1>20, <1>21, <1>22, <1>23, <1>24, <1>25, <1>26 DEF Next

\* Every step preserves the invariant.
LEMMA InvStep == IInv /\ [Next]_vars => IInv'
<1> SUFFICES ASSUME IInv, [Next]_vars PROVE IInv'
  OBVIOUS
<1>1. CASE \/ SessionComesOrGoes \/ OperatorAttachesOrDetaches \/ OperatorMovesWindow
           \/ TmuxReachableOrNot \/ UNCHANGED vars
  <2>1. UNCHANGED handleState
    BY <1>1 DEF SessionComesOrGoes, OperatorAttachesOrDetaches, OperatorMovesWindow, TmuxReachableOrNot,
       vars, launchVars, tmuxVars, handleVars, handleState
  <2> QED BY <2>1, Kept
<1>2. CASE Next
  BY <1>1, <1>2, LaunchStep, CloserStep, BeginStep, EndsStep DEF Next
<1> QED BY <1>1, <1>2

\* The strengthened invariant, on which the rest is read off.
THEOREM Invariant == Spec => []IInv
<1>1. Init => IInv
  BY InvInit
<1>2. IInv /\ [Next]_vars => IInv'
  BY InvStep
<1> QED BY <1>1, <1>2, PTL DEF Spec

\* Type correctness of the launch, the terminal, the handle and its users.
THEOREM TypeCorrect == Spec => []TypeOK
<1>1. Init => Words /\ Flags
  <2>1. Init => Words
    BY DEF Init, Words
  <2>2. Init => Flags
    BY DEF Init, Flags
  <2> QED BY <2>1, <2>2
<1>2. Words /\ Flags /\ [Next]_vars => (Words /\ Flags)'
  BY WordsStep, FlagsStep
<1>3. Spec => [](Words /\ Flags)
  BY <1>1, <1>2, PTL DEF Spec
<1>4. IInv /\ Words /\ Flags => TypeOK
  BY DEF IInv, TypeOK
<1> QED BY <1>3, <1>4, Invariant, PTL

\* A stop is answered with stopped or already exited only of a worker that is reaped or,
\* on tmux, has been hung up on with its window.
THEOREM StoppedIsGoneAlways == Spec => []StoppedIsGone
<1>1. IInv => StoppedIsGone
  BY DEF IInv
<1> QED BY <1>1, Invariant, PTL

\* The forced signal is never armed at a child that has been reaped.
THEOREM NoSignalToReapedAlways == Spec => []NoSignalToReaped
<1>1. IInv => NoSignalToReaped
  BY DEF IInv
<1> QED BY <1>1, Invariant, PTL
===============================================================================
