# ccctl, specified

TLA+ models of ccctl (its server, with the session model of `src/packages/core`, the operator's page
in `src/packages/web-ui`, and the tunnel that `src/packages/cli` and `src/packages/tunnel-adapters`
put before it), the TLC runs that check them on small instances, and TLAPS proofs of what matters
most for every instance. ccctl is a daemon between Claude Code workers and an operator's phone: it
launches workers in terminals, accepts their registrations, holds an event stream open to each,
folds their status reports into one row per session, relays events to browsers, carries answers and
turns back, and takes terminals down again.

The server is one Node.js process and the page one browser thread. A handler runs to its next
`await` or callback without interruption, so an action of a model is one synchronous stretch of
code; everything a handler awaits, and every callback (a timer, a request's or response's `close`,
an exit), is an action of its own. Nothing else is assumed about the order of actions.

## The system: components, state, interactions

| component | state | operations | interacts with | hard to get right |
|---|---|---|---|---|
| Launch registry (`pending-launch.ts`, `ui-session-launch.ts`) | session rows, launch reservations, pending launches with timers, marks, terminal handles, hook installs | launch, track, claim, evict, clear | bridge (registration claims a launch), release, UI | launch and registration share no id; slow launchers; the timer races the registration and the operator |
| Terminal release and stop (`session-release.ts`, `ui-session-stop.ts`) | none of its own: decisions over awaited readings | release, stop (asked / forced), shutdown release | launchers; registry; channel teardown | state read before an `await` and used after it; a `close()` that resolves without closing |
| Environments bridge (`environments-bridge.ts`) | environments, a FIFO of work per environment, held polls and their windows | register, session create, poll, enqueue, drain | registry (claim), worker | a wake-up meets a lapse, a disconnect or a shutdown |
| Worker channel (`worker-channel.ts`) | per session a record (epoch, response, numbering, timers) that every register replaces | register, stream, heartbeat, push, eviction, reap | session rows, relay, stop | late `close` events and timers that hold a replaced record |
| Status fold (`worker-channel.ts`, core) | activity, sequence mark, idle timer | the two status legs, the idle and needs-input events | relay, enrichment buffer | two legs that race, repeat and vanish; generations that restart the numbering |
| Enrichment and answers (`worker-channel.ts`, `ui-command.ts`) | one buffered question per session, the hook's handoff file | buffer, hand off, serve, answer | status fold, phone, worker | the phone acts on what it rendered earlier |
| UI event stream (`event-stream.ts`, `session-close.ts`) | per session a relay: numbering, replay window, subscribers | broadcast, subscribe / replay, reap | every component that raises an event | reconnects; the order of farewell and reap |
| Session life cycle (core, `session-close.ts`) | the status of a row | create, ready, close | all of the above | several owners end one session |
| Launchers (`session-launcher*.ts`) | per terminal a handle: the latch of `close()`, the observed exit, the escalation timer | launch with fall-back, liveness, close | release and stop, tmux, the pty's child | several closers at once; a close abandoned half way; a pid reaped before it is signalled |
| Hook install and sweep (`hook-settings-installer.ts`, `ask-user-question-hook.ts`, `hook-install-sweep.ts`) | one directory shared by all daemons of a user, and a map per daemon | install, clean up, capture, sweep at startup | launch, close, the hook in the worker, other daemons | two writers, crashes between write and rename, pids that come back |
| Shutdown (`shutdown-signal.ts`, `index.ts`) | the shutdown under way | first and second signal, release of terminals and tunnel within a budget | all of the above, tunnel | the signal comes at any moment; what is not awaited may be lost |
| Tunnel (`cli/src/index.ts`, `tunnel-adapters`) | the adapter's record of mapping and grant | establish, adopt, teardown | tailscaled, the operator's policy over the Internet, shutdown | half-done establishes; lost answers; the operator's own edits |
| Steering page (`web-ui/src/app.js`, `steer-queue.js`) | session rows, cursors, the queue of steers made offline | poll, select, steer, cancel, drain | server, operator | drains, polls and taps interleave over a link that flaps |
| Viewing page (`web-ui/src/app.js`, `enrichment.js`, `stop.js`) | selection, stream, question panel, stop control | select, frames, answer, stop, stop anyway | server, operator | answers and frames that belong to what was selected before |
| Store and reconcile, attention delivery, pairing and devices, codecs, diagnostics, end-to-end harness | see "Not modelled" | | | |


## The modules

```
SessionLifecycle      the promise: how a session id may move, whoever moves it
SessionModel          pure functions of @ccctl/core on a row: staleness, readiness
 +- WorkerChannel     implements SessionLifecycle      +- WorkerChannelProofs
 +- StatusFold        the fold of one session
     +- AnswerGate    StatusFold composed with the enrichment buffer and the answer gate
                                                      +- AnswerGateProofs (both)
LaunchRegistry        implements SessionLifecycle      +- LaunchRegistryProofs
WorkQueue             the bridge's queues and held polls   +- DeliveryProofs
EventStream           the relay of one session             +- DeliveryProofs
Surface               one terminal: launch, backends, closers, exit of the daemon   +- SurfaceProofs
HookFiles             the hook's directory, its writers and its sweep   +- FootprintProofs
ServeTunnel           a daemon behind a tunnel, its shutdown, the remedy   +- FootprintProofs
SteerQueue            the page: poll, cursors, queue and drain   +- SteerQueueProofs
PhonePage             the page: selection, question panel, stop control   +- PhonePageProofs
MC*                   instances for TLC (symmetry, a state constraint)
```

In a module, an action carries the name of its function in the source, capitalised, and a comment
where it stands for a part of one. Operators whose comment begins with `Mutant:` are deliberately
wrong variants of the definition that follows them; no specification uses one. They record, for
each property, a plausible mistake in the code that the property catches. The definitions of
EventStream and ServeTunnel bear a prefix (`StreamInit`, `StreamNext`, `TunnelInit`, ...) because a
proof module extends each of them beside another component's.

**SessionLifecycle** is the abstract specification: an id is minted once, registers at most once,
is ready only after that, and never comes back. A row's presence in `state.sessions` and its status
are the phase; an id never seen is `unborn`, one whose row was deleted is `gone`.

**WorkerChannel**. A record is an object that a register replaces while timers and stream callbacks
keep the old one, so records are indexed by session and epoch and `cur` says which one the map
holds. `StreamClose` is the response's `close` event, which comes whenever it comes; the guard
`record.downstream === res` is its condition. Timers count ticks down and fire at some time after 0.
`ConsiderEviction` has the three outcomes of `considerEviction` as disjuncts. A stop begins, waits
on its terminal for as long as it likes and is refused or finishes. One stop of a session is under way
at a time; Surface has two.

**StatusFold**. A report is a generation and a number and travels on two legs; `wire` is a set of
frames under way, read in any order, dropped by never being read, sent again by `Resend`. `Receive`
is the whole of either handler past its parsing: the epoch gate, the ordering guard, the fold, the
mark, the idle timer, the needs-input event, the relay. A worker that does not stamp (`stamps`) is
never ordered, as in the code. Bodies over the size limit and malformed ones change nothing and are
left out.

**AnswerGate** extends StatusFold, and every action of it is the StatusFold step with what the same
handler does to the buffer; `Elapse` gathers the steps that leave the buffer alone. The phone's copy of
a question and the hook's file are variables; every question offers the same labels, so that the label
check, a pure function, never decides. `wired` says how this session's questions come: captured by the
launch's hook, or as `input_request` frames of a worker whose build emits them. An enrichment bears the
sequence number it was stamped with; its generation is in the stamp as history only (`Number` is all the
code compares). `asked` counts how often a question was put to the server, its repeated frames included.

**LaunchRegistry**. A terminal is named by the id its launch minted. A place is a directory with a
permission mode, the key a registration is matched on. Readings and closes are awaited, so a release
and a stop are two and three actions; a reading is the truth or a non-answer (`Readings`). Two
constants bound the environment: `LateWorkers` (a worker may register after its window) and
`ReliableClose` (a `close()` that resolves has closed). A terminal closed is taken for down here; that
the worker of a closed window may run on is in Surface. A launch whose hook install failed is in
HookFiles; not modelled is a worker that registers again after its session was evicted.

**EventStream**. A subscription is a response; `wire` is what was written and not read, lost when the
connection breaks; the server learns of that later (`ResponseClose`). The replay is the end of the
window past the browser's cursor (`NewerThan`): ids ascend in the window, so that is what filtering it
by id yields. A browser reconnects with the
last id it has read and without a header if it has read none. `owed` is what a watcher has not seen
and could still be brought.

**WorkQueue**. A poll's `settled` flag, its membership in the waiters and its timer are separate, as
in the code. `Disconnect` makes a response dead; the request's `close` comes later. Work items are
named by their sessions. A waiter's `place` is the insertion order of the JavaScript `Set` that holds it,
in which `flushWaiter` walks. Refused requests and the verbs of a delivered item change nothing and are
left out.

**Surface** is one terminal under a magnifying glass: the launch command by command (probe of the
worker, `has-session`, `new-session` and its race, `new-window`, the pty), then the two backends side
by side. `Liveness` is what each would read now; `close()` latches, and a second closer returns at
once. A stop (`asked`, `forced`) probes, closes within its patience and confirms; a release believes
its close. The operator attaches, detaches, moves and closes the window, tmux is out of reach or
restarts, and after a restart another window may bear the id of ours (`window`). A window that closes,
by `kill-window`, by hand or with its server, hangs up on its worker and does not kill it: `signalled`
is that hangup on tmux as it is the polite signal on a pty, and `heeds` says what ends the worker. Only
the pty has a forced signal, so a worker of tmux that ignores the hangup runs on without a window.

**HookFiles**. Files are their names: who wrote them for which launch, and which writer's temporary
they are. A daemon starts, lists the directory once, judges and unlinks entry by entry while others
write, and listens; it dies between any two steps and takes its map with it. A stranger may take the
pid. The hook runs in the worker, outlives the daemon and renames onto a path fixed at launch.

**ServeTunnel**. `establish` and `release` name the step that is awaited, so each step's outcome is an
action with what follows it. A local command fails without its effect; a policy write may land and
its answer be lost. `Accepted` is the server's `If-Match`; a read is taken to report an etag, for
without one `savePolicy` writes unconditionally. The policy is its version, the number of
grants equal to ours, the operator's other edits, and whether it has a grants key. An operation under
way when its process ends has its effect then or never: one that lands later, during or after `--off`,
is not modelled. `--off` is a later process that
adopts what it cannot verify.

**SteerQueue**. The poll is three steps (served, applied or failed), as its answer may be old by
the time it is applied. Cursors are `Absent` until known, as a missing map entry reads as 0 but is
not set by a bump to 0. A drain partitions the queue at once and then awaits its sends one by one.
`Array.filter` is `Picked(seq, at)`: the elements at the positions `at`, in order.
A request is taken by the server or not, and answered or not.

**PhonePage**. The frames of the viewed stream and the questions in a list are arbitrary, so that
nothing holds because a server is well-behaved. `Painted` is `renderEnrichment`, which every change
of its inputs ends in. A stop is decided by the server and answered later, or lost, and meanwhile the
operator selects. `blockFrom`, `refused`, `forced` and `confirmed` are history.

## The runs

| run | bounds | shows |
|---|---|---|
| `WorkerChannel_session` | 1 session, 3 generations, 3 streams, 2 frames, window of 2 ticks; `FairSpec` | nothing stale touches what replaced it, the refinement of SessionLifecycle, a dropped silent worker is reaped |
| `AnswerGate_questions` | 2 generations of up to 3 reports, 3 in all (an in-band worker pays its second generation with one), one resend; the hook or in-band frames | order and notifications of the fold; an answer answers what was seen, no more often than it was put |
| `LaunchRegistry_launches` | 4 ids in one place, cap 2, up to shutdown | matching, cap, handles |
| `LaunchRegistry_stops` | 2 ids, stops, attaches, failing closes, late workers, shutdown; `FairSpec` | stops are witnessed, life cycle, ghosts leave |
| `EventStream_replay` | 2 browsers, 3 connections, window of 2, 4 events and a farewell | replay and order; the farewell comes last |
| `WorkQueue_polls` | 2 environments, 2 items, 3 polls, shutdown; `FairSpec` | FIFO at most once, no lost wake-up, resolved eventually and once |
| `Surface_closes` | both backends, 2 stops or evictions, the shutdown | stopped is gone as far as its backend sees (reaped, or hung up on with its window), no signal to a reaped pid, a closed pty is reaped |
| `Surface_exit` | the same with 1 request | **violated** `ExitsAfterRelease` |
| `HookFiles_sweep` | 2 pids, 1 launch, 1 file of before the owner stamp | no live install is swept, only orphans go, all of them do |
| `ServeTunnel_shutdown` | a grant to provision, 2 edits of the operator's (and one equal grant), 2 uses of `--off` | edits survive, a clean exit leaves nothing, the remedy clears, a signal ends the daemon |
| `SteerQueue_drains` | 2 sessions with 1 event each, 2 commands | nothing stranded, fired once, no living session gets a held command without a yes, order, settled eventually |
| `PhonePage_view` | 2 sessions, 2 block numbers each, 3 stops | the panel is of the view, force is consented, stopped stays stopped |

Why the bounds suffice. A stale callback needs the record it holds, the one that replaced it and a
stream on each; the third of each lets a callback be stale twice over. Losing order takes two reports
on two legs, and losing it across a register takes two generations; a third report is needed where
the property is about the block in between. Ambiguity takes two launches of one place, being bound
wrongly a third id to mint and a fourth that survives the pair. A window of two with four events
slides past a browser that is away. A wake-up can be lost on a dead waiter with a live one behind
it, and a third poll comes after. A latch and a confirmation meet two closers and the shutdown's.
Two daemons sweep beside each other, or under each other's pid, with two pids, and launches meet only
through the pid that owns them: one shows every case, and the proof is for any number. An etag
conflict takes one edit between a read and a write, and the second one falls into the teardown.
Order and double sends take two commands, a command's session moving on takes one event, and being
held over for another needs the second session. A stop, its forced repeat and a third one on another
session are the three stops. All of these are bounds on what a run explores; the proofs have none.

`CHECK_DEADLOCK FALSE` stands where ids, responses, polls or stops are finite and run out, and where
a server that has been closed, or a daemon that has exited, really stops. `LaunchRegistry_launches`
looks no further than shutdown (`BeforeShutdown`), which `LaunchRegistry_stops` explores;
`AnswerGate_questions` bounds the reports of all generations together (`FewReports`), for an in-band
worker one less in the second generation: its frames are a second set under way. Symmetry is used
only in runs without liveness properties.

### Fairness

`WorkerChannel` asks that time passes and that an eviction check that is due fires; `LaunchRegistry`
that a registration timer fires; `WorkQueue` that a poll's window lapses: that much `setTimeout` does
in a running process. `Surface` asks the same of the escalation timer, and that a heeded signal ends
the child and its exit is observed; no command of tmux is taken to answer. `ServeTunnel` asks that the
budget's timer fires, that the server's close settles and that the shutdown goes on; no command and no
request over the Internet is taken to answer. `SteerQueue` asks that the page polls and that a request
settles, by an answer while the link is up and by an error while it is not, and assumes that a fetch
that has failed is not delivered later. `HookFiles` asks that a file grows old and that a hook, which
writes one file and exits, ends; that daemons keep starting is the antecedent of `OrphansGo`, not
asked of the system. `PhonePage` asks nothing. No worker, browser, operator or network owes anything
beyond this, so every liveness property holds with all of them silent.

## Where the code does less than its comments say

One is listed with its quoted lines in `PROJECT.json` "findings", with a run that shows a shortest case:

- `Surface!ExitsAfterRelease`: shutdown starts every release with `void` and `close()` does not await
  them, so the handler exits 0 while a terminal is still being read; a tmux window whose reading had
  not answered keeps its worker (a pty hangs up on its child when the daemon is gone).

Further ones are stated in the modules and have no run; each is violated on the instance given here:

| property | instance |
|---|---|
| `WorkerChannel!SilentWorkerIsReaped` | 1 session, 1 stream; `FairSpec`: only a stream's close arms the eviction |
| `WorkerChannel!NothingArmedAfterReap` | 1 session, 1 stream, 1 generation |
| `StatusFold!OneIdleEventPerStretch` | 1 generation of 2 reports, thresholds of 1 |
| `AnswerGate!AnswersStandingBlock` | 1 generation of 3 reports, `Wirings = {{"frame"}}` |
| `AnswerGate!HandoffDecoratesItsBlock` | 1 generation of 3 reports, `Wirings = {{"hook"}}` |
| `AnswerGate!AnsweredAtMostOnce` | 1 report, 1 resend, `Wirings = {{"frame"}}`: a frame sent again after its answer is buffered again |
| `AnswerGate!AnswersWhatWasSeen` | 3 reports, `Wirings = {{"hook", "frame"}}`: an old capture and a frame under one number |
| `LaunchRegistry!EvictionSparesWorkers` | 2 ids, `LateWorkers = TRUE`: the ghost reaper decides before it awaits |
| `LaunchRegistry!StopKillsItsOwn` | 3 ids, stops: the ambiguity mark is checked before the await and comes later |
| `LaunchRegistry!BoundIsOwn` | 3 ids, cap 2, `LateWorkers = TRUE`; or 2 ids, `AttachPlaces = {p1}`; or 4 ids, cap 2, one of them `Stoppable` |
| `LaunchRegistry!HandleDroppedWhenGone` | 1 id, `ReliableClose = FALSE` |
| `LaunchRegistry!HooksAreOwned` | 1 id |
| `LaunchRegistry!NothingPendingAfterClose` | 1 id |
| `EventStream!ReconnectReconciles` | 1 browser, 2 responses, 1 event |
| `EventStream!EveryWatcherIsTold` | 1 browser, 1 response |
| `Surface!NoRunawayReportedStopped` | 1 request, tmux: the worker ignores the hangup of `kill-window`, its window is gone, the stop is answered `stopped` over a live worker (against `session-release.ts:490-492`) |
| `SteerQueue!HeldStaysHeld` | 1 session, 1 event, 1 command: the session ends, its cursor is dropped (`app.js:815`) and the next drain posts the held command (against `app.js:1538-1540`); no session takes it |
| `SteerQueue!SentInOrder` | 1 session, 2 commands: one given online overtakes a drain in flight |
| `PhonePage!ForceIsOfTheView` | 2 sessions, 1 stop: a refusal is painted after the selection has moved |
| `ServeTunnel!FailedEstablishLeavesNoGrant` | no edits: the write lands, its answer is lost (against `cli/src/index.ts:180-183`) |

`AnswerGate!AnswersWhatWasSeen` is about one generation. Across a re-register it has no counterpart:
numbering restarts, the buffer survives, and no code sees the generation, so one number names two
questions.

Smaller things met on the way, by reading or in a counterexample, with no property of their own:

- SteerQueue: a drained steer that fails is reported only if its session is on view and is lost
  silently otherwise; an item whose session moves on during the drain fires all the same; a
  successful send marks events as viewed that the operator may not have seen.
- PhonePage: an answer whose send fails is not offered again while its block lasts, and selecting
  another session and back enables the stop of one that is being stopped.
- StatusFold: opening the worker's stream clears an armed idle check, and only another report of idle
  arms one, so a stretch in which the worker reconnects may raise no idle event.
- ServeTunnel: a shutdown that finds a failed establish exits 0 while `serve` is still releasing it.
- Surface: `new-window` names no session, so tmux may open the worker in the operator's own; window
  ids begin again after a restart of tmux, and the kill between an old reading and a new window is
  nobody's; a window the operator joins into another as a pane is gone, reads `exited` and leaves its
  worker running, not even hung up on (not modelled); of two stops at once the second answers
  `stop-failed`; `list-windows` and `kill-window`
  have no time limit.
- HookFiles: a hook that renames after its session was closed leaves its file until the daemon dies,
  against `ui-session-launch.ts:206-207`; a dead daemon's files stay while a stranger holds its pid.

## The proofs

Each is for all values of the constants allowed by the module's named assumptions (windows and
bounds are naturals, special values are not members of the sets, the set of ids is finite where it
is counted), and follows the same argument: `Init => IInv`, `IInv /\ [Next]_vars => IInv'` with one
step per action, and `IInv => ` the property; an action property follows from `IInv` and one step.
Every safety and action property of the passing runs is proved; some need a hypothesis on a constant,
named below, which the run makes too.

- **WorkerChannelProofs**. The invariants are not inductive together: that a new record has
  never had a stream (so `DroppedIsWatched` need not hold of it) requires that no response was ever
  opened on an epoch not yet reached, `OpenedBeforeNow`, and that an unused response names no
  session. Proved: types, `ChannelHasRow`, `OneLiveStream`, `NoDanglingInterval`,
  `DroppedIsWatched`, `EvictedOnlyWhenGone`, the refinement, and `DownstreamIdsNeverRepeat` (in no run).
- **LaunchRegistryProofs**. What the checked invariants lack is `NewIsBlank` (an id not yet minted has
  left no trace), `ReleasedIsOver` (a release is under way only of a launch whose record is consumed,
  and, with the server up and no late workers, of one that timed out without a worker) and
  `ConfirmedIsDown` (a resolved close has closed, if closes are to be relied on). Cardinalities are
  handled with the finite-set theorems of the library. Proved: types, `RegistriesAgree`,
  `RegisteredIsMarked`, `SiblingsAreAmbiguous`, `CapHolds`, `EvictionSparesWorkers` if
  `LateWorkers = FALSE` (in no run), `HandleDroppedWhenGone` if `ReliableClose = TRUE`, `StoppedIsWitnessed`, the
  refinement, and `BoundIsOwn`, below.
- **`BoundIsOwn`**, in the same module: the session minted by a launch is bound to its own terminal, not
  to its sibling's worker. A worker matches by place alone, and the first to register consumes the
  record; so the proof counts. A worker is *due* when it is up and has not registered.
  `RecordsSuffice`: the due workers map one to one into pending records of their place, each no older
  than its worker (a matching: when a registration or a timer consumes one, its worker takes over the
  record of the worker that consumed it). `SoleIsDue`: at the place of an unmarked record only its own
  worker is due, so that an unmarked match is a right one. Three hypotheses, each needed (the table
  above has the instances): `LateWorkers = FALSE`; `AttachPlaces = {}`, for a worker attached by hand
  where a launch is pending claims its id; and `Stoppable = {}`, for a stop retires the record of the
  session it names while a sibling's worker is still to come, which then matches the next launch.
- **AnswerGateProofs**, on the fold. The strengthening says that what is under way, what the mark holds
  and what a browser was shown are reports the worker has made (`WireIsPast`, `MarkIsPast`,
  `ShownIsPast`), that each leg of the last report is under way or has been applied (`LastIsPending`,
  without which `SettledOnLastReport` has nothing to rest on), and that the idle timer measures the
  stretch (`TimerMeasuresStretch`, for `IdleEventIsEarned`). Proved of `StatusFold!Spec`: types,
  `TruthfulActivity`, `SettledOnLastReport`, `NeedsInputOncePerStretch`, and three that are in no run:
  `RichDetailSurvives`, `BrowserNeverRegresses`, `IdleEventIsEarned`. Each step of the composition is a
  step of the fold or a stutter, which carries them over (`FoldHoldsInGate`).
- **AnswerGateProofs**, on the gate, under `OneWayOnly`: no session has both the hook and in-band frames
  (with both, the property fails, see above). `AnswersWhatWasSeen` needs that within a generation a
  stamp names one question wherever it is found, in the buffer, on the phone or among the accepted
  answers; that rests on the fold's mark, below which no stamp is given again. `AnsweredOnce` needs a
  count: a question's frames under way, its capture, its place in the buffer and its answers are
  together at most what was asked. Proved: types, both.
- **DeliveryProofs**, on WorkQueue. The waiters of an environment are exactly the polls it holds
  (`WaitersAreHeld`, `HeldIsWaiting`) and only held polls are timed (`TimedIsHeld`); an item handed to a
  waiter is then the only one there is, since a live waiter means an empty queue. Proved: types,
  `DeliveredOnceInOrder`, `NoWorkHeldBack`, `ResolvedOnce`.
- **DeliveryProofs**, on EventStream. The window holds the last ids given, without a gap
  (`BufferIsRecent`), so that the replay of a cursor is an end of it; what is under way to a browser
  ascends from its cursor (`WiresAscend`); and an event owed is newer than the cursor and is in the
  browser's stream, or behind all that is in it, or, with no stream, still in the window
  (`OwedIsToCome`). A step that slides the window lets go only of what nobody is owed. Proved: types,
  `InOrderOnce`, `NothingRetainedIsLost`, and `FarewellIsLast`, which rests on `EndsAreFinal`: the farewell
  comes with the row's end and nothing is written after it. `RelayHasRow` is proved and in no run.
- **SurfaceProofs**. Nobody has a handle before the terminal is up, and a worker that is gone stays gone
  (`GoneStays`), so a reading of `exited` stays true. Such a reading is of the gone: on a pty because an
  observed exit is of the dead (`ExitIsOfTheDead`), on tmux because a worker that lives is in its window
  or has been hung up on (`WindowIsOfWorker`). "Gone" is no more than the backend can see: that the
  worker of a closed window has died is not proved, for it need not have. Proved: types, `StoppedIsGone`, `NoSignalToReaped`.
- **FootprintProofs**, on HookFiles. `InstallStands` needs that a launch under way has a daemon that
  serves (`DaemonServes`): a sweep then finds the owner alive, and a daemon under the same pid starts
  only when the old one is dead and its launches lost. `SweepTakesOnlyOrphans` is about a verdict
  reached earlier, so what is doomed must be an orphan and stay one (`DoomedIsOrphan`): a lost launch
  stays lost, an old temporary belongs to no running hook (`HookTempIsWritten`), and every stamped file
  bears its owner's pid (`StampIsOwner`). Proved: types, `InstallStands`, `SweepTakesOnlyOrphans`.
- **FootprintProofs**, on ServeTunnel. The policy is compared with the one the operator has made: their
  edits all stand and at most one grant is ours (`GrantIsCounted`). While the daemon runs, the adapter's
  memory says which (`GrantIsRemembered`: a remembered grant is there, an establish that succeeded without
  one, or has not saved yet, has added none), and `servedLocal` is the mapping (`MappingIsTracked`).
  A copy read is of an earlier version or is the policy (`ReadEarlier`), which is what makes an accepted
  write add or take one grant and no edit. `--off` reaches its end only past the grant (`OffClears`).
  Proved: types, `OperatorsPolicySurvives`, `CleanExitLeavesNothing`, `RemedyClears`.
- **SteerQueueProofs**. Each command is in one place, the queue, a drain or a request, in the order of the
  numbers, and in none once a session has it or it is cancelled (`Books`). A held command stays behind
  the cursor of its session while that is listed, so a drain sends it only when its session is not
  (`Held`): cursors only advance, and an answered poll
  lists every living session (`PollCovers`), so applying it drops no cursor still needed. What a drain
  has sent comes before what it is sending, and that before what waits (`InLine`). The filter keeps
  order and loses nothing because the ranks of the positions it picks are all of `1 .. n`, by a count
  of finite sets (`RanksAreAll`). Proved: types, `NothingStranded`, `FiredOnceNeverCancelled`,
  `HeldNeedsAYes`, `DrainKeepsOrder`.
- **PhonePageProofs**. What is painted is of the view because what it is painted from is: the list's
  question (`QuestionIsOfTheView`), the block of the stream (`BlockIsOfTheView`), the stream itself.
  For the stop control: one stop at a time (`OneStop`), an escalation is offered only of a refused
  session, and after a confirmed stop nothing is under way (`ConfirmedIsQuiet`). Proved: types,
  `ShownIsOfTheView`, `ForceIsConsented`, `StoppedStaysStopped`.

Only model-checked: the liveness properties (`SilentDropIsReaped`, `GhostIsReaped`,
`HeldPollIsResolved`, `QueuedIsSettled`, `SignalEndsDaemon`, `ClosedPtyIsReaped`, `OrphansGo`), since
liveness under fairness, which needs ENABLED, is out of the prover's reach. No module uses a RECURSIVE
operator, and no proof is by induction over data: where the code filters an array, the library's
`SelectSeq`, a recursive definition the provers cannot unfold, gives way to the operators above
(`Picked`, `NewerThan`), defined by the positions they keep.

## Not modelled

- **Session store and reconcile** (`session-store-file.ts`, `session-reconcile.ts`): nothing in the daemon
  calls `load()` or `save()` at this commit, and the reconcile at startup gets no recorded launches.
- **Attention delivery** (push, suppression, reminders, unread, wake): pure functions over state no caller
  keeps yet. The events they would deliver are raised in StatusFold.
- **Devices, pairing, certificate pinning**: file I/O and cryptography around small pure functions.
- **Wire codecs, diagnostics, logging, end-to-end harness**: conversions and I/O no property depends on.
- Of the page: the launch form, pairing, push registration, needs-you badges and rendering. Of the CLI:
  the verbs that are clients of the HTTP surface. Of the server: binding, routing and authentication.
- Of modelled components: labels and cardinality of an answer, credentials and the work-secret, bodies
  that are malformed or too large, the bytes of files, quoting and names of tmux windows.
