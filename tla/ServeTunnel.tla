------------------------------ MODULE ServeTunnel ------------------------------
(***************************************************************************)
(* One life of "ccctl serve --tunnel tailscale": the establish that puts a  *)
(* detached mapping into tailscaled and a grant into the operator's policy, *)
(* the signal that shuts the daemon down at any moment of it, the teardown  *)
(* within its budget, and "ccctl tunnel tailscale --off", the remedy.       *)
(*                                                                          *)
(* A command of the local CLI succeeds with its effect or fails without it. *)
(* The policy is written over the Internet: a write may land although its   *)
(* answer is lost.  The policy has an etag (version here), the number of    *)
(* grants equal to the declared one, the operator's other edits, and        *)
(* whether it has a grants key.  The operator edits it at any time.         *)
(***************************************************************************)
EXTENDS Integers

CONSTANTS
  Provisioning,   \* the operator has configured a grant to provision
  MaxEdits,       \* bound on the operator's edits
  MaxOffs         \* bound on the operator's uses of --off

ASSUME TunnelAssumption == Provisioning \in BOOLEAN /\ MaxEdits \in Nat /\ MaxOffs \in Nat

VARIABLES
  \* outside the process
  mapping,          \* tailscaled serves the endpoint
  policy,           \* the tailnet's policy
  \* the adapter instance of the daemon, or of --off after it
  servedLocal,
  provisionedGrant,
  createdGrantsKey,
  fetched,          \* the policy as the operation under way has read it
  \* the daemon
  establish,        \* where the establish stands: the step awaited, up or failed
  release,          \* the teardown under way: the step awaited, or none, done, failed
  releaser,         \* who runs it: the failed serve, the shutdown or --off
  server,           \* listening, closing or closed
  serve,            \* serve after a failed establish: running, closing, thrown
  shutdown,         \* none, closing, waiting, releasing, ended
  code,             \* the exit code the shutdown has earned so far
  exit,             \* the exit code, or running
  offs,             \* uses of --off
  \* history
  wanted            \* the policy the operator has made, our grant apart

outside == <<mapping, policy, wanted>>
adapter == <<servedLocal, provisionedGrant, createdGrantsKey, fetched>>
daemon == <<server, serve, shutdown, code, exit, offs>>
tunnelVars == <<outside, adapter, establish, release, releaser, daemon>>

TunnelInit ==
  /\ mapping = FALSE
  /\ \E ours \in {0, 1}, key \in BOOLEAN :
       /\ ours = 1 => key
       /\ policy = [version |-> 0, ours |-> ours, edits |-> 0, key |-> key]
  /\ wanted = policy
  /\ servedLocal = FALSE
  /\ provisionedGrant = FALSE
  /\ createdGrantsKey = FALSE
  /\ fetched = policy
  /\ establish = "serve"
  /\ release = "none"
  /\ releaser = "none"
  /\ server = "listening"
  /\ serve = "running"
  /\ shutdown = "none"
  /\ code = 0
  /\ exit = "running"
  /\ offs = 0

Running == exit = "running"

-----------------------------------------------------------------------------
\* The operator edits the policy by hand: a rule of their own, or a grant that
\* happens to be equal to the declared one.

OperatorEdits ==
  /\ wanted.edits < MaxEdits
  /\ policy' = [policy EXCEPT !.version = @ + 1, !.edits = @ + 1]
  /\ wanted' = [wanted EXCEPT !.edits = @ + 1]
  /\ UNCHANGED <<mapping, adapter, establish, release, releaser, daemon>>

OperatorGrants ==
  /\ wanted.ours = 0
  /\ policy' = [policy EXCEPT !.version = @ + 1, !.ours = @ + 1, !.key = TRUE]
  /\ wanted' = [wanted EXCEPT !.ours = 1, !.key = TRUE]
  /\ UNCHANGED <<mapping, adapter, establish, release, releaser, daemon>>

-----------------------------------------------------------------------------
\* savePolicy and fetchPolicy.

\* Mutant: the write carries no etag.
AcceptedUnguarded(next) == [next EXCEPT !.version = policy.version + 1]

\* The policy after a write that lands: If-Match refuses one read too early.  The read
\* is taken to report an etag; if it reports none the write is sent without If-Match
\* and lands on whatever is there.
Accepted(next) ==
  IF fetched.version = policy.version THEN [next EXCEPT !.version = @ + 1] ELSE policy

Lands(next) == Accepted(next).version # policy.version

\* What provisioning writes, and what reverting it does.
Granted == [fetched EXCEPT !.ours = @ + 1, !.key = TRUE]
Reverted ==
  [fetched EXCEPT !.ours = @ - 1,
                  !.key = IF createdGrantsKey /\ fetched.ours = 1 THEN FALSE ELSE @]

-----------------------------------------------------------------------------
\* The establish of the daemon, and serve around it.  What follows each await of
\* establish is read off the step it awaited.

\* establish rejects: serve releases the half-up tunnel before it closes the server.
EstablishFails ==
  /\ establish' = "failed"
  /\ releaser' = "serve"
  /\ release' = IF servedLocal' THEN "off" ELSE "done"

EstablishServe(ok) ==
  /\ Running /\ establish = "serve"
  /\ IF ok
       THEN /\ mapping' = TRUE /\ servedLocal' = TRUE
            /\ establish' = "status"
            /\ UNCHANGED <<release, releaser>>
       ELSE UNCHANGED <<mapping, servedLocal>> /\ EstablishFails
  /\ UNCHANGED <<policy, wanted, provisionedGrant, createdGrantsKey, fetched, daemon>>

\* Not an authenticated member of a tailnet, or without a host there: it fails.
EstablishStatus(ok) ==
  /\ Running /\ establish = "status"
  /\ UNCHANGED servedLocal
  /\ IF ok
       THEN /\ establish' = IF Provisioning THEN "fetch" ELSE "up"
            /\ UNCHANGED <<release, releaser>>
       ELSE EstablishFails
  /\ UNCHANGED <<outside, provisionedGrant, createdGrantsKey, fetched, daemon>>

\* A grant equal to ours is already there: nothing to write, and not ours to revert.
AlreadyGranted == establish' = "up" /\ UNCHANGED provisionedGrant

EstablishFetch(ok) ==
  /\ Running /\ establish = "fetch"
  /\ UNCHANGED servedLocal
  /\ IF ok
       THEN /\ fetched' = policy
            /\ IF policy.ours > 0 THEN AlreadyGranted
               ELSE establish' = "save" /\ UNCHANGED provisionedGrant
            /\ UNCHANGED <<release, releaser>>
       ELSE UNCHANGED <<fetched, provisionedGrant>> /\ EstablishFails
  /\ UNCHANGED <<outside, createdGrantsKey, daemon>>

\* The grant is recorded only once its write is known to have landed.
EstablishSave(lands, answered) ==
  /\ Running /\ establish = "save"
  /\ lands => Lands(Granted)
  /\ policy' = IF lands THEN Accepted(Granted) ELSE policy
  /\ UNCHANGED servedLocal
  /\ IF lands /\ answered
       THEN /\ provisionedGrant' = TRUE
            /\ createdGrantsKey' = ~fetched.key
            /\ establish' = "up"
            /\ UNCHANGED <<release, releaser>>
       ELSE UNCHANGED <<provisionedGrant, createdGrantsKey>> /\ EstablishFails
  /\ UNCHANGED <<mapping, wanted, fetched, daemon>>

\* closeFailedServe, once the release is over, whatever became of it; a close that
\* is refused is reported, and the error of the establish is thrown.
CloseFailedServe ==
  /\ Running /\ establish = "failed" /\ serve = "running"
  /\ releaser = "serve" /\ release \in {"done", "failed"}
  /\ IF server = "listening"
       THEN server' = "closing" /\ serve' = "closing"
       ELSE UNCHANGED server /\ serve' = "thrown"
  /\ UNCHANGED <<outside, adapter, establish, release, releaser, shutdown, code, exit, offs>>

\* The server's close settles; whoever awaits it goes on.
ServerClosed ==
  /\ Running /\ server = "closing"
  /\ server' = "closed"
  /\ serve' = IF serve = "closing" THEN "thrown" ELSE serve
  /\ UNCHANGED <<outside, adapter, establish, release, releaser, shutdown, code, exit, offs>>

-----------------------------------------------------------------------------
\* The teardown of the adapter, whoever runs it: the grant first, then the mapping.

TeardownStarts(grant, served) ==
  release' = IF grant /\ Provisioning THEN "fetch" ELSE IF served THEN "off" ELSE "done"

AfterRevert == release' = IF servedLocal THEN "off" ELSE "done"

Releasing == IF releaser = "off" THEN ~Running ELSE Running

TeardownFetch(ok) ==
  /\ Releasing /\ release = "fetch"
  /\ IF ~ok THEN release' = "failed" /\ UNCHANGED <<fetched, provisionedGrant, createdGrantsKey>>
     ELSE /\ fetched' = policy
          /\ IF policy.ours > 0
               THEN release' = "save" /\ UNCHANGED <<provisionedGrant, createdGrantsKey>>
               ELSE provisionedGrant' = FALSE /\ createdGrantsKey' = FALSE /\ AfterRevert
  /\ UNCHANGED <<outside, servedLocal, establish, releaser, daemon>>

TeardownSave(lands, answered) ==
  /\ Releasing /\ release = "save"
  /\ lands => Lands(Reverted)
  /\ policy' = IF lands THEN Accepted(Reverted) ELSE policy
  /\ IF lands /\ answered
       THEN provisionedGrant' = FALSE /\ createdGrantsKey' = FALSE /\ AfterRevert
       ELSE release' = "failed" /\ UNCHANGED <<provisionedGrant, createdGrantsKey>>
  /\ UNCHANGED <<mapping, wanted, servedLocal, fetched, establish, releaser, daemon>>

TeardownOff(ok) ==
  /\ Releasing /\ release = "off"
  /\ IF ok THEN mapping' = FALSE /\ servedLocal' = FALSE /\ release' = "done"
     ELSE release' = "failed" /\ UNCHANGED <<mapping, servedLocal>>
  /\ UNCHANGED <<policy, wanted, provisionedGrant, createdGrantsKey, fetched, establish, releaser, daemon>>

-----------------------------------------------------------------------------
\* The shutdown.

\* The first SIGTERM or SIGINT.  A server that no longer listens refuses the close.
Signal ==
  /\ Running /\ shutdown = "none"
  /\ shutdown' = "closing"
  /\ IF server = "listening" THEN server' = "closing" /\ UNCHANGED code
     ELSE UNCHANGED server /\ code' = 1
  /\ UNCHANGED <<outside, adapter, establish, release, releaser, serve, exit, offs>>

Establishing == establish \notin {"up", "failed"} \/ (establish = "failed" /\ serve # "thrown")

\* Mutant: the thunk answers only the tunnel that is up.
ResolveTunnelNow ==
  IF establish = "up"
    THEN shutdown' = "releasing" /\ releaser' = "shutdown" /\ TeardownStarts(provisionedGrant, servedLocal)
    ELSE shutdown' = "ended" /\ UNCHANGED <<releaser, release>>

\* The thunk, once the close is over: the tunnel that is up, a releaser that waits
\* for the establish in flight, or nothing.
ResolveTunnel ==
  IF establish = "up"
    THEN shutdown' = "releasing" /\ releaser' = "shutdown" /\ TeardownStarts(provisionedGrant, servedLocal)
    ELSE /\ shutdown' = IF Establishing THEN "waiting" ELSE "ended"
         /\ UNCHANGED <<releaser, release>>

ShutdownResolves ==
  /\ Running /\ shutdown = "closing"
  /\ server = "closed" \/ code = 1
  /\ ResolveTunnel
  /\ UNCHANGED <<outside, adapter, establish, server, serve, code, exit, offs>>

\* The establish has settled: what it landed is torn down, and nothing if it failed,
\* for serve releases that itself.
WaitIsOver ==
  /\ Running /\ shutdown = "waiting"
  /\ \/ /\ establish = "up"
        /\ shutdown' = "releasing" /\ releaser' = "shutdown" /\ TeardownStarts(provisionedGrant, servedLocal)
     \/ /\ establish = "failed"
        /\ shutdown' = "ended" /\ UNCHANGED <<releaser, release>>
  /\ UNCHANGED <<outside, adapter, establish, server, serve, code, exit, offs>>

ReleaseIsOver ==
  /\ Running /\ shutdown = "releasing"
  /\ release \in {"done", "failed"}
  /\ code' = IF release = "failed" THEN 1 ELSE code
  /\ shutdown' = "ended"
  /\ UNCHANGED <<outside, adapter, establish, release, releaser, server, serve, exit, offs>>

\* Mutant: the budget covers the teardown, not the wait before it.
BudgetOfRelease == shutdown = "releasing"

\* What the budget of the release covers: the whole releaser.
InBudget == shutdown \in {"waiting", "releasing"}

BudgetRunsOut ==
  /\ Running /\ InBudget
  /\ code' = 1
  /\ shutdown' = "ended"
  /\ UNCHANGED <<outside, adapter, establish, release, releaser, server, serve, exit, offs>>

\* The process ends with an operation under way, which has its effect at once or not
\* at all: one that takes effect later, while --off runs or after it, is not modelled.
Exits(status) ==
  /\ exit' = status
  /\ \/ UNCHANGED <<mapping, policy>>
     \/ establish = "serve" /\ mapping' = TRUE /\ UNCHANGED policy
     \/ release = "off" /\ mapping' = FALSE /\ UNCHANGED policy
     \/ establish = "save" /\ policy' = Accepted(Granted) /\ UNCHANGED mapping
     \/ release = "save" /\ policy' = Accepted(Reverted) /\ UNCHANGED mapping
  /\ UNCHANGED <<wanted, adapter, establish, release, releaser, server, serve, shutdown, code, offs>>

ShutdownExits == Running /\ shutdown = "ended" /\ Exits(IF code = 0 THEN "clean" ELSE "failed")

\* A second signal while the shutdown is under way.
SecondSignal == Running /\ shutdown # "none" /\ Exits("failed")

\* serve has thrown and nothing holds the process open any more.
ThrownExits == Running /\ serve = "thrown" /\ shutdown = "none" /\ server = "closed" /\ Exits("failed")

-----------------------------------------------------------------------------
\* ccctl tunnel tailscale --off, after the daemon.

\* Mutant: adopt claims the mapping only.
AdoptMapping == servedLocal' = TRUE /\ provisionedGrant' = FALSE /\ createdGrantsKey' = FALSE

\* adopt: the mapping and the declared grant are claimed, the grants key is not.
Adopt == servedLocal' = TRUE /\ provisionedGrant' = Provisioning /\ createdGrantsKey' = FALSE

TearDownAndReport ==
  /\ ~Running
  /\ offs < MaxOffs
  /\ releaser = "off" => release \in {"done", "failed"}
  /\ offs' = offs + 1
  /\ Adopt
  /\ releaser' = "off"
  /\ TeardownStarts(provisionedGrant', servedLocal')
  /\ UNCHANGED <<outside, fetched, establish, server, serve, shutdown, code, exit>>

TunnelNext ==
  \/ OperatorEdits \/ OperatorGrants \/ CloseFailedServe \/ ServerClosed
  \/ Signal \/ ShutdownResolves \/ WaitIsOver \/ ReleaseIsOver \/ BudgetRunsOut
  \/ ShutdownExits \/ SecondSignal \/ ThrownExits \/ TearDownAndReport
  \/ \E ok \in BOOLEAN : EstablishServe(ok) \/ EstablishStatus(ok) \/ EstablishFetch(ok)
                         \/ TeardownFetch(ok) \/ TeardownOff(ok)
  \/ \E lands, answered \in BOOLEAN : EstablishSave(lands, answered) \/ TeardownSave(lands, answered)

\* The closes settle, the budget is a timer and the rest is the process going on; no
\* command and no request over the Internet is taken to answer.
TunnelFairness ==
  /\ WF_tunnelVars(ServerClosed) /\ WF_tunnelVars(ShutdownResolves) /\ WF_tunnelVars(BudgetRunsOut)
  /\ WF_tunnelVars(ReleaseIsOver) /\ WF_tunnelVars(ShutdownExits)

TunnelSpec == TunnelInit /\ [][TunnelNext]_tunnelVars /\ TunnelFairness

-----------------------------------------------------------------------------
\* The operator's policy survives: none of their edits is lost to a write of the
\* adapter's, and until --off claims it, a grant of their own that equals the
\* declared one is never removed.
OperatorsPolicySurvives ==
  /\ policy.edits = wanted.edits
  /\ offs = 0 => policy.ours >= wanted.ours

\* A shutdown that exits cleanly, at whatever moment of the establish its signal
\* came, leaves neither mapping nor grant behind and the policy as the operator made
\* it; an establish that failed is serve's to release.
CleanExitLeavesNothing ==
  exit = "clean" /\ establish # "failed" /\ offs = 0 =>
    /\ ~mapping
    /\ policy.ours = wanted.ours /\ policy.key = wanted.key

\* However the daemon ended, --off that succeeds leaves no mapping and no grant of
\* the adapter's.
RemedyClears ==
  ~Running /\ releaser = "off" /\ release = "done" => ~mapping /\ policy.ours <= wanted.ours

\* A signal ends the daemon, whatever the tunnel's commands and requests do.
SignalEndsDaemon == shutdown # "none" ~> ~Running

\* "A rejected establish cannot have left [a grant]: provisioning is its last
\* fallible step and records only after its write succeeds."
FailedEstablishLeavesNoGrant ==
  establish = "failed" /\ releaser = "serve" /\ release = "done" => policy.ours <= wanted.ours
=============================================================================
