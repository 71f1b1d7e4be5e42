----------------------------- MODULE HookFiles -----------------------------
(* The directory the daemons of one user share for the AskUserQuestion hook:
   hook-settings-installer.ts writes a launch's settings there under the
   daemon's pid, ask-user-question-hook.ts (run inside the worker, which
   outlives the daemon) writes the captured question beside them, the launch
   and the close clean up through an in-memory map, and hook-install-sweep.ts
   collects at the next start what a dead daemon left.  Several daemons, a
   starting one among them, act on the directory at once, any of them may die
   between two steps, and a pid may come back, on a daemon or on a stranger.

   A file's content is left out: who wrote it, for which launch, and which of
   the two writers' forms its name has are what the sweep tells apart.        *)
EXTENDS FiniteSets, Naturals

CONSTANTS Pids,      \* the process ids daemons and other processes run under
          Launches,  \* the launch attempts, each with its own random token
          Nobody     \* no pid

ASSUME NobodyAssumption == Nobody \notin Pids

VARIABLES
  process,     \* who runs under each pid
  listing,     \* per starting daemon: the entries of its readdir not yet visited
  doomed,      \* per starting daemon: the entry judged an orphan, about to go
  files,       \* the entries of the shared directory
  aged,        \* those of them unmodified for LEGACY_HOOK_INSTALL_GRACE_MS
  owner,       \* the pid of the daemon that made the launch
  launch,      \* how far the launch is; "live" and "evicted" are in hookInstalls
  worker,      \* the launches whose worker process runs
  hooking      \* the launches whose hook is between its write and its rename

vars == <<process, listing, doomed, files, aged, owner, launch, worker, hooking>>

(* The names the two writers give.  The daemon's temporary keeps the stem of
   its target and so its owner; the hook's own has neither.                   *)
Owned(p, t, role) == [class |-> "owned", pid |-> p, token |-> t, role |-> role]
HookTemp(t) == [class |-> "hook-temp", pid |-> Nobody, token |-> t, role |-> "handoff"]
Legacy == [class |-> "legacy", pid |-> Nobody, token |-> Nobody, role |-> "settings"]

File == {Owned(p, t, role) : p \in Pids, t \in Launches, role \in {"settings", "settings.tmp", "handoff"}}
          \cup {HookTemp(t) : t \in Launches} \cup {Legacy}

Mine(t, role) == Owned(owner[t], t, role)

(* A file of before the owner stamp lies there.  One of neither writer's form
   is left alone by every step and is not modelled.                           *)
Init == /\ process = [p \in Pids |-> "none"]
        /\ listing = [p \in Pids |-> {}]
        /\ doomed = [p \in Pids |-> {}]
        /\ files = {Legacy}
        /\ aged = {}
        /\ owner = [t \in Launches |-> Nobody]
        /\ launch = [t \in Launches |-> "none"]
        /\ worker = {}
        /\ hooking = {}

----------------------------------------------------------------------------
(* A daemon starts: the sweep lists the directory once, before it listens.    *)
Start(p) == /\ process[p] = "none"
            /\ process' = [process EXCEPT ![p] = "starting"]
            /\ listing' = [listing EXCEPT ![p] = files]
            /\ UNCHANGED <<doomed, files, aged, owner, launch, worker, hooking>>

(* Signal 0: any process under the pid counts, a stranger's too.              *)
IsAlive(p) == process[p] # "none"

\* Mutant: the daemon's interrupted write is a name the sweep does not know.
ClassifyNoSuffix(f) == IF f.role = "settings.tmp" THEN "foreign" ELSE f.class

(* A class by name alone: a temporary of the daemon reads as its target does. *)
Classify(f) == f.class

\* Mutant: everything stamped goes.
ShouldReapEveryone(p, f) == \/ Classify(f) = "owned"
                            \/ Classify(f) \in {"legacy", "hook-temp"} /\ f \in aged
\* Mutant: the hook's temporaries are not aged.
ShouldReapYoung(p, f) == \/ Classify(f) = "owned" /\ (f.pid = p \/ ~IsAlive(f.pid))
                         \/ Classify(f) = "legacy" /\ f \in aged
                         \/ Classify(f) = "hook-temp"

ShouldReap(p, f) ==
  \/ /\ Classify(f) = "owned"
     /\ f.pid = p \/ ~IsAlive(f.pid)
  \/ /\ Classify(f) \in {"legacy", "hook-temp"}
     /\ f \in aged

Visit(p, f) ==
  /\ process[p] = "starting"
  /\ doomed[p] = {}
  /\ f \in listing[p]
  /\ listing' = [listing EXCEPT ![p] = @ \ {f}]
  /\ doomed' = [doomed EXCEPT ![p] = IF ShouldReap(p, f) THEN {f} ELSE {}]
  /\ UNCHANGED <<process, files, aged, owner, launch, worker, hooking>>

(* The pid was probed and the file aged a moment ago; the entry may be gone.  *)
Unlink(p) ==
  /\ doomed[p] # {}
  /\ files' = files \ doomed[p]
  /\ aged' = aged \ doomed[p]
  /\ doomed' = [doomed EXCEPT ![p] = {}]
  /\ UNCHANGED <<process, listing, owner, launch, worker, hooking>>

Swept(p) == process[p] = "starting" /\ listing[p] = {} /\ doomed[p] = {}

Listen(p) ==
  /\ Swept(p)
  /\ process' = [process EXCEPT ![p] = "serving"]
  /\ UNCHANGED <<listing, doomed, files, aged, owner, launch, worker, hooking>>

(* The process is gone: killed at any point, stopped, or refused its port after
   it has swept.  Its map goes with it and nothing is cleaned up on the way.   *)
Dies(p) ==
  /\ process[p] \in {"starting", "serving"}
  /\ process' = [process EXCEPT ![p] = "none"]
  /\ listing' = [listing EXCEPT ![p] = {}]
  /\ doomed' = [doomed EXCEPT ![p] = {}]
  /\ launch' = [t \in Launches |-> IF owner[t] = p THEN "lost" ELSE launch[t]]
  /\ UNCHANGED <<files, aged, owner, worker, hooking>>

(* A process that is no daemon takes a free pid, and leaves it.               *)
Stranger(p) ==
  /\ process[p] \in {"none", "stranger"}
  /\ process' = [process EXCEPT ![p] = IF @ = "none" THEN "stranger" ELSE "none"]
  /\ UNCHANGED <<listing, doomed, files, aged, owner, launch, worker, hooking>>

----------------------------------------------------------------------------
(* launchSession: the settings are written to a temporary and renamed.        *)
WriteSettings(p, t) ==
  /\ process[p] = "serving"
  /\ launch[t] = "none"
  /\ owner' = [owner EXCEPT ![t] = p]
  /\ launch' = [launch EXCEPT ![t] = "writing"]
  /\ files' = files \cup {Owned(p, t, "settings.tmp")}
  /\ UNCHANGED <<process, listing, doomed, aged, worker, hooking>>

RenameSettings(t) ==
  /\ launch[t] = "writing"
  /\ Mine(t, "settings.tmp") \in files
  /\ launch' = [launch EXCEPT ![t] = "launching"]
  /\ files' = (files \ {Mine(t, "settings.tmp")}) \cup {Mine(t, "settings")}
  /\ UNCHANGED <<process, listing, doomed, aged, owner, worker, hooking>>

(* The installer throws: the launch goes on with no hook and no record.       *)
InstallFails(t) ==
  /\ launch[t] = "writing"
  /\ launch' = [launch EXCEPT ![t] = "bare"]
  /\ UNCHANGED <<process, listing, doomed, files, aged, owner, worker, hooking>>

LaunchSucceeds(t) ==
  /\ launch[t] = "launching"
  /\ launch' = [launch EXCEPT ![t] = "live"]
  /\ worker' = worker \cup {t}
  /\ UNCHANGED <<process, listing, doomed, files, aged, owner, hooking>>

(* cleanupHookInstall, by the catch of a failed launch and by closeSession.   *)
Cleanup(t) ==
  /\ files' = files \ {Mine(t, "settings"), Mine(t, "handoff")}
  /\ launch' = [launch EXCEPT ![t] = "over"]
  /\ UNCHANGED <<process, listing, doomed, aged, owner, worker, hooking>>

LaunchFails(t) == launch[t] = "launching" /\ Cleanup(t)

Close(t) == launch[t] = "live" /\ Cleanup(t)

(* The registration timed out: the record stays in the map, and no session of
   its id will ever be closed.                                                *)
Evict(t) ==
  /\ launch[t] = "live"
  /\ launch' = [launch EXCEPT ![t] = "evicted"]
  /\ UNCHANGED <<process, listing, doomed, files, aged, owner, worker, hooking>>

(* reconcileHookHandoff: the capture is read once, and deleted.               *)
Consume(t) ==
  /\ launch[t] = "live"
  /\ Mine(t, "handoff") \in files
  /\ files' = files \ {Mine(t, "handoff")}
  /\ UNCHANGED <<process, listing, doomed, aged, owner, launch, worker, hooking>>

----------------------------------------------------------------------------
(* The hook: temporary, rename onto the path baked into its command line,
   whatever has become of the daemon or of the session since.                 *)
HookWrites(t) ==
  /\ t \in worker \ hooking
  /\ hooking' = hooking \cup {t}
  /\ files' = files \cup {HookTemp(t)}
  /\ UNCHANGED <<process, listing, doomed, aged, owner, launch, worker>>

HookRenames(t) ==
  /\ t \in hooking
  /\ hooking' = hooking \ {t}
  /\ \/ /\ HookTemp(t) \in files
        /\ files' = (files \ {HookTemp(t)}) \cup {Mine(t, "handoff")}
     \/ files' = files \ {HookTemp(t)}     \* the rename fails, and leaves no temporary
  /\ UNCHANGED <<process, listing, doomed, aged, owner, launch, worker>>

(* The worker process ends, the hook it runs with it.                         *)
WorkerEnds(t) ==
  /\ t \in worker
  /\ worker' = worker \ {t}
  /\ hooking' = hooking \ {t}
  /\ UNCHANGED <<process, listing, doomed, files, aged, owner, launch>>

(* A day passes over an unstamped file: no write is under way for that long.  *)
Ages(f) ==
  /\ f \in files \ aged
  /\ f \in {Legacy} \cup {HookTemp(t) : t \in Launches \ hooking}
  /\ aged' = aged \cup {f}
  /\ UNCHANGED <<process, listing, doomed, files, owner, launch, worker, hooking>>

Next == \/ \E p \in Pids : \/ Start(p) \/ Unlink(p) \/ Listen(p) \/ Dies(p) \/ Stranger(p)
                           \/ \E f \in File : Visit(p, f)
                           \/ \E t \in Launches : WriteSettings(p, t)
        \/ \E t \in Launches : \/ RenameSettings(t) \/ InstallFails(t)
                               \/ LaunchSucceeds(t) \/ LaunchFails(t)
                               \/ Close(t) \/ Evict(t) \/ Consume(t)
                               \/ HookWrites(t) \/ HookRenames(t) \/ WorkerEnds(t)
        \/ \E f \in File : Ages(f)

(* Time passes, and a hook, which writes one file and exits, ends; nobody
   promises that a daemon starts, lives or sweeps.                            *)
Spec == /\ Init /\ [][Next]_vars
        /\ \A f \in File : WF_vars(Ages(f))
        /\ \A t \in Launches : WF_vars(HookRenames(t))

----------------------------------------------------------------------------
TypeOK == /\ process \in [Pids -> {"none", "starting", "serving", "stranger"}]
          /\ listing \in [Pids -> SUBSET File]
          /\ doomed \in [Pids -> SUBSET File]
          /\ files \subseteq File
          /\ aged \subseteq File
          /\ owner \in [Launches -> Pids \cup {Nobody}]
          /\ launch \in [Launches -> {"none", "writing", "launching", "bare", "live",
                                      "evicted", "over", "lost"}]
          /\ worker \subseteq Launches
          /\ hooking \subseteq worker

(* A launch that is under way, or whose session lives, still has the settings
   its worker was pointed at, whoever sweeps: a daemon that starts beside the
   one that serves, or one under a pid a dead daemon had.                      *)
InstallStands == \A t \in Launches :
                   /\ launch[t] = "writing" => Mine(t, "settings.tmp") \in files
                   /\ launch[t] \in {"launching", "live"} => Mine(t, "settings") \in files

(* What a sweep deletes is an orphan by the time it goes: a file of a daemon
   that is no more, though its pid may be in use again, or an unstamped one
   that nobody is writing and that is a day old.  A captured question that its
   daemon has still to read is never swept.                                    *)
IsOrphan(f) == \/ f.class = "owned" /\ launch[f.token] = "lost"
               \/ f.class = "legacy" /\ f \in aged
               \/ f.class = "hook-temp" /\ f \in aged /\ f.token \notin hooking
SweepTakesOnlyOrphans ==
  [][\A p \in Pids : Unlink(p) => \A f \in files \ files' : IsOrphan(f)]_vars

(* No file is left for good: once a pid is free for good, whatever its daemons
   and their workers' hooks have left, interrupted writes included, goes, as
   long as daemons keep starting and getting through their sweep.              *)
SweepsRecur == []<><<\E p \in Pids : Listen(p)>>_vars
OrphansGo ==
  SweepsRecur =>
    \A f \in File :
      (f.pid \in Pids => <>[](process[f.pid] = "none")) => (f \in files ~> f \notin files)
============================================================================
