------------------------- MODULE LaunchRegistryProofs -------------------------
(***************************************************************************)
(* The invariants of LaunchRegistry for any set of ids and places and any  *)
(* cap.  What the runs check rests on three facts about an id: one not yet *)
(* born has left no trace (NewIsBlank), one being released is not pending  *)
(* any more (ReleasedIsOver), and one a stop has closed stays closed       *)
(* (ConfirmedIsDown).                                                      *)
(***************************************************************************)
EXTENDS LaunchRegistry, FiniteSetTheorems, TLAPS

\* An id that is not in the registry yet has no record, no terminal, no worker.
NewIsBlank ==
  /\ \A s \in Ids : row[s] = "unborn" =>
       /\ s \notin pending /\ s \notin held
       /\ releasing[s] = "no" /\ stop[s] = "no"
       /\ surface[s] = "none" /\ runsAs[s] = None
  /\ \A s \in reserved : row[s] = "unborn"

\* A release is under way only of a launch whose record is consumed, and while
\* the server is up only of one that timed out with no worker of its own.
ReleasedIsOver ==
  \A s \in Ids : releasing[s] # "no" =>
    /\ s \notin pending
    /\ ~closing /\ ~LateWorkers => s \in timedOut /\ runsAs[s] = None

\* A close that resolved has closed the terminal, if closes are to be relied on.
ConfirmedIsDown ==
  ReliableClose => \A s \in Ids : stop[s] = "confirming" => surface[s] \notin Alive

IInv ==
  /\ TypeOK /\ NewIsBlank
  /\ RegistriesAgree /\ RegisteredIsMarked /\ SiblingsAreAmbiguous
  /\ ReleasedIsOver /\ ConfirmedIsDown

\* Nothing has been launched.
LEMMA InvInit == Init => IInv
<1> SUFFICES ASSUME Init PROVE IInv
  OBVIOUS
<1>1. TypeOK
  BY RegistryAssumption DEF Init, TypeOK, Rows, Surfaces
<1>2. NewIsBlank /\ RegistriesAgree /\ RegisteredIsMarked /\ SiblingsAreAmbiguous
  BY DEF Init, NewIsBlank, RegistriesAgree, RegisteredIsMarked, SiblingsAreAmbiguous
<1>3. ReleasedIsOver /\ ConfirmedIsDown
  BY DEF Init, ReleasedIsOver, ConfirmedIsDown
<1> QED BY <1>1, <1>2, <1>3 DEF IInv

\* Only ids are counted, so every count is a number.
LEMMA Counts ==
  ASSUME NEW S \in SUBSET Ids
  PROVE  IsFiniteSet(S) /\ Cardinality(S) \in Nat
BY RegistryAssumption, FS_Subset, FS_CardinalityType

\* A launch comes up: a row, a record and a terminal under an id not used before.
LEMMA TrackStep ==
  ASSUME IInv, NEW s \in Ids, NEW p \in Places, TrackPendingLaunch(s, p)
  PROVE  IInv'
<1> USE DEF TrackPendingLaunch, asyncVars
<1>1. /\ row[s] = "unborn" /\ s \notin pending /\ s \notin held /\ releasing[s] = "no"
      /\ stop[s] = "no" /\ surface[s] = "none" /\ runsAs[s] = None
  BY DEF IInv, NewIsBlank
<1>2. TypeOK'
  <2>1. Cardinality({t \in Ids : surface[t] # "none"}) \in Nat
    BY Counts
  <2>2. ambiguous' \in SUBSET Ids
    BY DEF IInv, TypeOK, Group
  <2> QED BY <2>1, <2>2 DEF IInv, TypeOK, Rows, Surfaces, Alive
<1>3. NewIsBlank'
  BY <1>1 DEF IInv, TypeOK, NewIsBlank
<1>4. RegistriesAgree'
  BY <1>1 DEF IInv, TypeOK, RegistriesAgree
<1>5. RegisteredIsMarked'
  BY <1>1 DEF IInv, RegisteredIsMarked
<1>6. SiblingsAreAmbiguous'
  BY <1>1 DEF IInv, TypeOK, SiblingsAreAmbiguous, Group
<1>7. ReleasedIsOver' /\ ConfirmedIsDown'
  BY <1>1 DEF IInv, TypeOK, ReleasedIsOver, ConfirmedIsDown
<1> QED BY <1>2, <1>3, <1>4, <1>5, <1>6, <1>7 DEF IInv

\* What a registration from p does to the records of the launches at p, and to
\* the rows: the record it consumes is not the one of a launch left unmarked.
LEMMA RegistrationFacts ==
  ASSUME IInv, NEW p \in Places \cup {None}, NEW id \in Ids, HandleSessionCreate(p, id)
  PROVE  /\ row' \in [Ids -> Rows] /\ row'[id] = "connecting"
         /\ \A s \in Ids : \/ row'[s] = row[s] /\ (s \in pending' <=> s \in pending)
                           \/ s \notin pending' /\ row'[s] \in {"connecting", "gone"}
         /\ pending' \subseteq pending
         /\ mayHold \subseteq mayHold' /\ mayHold' \in SUBSET Ids
         /\ Group(p) \cap pending' \subseteq mayHold'
<1> USE DEF IInv, TypeOK, Rows, HandleSessionCreate
<1>1. CASE RegisterAttached(p, id)
  BY <1>1 DEF RegisterAttached, Fresh, NewIsBlank
<1>2. CASE RegisterClaimed(p, id)
  <2>1. id \in pending /\ place[id] = p /\ id \notin ambiguous
    BY <1>2 DEF RegisterClaimed, Oldest, Group
  <2>2. Group(p) = {id}
    BY <2>1 DEF Group, SiblingsAreAmbiguous
  <2> QED BY <1>2, <2>1, <2>2 DEF RegisterClaimed
<1>3. CASE RegisterAmbiguous(p, id)
  <2>1. PICK s \in Group(p) :
          /\ row' = [row EXCEPT ![s] = "gone", ![id] = "connecting"]
          /\ pending' = pending \ {s}
          /\ mayHold' = mayHold \cup (Group(p) \ {s})
    BY <1>3 DEF RegisterAmbiguous, Oldest
  <2>2. s \in Ids /\ s \in pending /\ row[id] = "unborn" /\ id \notin pending /\ s # id
    BY <1>3, <2>1 DEF RegisterAmbiguous, Fresh, NewIsBlank, Group
  <2> QED BY <2>1, <2>2 DEF Group
<1> QED BY <1>1, <1>2, <1>3

\* A registration keeps the invariant, and marks its own launch if it must.
LEMMA RegisterStep ==
  ASSUME IInv, NEW p \in Places \cup {None}, NEW id \in Ids, HandleSessionCreate(p, id),
         \/ UNCHANGED runsAs
         \/ \E t \in Ids : /\ place[t] = p /\ surface[t] \in Alive /\ InWindow(t)
                           /\ runsAs' = [runsAs EXCEPT ![t] = id]
  PROVE  IInv'
<1>1. /\ UNCHANGED <<reserved, place, rank, ambiguous, held, hooks, releasing, stop, blind, closing, surface,
                    timedOut>>
      /\ row' \in [Ids -> Rows] /\ row'[id] = "connecting"
      /\ \A s \in Ids : \/ row'[s] = row[s] /\ (s \in pending' <=> s \in pending)
                        \/ s \notin pending' /\ row'[s] \in {"connecting", "gone"}
      /\ pending' \subseteq pending
      /\ mayHold \subseteq mayHold' /\ mayHold' \in SUBSET Ids
      /\ Group(p) \cap pending' \subseteq mayHold'
  BY RegistrationFacts DEF HandleSessionCreate, asyncVars
<1>2. TypeOK'
  BY <1>1 DEF IInv, TypeOK
<1>3. \A s \in reserved : row'[s] = "unborn"
  <2> SUFFICES ASSUME NEW s \in reserved PROVE row'[s] = "unborn"
    OBVIOUS
  <2>1. row[s] = "unborn" /\ s \notin pending
    BY DEF IInv, NewIsBlank, TypeOK
  <2> QED BY <2>1 DEF HandleSessionCreate, RegisterAttached, RegisterClaimed, RegisterAmbiguous, Fresh, Oldest,
         Group, IInv, TypeOK
<1>4. NewIsBlank'
  BY <1>1, <1>3 DEF IInv, TypeOK, NewIsBlank, Alive
<1>5. RegistriesAgree'
  BY <1>1 DEF IInv, TypeOK, RegistriesAgree
<1>6. RegisteredIsMarked'
  BY <1>1 DEF IInv, TypeOK, RegisteredIsMarked, Group
<1>7. SiblingsAreAmbiguous'
  BY <1>1 DEF IInv, SiblingsAreAmbiguous
<1>8. ReleasedIsOver'
  <2> SUFFICES ASSUME NEW s \in Ids, releasing[s] # "no"
               PROVE  /\ s \notin pending'
                      /\ ~closing /\ ~LateWorkers => s \in timedOut /\ runsAs'[s] = None
    BY <1>1 DEF ReleasedIsOver
  <2>1. /\ s \notin pending
        /\ ~closing /\ ~LateWorkers => s \in timedOut /\ runsAs[s] = None
    BY DEF IInv, ReleasedIsOver
  <2>2. ~closing /\ ~LateWorkers => ~InWindow(s)
    BY <2>1 DEF InWindow, IInv, TypeOK
  <2> QED BY <1>1, <2>1, <2>2 DEF IInv, TypeOK
<1>9. ConfirmedIsDown'
  BY <1>1 DEF IInv, ConfirmedIsDown
<1> QED BY <1>2, <1>4, <1>5, <1>6, <1>7, <1>8, <1>9 DEF IInv

\* The other steps of a launch and of the session it became.
LEMMA SmallStep ==
  ASSUME IInv, NEW s \in Ids, LaunchSession(s) \/ LaunchFails(s) \/ SessionEnds(s)
  PROVE  IInv'
<1> USE DEF LaunchSession, LaunchFails, SessionEnds, asyncVars, pendingVars, terminalVars
<1>1. TypeOK'
  BY DEF IInv, TypeOK, Rows, Fresh
<1>2. NewIsBlank' /\ RegistriesAgree'
  BY DEF IInv, TypeOK, NewIsBlank, RegistriesAgree, Fresh
<1>3. RegisteredIsMarked' /\ SiblingsAreAmbiguous' /\ ReleasedIsOver' /\ ConfirmedIsDown'
  BY DEF IInv, RegisteredIsMarked, SiblingsAreAmbiguous, ReleasedIsOver, ConfirmedIsDown
<1> QED BY <1>1, <1>2, <1>3 DEF IInv

\* A terminal that is moved or closed by hand was there, and one that is down
\* stays down.
LEMMA SurfaceStep ==
  ASSUME IInv, NEW s \in Ids, SurfaceMoves(s)
  PROVE  IInv'
<1> USE DEF SurfaceMoves, asyncVars, pendingVars
<1>1. TypeOK'
  BY DEF IInv, TypeOK, Surfaces, Alive
<1>2. NewIsBlank'
  BY DEF IInv, TypeOK, NewIsBlank, Alive
<1>3. RegistriesAgree' /\ RegisteredIsMarked' /\ SiblingsAreAmbiguous' /\ ReleasedIsOver'
  BY DEF IInv, RegistriesAgree, RegisteredIsMarked, SiblingsAreAmbiguous, ReleasedIsOver
<1>4. ConfirmedIsDown'
  BY DEF IInv, TypeOK, ConfirmedIsDown
<1> QED BY <1>1, <1>2, <1>3, <1>4 DEF IInv

\* The release: a record that timed out, its reading and its close.
LEMMA ReleaseStep ==
  ASSUME IInv, NEW s \in Ids, EvictPendingLaunch(s) \/ ReleaseProbes(s) \/ ReleaseCloses(s)
  PROVE  IInv'
<1> USE DEF pendingVars, terminalVars
<1>1. CASE EvictPendingLaunch(s)
  <2> USE <1>1 DEF EvictPendingLaunch
  <2>1. TypeOK'
    BY DEF IInv, TypeOK, Rows
  <2>2. NewIsBlank' /\ RegistriesAgree'
    BY DEF IInv, TypeOK, NewIsBlank, RegistriesAgree
  <2>3. RegisteredIsMarked' /\ SiblingsAreAmbiguous' /\ ConfirmedIsDown'
    BY DEF IInv, RegisteredIsMarked, SiblingsAreAmbiguous, ConfirmedIsDown
  <2>4. ReleasedIsOver'
    BY DEF IInv, TypeOK, ReleasedIsOver, RegisteredIsMarked
  <2> QED BY <2>1, <2>2, <2>3, <2>4 DEF IInv
<1>2. CASE ReleaseProbes(s)
  <2> USE <1>2 DEF ReleaseProbes
  <2>1. TypeOK'
    BY DEF IInv, TypeOK
  <2>0. s \notin pending /\ row[s] # "unborn" /\ (held' = held \/ held' = held \ {s})
    BY DEF IInv, NewIsBlank, ReleasedIsOver
  <2>5. UNCHANGED <<row, reserved, pending, closing, stop, surface, runsAs>>
    OBVIOUS
  <2>6. RegistriesAgree'
    BY <2>0, <2>5 DEF IInv, RegistriesAgree
  <2>7. \A t \in Ids \ {s} : releasing'[t] = releasing[t]
    BY DEF IInv, TypeOK
  <2>2. NewIsBlank' /\ RegistriesAgree'
    BY <2>0, <2>5, <2>6, <2>7 DEF IInv, NewIsBlank
  <2>3. RegisteredIsMarked' /\ SiblingsAreAmbiguous' /\ ConfirmedIsDown'
    BY DEF IInv, RegisteredIsMarked, SiblingsAreAmbiguous, ConfirmedIsDown
  <2>4. ReleasedIsOver'
    BY DEF IInv, TypeOK, ReleasedIsOver
  <2> QED BY <2>1, <2>2, <2>3, <2>4 DEF IInv
<1>3. CASE ReleaseCloses(s)
  <2> USE <1>3 DEF ReleaseCloses
  <2>0. PICK after \in AfterClose(s, "reaped") : surface' = [surface EXCEPT ![s] = after]
    OBVIOUS
  <2>1. /\ after \in {"reaped", surface[s]}
        /\ after = "reaped" => surface[s] \in Alive \/ after = surface[s]
        /\ after \in Alive => after = surface[s]
    BY DEF AfterClose, Alive
  <2>2. TypeOK'
    BY <2>0, <2>1 DEF IInv, TypeOK, Surfaces
  <2>3. NewIsBlank' /\ RegistriesAgree'
    BY <2>0, <2>1 DEF IInv, TypeOK, NewIsBlank, RegistriesAgree, ReleasedIsOver
  <2>4. RegisteredIsMarked' /\ SiblingsAreAmbiguous' /\ ReleasedIsOver'
    BY DEF IInv, TypeOK, RegisteredIsMarked, SiblingsAreAmbiguous, ReleasedIsOver
  <2>5. ConfirmedIsDown'
    BY <2>0, <2>1 DEF IInv, TypeOK, ConfirmedIsDown, Alive
  <2> QED BY <2>2, <2>3, <2>4, <2>5 DEF IInv
<1> QED BY <1>1, <1>2, <1>3

\* Shutdown forgets the records and starts a release of every terminal it holds.
LEMMA ShutdownStep ==
  ASSUME IInv, ReleaseLaunchedSessions
  PROVE  IInv'
<1> USE DEF ReleaseLaunchedSessions, terminalVars
<1>1. TypeOK'
  BY DEF IInv, TypeOK
<1>2. NewIsBlank' /\ RegistriesAgree'
  BY DEF IInv, TypeOK, NewIsBlank, RegistriesAgree
<1>3. RegisteredIsMarked' /\ SiblingsAreAmbiguous' /\ ReleasedIsOver' /\ ConfirmedIsDown'
  BY DEF IInv, TypeOK, RegisteredIsMarked, SiblingsAreAmbiguous, ReleasedIsOver, ConfirmedIsDown
<1> QED BY <1>1, <1>2, <1>3 DEF IInv

\* What the ends of a stop do to the registries.
LEMMA RetireFacts ==
  ASSUME IInv, NEW s \in Ids, Retire(s) \/ Refuse(s), UNCHANGED stopFrame,
         UNCHANGED surface \/ surface' \in {surface, [surface EXCEPT ![s] = IF @ \in Alive THEN "stopped" ELSE @]},
         stop[s] # "no"
  PROVE  IInv'
<1> USE DEF Retire, Refuse, stopFrame
<1>0. row[s] # "unborn"
  BY DEF IInv, NewIsBlank
<1>1. TypeOK'
  BY DEF IInv, TypeOK, Rows, Surfaces, Alive
<1>2. NewIsBlank'
  BY <1>0 DEF IInv, TypeOK, NewIsBlank
<1>3. RegistriesAgree'
  BY DEF IInv, TypeOK, RegistriesAgree, Listed
<1>4. RegisteredIsMarked' /\ SiblingsAreAmbiguous' /\ ReleasedIsOver'
  BY DEF IInv, RegisteredIsMarked, SiblingsAreAmbiguous, ReleasedIsOver
<1>5. ConfirmedIsDown'
  BY DEF IInv, TypeOK, ConfirmedIsDown, Alive
<1> QED BY <1>1, <1>2, <1>3, <1>4, <1>5 DEF IInv

\* The stop, from its first refusals to its confirmation.
LEMMA StopStep ==
  ASSUME IInv, NEW s \in Ids, NEW force \in BOOLEAN,
         BeginStop(s, force) \/ StopProbes(s) \/ StopCloses(s) \/ StopCloseFails(s) \/ StopConfirms(s)
  PROVE  IInv'
<1>1. CASE BeginStop(s, force)
  <2> USE <1>1 DEF BeginStop, pendingVars, terminalVars
  <2>1. TypeOK' /\ NewIsBlank'
    BY DEF IInv, TypeOK, NewIsBlank, Listed
  <2>2. RegistriesAgree' /\ RegisteredIsMarked' /\ SiblingsAreAmbiguous' /\ ReleasedIsOver'
    BY DEF IInv, RegistriesAgree, RegisteredIsMarked, SiblingsAreAmbiguous, ReleasedIsOver
  <2>3. ConfirmedIsDown'
    BY DEF IInv, TypeOK, ConfirmedIsDown
  <2> QED BY <2>1, <2>2, <2>3 DEF IInv
<1>2. CASE StopProbes(s)
  <2>1. CASE Retire(s) \/ Refuse(s)
    BY <1>2, <2>1, RetireFacts DEF StopProbes
  <2>2. CASE /\ stop' = [stop EXCEPT ![s] = "tearing"]
             /\ blind' \in {blind, blind \cup {s}}
             /\ UNCHANGED <<held, pending, row, hooks>>
    <3> USE <1>2, <2>2 DEF StopProbes, stopFrame
    <3>1. TypeOK' /\ NewIsBlank'
      BY DEF IInv, TypeOK, NewIsBlank
    <3>2. RegistriesAgree' /\ RegisteredIsMarked' /\ SiblingsAreAmbiguous' /\ ReleasedIsOver'
      BY DEF IInv, RegistriesAgree, RegisteredIsMarked, SiblingsAreAmbiguous, ReleasedIsOver
    <3>3. ConfirmedIsDown'
      BY DEF IInv, TypeOK, ConfirmedIsDown
    <3> QED BY <3>1, <3>2, <3>3 DEF IInv
  <2> QED BY <1>2, <2>1, <2>2 DEF StopProbes
<1>3. CASE StopCloses(s)
  <2> USE <1>3 DEF StopCloses, stopFrame
  <2>0. PICK after \in AfterClose(s, "stopped") : surface' = [surface EXCEPT ![s] = after]
    OBVIOUS
  <2>1. /\ after \in {"stopped", surface[s]}
        /\ ReliableClose => after \notin Alive
        /\ after = "stopped" => surface[s] \in Alive \/ after = surface[s]
    BY DEF AfterClose, Alive
  <2>2. TypeOK' /\ NewIsBlank'
    BY <2>0, <2>1 DEF IInv, TypeOK, NewIsBlank, Surfaces, Alive
  <2>3. RegistriesAgree' /\ RegisteredIsMarked' /\ SiblingsAreAmbiguous' /\ ReleasedIsOver'
    BY DEF IInv, RegistriesAgree, RegisteredIsMarked, SiblingsAreAmbiguous, ReleasedIsOver
  <2>4. ConfirmedIsDown'
    BY <2>0, <2>1 DEF IInv, TypeOK, ConfirmedIsDown
  <2> QED BY <2>2, <2>3, <2>4 DEF IInv
<1>4. CASE StopCloseFails(s)
  BY <1>4, RetireFacts DEF StopCloseFails
<1>5. CASE StopConfirms(s)
  BY <1>5, RetireFacts DEF StopConfirms
<1> QED BY <1>1, <1>2, <1>3, <1>4, <1>5

\* Every step keeps the invariant.
LEMMA InvStep == IInv /\ [Next]_vars => IInv'
<1> SUFFICES ASSUME IInv, [Next]_vars PROVE IInv'
  OBVIOUS
<1>1. CASE \E s \in Ids, p \in Places : TrackPendingLaunch(s, p)
  BY <1>1, TrackStep
<1>2. CASE \E t \in Ids, id \in Ids : WorkerRegisters(t, id)
  <2>1. PICK t \in Ids, id \in Ids : WorkerRegisters(t, id)
    BY <1>2
  <2>2. place[t] \in Places \cup {None}
    BY DEF IInv, TypeOK
  <2> QED BY <2>1, <2>2, RegisterStep DEF WorkerRegisters
<1>3. CASE \E p \in Places, id \in Ids : WorkerAttaches(p, id)
  BY <1>3, RegisterStep DEF WorkerAttaches
<1>4. CASE \E s \in Ids, force \in BOOLEAN : BeginStop(s, force)
  BY <1>4, StopStep
<1>5. CASE \E s \in Ids : LaunchSession(s) \/ LaunchFails(s) \/ SessionEnds(s)
  BY <1>5, SmallStep
<1>6. CASE \E s \in Ids : EvictPendingLaunch(s) \/ ReleaseProbes(s) \/ ReleaseCloses(s)
  BY <1>6, ReleaseStep
<1>7. CASE \E s \in Ids : StopProbes(s) \/ StopCloses(s) \/ StopCloseFails(s) \/ StopConfirms(s)
  BY <1>7, StopStep, TRUE \in BOOLEAN
<1>8. CASE \E s \in Ids : SurfaceMoves(s)
  BY <1>8, SurfaceStep
<1>9. CASE ReleaseLaunchedSessions
  BY <1>9, ShutdownStep
<1>10. CASE UNCHANGED vars
  BY <1>10 DEF vars, pendingVars, asyncVars, terminalVars, IInv, TypeOK, NewIsBlank, RegistriesAgree,
     RegisteredIsMarked, SiblingsAreAmbiguous, ReleasedIsOver, ConfirmedIsDown
<1> QED BY <1>1, <1>2, <1>3, <1>4, <1>5, <1>6, <1>7, <1>8, <1>9, <1>10 DEF Next

\* The inductive invariant holds in every reachable state.
THEOREM Invariant == Spec => []IInv
BY InvInit, InvStep, PTL DEF Spec

\* Every variable of the registry keeps its type.
THEOREM TypeCorrect == Spec => []TypeOK
BY Invariant, PTL DEF IInv

\* Rows that wait for a registration and armed records correspond, one to one.
THEOREM RegistriesAgreeAlways == Spec => []RegistriesAgree
BY Invariant, PTL DEF IInv

\* A pending launch whose worker has registered is marked as one that may hold it.
THEOREM RegisteredIsMarkedAlways == Spec => []RegisteredIsMarked
BY Invariant, PTL DEF IInv

\* Pending launches that share a place all carry the mark.
THEOREM SiblingsAreAmbiguousAlways == Spec => []SiblingsAreAmbiguous
BY Invariant, PTL DEF IInv

\* The rows of launches: what the cap counts, besides the reservations.
Launched == {s \in Listed : surface[s] # "none"}

\* Every other step only takes rows of launches and reservations away: a row that
\* begins without a launch has no terminal.
LEMMA LaunchedShrinks ==
  ASSUME IInv, [Next]_vars,
         ~\E s \in Ids : LaunchSession(s),
         ~\E s \in Ids, p \in Places : TrackPendingLaunch(s, p)
  PROVE  Launched' \subseteq Launched /\ reserved' \subseteq reserved
<1> USE DEF Launched, Listed, asyncVars, pendingVars, terminalVars
<1>1. CASE UNCHANGED <<row, surface, reserved>>
  BY <1>1
<1>2. ASSUME NEW p \in Places \cup {None}, NEW id \in Ids, HandleSessionCreate(p, id)
      PROVE  Launched' \subseteq Launched /\ reserved' \subseteq reserved
  <2>1. surface' = surface /\ reserved' = reserved
    BY <1>2 DEF HandleSessionCreate
  <2>2. \A s \in Ids : row'[s] \in {"registering", "connecting"}
                         => row[s] \in {"registering", "connecting"} \/ surface[s] = "none"
    BY <1>2 DEF HandleSessionCreate, RegisterAttached, RegisterClaimed, RegisterAmbiguous, Fresh, Oldest, Group,
       IInv, TypeOK, NewIsBlank, RegistriesAgree
  <2> QED BY <2>1, <2>2
<1>3. ASSUME NEW t \in Ids, NEW id \in Ids, WorkerRegisters(t, id)
      PROVE  Launched' \subseteq Launched /\ reserved' \subseteq reserved
  <2>1. place[t] \in Places \cup {None}
    BY DEF IInv, TypeOK
  <2> QED BY <1>2, <1>3, <2>1 DEF WorkerRegisters
<1>4. ASSUME NEW p \in Places, NEW id \in Ids, WorkerAttaches(p, id)
      PROVE  Launched' \subseteq Launched /\ reserved' \subseteq reserved
  BY <1>2, <1>4 DEF WorkerAttaches
<1>5. ASSUME NEW s \in Ids, LaunchFails(s) \/ SessionEnds(s) \/ EvictPendingLaunch(s) \/ ReleaseProbes(s)
      PROVE  Launched' \subseteq Launched /\ reserved' \subseteq reserved
  BY <1>5 DEF LaunchFails, SessionEnds, EvictPendingLaunch, ReleaseProbes, IInv, TypeOK
<1>6. ASSUME NEW s \in Ids, SurfaceMoves(s) \/ ReleaseCloses(s) \/ StopCloses(s)
      PROVE  Launched' \subseteq Launched /\ reserved' \subseteq reserved
  <2>1. \A t \in Ids : surface[t] = "none" => surface'[t] = "none"
    BY <1>6 DEF SurfaceMoves, ReleaseCloses, StopCloses, AfterClose, Alive, IInv, TypeOK
  <2>2. row' = row /\ reserved' = reserved
    BY <1>6 DEF SurfaceMoves, ReleaseCloses, StopCloses, stopFrame
  <2> QED BY <2>1, <2>2
<1>7. ASSUME NEW s \in Ids, StopProbes(s) \/ StopConfirms(s) \/ StopCloseFails(s)
      PROVE  Launched' \subseteq Launched /\ reserved' \subseteq reserved
  <2>1. reserved' = reserved /\ (row' = row \/ row' = [row EXCEPT ![s] = "gone"])
    BY <1>7 DEF StopProbes, StopConfirms, StopCloseFails, stopFrame, Retire, Refuse
  <2>2. \A t \in Ids : surface[t] = "none" => surface'[t] = "none"
    BY <1>7 DEF StopProbes, StopConfirms, StopCloseFails, Alive, IInv, TypeOK
  <2> QED BY <2>1, <2>2 DEF IInv, TypeOK
<1>8. ASSUME NEW s \in Ids, NEW force \in BOOLEAN, BeginStop(s, force)
      PROVE  Launched' \subseteq Launched /\ reserved' \subseteq reserved
  BY <1>1, <1>8 DEF BeginStop
<1>9. CASE ReleaseLaunchedSessions
  BY <1>1, <1>9 DEF ReleaseLaunchedSessions
<1>10. CASE UNCHANGED vars
  BY <1>1, <1>10 DEF vars
<1> QED BY <1>3, <1>4, <1>5, <1>6, <1>7, <1>8, <1>9, <1>10 DEF Next

\* One more element is at most one more.
LEMMA OneMore ==
  ASSUME NEW S, NEW x, IsFiniteSet(S)
  PROVE  Cardinality(S \cup {x}) <= Cardinality(S) + 1
<1>1. Cardinality(S) \in Nat
  BY FS_CardinalityType
<1>2. Cardinality(S \cup {x}) = Cardinality(S) \/ Cardinality(S \cup {x}) = Cardinality(S) + 1
  BY FS_AddElement
<1> QED BY <1>1, <1>2

\* The cap survives every step: a launch is admitted against all that is listed
\* or reserved, and coming up trades its reservation for a row.
LEMMA CapStep == IInv /\ CapHolds /\ [Next]_vars => CapHolds'
<1> SUFFICES ASSUME IInv, CapHolds, [Next]_vars PROVE CapHolds'
  OBVIOUS
<1>1. /\ Listed \in SUBSET Ids /\ Launched \in SUBSET Ids /\ reserved \in SUBSET Ids
      /\ Launched' \in SUBSET Ids /\ reserved' \in SUBSET Ids
  BY InvStep DEF Listed, Launched, IInv, TypeOK
<1>2. /\ IsFiniteSet(Listed) /\ IsFiniteSet(Launched) /\ IsFiniteSet(reserved)
      /\ IsFiniteSet(Launched') /\ IsFiniteSet(reserved')
      /\ Cardinality(Listed) \in Nat /\ Cardinality(Launched) \in Nat /\ Cardinality(reserved) \in Nat
      /\ Cardinality(Launched') \in Nat /\ Cardinality(reserved') \in Nat
  BY <1>1, Counts
<1>3. Cardinality(Launched) + Cardinality(reserved) <= MaxSessions
  BY DEF CapHolds, Launched
<1>4. SUFFICES Cardinality(Launched') + Cardinality(reserved') <= MaxSessions
  BY DEF CapHolds, Launched
<1>5. MaxSessions \in Nat
  BY RegistryAssumption
<1>6. ASSUME NEW s \in Ids, LaunchSession(s)
      PROVE  Cardinality(Launched') + Cardinality(reserved') <= MaxSessions
  <2>1. Launched' = Launched /\ reserved' = reserved \cup {s}
    BY <1>6 DEF LaunchSession, Launched, Listed, terminalVars
  <2>2. Cardinality(Launched) <= Cardinality(Listed)
    BY <1>2, FS_Subset DEF Launched
  <2>3. Cardinality(reserved \cup {s}) <= Cardinality(reserved) + 1
    BY <1>2, OneMore
  <2>4. Cardinality(Listed) + Cardinality(reserved) < MaxSessions
    BY <1>6 DEF LaunchSession
  <2> QED BY <1>2, <1>5, <2>1, <2>2, <2>3, <2>4
<1>7. ASSUME NEW s \in Ids, NEW p \in Places, TrackPendingLaunch(s, p)
      PROVE  Cardinality(Launched') + Cardinality(reserved') <= MaxSessions
  <2>1. s \in reserved /\ reserved' = reserved \ {s} /\ Launched' = Launched \cup {s}
    BY <1>7 DEF TrackPendingLaunch, Launched, Listed, IInv, TypeOK
  <2>2. Cardinality(Launched \cup {s}) <= Cardinality(Launched) + 1
    BY <1>2, OneMore
  <2>3. Cardinality(reserved \ {s}) = Cardinality(reserved) - 1
    BY <1>2, <2>1, FS_RemoveElement
  <2> QED BY <1>2, <1>3, <1>5, <2>1, <2>2, <2>3
<1>8. ASSUME ~\E s \in Ids : LaunchSession(s), ~\E s \in Ids, p \in Places : TrackPendingLaunch(s, p)
      PROVE  Cardinality(Launched') + Cardinality(reserved') <= MaxSessions
  <2>1. Launched' \subseteq Launched /\ reserved' \subseteq reserved
    BY <1>8, LaunchedShrinks
  <2>2. Cardinality(Launched') <= Cardinality(Launched) /\ Cardinality(reserved') <= Cardinality(reserved)
    BY <1>2, <2>1, FS_Subset
  <2> QED BY <1>2, <1>3, <1>5, <2>2
<1> QED BY <1>6, <1>7, <1>8

\* Rows of launches and launches under way never outnumber the cap.
THEOREM CapHoldsAlways == Spec => []CapHolds
<1>1. Init => CapHolds
  <2> SUFFICES ASSUME Init PROVE CapHolds
    OBVIOUS
  <2>1. {s \in Listed : surface[s] # "none"} = {} /\ reserved = {}
    BY DEF Init, Listed
  <2> QED BY <2>1, FS_EmptySet, RegistryAssumption DEF CapHolds
<1> QED BY <1>1, CapStep, Invariant, PTL DEF Spec

\* Where no worker boots late, the ghost reaper closes no terminal that a listed
\* session runs in: a release is only ever of a terminal with no worker.
THEOREM EvictionSparesWorkersAlways ==
  ASSUME LateWorkers = FALSE PROVE Spec => EvictionSparesWorkers
<1>1. IInv /\ [Next]_vars =>
        \A s \in Ids : surface'[s] = "reaped" /\ surface[s] # "reaped" /\ ~closing => ~Occupied(s)
  <2> SUFFICES ASSUME IInv, [Next]_vars, NEW s \in Ids,
                      surface'[s] = "reaped", surface[s] # "reaped", ~closing
               PROVE  runsAs[s] = None
    BY DEF Occupied
  <2>1. surface' # surface
    OBVIOUS
  <2>2. PICK t \in Ids : ReleaseCloses(t)
    <3>1. ASSUME NEW t \in Ids, NEW p \in Places, TrackPendingLaunch(t, p) PROVE FALSE
      BY <3>1 DEF TrackPendingLaunch, IInv, TypeOK
    <3>2. ASSUME NEW t \in Ids, SurfaceMoves(t) \/ StopCloses(t) \/ StopCloseFails(t) PROVE FALSE
      BY <3>2 DEF SurfaceMoves, StopCloses, StopCloseFails, AfterClose, IInv, TypeOK
    <3> QED BY <2>1, <3>1, <3>2 DEF Next, vars, WorkerRegisters, WorkerAttaches, HandleSessionCreate, BeginStop,
           LaunchSession, LaunchFails, SessionEnds, EvictPendingLaunch, ReleaseProbes, StopProbes, StopConfirms,
           ReleaseLaunchedSessions, terminalVars
  <2>3. t = s
    BY <2>1, <2>2 DEF ReleaseCloses, IInv, TypeOK
  <2> QED BY <2>2, <2>3 DEF ReleaseCloses, IInv, ReleasedIsOver
<1> QED BY <1>1, Invariant, PTL DEF Spec, EvictionSparesWorkers

\* Where a close that resolves has closed the terminal, the server lets go of the
\* record of a terminal only when it is gone, or at shutdown.
THEOREM HandleDroppedWhenGoneAlways ==
  ASSUME ReliableClose = TRUE PROVE Spec => HandleDroppedWhenGone
<1>1. IInv /\ [Next]_vars => \A s \in held \ held' : surface'[s] \notin Alive \/ closing'
  <2> SUFFICES ASSUME IInv, [Next]_vars, NEW s \in held, s \notin held'
               PROVE  surface'[s] \notin Alive \/ closing'
    OBVIOUS
  <2>1. s \in Ids
    BY DEF IInv, TypeOK
  <2>2. CASE ReleaseLaunchedSessions
    BY <2>2 DEF ReleaseLaunchedSessions
  <2>3. ASSUME NEW t \in Ids, ReleaseProbes(t) PROVE surface'[s] \notin Alive
    BY <2>3 DEF ReleaseProbes, Readings, terminalVars, Alive
  <2>4. ASSUME NEW t \in Ids, ReleaseCloses(t) PROVE surface'[s] \notin Alive
    BY <2>1, <2>4 DEF ReleaseCloses, AfterClose, Alive, IInv, TypeOK
  <2>5. ASSUME NEW t \in Ids, StopProbes(t) PROVE surface'[s] \notin Alive
    BY <2>5 DEF StopProbes, Refuse, Retire, Readings, TearsDown, Alive
  <2>6. ASSUME NEW t \in Ids, StopConfirms(t) PROVE surface'[s] \notin Alive
    BY <2>1, <2>6 DEF StopConfirms, Refuse, Retire, IInv, ConfirmedIsDown
  <2>7. ASSUME NEW t \in Ids, NEW p \in Places, TrackPendingLaunch(t, p) PROVE FALSE
    BY <2>7 DEF TrackPendingLaunch
  <2>8. ASSUME NEW t \in Ids, StopCloseFails(t) PROVE FALSE
    BY <2>8 DEF StopCloseFails, Refuse
  <2> QED BY <2>2, <2>3, <2>4, <2>5, <2>6, <2>7, <2>8 DEF Next, vars, WorkerRegisters, WorkerAttaches,
         HandleSessionCreate, BeginStop, LaunchSession, LaunchFails, SessionEnds, SurfaceMoves, EvictPendingLaunch,
         StopCloses
<1> QED BY <1>1, Invariant, PTL DEF Spec, HandleDroppedWhenGone

\* A stop decided on a reading that saw nothing ends well only on one that saw
\* the terminal gone.
THEOREM StoppedIsWitnessedAlways == Spec => StoppedIsWitnessed
<1>1. IInv /\ [Next]_vars =>
        \A s \in blind : stop[s] # "no" /\ stop'[s] = "no" /\ s \in held \ held' => surface[s] \notin Alive
  <2> SUFFICES ASSUME IInv, [Next]_vars, NEW s \in blind,
                      stop[s] # "no", stop'[s] = "no", s \in held, s \notin held'
               PROVE  surface[s] \notin Alive
    OBVIOUS
  <2>1. s \in Ids
    BY DEF IInv, TypeOK
  <2>2. ASSUME NEW t \in Ids, StopProbes(t) PROVE surface[s] \notin Alive
    BY <2>2 DEF StopProbes, Refuse, Retire, Readings, TearsDown, Alive
  <2>3. ASSUME NEW t \in Ids, StopConfirms(t) PROVE surface[s] \notin Alive
    BY <2>3 DEF StopConfirms, Refuse, Retire, Readings, Alive
  <2>4. ASSUME NEW t \in Ids, NEW force \in BOOLEAN, BeginStop(t, force) PROVE FALSE
    BY <2>4 DEF BeginStop
  <2>5. ASSUME NEW t \in Ids, StopCloses(t) \/ StopCloseFails(t) PROVE FALSE
    BY <2>5 DEF StopCloses, StopCloseFails, Refuse
  <2>6. stop' # stop
    OBVIOUS
  <2> QED BY <2>2, <2>3, <2>4, <2>5, <2>6 DEF Next, vars, WorkerRegisters, WorkerAttaches, HandleSessionCreate,
         LaunchSession, LaunchFails, SessionEnds, SurfaceMoves, EvictPendingLaunch, ReleaseProbes, ReleaseCloses,
         ReleaseLaunchedSessions, TrackPendingLaunch, asyncVars
<1> QED BY <1>1, Invariant, PTL DEF Spec, StoppedIsWitnessed

-----------------------------------------------------------------------------
\* No cross-wire.  A worker that is due has booted in a launched terminal, has not
\* registered, and may still do so in its window.

Due == {t \in Ids : surface[t] # "none" /\ runsAs[t] = None /\ \A s \in timedOut : rank[t] > rank[s]}

\* Every due worker has a record of its own at its place, no older than itself: the
\* records that other registrations and the timers consume never leave it without.
RecordsSuffice ==
  \E record \in [Due -> pending] :
    /\ \A t \in Due : place[record[t]] = place[t] /\ rank[record[t]] >= rank[t]
    /\ \A t, u \in Due : record[t] = record[u] => t = u

\* At the place of a record that is not marked, only its own worker is due.
SoleIsDue == \A s \in pending \ ambiguous : \A t \in Due : place[t] = place[s] => t = s

OwnOnly == \A s \in Ids : row[s] = "connecting" /\ surface[s] # "none" => runsAs[s] = s

\* What the argument adds to IInv, for a server no operator stops a session of.
BoundInv ==
  /\ \A s \in Ids : stop[s] = "no"
  /\ \A s \in Ids : row[s] = "unborn" => s \notin timedOut
  /\ ~closing => RecordsSuffice /\ SoleIsDue /\ OwnOnly

\* The due workers can only get fewer while the records stay as they are.
LEMMA RecordsKept ==
  ASSUME RecordsSuffice, SoleIsDue, Due' \subseteq Due, UNCHANGED <<place, rank, pending, ambiguous>>
  PROVE  RecordsSuffice' /\ SoleIsDue'
<1>1. PICK record \in [Due -> pending] :
        /\ \A t \in Due : place[record[t]] = place[t] /\ rank[record[t]] >= rank[t]
        /\ \A t, u \in Due : record[t] = record[u] => t = u
  BY DEF RecordsSuffice
<1> DEFINE kept == [t \in Due' |-> record[t]]
<1>2. kept \in [Due' -> pending']
  BY <1>1
<1>3. RecordsSuffice'
  BY <1>1, <1>2 DEF RecordsSuffice
<1> QED BY <1>3 DEF SoleIsDue

\* A launch comes up with a record of its own, and unmarked only if nobody is due.
LEMMA TrackKeepsBound ==
  ASSUME IInv, BoundInv, NEW s \in Ids, NEW p \in Places, TrackPendingLaunch(s, p)
  PROVE  BoundInv'
<1>1. /\ row[s] = "unborn" /\ s \notin pending /\ surface[s] = "none" /\ runsAs[s] = None /\ s \notin timedOut
      /\ s \notin Due
  BY DEF TrackPendingLaunch, IInv, NewIsBlank, BoundInv, Due
<1>2. /\ UNCHANGED <<runsAs, timedOut, closing, stop>>
      /\ row' = [row EXCEPT ![s] = "registering"] /\ surface' = [surface EXCEPT ![s] = "up"]
      /\ pending' = pending \cup {s}
      /\ \A t \in Ids \ {s} : rank'[t] = rank[t] /\ place'[t] = place[t]
      /\ place'[s] = p
      /\ ambiguous' = IF Group(p) = {} THEN ambiguous ELSE ambiguous \cup Group(p) \cup {s}
  BY DEF TrackPendingLaunch, asyncVars, IInv, TypeOK
<1>3. Due' \subseteq Due \cup {s}
  <2> SUFFICES ASSUME NEW t \in Due', t # s PROVE t \in Due
    OBVIOUS
  <2>1. t \in Ids /\ surface[t] # "none" /\ runsAs[t] = None
    BY <1>2 DEF Due, IInv, TypeOK
  <2>2. \A u \in timedOut : rank'[u] = rank[u]
    BY <1>1, <1>2 DEF IInv, TypeOK
  <2> QED BY <1>2, <2>1, <2>2 DEF Due
<1>4. ASSUME ~closing PROVE RecordsSuffice'
  <2>1. PICK record \in [Due -> pending] :
          /\ \A t \in Due : place[record[t]] = place[t] /\ rank[record[t]] >= rank[t]
          /\ \A t, u \in Due : record[t] = record[u] => t = u
    BY <1>4 DEF BoundInv, RecordsSuffice
  <2> DEFINE next == [t \in Due' |-> IF t = s THEN s ELSE record[t]]
  <2>2. next \in [Due' -> pending']
    BY <1>2, <1>3, <2>1
  <2>3. ASSUME NEW t \in Due' PROVE place'[next[t]] = place'[t] /\ rank'[next[t]] >= rank'[t]
    <3>1. CASE t = s
      <4>1. rank'[s] \in Nat
        BY TrackStep DEF IInv, TypeOK
      <4> QED BY <3>1, <4>1
    <3>2. CASE t # s
      <4>1. t \in Due /\ t \in Ids /\ record[t] \in pending /\ record[t] \in Ids /\ record[t] # s
        BY <1>1, <1>3, <2>1, <3>2 DEF Due, IInv, TypeOK
      <4> QED BY <1>2, <2>1, <3>2, <4>1
    <3> QED BY <3>1, <3>2
  <2>4. \A t, u \in Due' : next[t] = next[u] => t = u
    <3>1. \A t \in Due' \ {s} : t \in Due /\ next[t] = record[t] /\ record[t] # s
      BY <1>1, <1>3, <2>1
    <3> QED BY <2>1, <3>1
  <2> HIDE DEF next
  <2> QED BY <2>2, <2>3, <2>4 DEF RecordsSuffice
<1>5. ASSUME ~closing PROVE SoleIsDue'
  <2> SUFFICES ASSUME NEW r \in pending' \ ambiguous', NEW t \in Due', place'[t] = place'[r], t # r
               PROVE  FALSE
    BY DEF SoleIsDue
  <2>1. t \in Ids /\ r \in Ids
    BY <1>2 DEF Due, IInv, TypeOK
  <2>2. CASE r = s
    <3>1. t \in Due /\ place[t] = p
      BY <1>2, <1>3, <2>1, <2>2
    <3>2. Group(p) # {}
      BY <1>4, <1>5, <3>1 DEF BoundInv, RecordsSuffice, Group
    <3> QED BY <1>2, <2>2, <3>2
  <2>3. CASE r # s
    <3>1. r \in pending \ ambiguous /\ place'[r] = place[r]
      BY <1>2, <2>1, <2>3
    <3>2. t # s
      BY <1>2, <2>3, <3>1 DEF Group
    <3> QED BY <1>2, <1>3, <1>5, <2>1, <3>1, <3>2 DEF BoundInv, SoleIsDue
  <2> QED BY <2>2, <2>3
<1>6. ASSUME ~closing PROVE OwnOnly'
  BY <1>2, <1>6 DEF BoundInv, OwnOnly, IInv, TypeOK
<1>7. \A x \in Ids : row'[x] = "unborn" => x \notin timedOut'
  BY <1>2 DEF BoundInv, IInv, TypeOK
<1> QED BY <1>2, <1>4, <1>5, <1>6, <1>7 DEF BoundInv

\* A due worker registers: it takes the unmarked record only if it is its own, and
\* takes a marked one away without leaving another worker short.
LEMMA RegisterKeepsBound ==
  ASSUME IInv, BoundInv, LateWorkers = FALSE, NEW t \in Ids, NEW id \in Ids, WorkerRegisters(t, id)
  PROVE  BoundInv'
<1>1. /\ surface[t] \in Alive /\ runsAs[t] = None /\ InWindow(t)
      /\ HandleSessionCreate(place[t], id) /\ runsAs' = [runsAs EXCEPT ![t] = id]
      /\ UNCHANGED <<place, rank, ambiguous, closing, surface, timedOut, stop>>
  BY DEF WorkerRegisters, HandleSessionCreate, asyncVars
<1>2. t \in Due
  <2>1. \A s \in timedOut : rank[s] \in Nat /\ rank[t] \in Nat
    BY DEF IInv, TypeOK
  <2> QED BY <1>1, <2>1 DEF Due, InWindow, Alive
<1>3. id # None
  BY RegistryAssumption
<1>4. Due' = Due \ {t}
  BY <1>1, <1>3 DEF Due, IInv, TypeOK
<1>5. CASE closing
  <2>1. \A s \in Ids : row'[s] = "unborn" => row[s] = "unborn"
    BY <1>1 DEF HandleSessionCreate, RegisterAttached, RegisterClaimed, RegisterAmbiguous, IInv, TypeOK
  <2> QED BY <1>1, <1>5, <2>1 DEF BoundInv
<1>6. CASE ~closing
  <2>1. PICK record \in [Due -> pending] :
          /\ \A u \in Due : place[record[u]] = place[u] /\ rank[record[u]] >= rank[u]
          /\ \A u, v \in Due : record[u] = record[v] => u = v
    BY <1>6 DEF BoundInv, RecordsSuffice
  <2>2. record[t] \in Group(place[t])
    BY <1>2, <2>1 DEF Group
  <2>3. CASE RegisterAttached(place[t], id)
    BY <2>2, <2>3 DEF RegisterAttached
  <2>4. CASE RegisterClaimed(place[t], id)
    <3>1. /\ id \in pending \ ambiguous /\ place[id] = place[t]
          /\ row' = [row EXCEPT ![id] = "connecting"] /\ pending' = pending \ {id}
      BY <2>4 DEF RegisterClaimed, Oldest, Group
    <3>2. \A u \in Due : place[u] = place[id] => u = id
      BY <1>6, <3>1 DEF BoundInv, SoleIsDue
    <3>3. t = id
      BY <1>2, <3>1, <3>2
    <3> DEFINE kept == [u \in Due' |-> record[u]]
    <3>4. kept \in [Due' -> pending']
      BY <1>4, <2>1, <3>1, <3>2, <3>3
    <3>5. RecordsSuffice'
      <4>1. \A u \in Due' : u \in Due /\ kept[u] = record[u]
        BY <1>4
      <4>2. /\ \A u \in Due' : place'[kept[u]] = place'[u] /\ rank'[kept[u]] >= rank'[u]
            /\ \A u, v \in Due' : kept[u] = kept[v] => u = v
        BY <1>1, <2>1, <4>1
      <4> HIDE DEF kept
      <4> QED BY <3>4, <4>2 DEF RecordsSuffice
    <3>6. SoleIsDue'
      BY <1>1, <1>4, <1>6, <3>1 DEF BoundInv, SoleIsDue
    <3>7. OwnOnly'
      BY <1>1, <1>6, <3>1, <3>3 DEF BoundInv, OwnOnly, IInv, TypeOK
    <3> QED BY <1>1, <3>1, <3>5, <3>6, <3>7 DEF BoundInv, IInv, TypeOK
  <2>5. CASE RegisterAmbiguous(place[t], id)
    <3>1. PICK s \in Oldest(place[t]) :
            /\ row' = [row EXCEPT ![s] = "gone", ![id] = "connecting"]
            /\ pending' = pending \ {s}
      BY <2>5 DEF RegisterAmbiguous
    <3>2. /\ s \in pending /\ s \in Ids /\ place[s] = place[t]
          /\ \A r \in Group(place[t]) : rank[s] <= rank[r]
      BY <3>1 DEF Oldest, Group, IInv, TypeOK
    <3>3. row[id] = "unborn" /\ surface[id] = "none" /\ id # t
      BY <1>1, <2>5 DEF RegisterAmbiguous, Fresh, IInv, NewIsBlank, Alive
    <3> DEFINE next == [u \in Due' |-> IF record[u] = s THEN record[t] ELSE record[u]]
    <3>4. next \in [Due' -> pending']
      BY <1>2, <1>4, <2>1, <3>1
    <3>5. ASSUME NEW u \in Due' PROVE place[next[u]] = place[u] /\ rank[next[u]] >= rank[u]
      <4>1. u \in Due /\ u \in Ids /\ t \in Ids /\ record[u] \in Ids /\ record[t] \in Ids
        BY <1>2, <1>4, <2>1 DEF Due, IInv, TypeOK
      <4>2. /\ place[record[u]] = place[u] /\ rank[record[u]] >= rank[u]
            /\ place[record[t]] = place[t] /\ rank[s] <= rank[record[t]]
        BY <1>2, <2>1, <2>2, <3>2, <4>1
      <4>3. rank[u] \in Nat /\ rank[s] \in Nat /\ rank[record[t]] \in Nat
        BY <3>2, <4>1 DEF IInv, TypeOK
      <4> QED BY <3>2, <4>1, <4>2, <4>3
    <3>6. \A u, v \in Due' : next[u] = next[v] => u = v
      BY <1>2, <1>4, <2>1
    <3>7. RecordsSuffice'
      <4> HIDE DEF next
      <4> QED BY <1>1, <3>4, <3>5, <3>6 DEF RecordsSuffice
    <3>8. SoleIsDue'
      BY <1>1, <1>4, <1>6, <3>1 DEF BoundInv, SoleIsDue
    <3>9. OwnOnly'
      <4> SUFFICES ASSUME NEW x \in Ids, row'[x] = "connecting", surface[x] # "none"
                   PROVE  runsAs'[x] = x
        BY <1>1 DEF OwnOnly
      <4>1. x # id /\ row[x] = "connecting"
        BY <3>1, <3>2, <3>3 DEF IInv, TypeOK
      <4>2. runsAs[x] = x
        BY <1>6, <4>1 DEF BoundInv, OwnOnly
      <4>3. x # t
        BY <1>1, <4>2, RegistryAssumption
      <4> QED BY <1>1, <4>2, <4>3 DEF IInv, TypeOK
    <3>10. \A x \in Ids : row'[x] = "unborn" => row[x] = "unborn"
      BY <3>1, <3>2 DEF IInv, TypeOK
    <3> QED BY <1>1, <3>7, <3>8, <3>9, <3>10 DEF BoundInv
  <2> QED BY <1>1, <2>3, <2>4, <2>5 DEF HandleSessionCreate
<1> QED BY <1>5, <1>6

\* A record that times out takes with it every worker its timer outlasted.
LEMMA EvictKeepsBound ==
  ASSUME IInv, BoundInv, NEW s \in Ids, EvictPendingLaunch(s)
  PROVE  BoundInv'
<1>1. /\ s \in pending /\ pending' = pending \ {s} /\ row' = [row EXCEPT ![s] = "gone"]
      /\ timedOut' = timedOut \cup {s}
      /\ UNCHANGED <<place, rank, ambiguous, closing, surface, runsAs, stop>>
  BY DEF EvictPendingLaunch, terminalVars
<1>2. Due' = {t \in Due : rank[t] > rank[s]}
  BY <1>1 DEF Due
<1>3. ASSUME ~closing PROVE RecordsSuffice'
  <2>1. PICK record \in [Due -> pending] :
          /\ \A t \in Due : place[record[t]] = place[t] /\ rank[record[t]] >= rank[t]
          /\ \A t, u \in Due : record[t] = record[u] => t = u
    BY <1>3 DEF BoundInv, RecordsSuffice
  <2> DEFINE kept == [t \in Due' |-> record[t]]
  <2>2. \A t \in Due : rank[t] \in Nat /\ rank[s] \in Nat
    BY DEF Due, IInv, TypeOK
  <2>3. \A t \in Due' : record[t] # s
    BY <1>2, <2>1, <2>2
  <2>4. kept \in [Due' -> pending']
    BY <1>1, <1>2, <2>1, <2>3
  <2>5. \A t \in Due' : t \in Due /\ kept[t] = record[t]
    BY <1>2
  <2>6. /\ \A t \in Due' : place'[kept[t]] = place'[t] /\ rank'[kept[t]] >= rank'[t]
        /\ \A t, u \in Due' : kept[t] = kept[u] => t = u
    BY <1>1, <2>1, <2>5
  <2> HIDE DEF kept
  <2> QED BY <2>4, <2>6 DEF RecordsSuffice
<1>4. ~closing => SoleIsDue' /\ OwnOnly'
  BY <1>1, <1>2 DEF BoundInv, SoleIsDue, OwnOnly, IInv, TypeOK
<1>5. \A x \in Ids : row'[x] = "unborn" => x \notin timedOut'
  BY <1>1 DEF BoundInv, IInv, TypeOK
<1> QED BY <1>1, <1>3, <1>4, <1>5 DEF BoundInv

\* The other steps leave the records alone, and bring up no terminal and no row of one.
LEMMA OthersKeepBound ==
  ASSUME IInv, BoundInv, NEW s \in Ids,
         \/ LaunchSession(s) \/ LaunchFails(s) \/ SessionEnds(s) \/ SurfaceMoves(s)
         \/ ReleaseProbes(s) \/ ReleaseCloses(s)
  PROVE  BoundInv'
<1>1. UNCHANGED <<place, rank, pending, ambiguous, closing, runsAs, stop, timedOut>>
  BY DEF LaunchSession, LaunchFails, SessionEnds, SurfaceMoves, ReleaseProbes, ReleaseCloses,
     pendingVars, asyncVars, terminalVars
<1>2. row' = row \/ (row[s] = "connecting" /\ row' = [row EXCEPT ![s] = "gone"])
  BY DEF LaunchSession, LaunchFails, SessionEnds, SurfaceMoves, ReleaseProbes, ReleaseCloses
<1>3. \A t \in Ids : surface'[t] # "none" => surface[t] # "none"
  BY DEF LaunchSession, LaunchFails, SessionEnds, SurfaceMoves, ReleaseProbes, ReleaseCloses,
     terminalVars, AfterClose, Alive, IInv, TypeOK
<1>4. Due' \subseteq Due
  BY <1>1, <1>3 DEF Due
<1>5. ~closing => RecordsSuffice' /\ SoleIsDue'
  BY <1>1, <1>4, RecordsKept DEF BoundInv
<1>6. \A t \in Ids : row'[t] \in {"unborn", "connecting"} => row[t] = row'[t]
  BY <1>2 DEF IInv, TypeOK
<1>7. ~closing => OwnOnly'
  BY <1>1, <1>3, <1>6 DEF BoundInv, OwnOnly
<1> QED BY <1>1, <1>5, <1>6, <1>7 DEF BoundInv

\* Where every worker is launched here and boots in its window, and no operator stops
\* a session under its launch, the session of a launch is its own terminal's.
THEOREM BoundIsOwnAlways ==
  ASSUME LateWorkers = FALSE, AttachPlaces = {}, Stoppable = {} PROVE Spec => []BoundIsOwn
<1>1. Init => BoundInv
  <2> SUFFICES ASSUME Init PROVE BoundInv
    OBVIOUS
  <2>1. Due = {} /\ pending = {}
    BY DEF Init, Due
  <2> DEFINE none == [t \in {} |-> None]
  <2>2. none \in [Due -> pending]
    BY <2>1
  <2>3. RecordsSuffice
    BY <2>1, <2>2 DEF RecordsSuffice
  <2> QED BY <2>1, <2>3 DEF Init, BoundInv, SoleIsDue, OwnOnly
<1>2. IInv /\ BoundInv /\ [Next]_vars => BoundInv'
  <2> SUFFICES ASSUME IInv, BoundInv, [Next]_vars PROVE BoundInv'
    OBVIOUS
  <2>1. ASSUME NEW s \in Ids, NEW force \in BOOLEAN, BeginStop(s, force) PROVE FALSE
    BY <2>1 DEF BeginStop
  <2>2. ASSUME NEW s \in Ids, StopProbes(s) \/ StopCloses(s) \/ StopCloseFails(s) \/ StopConfirms(s) PROVE FALSE
    BY <2>2 DEF BoundInv, StopProbes, StopCloses, StopCloseFails, StopConfirms
  <2>3. ASSUME NEW p \in Places, NEW id \in Ids, WorkerAttaches(p, id) PROVE FALSE
    BY <2>3 DEF WorkerAttaches
  <2>4. CASE ReleaseLaunchedSessions
    BY <2>4 DEF ReleaseLaunchedSessions, BoundInv
  <2>5. CASE UNCHANGED vars
    <3>1. Due' = Due
      BY <2>5 DEF vars, pendingVars, terminalVars, Due
    <3> QED BY <2>5, <3>1, RecordsKept DEF vars, pendingVars, asyncVars, terminalVars, BoundInv, OwnOnly
  <2> QED BY <2>1, <2>2, <2>3, <2>4, <2>5, TrackKeepsBound, RegisterKeepsBound, EvictKeepsBound, OthersKeepBound
         DEF Next
<1>3. BoundInv => BoundIsOwn
  BY DEF BoundInv, BoundIsOwn, OwnOnly
<1> QED BY <1>1, <1>2, <1>3, Invariant, PTL DEF Spec

-----------------------------------------------------------------------------
\* The moves a row makes are moves of the life cycle.
LEMMA RowMoves ==
  ASSUME IInv, [Next]_vars, NEW r \in Ids
  PROVE  row'[r] = row[r] \/ <<row[r], row'[r]>> \in Lifecycle!MayBecome
<1> USE DEF Lifecycle!MayBecome
<1>1. CASE row' = row
  BY <1>1
<1>2. ASSUME NEW s \in Ids, NEW p \in Places, TrackPendingLaunch(s, p)
      PROVE  row'[r] = row[r] \/ <<row[r], row'[r]>> \in Lifecycle!MayBecome
  BY <1>2 DEF TrackPendingLaunch, IInv, TypeOK, NewIsBlank
<1>3. ASSUME NEW p, NEW id \in Ids, HandleSessionCreate(p, id)
      PROVE  row'[r] = row[r] \/ <<row[r], row'[r]>> \in Lifecycle!MayBecome
  BY <1>3 DEF HandleSessionCreate, RegisterAttached, RegisterClaimed, RegisterAmbiguous, Fresh, Oldest, Group,
     IInv, TypeOK, RegistriesAgree
<1>4. ASSUME NEW s \in Ids, SessionEnds(s) \/ EvictPendingLaunch(s)
      PROVE  row'[r] = row[r] \/ <<row[r], row'[r]>> \in Lifecycle!MayBecome
  BY <1>4 DEF SessionEnds, EvictPendingLaunch, IInv, TypeOK, RegistriesAgree
<1>5. ASSUME NEW s \in Ids, StopProbes(s) \/ StopConfirms(s) \/ StopCloseFails(s)
      PROVE  row'[r] = row[r] \/ <<row[r], row'[r]>> \in Lifecycle!MayBecome
  BY <1>5 DEF StopProbes, StopConfirms, StopCloseFails, Retire, Refuse, Listed, IInv, TypeOK
<1> QED BY <1>1, <1>2, <1>3, <1>4, <1>5 DEF Next, vars, WorkerRegisters, WorkerAttaches, BeginStop, LaunchSession,
       LaunchFails, SurfaceMoves, ReleaseProbes, ReleaseCloses, StopCloses, stopFrame, ReleaseLaunchedSessions

\* The launch registry implements SessionLifecycle.
THEOREM Refinement == Spec => ImplementsLifecycle
<1>1. Init => Lifecycle!Init
  BY DEF Init, Lifecycle!Init
<1>2. IInv /\ [Next]_vars => [Lifecycle!Next]_row
  <2> SUFFICES ASSUME IInv, [Next]_vars PROVE Lifecycle!Next
    OBVIOUS
  <2>1. row' \in [Ids -> Lifecycle!Phases]
    BY InvStep DEF IInv, TypeOK, Rows, Lifecycle!Phases
  <2> QED BY <2>1, RowMoves DEF Lifecycle!Next
<1> QED BY <1>1, <1>2, Invariant, PTL DEF Spec, ImplementsLifecycle, Lifecycle!Spec
=============================================================================
