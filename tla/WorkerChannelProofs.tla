------------------------- MODULE WorkerChannelProofs -------------------------
(***************************************************************************)
(* The invariants of WorkerChannel for every number of sessions, streams,  *)
(* generations and frames.  The invariants the runs check are not          *)
(* inductive together: that a new record has never had a stream needs      *)
(* OpenedBeforeNow, that no response was ever opened on an epoch the       *)
(* session has not reached.                                                *)
(***************************************************************************)
EXTENDS WorkerChannel, TLAPS

\* A response names a session that has a record of that epoch or a later one,
\* or a session that has ended.
OpenedBeforeNow ==
  \A t \in Streams : streamState[t] # "unused" =>
    /\ streamSession[t] \in Sessions
    /\ streamEpoch[t] \in Epochs
    /\ \/ status[streamSession[t]] = "gone"
       \/ streamEpoch[t] <= cur[streamSession[t]]

UnusedIsBlank ==
  \A t \in Streams : streamState[t] = "unused" => streamSession[t] = Null

IInv ==
  /\ TypeOK
  /\ ChannelHasRow
  /\ OneLiveStream
  /\ NoDanglingInterval
  /\ DroppedIsWatched
  /\ OpenedBeforeNow
  /\ UnusedIsBlank

-----------------------------------------------------------------------------
\* Every timer a step writes is a timer, and a timer left to run stays armed.
LEMMA TimerFacts ==
  /\ Off \in Timers /\ Grace \in Timers /\ Grace # Off /\ 0 # Off
  /\ \A timer \in Timers : Elapsed(timer) \in Timers
  /\ \A timer \in Timers : timer # Off => Elapsed(timer) # Off
BY StaleAfterAssumption DEF Timers, Off, Grace, Elapsed

\* A gap stays within its range as it grows.
LEMMA GapFacts ==
  /\ 0 \in Gaps
  /\ \A g \in Gaps : Older(g) \in Gaps
BY StaleAfterAssumption DEF Gaps, Older

\* Tearing a record down keeps its response and its timers well formed.
LEMMA TearDownType ==
  ASSUME TypeOK, NEW s \in Sessions
  PROVE  /\ Ended(s) \in [Streams -> StreamStates]
         /\ Disarmed(s) \in [Epochs -> Timers]
         /\ Downstream(s) \in Streams \cup {Null}
<1>1. Ended(s) \in [Streams -> StreamStates]
  BY DEF TypeOK, Ended, StreamStates
<1>2. Disarmed(s) \in [Epochs -> Timers]
  BY TimerFacts DEF TypeOK, Disarmed
<1>3. Downstream(s) \in Streams \cup {Null}
  <2>1. cur[s] # 0 => cur[s] \in Epochs
    BY ChannelAssumption DEF TypeOK, Epochs
  <2> QED BY <2>1 DEF TypeOK, Downstream
<1> QED BY <1>1, <1>2, <1>3

\* Writing one field of one record leaves the table of records well formed.
LEMMA RecordUpdate ==
  ASSUME NEW X, NEW f \in [Sessions -> [Epochs -> X]],
         NEW s \in Sessions, NEW e \in Epochs, NEW x \in X
  PROVE  [f EXCEPT ![s][e] = x] \in [Sessions -> [Epochs -> X]]
OBVIOUS

\* The initial state is typed.
LEMMA TypeInit == Init => TypeOK
<1> SUFFICES ASSUME Init PROVE TypeOK
  OBVIOUS
<1>1. /\ downstream \in [Sessions -> [Epochs -> Streams \cup {Null}]]
      /\ eviction \in [Sessions -> [Epochs -> Timers]]
  BY TimerFacts DEF Init
<1>2. /\ streamState \in [Streams -> StreamStates]
      /\ streamSession \in [Streams -> Sessions \cup {Null}]
      /\ streamEpoch \in [Streams -> 0 .. MaxEpoch]
      /\ beating \in SUBSET Streams
  BY ChannelAssumption DEF Init, StreamStates
<1>3. /\ status \in [Sessions -> Listed \cup {"unborn", "gone"}]
      /\ gap \in [Sessions -> Gaps]
      /\ cur \in [Sessions -> 0 .. MaxEpoch]
      /\ nextSeq \in [Sessions -> 1 .. MaxSeq + 1]
  BY GapFacts, ChannelAssumption DEF Init
<1> QED BY <1>1, <1>2, <1>3 DEF Init, TypeOK

\* Every step keeps every variable in its type.
LEMMA TypeStep == TypeOK /\ OpenedBeforeNow /\ [Next]_vars => TypeOK'
<1> SUFFICES ASSUME TypeOK, OpenedBeforeNow, [Next]_vars PROVE TypeOK'
  OBVIOUS
<1> USE ChannelAssumption, TimerFacts, GapFacts DEF rowVars, recordVars, streamVars
<1>1. ASSUME NEW s \in Sessions,
             TrackPendingLaunch(s) \/ HandleSessionCreate(s) \/ DropPlaceholder(s)
               \/ HandleWorkerHeartbeat(s)
      PROVE  TypeOK'
  <2>1. CASE TrackPendingLaunch(s)
    BY <2>1 DEF TypeOK, TrackPendingLaunch, Listed
  <2>2. CASE HandleSessionCreate(s)
    BY <2>2 DEF TypeOK, HandleSessionCreate, Listed
  <2>3. CASE DropPlaceholder(s)
    BY <2>3 DEF TypeOK, DropPlaceholder, Listed
  <2>4. CASE HandleWorkerHeartbeat(s)
    BY <2>4 DEF TypeOK, HandleWorkerHeartbeat
  <2> QED BY <1>1, <2>1, <2>2, <2>3, <2>4
<1>2. ASSUME NEW s \in Sessions, HandleWorkerRegister(s) PROVE TypeOK'
  BY <1>2, TearDownType DEF TypeOK, HandleWorkerRegister, Epochs
<1>3. ASSUME NEW s \in Sessions, NEW t \in Streams, HandleWorkerEventsStream(s, t) PROVE TypeOK'
  BY <1>3, TearDownType DEF TypeOK, HandleWorkerEventsStream, Epochs,
     StreamStates, MarkSessionReady, Listed
<1>4. ASSUME NEW t \in Streams, StreamClose(t) PROVE TypeOK'
  <2>1. streamSession[t] \in Sessions /\ streamEpoch[t] \in Epochs
    BY <1>4 DEF StreamClose, OpenedBeforeNow
  <2>2. /\ downstream' \in [Sessions -> [Epochs -> Streams \cup {Null}]]
        /\ eviction' \in [Sessions -> [Epochs -> Timers]]
    <3>1. CASE downstream[streamSession[t]][streamEpoch[t]] = t
      <4>1. downstream' = [downstream EXCEPT ![streamSession[t]][streamEpoch[t]] = Null]
        BY <1>4, <3>1 DEF StreamClose
      <4>2. eviction' = [eviction EXCEPT ![streamSession[t]][streamEpoch[t]] = Grace]
        BY <1>4, <3>1 DEF StreamClose
      <4> QED BY <2>1, <4>1, <4>2, RecordUpdate DEF TypeOK
    <3>2. CASE downstream[streamSession[t]][streamEpoch[t]] # t
      BY <1>4, <3>2 DEF TypeOK, StreamClose
    <3> QED BY <3>1, <3>2
  <2> QED BY <1>4, <2>2 DEF TypeOK, StreamClose, StreamStates
<1>5. ASSUME NEW s \in Sessions, PushClientEvent(s) PROVE TypeOK'
  BY <1>5 DEF TypeOK, PushClientEvent, WriteClientEventFrame
<1>6. ASSUME NEW t \in Streams, WriteLivenessFrame(t) PROVE TypeOK'
  <2>1. streamSession[t] \in Sessions
    BY <1>6 DEF WriteLivenessFrame, OpenedBeforeNow
  <2> QED BY <1>6, <2>1 DEF TypeOK, WriteLivenessFrame, WriteClientEventFrame
<1>7. ASSUME NEW s \in Sessions, NEW e \in Epochs, ConsiderEviction(s, e) PROVE TypeOK'
  <2>1. CASE EvictionBails(s, e)
    BY <2>1 DEF TypeOK, EvictionBails
  <2>3. CASE EvictionRetains(s, e)
    BY <2>3 DEF TypeOK, EvictionRetains
  <2>2. CASE EvictionReaps(s, e)
    BY <2>2, TearDownType DEF TypeOK, EvictionReaps, ReapWorkerChannel, CloseSession, Listed
  <2> QED BY <1>7, <2>1, <2>2, <2>3 DEF ConsiderEviction
<1>8. ASSUME NEW s \in Sessions, BeginStop(s) \/ StopRefused(s) PROVE TypeOK'
  BY <1>8 DEF TypeOK, BeginStop, StopRefused
<1>9. ASSUME NEW s \in Sessions, FinishStop(s) PROVE TypeOK'
  BY <1>9, TearDownType DEF TypeOK, FinishStop, ReapWorkerChannel, CloseSession, Listed
<1>10. ASSUME CloseWorkerChannels PROVE TypeOK'
  BY <1>10, TearDownType DEF TypeOK, CloseWorkerChannels, StreamStates
<1>11. ASSUME Tick PROVE TypeOK'
  BY <1>11 DEF TypeOK, Tick
<1>12. ASSUME UNCHANGED vars PROVE TypeOK'
  BY <1>12 DEF TypeOK, vars
<1> QED
  BY <1>1, <1>2, <1>3, <1>4, <1>5, <1>6, <1>7, <1>8, <1>9, <1>10, <1>11, <1>12
     DEF Next, SessionStep, StreamStep

-----------------------------------------------------------------------------
\* What a step does to the rest of IInv, one lemma per action that disturbs it.

InvParts ==
  /\ ChannelHasRow
  /\ OneLiveStream
  /\ NoDanglingInterval
  /\ DroppedIsWatched
  /\ OpenedBeforeNow
  /\ UnusedIsBlank

\* The initial states: nothing listed, nothing open.
LEMMA InvInit == Init => InvParts
BY ChannelAssumption DEF Init, InvParts, ChannelHasRow, OneLiveStream, NoDanglingInterval,
   DroppedIsWatched, OpenedBeforeNow, UnusedIsBlank, StreamStates, Opened

\* Rows, heartbeats, pushes and requests to stop leave the channel as it is.
LEMMA RowStep ==
  ASSUME IInv, NEW s \in Sessions,
         \/ TrackPendingLaunch(s) \/ HandleSessionCreate(s) \/ DropPlaceholder(s)
         \/ HandleWorkerHeartbeat(s) \/ PushClientEvent(s)
         \/ BeginStop(s) \/ StopRefused(s)
  PROVE  InvParts'
<1> USE DEF rowVars, recordVars, streamVars
<1>1. /\ UNCHANGED <<cur, downstream, eviction, streamVars, closing>>
      /\ \A r \in Sessions : \/ status'[r] = status[r]
                             \/ status[r] = "unborn" /\ status'[r] \in {"registering", "connecting"}
                             \/ status[r] = "registering" /\ status'[r] \in {"connecting", "gone"}
  BY DEF IInv, TypeOK, TrackPendingLaunch, HandleSessionCreate, DropPlaceholder,
     HandleWorkerHeartbeat, PushClientEvent, WriteClientEventFrame, BeginStop, StopRefused
<1>2. ChannelHasRow'
  BY <1>1 DEF IInv, ChannelHasRow, Registered
<1>3. OneLiveStream' /\ NoDanglingInterval' /\ DroppedIsWatched' /\ UnusedIsBlank'
  BY <1>1 DEF IInv, OneLiveStream, NoDanglingInterval, DroppedIsWatched, UnusedIsBlank,
     Downstream, Opened
<1>4. OpenedBeforeNow'
  BY <1>1 DEF IInv, OpenedBeforeNow
<1> QED BY <1>2, <1>3, <1>4 DEF InvParts

\* endDownstream leaves no response open to the session, and no other response touched.
LEMMA TearDownEnds ==
  ASSUME IInv, NEW s \in Sessions, NEW t \in Streams
  PROVE  /\ streamSession[t] = s => Ended(s)[t] # "open"
         /\ Ended(s)[t] = "open" => streamState[t] = "open" /\ t # Downstream(s)
         /\ streamState[t] = "open" /\ t # Downstream(s) => Ended(s)[t] = "open"
         /\ Ended(s)[t] = "unused" <=> streamState[t] = "unused"
BY DEF IInv, OneLiveStream, Ended

\* A re-register starts a record that no response was ever opened on.
LEMMA RegisterStep ==
  ASSUME IInv, NEW s \in Sessions, HandleWorkerRegister(s)
  PROVE  InvParts'
<1> USE ChannelAssumption DEF rowVars, recordVars, streamVars
<1>1. /\ streamState' = Ended(s) /\ beating' = beating \ {Downstream(s)}
      /\ UNCHANGED <<status, streamSession, streamEpoch, closing>>
      /\ cur[s] + 1 \in Epochs /\ cur'[s] = cur[s] + 1
      /\ \A r \in Sessions \ {s} : cur'[r] = cur[r]
  BY DEF HandleWorkerRegister, IInv, TypeOK, Epochs
<1>2. /\ Downstream(s)' = Null
      /\ \A r \in Sessions \ {s} : /\ downstream'[r] = downstream[r]
                                   /\ eviction'[r] = eviction[r]
                                   /\ Downstream(r)' = Downstream(r)
  BY <1>1 DEF HandleWorkerRegister, IInv, TypeOK, Downstream, Epochs
<1>3. ChannelHasRow'
  BY <1>1 DEF IInv, ChannelHasRow, Registered, HandleWorkerRegister
<1>4. \A t \in Streams : streamState'[t] # "unused" => streamState[t] # "unused"
  BY <1>1, TearDownEnds
<1>5. OneLiveStream'
  <2> SUFFICES ASSUME NEW t \in Streams, streamState'[t] = "open"
               PROVE  (/\ streamEpoch[t] = cur[streamSession[t]]
                       /\ Downstream(streamSession[t]) = t)'
    BY DEF OneLiveStream
  <2>1. streamState[t] = "open" /\ streamSession[t] # s
    BY <1>1, TearDownEnds
  <2>2. streamSession[t] \in Sessions \ {s}
    BY <2>1 DEF IInv, OpenedBeforeNow
  <2>3. Downstream(streamSession[t])' = Downstream(streamSession[t])
    BY <1>1, <1>2, <2>2 DEF Downstream
  <2> QED BY <1>1, <2>1, <2>2, <2>3 DEF IInv, OneLiveStream
<1>6. NoDanglingInterval'
  BY <1>1, TearDownEnds DEF IInv, NoDanglingInterval, TypeOK
<1>7. OpenedBeforeNow'
  <2> SUFFICES ASSUME NEW t \in Streams, streamState[t] # "unused"
               PROVE  /\ streamSession[t] \in Sessions
                      /\ streamEpoch[t] \in Epochs
                      /\ \/ status[streamSession[t]] = "gone"
                         \/ streamEpoch[t] <= cur'[streamSession[t]]
    BY <1>1, <1>4 DEF OpenedBeforeNow
  <2>1. CASE streamSession[t] = s
    BY <1>1, <2>1 DEF IInv, OpenedBeforeNow, TypeOK, Epochs
  <2>2. CASE streamSession[t] # s
    BY <1>1, <2>2 DEF IInv, OpenedBeforeNow
  <2> QED BY <2>1, <2>2
<1>8. UnusedIsBlank'
  BY <1>1, TearDownEnds DEF IInv, UnusedIsBlank
<1>9. DroppedIsWatched'
  <2> SUFFICES ASSUME ~closing, NEW r \in Sessions, cur'[r] # 0, Downstream(r)' = Null,
                      Opened(r, cur[r])'
               PROVE  eviction'[r][cur'[r]] # Off
    BY <1>1 DEF DroppedIsWatched
  <2>1. CASE r = s
    <3>1. PICK t \in Streams : streamSession[t] = s /\ streamEpoch[t] = cur[s] + 1
      BY <1>1, <2>1 DEF Opened
    <3>2. streamState[t] # "unused"
      BY <3>1 DEF IInv, UnusedIsBlank
    <3>3. FALSE
      BY <3>1, <3>2 DEF IInv, OpenedBeforeNow, HandleWorkerRegister, Registered, TypeOK
    <3> QED BY <3>3
  <2>2. CASE r # s
    BY <1>1, <1>2, <2>2 DEF IInv, DroppedIsWatched, Opened
  <2> QED BY <2>1, <2>2
<1> QED BY <1>3, <1>5, <1>6, <1>7, <1>8, <1>9 DEF InvParts

\* Opening a stream makes it the session's only one.
LEMMA EventsStreamStep ==
  ASSUME IInv, NEW s \in Sessions, NEW t \in Streams, HandleWorkerEventsStream(s, t)
  PROVE  InvParts'
<1> USE ChannelAssumption DEF rowVars, recordVars, streamVars
<1>1. /\ streamState' = [Ended(s) EXCEPT ![t] = "open"]
      /\ beating' = (beating \ {Downstream(s)}) \cup {t}
      /\ UNCHANGED <<cur, closing>>
      /\ cur[s] \in Epochs
      /\ streamSession'[t] = s /\ streamEpoch'[t] = cur[s]
      /\ \A u \in Streams \ {t} : /\ streamSession'[u] = streamSession[u]
                                  /\ streamEpoch'[u] = streamEpoch[u]
      /\ streamState[t] = "unused"
  BY DEF HandleWorkerEventsStream, IInv, TypeOK, Epochs
<1>2. /\ Downstream(s)' = t
      /\ \A r \in Sessions \ {s} : /\ eviction'[r] = eviction[r]
                                   /\ Downstream(r)' = Downstream(r)
  BY <1>1 DEF HandleWorkerEventsStream, IInv, TypeOK, Downstream, Epochs
<1>3. /\ streamState'[t] = "open"
      /\ \A u \in Streams \ {t} : streamState'[u] = Ended(s)[u]
  BY <1>1, TearDownType DEF IInv, TypeOK
<1>4. \A r \in Sessions : /\ status'[r] = "gone" <=> status[r] = "gone"
                          /\ Registered(r) => Registered(r)'
  BY DEF HandleWorkerEventsStream, MarkSessionReady, Registered, IInv, TypeOK
<1>5. ChannelHasRow'
  BY <1>1, <1>4 DEF IInv, ChannelHasRow
<1>6. OneLiveStream'
  <2> SUFFICES ASSUME NEW u \in Streams, streamState'[u] = "open"
               PROVE  (/\ streamEpoch[u] = cur[streamSession[u]]
                       /\ Downstream(streamSession[u]) = u)'
    BY DEF OneLiveStream
  <2>1. CASE u = t
    BY <1>1, <1>2, <2>1 DEF Downstream
  <2>2. CASE u # t
    <3>1. streamState[u] = "open" /\ streamSession[u] # s
      BY <1>3, <2>2, TearDownEnds
    <3>2. streamSession[u] \in Sessions \ {s}
      BY <3>1 DEF IInv, OpenedBeforeNow
    <3>3. Downstream(streamSession[u])' = Downstream(streamSession[u])
      BY <1>1, <1>2, <2>2, <3>2 DEF Downstream
    <3> QED BY <1>1, <2>2, <3>1, <3>2, <3>3 DEF IInv, OneLiveStream
  <2> QED BY <2>1, <2>2
<1>7. NoDanglingInterval'
  BY <1>1, <1>3, TearDownEnds DEF IInv, NoDanglingInterval, TypeOK
<1>8. OpenedBeforeNow'
  <2> SUFFICES ASSUME NEW u \in Streams, streamState'[u] # "unused"
               PROVE  /\ streamSession'[u] \in Sessions
                      /\ streamEpoch'[u] \in Epochs
                      /\ \/ status'[streamSession'[u]] = "gone"
                         \/ streamEpoch'[u] <= cur'[streamSession'[u]]
    BY DEF OpenedBeforeNow
  <2>1. CASE u = t
    BY <1>1, <2>1 DEF IInv, TypeOK
  <2>2. CASE u # t
    <3>1. streamState[u] # "unused"
      BY <1>3, <2>2, TearDownEnds
    <3> QED BY <1>1, <1>4, <2>2, <3>1 DEF IInv, OpenedBeforeNow
  <2> QED BY <2>1, <2>2
<1>9. UnusedIsBlank'
  BY <1>1, <1>3, TearDownEnds DEF IInv, UnusedIsBlank
<1>10. DroppedIsWatched'
  <2> SUFFICES ASSUME ~closing, NEW r \in Sessions, cur[r] # 0, Downstream(r)' = Null,
                      Opened(r, cur[r])'
               PROVE  eviction'[r][cur[r]] # Off
    BY <1>1 DEF DroppedIsWatched
  <2>1. r # s
    BY <1>2
  <2>2. Opened(r, cur[r])
    BY <1>1, <2>1 DEF Opened
  <2> QED BY <1>1, <1>2, <2>1, <2>2 DEF IInv, DroppedIsWatched
<1> QED BY <1>5, <1>6, <1>7, <1>8, <1>9, <1>10 DEF InvParts

\* A response that closes arms the check of the record that still names it.
LEMMA StreamCloseStep ==
  ASSUME IInv, NEW t \in Streams, StreamClose(t)
  PROVE  InvParts'
<1> USE ChannelAssumption, TimerFacts DEF rowVars, recordVars, streamVars
<1>1. /\ UNCHANGED <<status, cur, streamSession, streamEpoch, closing>>
      /\ beating' = beating \ {t}
      /\ streamState'[t] = "closed" /\ streamState[t] # "unused"
      /\ \A u \in Streams \ {t} : streamState'[u] = streamState[u]
      /\ streamSession[t] \in Sessions /\ streamEpoch[t] \in Epochs
  BY DEF StreamClose, IInv, TypeOK, OpenedBeforeNow
<1>2. \A r \in Sessions : \/ Downstream(r)' = Downstream(r) /\ (cur[r] # 0 => eviction'[r][cur[r]] = eviction[r][cur[r]])
                          \/ Downstream(r) = t /\ Downstream(r)' = Null
                             /\ eviction'[r][cur[r]] = Grace
  <2>1. CASE downstream[streamSession[t]][streamEpoch[t]] = t
    <3>1. /\ downstream' = [downstream EXCEPT ![streamSession[t]][streamEpoch[t]] = Null]
          /\ eviction' = [eviction EXCEPT ![streamSession[t]][streamEpoch[t]] = Grace]
      BY <2>1 DEF StreamClose
    <3> QED BY <1>1, <2>1, <3>1 DEF IInv, TypeOK, Downstream, Epochs
  <2>2. CASE downstream[streamSession[t]][streamEpoch[t]] # t
    BY <1>1, <2>2 DEF StreamClose, Downstream
  <2> QED BY <2>1, <2>2
<1>3. ChannelHasRow' /\ NoDanglingInterval' /\ OpenedBeforeNow' /\ UnusedIsBlank'
  BY <1>1 DEF IInv, TypeOK, ChannelHasRow, Registered, NoDanglingInterval, OpenedBeforeNow,
     UnusedIsBlank
<1>4. OneLiveStream'
  BY <1>1, <1>2 DEF IInv, OneLiveStream, OpenedBeforeNow
<1>5. DroppedIsWatched'
  BY <1>1, <1>2 DEF IInv, DroppedIsWatched, Opened
<1> QED BY <1>3, <1>4, <1>5 DEF InvParts

\* Eviction and stop end the session: its row goes, its stream and record with it.
LEMMA ReapStep ==
  ASSUME IInv, NEW s \in Sessions, CloseSession(s), ReapWorkerChannel(s),
         UNCHANGED <<downstream, streamSession, streamEpoch, closing>>
  PROVE  InvParts'
<1>1. /\ cur'[s] = 0 /\ Downstream(s)' = Null
      /\ \A r \in Sessions \ {s} : /\ cur'[r] = cur[r] /\ eviction'[r] = eviction[r]
                                   /\ Downstream(r)' = Downstream(r)
      /\ streamState' = Ended(s) /\ beating' = beating \ {Downstream(s)}
  BY DEF ReapWorkerChannel, IInv, TypeOK, Downstream
<1>2. /\ \A r \in Sessions \ {s} : status'[r] = status[r]
      /\ InRegistry(s) => status'[s] = "gone"
      /\ ~InRegistry(s) => status' = status
  BY DEF CloseSession, IInv, TypeOK
<1>3. ChannelHasRow'
  BY <1>1, <1>2 DEF IInv, ChannelHasRow, Registered
<1>4. OneLiveStream'
  <2> SUFFICES ASSUME NEW t \in Streams, streamState'[t] = "open"
               PROVE  (/\ streamEpoch[t] = cur[streamSession[t]]
                       /\ Downstream(streamSession[t]) = t)'
    BY DEF OneLiveStream
  <2>1. streamState[t] = "open" /\ streamSession[t] \in Sessions \ {s}
    BY <1>1, TearDownEnds DEF IInv, OpenedBeforeNow
  <2>2. Downstream(streamSession[t])' = Downstream(streamSession[t])
    BY <1>1, <2>1 DEF Downstream
  <2> QED BY <1>1, <2>1, <2>2 DEF IInv, OneLiveStream
<1>5. NoDanglingInterval' /\ UnusedIsBlank'
  BY <1>1, TearDownEnds DEF IInv, NoDanglingInterval, UnusedIsBlank, TypeOK
<1>6. OpenedBeforeNow'
  <2> SUFFICES ASSUME NEW t \in Streams, streamState[t] # "unused"
               PROVE  /\ streamSession[t] \in Sessions
                      /\ streamEpoch[t] \in Epochs
                      /\ \/ status'[streamSession[t]] = "gone"
                         \/ streamEpoch[t] <= cur'[streamSession[t]]
    BY <1>1, TearDownEnds DEF OpenedBeforeNow
  <2>1. CASE streamSession[t] # s
    BY <1>1, <1>2, <2>1 DEF IInv, OpenedBeforeNow
  <2>2. CASE streamSession[t] = s /\ InRegistry(s)
    BY <1>2, <2>2 DEF IInv, OpenedBeforeNow
  <2>3. CASE streamSession[t] = s /\ ~InRegistry(s)
    <3>1. cur[s] = 0
      BY <2>3 DEF IInv, ChannelHasRow, Registered, InRegistry, Listed
    <3>2. status[s] = "gone" /\ streamEpoch[t] \in Epochs
      BY <2>3, <3>1, ChannelAssumption DEF IInv, OpenedBeforeNow, Epochs
    <3> QED BY <1>2, <2>3, <3>2
  <2> QED BY <2>1, <2>2, <2>3
<1>7. DroppedIsWatched'
  <2> SUFFICES ASSUME ~closing, NEW r \in Sessions, cur'[r] # 0, Downstream(r)' = Null,
                      Opened(r, cur[r])'
               PROVE  eviction'[r][cur'[r]] # Off
    BY DEF DroppedIsWatched
  <2>1. r # s
    BY <1>1
  <2> QED BY <1>1, <2>1 DEF IInv, DroppedIsWatched, Opened
<1> QED BY <1>3, <1>4, <1>5, <1>6, <1>7 DEF InvParts

\* A check disarms itself only against a record the session no longer needs watched.
LEMMA EvictionStep ==
  ASSUME IInv, NEW s \in Sessions, NEW e \in Epochs, ConsiderEviction(s, e)
  PROVE  InvParts'
<1> USE TimerFacts DEF rowVars, recordVars, streamVars
<1>1. CASE EvictionReaps(s, e)
  BY <1>1, ReapStep DEF EvictionReaps
<1>2. CASE EvictionBails(s, e) \/ EvictionRetains(s, e)
  <2>1. /\ UNCHANGED <<status, cur, downstream, streamVars, closing>>
        /\ \A r \in Sessions, f \in Epochs :
             \/ eviction'[r][f] = eviction[r][f]
             \/ r = s /\ f = e /\ (EvictionRetains(s, e) => eviction'[r][f] = Grace)
    BY <1>2 DEF EvictionBails, EvictionRetains, IInv, TypeOK
  <2>2. ChannelHasRow' /\ OneLiveStream' /\ NoDanglingInterval' /\ OpenedBeforeNow' /\ UnusedIsBlank'
    BY <2>1 DEF IInv, ChannelHasRow, Registered, OneLiveStream, Downstream, NoDanglingInterval,
       OpenedBeforeNow, UnusedIsBlank
  <2>3. DroppedIsWatched'
    <3> SUFFICES ASSUME ~closing, NEW r \in Sessions, cur[r] # 0, Downstream(r) = Null,
                        Opened(r, cur[r])
                 PROVE  eviction'[r][cur[r]] # Off
      BY <2>1 DEF DroppedIsWatched, Downstream, Opened
    <3>1. cur[r] \in Epochs /\ eviction[r][cur[r]] # Off
      BY ChannelAssumption DEF IInv, TypeOK, DroppedIsWatched, Epochs
    <3>2. CASE r = s /\ cur[r] = e
      <4>1. Unattended(s, e)
        BY <3>2 DEF Unattended, Downstream, IInv, ChannelHasRow, Registered, InRegistry, Listed
      <4>2. EvictionRetains(s, e)
        BY <1>2, <4>1 DEF EvictionBails
      <4> QED BY <4>2, <3>2 DEF EvictionRetains, IInv, TypeOK
    <3>3. CASE ~(r = s /\ cur[r] = e)
      BY <2>1, <3>1, <3>3
    <3> QED BY <3>2, <3>3
  <2> QED BY <2>2, <2>3 DEF InvParts
<1> QED BY <1>1, <1>2 DEF ConsiderEviction

\* Shutdown ends every open response.
LEMMA CloseStep ==
  ASSUME IInv, CloseWorkerChannels
  PROVE  InvParts'
<1> USE DEF rowVars
<1>1. /\ UNCHANGED <<status, cur, streamSession, streamEpoch>> /\ closing'
      /\ \A t \in Streams : /\ streamState'[t] # "open"
                            /\ streamState'[t] = "unused" <=> streamState[t] = "unused"
      /\ \A t \in beating' : t \in beating /\ Downstream(streamSession[t]) # t
  BY DEF CloseWorkerChannels, IInv, TypeOK, OneLiveStream
<1>2. beating' = {}
  BY <1>1 DEF IInv, TypeOK, NoDanglingInterval, OneLiveStream
<1> QED
  BY <1>1, <1>2 DEF InvParts, IInv, ChannelHasRow, Registered, OneLiveStream, NoDanglingInterval,
     DroppedIsWatched, OpenedBeforeNow, UnusedIsBlank

\* Time alone disarms nothing.
LEMMA TickStep ==
  ASSUME IInv, Tick
  PROVE  InvParts'
<1> USE TimerFacts, ChannelAssumption DEF streamVars
<1>1. /\ UNCHANGED <<status, cur, downstream, streamVars, closing>>
      /\ \A r \in Sessions, e \in Epochs : eviction'[r][e] = Elapsed(eviction[r][e])
  BY DEF Tick
<1>2. DroppedIsWatched'
  <2> SUFFICES ASSUME ~closing, NEW r \in Sessions, cur[r] # 0, Downstream(r) = Null,
                      Opened(r, cur[r])
               PROVE  eviction'[r][cur[r]] # Off
    BY <1>1 DEF DroppedIsWatched, Downstream, Opened
  <2>1. cur[r] \in Epochs /\ eviction[r][cur[r]] # Off /\ eviction[r][cur[r]] \in Timers
    BY DEF IInv, TypeOK, DroppedIsWatched, Epochs
  <2> QED BY <1>1, <2>1
<1> QED
  BY <1>1, <1>2 DEF InvParts, IInv, ChannelHasRow, Registered, OneLiveStream, Downstream,
     NoDanglingInterval, OpenedBeforeNow, UnusedIsBlank

\* A liveness frame moves the counter and nothing else.
LEMMA FrameStep ==
  ASSUME IInv, UNCHANGED <<status, cur, downstream, eviction, streamVars, closing>>
  PROVE  InvParts'
BY DEF streamVars, InvParts, IInv, ChannelHasRow, Registered, OneLiveStream, Downstream,
   NoDanglingInterval, DroppedIsWatched, Opened, OpenedBeforeNow, UnusedIsBlank

\* Every step keeps the invariant.
LEMMA InvStep == IInv /\ [Next]_vars => IInv'
<1> SUFFICES ASSUME IInv, [Next]_vars PROVE IInv'
  OBVIOUS
<1>1. TypeOK'
  BY TypeStep DEF IInv
<1>2. InvParts'
  <2>1. ASSUME NEW s \in Sessions, SessionStep(s) PROVE InvParts'
    <3>1. CASE FinishStop(s)
      BY <3>1, ReapStep DEF FinishStop
    <3> QED BY <2>1, <3>1, RowStep, RegisterStep, EventsStreamStep, EvictionStep DEF SessionStep
  <2>2. ASSUME NEW t \in Streams, StreamStep(t) PROVE InvParts'
    <3>1. CASE WriteLivenessFrame(t)
      BY <3>1, FrameStep DEF WriteLivenessFrame, WriteClientEventFrame, rowVars, recordVars
    <3> QED BY <2>2, <3>1, StreamCloseStep DEF StreamStep
  <2>3. CASE UNCHANGED vars
    BY <2>3, FrameStep DEF vars, rowVars, recordVars
  <2> QED BY <2>1, <2>2, <2>3, CloseStep, TickStep DEF Next
<1> QED BY <1>1, <1>2 DEF IInv, InvParts

\* IInv holds in every reachable state.
THEOREM Invariant == Spec => []IInv
<1>1. Init => IInv
  BY TypeInit, InvInit DEF IInv, InvParts
<1> QED BY <1>1, InvStep, PTL DEF Spec

\* Every state the channel can reach is typed.
THEOREM TypeCorrect == Spec => []TypeOK
BY Invariant, PTL DEF IInv

\* No channel outlives its session, however the session ended.
THEOREM ChannelHasRowAlways == Spec => []ChannelHasRow
BY Invariant, PTL DEF IInv

\* No superseded generation and no ended session keeps a stream.
THEOREM OneLiveStreamAlways == Spec => []OneLiveStream
BY Invariant, PTL DEF IInv

\* No liveness interval beats against a response that is not open.
THEOREM NoDanglingIntervalAlways == Spec => []NoDanglingInterval
BY Invariant, PTL DEF IInv

\* A worker that dropped its stream is always being watched.
THEOREM DroppedIsWatchedAlways == Spec => []DroppedIsWatched
BY Invariant, PTL DEF IInv

-----------------------------------------------------------------------------
\* What one step may do to a row.
LEMMA RowMoves ==
  ASSUME IInv, [Next]_vars, NEW s \in Sessions, status'[s] # status[s]
  PROVE  /\ <<status[s], status'[s]>> \in Lifecycle!MayBecome
         /\ Registered(s) /\ status'[s] = "gone" =>
              \/ s \in stopping
              \/ IsSessionStale(gap[s]) /\ Downstream(s) = Null
<1> USE DEF rowVars, recordVars, streamVars, Lifecycle!MayBecome, Lifecycle!Phases
<1>1. PICK r \in Sessions : SessionStep(r)
  BY DEF Next, vars, StreamStep, StreamClose, WriteLivenessFrame, WriteClientEventFrame,
     CloseWorkerChannels, Tick
<1>2. CASE TrackPendingLaunch(r) \/ HandleSessionCreate(r) \/ DropPlaceholder(r)
  BY <1>2 DEF TrackPendingLaunch, HandleSessionCreate, DropPlaceholder, Registered, IInv, TypeOK
<1>3. CASE \E t \in Streams : HandleWorkerEventsStream(r, t)
  BY <1>3 DEF HandleWorkerEventsStream, MarkSessionReady, IInv, TypeOK
<1>4. CASE FinishStop(r)
  BY <1>4 DEF FinishStop, CloseSession, InRegistry, Listed, IInv, TypeOK
<1>5. CASE \E e \in Epochs : ConsiderEviction(r, e)
  <2>1. PICK e \in Epochs : EvictionReaps(r, e)
    BY <1>5 DEF ConsiderEviction, EvictionBails, EvictionRetains
  <2>2. r = s
    BY <2>1 DEF EvictionReaps, CloseSession, IInv, TypeOK
  <2> QED
    BY <2>1, <2>2 DEF EvictionReaps, CloseSession, Unattended, InRegistry, Listed, Downstream,
       IInv, TypeOK
<1> QED
  BY <1>1, <1>2, <1>3, <1>4, <1>5 DEF SessionStep, HandleWorkerRegister, HandleWorkerHeartbeat,
     PushClientEvent, WriteClientEventFrame, BeginStop, StopRefused

\* A registered session ends only under a stop, or silent and without a stream.
THEOREM EvictedOnlyWhenGoneAlways == Spec => EvictedOnlyWhenGone
<1>1. IInv /\ [Next]_vars =>
        \A s \in Sessions :
          Registered(s) /\ status'[s] = "gone" /\ s \notin stopping =>
            /\ IsSessionStale(gap[s])
            /\ \A t \in Streams : streamSession[t] = s => streamState[t] # "open"
  <2> SUFFICES ASSUME IInv, [Next]_vars, NEW s \in Sessions,
                      Registered(s), status'[s] = "gone", s \notin stopping
               PROVE  /\ IsSessionStale(gap[s])
                      /\ \A t \in Streams : streamSession[t] = s => streamState[t] # "open"
    OBVIOUS
  <2>1. IsSessionStale(gap[s]) /\ Downstream(s) = Null
    BY RowMoves DEF Registered
  <2> QED BY <2>1, ChannelAssumption DEF IInv, OneLiveStream
<1> QED BY <1>1, Invariant, PTL DEF Spec, EvictedOnlyWhenGone

\* The channel moves a session id only as SessionLifecycle allows.
THEOREM Refinement == Spec => ImplementsLifecycle
<1>1. Init => Lifecycle!Init
  BY DEF Init, Lifecycle!Init
<1>2. IInv /\ [Next]_vars => [Lifecycle!Next]_status
  <2> SUFFICES ASSUME IInv, [Next]_vars PROVE Lifecycle!Next
    OBVIOUS
  <2>1. status' \in [Sessions -> Lifecycle!Phases]
    BY TypeStep DEF IInv, TypeOK, Listed, Lifecycle!Phases
  <2> QED BY <2>1, RowMoves DEF Lifecycle!Next
<1> QED BY <1>1, <1>2, Invariant, PTL DEF Spec, ImplementsLifecycle, Lifecycle!Spec

\* The downstream counter of a session never moves back, whatever re-registers.
THEOREM DownstreamIdsNeverRepeatAlways == Spec => DownstreamIdsNeverRepeat
<1>1. IInv /\ [Next]_vars => \A s \in Sessions : cur[s] # 0 => nextSeq'[s] >= nextSeq[s]
  <2> SUFFICES ASSUME IInv, [Next]_vars, NEW s \in Sessions, cur[s] # 0
               PROVE  nextSeq'[s] >= nextSeq[s]
    OBVIOUS
  <2>1. nextSeq \in [Sessions -> 1 .. MaxSeq + 1]
    BY DEF IInv, TypeOK
  <2>2. ASSUME nextSeq' = nextSeq PROVE nextSeq'[s] >= nextSeq[s]
    BY <2>1, <2>2
  <2>3. ASSUME NEW r \in Sessions, WriteClientEventFrame(r) PROVE nextSeq'[s] >= nextSeq[s]
    BY <2>1, <2>3 DEF WriteClientEventFrame
  <2>4. ASSUME NEW r \in Sessions, HandleWorkerRegister(r) PROVE nextSeq'[s] >= nextSeq[s]
    BY <2>1, <2>4 DEF HandleWorkerRegister
  <2>5. ASSUME NEW r \in Sessions, SessionStep(r) PROVE nextSeq'[s] >= nextSeq[s]
    BY <2>2, <2>3, <2>4, <2>5 DEF SessionStep, TrackPendingLaunch, HandleSessionCreate, DropPlaceholder,
       HandleWorkerHeartbeat, PushClientEvent, HandleWorkerEventsStream, ConsiderEviction, EvictionBails,
       EvictionRetains, EvictionReaps, BeginStop, StopRefused, FinishStop
  <2>6. ASSUME NEW t \in Streams, StreamStep(t) PROVE nextSeq'[s] >= nextSeq[s]
    <3>1. CASE StreamClose(t)
      BY <2>2, <3>1 DEF StreamClose
    <3>2. CASE WriteLivenessFrame(t)
      <4>1. streamSession[t] \in Sessions
        BY <3>2 DEF WriteLivenessFrame, IInv, OpenedBeforeNow
      <4> QED BY <2>3, <3>2, <4>1 DEF WriteLivenessFrame
    <3> QED BY <2>6, <3>1, <3>2 DEF StreamStep
  <2>7. CASE CloseWorkerChannels \/ Tick \/ UNCHANGED vars
    BY <2>2, <2>7 DEF CloseWorkerChannels, Tick, vars
  <2> QED BY <2>5, <2>6, <2>7 DEF Next
<1> QED BY <1>1, Invariant, PTL DEF Spec, DownstreamIdsNeverRepeat
=============================================================================
