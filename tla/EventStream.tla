------------------------------ MODULE EventStream ------------------------------
(***************************************************************************)
(* The UI stream of one session: the relay that numbers its events and     *)
(* keeps the last of them, the browsers subscribed to it, and a browser    *)
(* that comes back with the last id it has seen.                           *)
(*                                                                         *)
(* A subscription is a response.  What the server writes to it is under    *)
(* way until the browser reads it, and is lost with the connection; the    *)
(* server learns later, or never, that a connection has gone.  Events have *)
(* no content here but their id.                                           *)
(***************************************************************************)
EXTENDS Integers, Sequences, Functions

CONSTANTS
  Clients,      \* browsers watching the session
  Responses,    \* responses of GET /api/sessions/{id}/events, one per request
  Null,         \* no response, no client
  BufferSize,   \* EVENT_REPLAY_BUFFER_SIZE
  MaxEvents     \* bound on the events of the session

ASSUME StreamAssumption ==
  /\ Null \notin Clients \cup Responses
  /\ BufferSize \in Nat \ {0}
  /\ MaxEvents \in Nat

VARIABLES
  \* the server
  row,           \* the session: launched, registered over the bridge, gone
  relay,         \* eventRelays has the session's relay
  nextEventId,   \* and its members
  buffer,
  subscribers,
  streamsEnded,  \* close() has ended the streams
  \* the connections
  reader,        \* who requested each response
  conn,          \* where it stands
  wire,          \* the events written to it and not yet read
  \* the browsers
  current,       \* the response of each browser's EventSource
  cursor,        \* the last event id it has seen, 0 for none
  \* history
  watching,      \* browsers that have subscribed before
  owed,          \* events of a browser's watch that it has not seen and could
  skipped,       \* those of them its next subscription passed over
  farewell       \* the id of the session-closed event, 0 for none

relayVars == <<row, relay, nextEventId, buffer, subscribers, streamsEnded>>
linkVars == <<reader, conn, wire>>
historyVars == <<watching, owed, skipped, farewell>>
streamVars == <<relayVars, linkVars, current, cursor, historyVars>>

Events == 1 .. (MaxEvents + 1)

StreamInit ==
  /\ row = "registering"
  /\ relay = FALSE
  /\ nextEventId = 1
  /\ buffer = <<>>
  /\ subscribers = {}
  /\ streamsEnded = FALSE
  /\ reader = [r \in Responses |-> Null]
  /\ conn = [r \in Responses |-> "unused"]
  /\ wire = [r \in Responses |-> <<>>]
  /\ current = [c \in Clients |-> Null]
  /\ cursor = [c \in Clients |-> 0]
  /\ watching = {}
  /\ owed = [c \in Clients |-> {}]
  /\ skipped = [c \in Clients |-> {}]
  /\ farewell = 0

-----------------------------------------------------------------------------
\* The browser is attached: what is written to its response it can still read.
Attached(c) == current[c] # Null /\ current[c] \in subscribers

\* Retained first, the oldest dropped beyond the window ...
Retained(id) ==
  LET longer == Append(buffer, id)
  IN  IF Len(longer) > BufferSize THEN Tail(longer) ELSE longer

\* ... then written to every subscriber; a connection that broke swallows it.
Written(id) ==
  [r \in Responses |->
     IF r \in subscribers /\ conn[r] = "open" THEN Append(wire[r], id) ELSE wire[r]]

\* A browser that watches is owed the event while anything can bring it.
Owing(id) ==
  [c \in Clients |->
     IF c \notin watching THEN {}
     ELSE IF Attached(c) THEN owed[c] \cup {id}
     ELSE (owed[c] \cup {id}) \cap Range(Retained(id))]

\* broadcastEvent, for an event of the worker's, an idle or a needs-input event:
\* all of them only of a session that is listed and has registered.
BroadcastEvent ==
  /\ row = "registered"
  /\ nextEventId <= MaxEvents
  /\ relay' = TRUE
  /\ nextEventId' = nextEventId + 1
  /\ buffer' = Retained(nextEventId)
  /\ wire' = Written(nextEventId)
  /\ owed' = Owing(nextEventId)
  /\ UNCHANGED <<row, subscribers, streamsEnded, reader, conn, current, cursor, watching, skipped, farewell>>

-----------------------------------------------------------------------------
\* The end of the buffer from where its ids, which ascend, are newer than this one.
NewerThan(id) ==
  LET from == CHOOSE n \in 1 .. Len(buffer) + 1 : \A i \in DOMAIN buffer : i >= n <=> buffer[i] > id
  IN  SubSeq(buffer, from, Len(buffer))

\* Mutant: the replay begins with the event the cursor names.
ReplayFromSeen(lastEventId) == IF lastEventId = 0 THEN <<>> ELSE NewerThan(lastEventId - 1)

\* Mutant: a reconnect is brought only the latest event.
ReplayLatest(lastEventId) ==
  IF lastEventId \in {0, nextEventId - 1} THEN <<>> ELSE NewerThan(nextEventId - 2)

\* The events a reconnect replays; a request without a cursor starts live.
Replay(lastEventId) == IF lastEventId = 0 THEN <<>> ELSE NewerThan(lastEventId)

\* The browser's EventSource subscribes, or comes back by itself: it sends the
\* last id it has seen, and no header at all if it has seen none.
HandleEventStream(c, r) ==
  /\ row # "gone"
  /\ current[c] = Null
  /\ conn[r] = "unused"
  /\ relay' = TRUE
  /\ subscribers' = subscribers \cup {r}
  /\ reader' = [reader EXCEPT ![r] = c]
  /\ conn' = [conn EXCEPT ![r] = "open"]
  /\ wire' = [wire EXCEPT ![r] = Replay(cursor[c])]
  /\ current' = [current EXCEPT ![c] = r]
  /\ watching' = watching \cup {c}
  /\ IF cursor[c] = 0
       THEN /\ skipped' = [skipped EXCEPT ![c] = @ \cup owed[c]]
            /\ owed' = [owed EXCEPT ![c] = {}]
       ELSE UNCHANGED <<skipped, owed>>
  /\ UNCHANGED <<row, nextEventId, buffer, streamsEnded, cursor, farewell>>

\* The browser reads the next event of its stream.
Receive(c) ==
  /\ current[c] # Null
  /\ wire[current[c]] # <<>>
  /\ cursor' = [cursor EXCEPT ![c] = Head(wire[current[c]])]
  /\ owed' = [owed EXCEPT ![c] = @ \ {Head(wire[current[c]])}]
  /\ wire' = [wire EXCEPT ![current[c]] = Tail(@)]
  /\ UNCHANGED <<relayVars, reader, conn, current, watching, skipped, farewell>>

\* The connection breaks, and what was under way on it is lost.
Break(c) ==
  /\ current[c] # Null
  /\ conn' = [conn EXCEPT ![current[c]] = "broken"]
  /\ wire' = [wire EXCEPT ![current[c]] = <<>>]
  /\ current' = [current EXCEPT ![c] = Null]
  /\ owed' = [owed EXCEPT ![c] = @ \cap Range(buffer)]
  /\ UNCHANGED <<relayVars, reader, cursor, watching, skipped, farewell>>

\* res.on("close"), once the server has noticed.
ResponseClose(r) ==
  /\ conn[r] = "broken"
  /\ conn' = [conn EXCEPT ![r] = "closed"]
  /\ subscribers' = subscribers \ {r}
  /\ UNCHANGED <<row, relay, nextEventId, buffer, streamsEnded, reader, wire, current, cursor, historyVars>>

-----------------------------------------------------------------------------
\* The ends of the stream.

\* Responses the server ends: what it has written to them can still be read.
EndedBy(set) ==
  [r \in Responses |-> IF r \in set /\ conn[r] = "open" THEN "ended" ELSE conn[r]]

\* closeSessionRelay: the relay is dropped with its buffer and its numbering.
CloseSessionRelay ==
  /\ conn' = EndedBy(subscribers)
  /\ subscribers' = {}
  /\ relay' = FALSE
  /\ nextEventId' = 1
  /\ buffer' = <<>>

\* The launch registers: only then may its worker report.
SessionRegisters ==
  /\ row = "registering"
  /\ row' = "registered"
  /\ UNCHANGED <<relay, nextEventId, buffer, subscribers, streamsEnded, linkVars, current, cursor, historyVars>>

\* Mutant: the relay is closed first, and the farewell goes into a fresh one that has
\* nobody to tell and that nothing will ever close.
CloseReapsFirst ==
  /\ row = "registered"
  /\ row' = "gone"
  /\ conn' = EndedBy(subscribers)
  /\ subscribers' = {}
  /\ relay' = TRUE /\ nextEventId' = 2 /\ buffer' = <<1>> /\ farewell' = 1
  /\ owed' = [c \in Clients |-> {}]
  /\ UNCHANGED <<streamsEnded, reader, wire, current, cursor, watching, skipped>>

\* closeSession: the watchers are told, then the relay is closed.
CloseSession ==
  /\ row = "registered"
  /\ row' = "gone"
  /\ farewell' = nextEventId
  /\ wire' = Written(nextEventId)
  /\ owed' = [c \in Clients |-> IF Attached(c) THEN owed[c] \cup {nextEventId} ELSE {}]
  /\ CloseSessionRelay
  /\ UNCHANGED <<streamsEnded, reader, current, cursor, watching, skipped>>

\* dropPlaceholder: a launch that never registers ends without a word.
DropPlaceholder ==
  /\ row = "registering"
  /\ row' = "gone"
  /\ CloseSessionRelay
  /\ UNCHANGED <<streamsEnded, reader, wire, current, cursor, historyVars>>

\* close(): every stream is ended; the relay stays.
CloseEventStreams ==
  /\ ~streamsEnded
  /\ streamsEnded' = TRUE
  /\ conn' = EndedBy(subscribers)
  /\ subscribers' = {}
  /\ UNCHANGED <<row, relay, nextEventId, buffer, reader, wire, current, cursor, historyVars>>

StreamNext ==
  \/ BroadcastEvent \/ SessionRegisters
  \/ CloseSession \/ DropPlaceholder \/ CloseEventStreams
  \/ \E c \in Clients : Receive(c) \/ Break(c)
  \/ \E c \in Clients, r \in Responses : HandleEventStream(c, r)
  \/ \E r \in Responses : ResponseClose(r)

StreamSpec == StreamInit /\ [][StreamNext]_streamVars

-----------------------------------------------------------------------------
StreamTypeOK ==
  /\ row \in {"registering", "registered", "gone"}
  /\ relay \in BOOLEAN
  /\ nextEventId \in 1 .. MaxEvents + 1
  /\ buffer \in Seq(Events) /\ Len(buffer) <= BufferSize
  /\ subscribers \in SUBSET Responses
  /\ streamsEnded \in BOOLEAN
  /\ reader \in [Responses -> Clients \cup {Null}]
  /\ conn \in [Responses -> {"unused", "open", "broken", "ended", "closed"}]
  /\ wire \in [Responses -> Seq(Events)]
  /\ current \in [Clients -> Responses \cup {Null}]
  /\ cursor \in [Clients -> 0 .. MaxEvents + 1]
  /\ watching \in SUBSET Clients
  /\ owed \in [Clients -> SUBSET Events]
  /\ skipped \in [Clients -> SUBSET Events]
  /\ farewell \in 0 .. MaxEvents + 1

Ascending(seq) == \A i, j \in DOMAIN seq : i < j => seq[i] < seq[j]

\* Whatever it reconnects with, a browser is never shown an event twice or out of
\* order: what its stream still holds is newer than what it has seen.
InOrderOnce ==
  \A c \in Clients : current[c] # Null => Ascending(<<cursor[c]>> \o wire[current[c]])

\* A reconnect makes good what the broken connection lost: an attached browser
\* has coming every event it is owed and the replay window still held.
NothingRetainedIsLost ==
  \A c \in Clients : Attached(c) => owed[c] \subseteq Range(wire[current[c]])

\* A browser whose stream the end of the session ended is told so, last.
FarewellIsLast ==
  \A c \in Clients :
    current[c] # Null /\ farewell # 0 /\ conn[current[c]] = "ended" /\ ~streamsEnded =>
      LET w == wire[current[c]] IN IF w = <<>> THEN cursor[c] = farewell ELSE w[Len(w)] = farewell

\* No relay outlives its session: nothing would ever drop it.
RelayHasRow == relay => row # "gone"

\* The same of every end: all of them, says the launch cap, go through the one
\* terminal seam, which tells the watchers of a session that it is over.
EveryWatcherIsTold ==
  \A c \in Clients :
    current[c] # Null /\ conn[current[c]] = "ended" /\ ~streamsEnded => farewell # 0

\* The promise of broadcastEvent that an event is retained whoever is subscribed,
\* so that a client that reconnects afterwards can reconcile the gap.
ReconnectReconciles == \A c \in Clients : skipped[c] = {}
=============================================================================
