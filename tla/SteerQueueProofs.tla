--------------------------- MODULE SteerQueueProofs ---------------------------
(***************************************************************************)
(* What SteerQueue's run checks with two commands, proved for any number of *)
(* commands, of sessions and of events.                                     *)
(***************************************************************************)
EXTENDS SteerQueue, FunctionTheorems, FiniteSetTheorems, SequenceTheorems, TLAPS

\* The rank of a position among those picked: later positions rank higher, and every
\* rank up to their number is some position's.
LEMMA RanksAreAll ==
  ASSUME NEW n \in Nat, NEW at \in SUBSET (1 .. n)
  PROVE  LET rank == [i \in at |-> Cardinality({j \in at : j <= i})]
         IN  /\ Cardinality(at) \in Nat
             /\ \A i, j \in at : i < j => rank[i] < rank[j]
             /\ \A i \in at : rank[i] \in 1 .. Cardinality(at)
             /\ \A k \in 1 .. Cardinality(at) : \E i \in at : rank[i] = k
<1> DEFINE upTo(i) == {j \in at : j <= i}
           rank == [i \in at |-> Cardinality(upTo(i))]
<1>1. IsFiniteSet(at) /\ Cardinality(at) \in Nat
  <2>1. IsFiniteSet(1 .. n)
    BY FS_Interval
  <2>2. IsFiniteSet(at)
    BY <2>1, FS_Subset
  <2> QED BY <2>2, FS_CardinalityType
<1>2. \A i \in at : IsFiniteSet(upTo(i)) /\ Cardinality(upTo(i)) \in 1 .. Cardinality(at)
  <2> SUFFICES ASSUME NEW i \in at
               PROVE  IsFiniteSet(upTo(i)) /\ Cardinality(upTo(i)) \in 1 .. Cardinality(at)
    OBVIOUS
  <2>1. upTo(i) \in SUBSET at /\ i \in upTo(i)
    OBVIOUS
  <2>2. IsFiniteSet(upTo(i)) /\ Cardinality(upTo(i)) <= Cardinality(at)
    BY <1>1, <2>1, FS_Subset
  <2>3. Cardinality(upTo(i)) \in Nat /\ Cardinality(upTo(i)) # 0
    BY <2>1, <2>2, FS_CardinalityType, FS_EmptySet
  <2> QED BY <1>1, <2>2, <2>3
<1>3. \A i, j \in at : i < j => Cardinality(upTo(i)) < Cardinality(upTo(j))
  <2> SUFFICES ASSUME NEW i \in at, NEW j \in at, i < j
               PROVE  Cardinality(upTo(i)) < Cardinality(upTo(j))
    OBVIOUS
  <2>1. upTo(i) \in SUBSET upTo(j) /\ j \in upTo(j) /\ j \notin upTo(i)
    <3>1. i \in Int /\ j \in Int /\ \A k \in at : k \in Int
      OBVIOUS
    <3>2. \A k \in at : k <= i => k <= j
      BY <3>1
    <3>3. j <= j /\ ~(j <= i)
      BY <3>1
    <3> QED BY <3>2, <3>3
  <2>2. Cardinality(upTo(i)) <= Cardinality(upTo(j)) /\ Cardinality(upTo(i)) # Cardinality(upTo(j))
    BY <1>2, <2>1, FS_Subset
  <2> QED BY <1>2, <2>2
<1>4. rank \in Injection(at, 1 .. Cardinality(at))
  <2>1. rank \in [at -> 1 .. Cardinality(at)]
    BY <1>2
  <2>2. \A i, j \in at : rank[i] = rank[j] => i = j
    BY <1>2, <1>3
  <2> QED BY <2>1, <2>2, Fun_IsInj
<1>5. rank \in Surjection(at, 1 .. Cardinality(at))
  <2>1. IsFiniteSet(1 .. Cardinality(at)) /\ Cardinality(1 .. Cardinality(at)) = Cardinality(at)
    BY <1>1, FS_Interval
  <2> QED BY <1>4, <2>1, FS_Injection
<1> QED BY <1>1, <1>2, <1>3, <1>5 DEF Surjection

\* nth is the position in seq of each place of picked: the positions are those in at,
\* all of them, in their order.
IsPlacing(nth, picked, seq, at) ==
  /\ nth \in [DOMAIN picked -> at]
  /\ \A k \in DOMAIN picked : picked[k] = seq[nth[k]]
  /\ \A k, l \in DOMAIN picked : k < l => nth[k] < nth[l]
  /\ \A i \in at : \E k \in DOMAIN picked : nth[k] = i

\* What is picked of a sequence is all the items at the positions, in their order.
LEMMA PickedInOrder ==
  ASSUME NEW S, NEW seq \in Seq(S), NEW at \in SUBSET DOMAIN seq
  PROVE  /\ Picked(seq, at) \in Seq(S)
         /\ \E nth : IsPlacing(nth, Picked(seq, at), seq, at)
<1> DEFINE size == Cardinality(at)
           rank == [i \in at |-> Cardinality({j \in at : j <= i})]
           nth == [k \in 1 .. size |-> CHOOSE i \in at : Cardinality({j \in at : j <= i}) = k]
           picked == Picked(seq, at)
<1>1. \A i \in at : i \in Int /\ seq[i] \in S
  BY Len(seq) \in Nat, DOMAIN seq = 1 .. Len(seq)
<1>2. /\ size \in Nat
      /\ \A i, j \in at : i < j => rank[i] < rank[j]
      /\ \A i \in at : rank[i] \in 1 .. size
      /\ \A k \in 1 .. size : \E i \in at : rank[i] = k
  BY RanksAreAll, Len(seq) \in Nat, DOMAIN seq = 1 .. Len(seq)
<1>3. nth \in [1 .. size -> at] /\ \A k \in 1 .. size : rank[nth[k]] = k
  BY <1>2
<1>4. picked = [k \in 1 .. size |-> seq[nth[k]]] /\ DOMAIN picked = 1 .. size
  BY DEF Picked
<1> HIDE DEF size, rank, nth, picked
<1>5. picked \in Seq(S)
  <2>1. \A k \in 1 .. size : seq[nth[k]] \in S
    BY <1>1, <1>3
  <2> QED BY <1>2, <1>4, <2>1
<1>6. \A k, l \in 1 .. size : k < l => nth[k] < nth[l]
  <2> SUFFICES ASSUME NEW k \in 1 .. size, NEW l \in 1 .. size, k < l
               PROVE  nth[k] < nth[l]
    OBVIOUS
  <2>1. /\ nth[k] \in at /\ nth[l] \in at /\ rank[nth[k]] = k /\ rank[nth[l]] = l
        /\ nth[k] \in Int /\ nth[l] \in Int
    BY <1>1, <1>3
  <2>2. ~(nth[l] < nth[k]) /\ nth[k] # nth[l]
    BY <1>2, <2>1
  <2> QED BY <2>1, <2>2
<1>7. \A i \in at : \E k \in 1 .. size : nth[k] = i
  <2> SUFFICES ASSUME NEW i \in at PROVE \E k \in 1 .. size : nth[k] = i
    OBVIOUS
  <2>1. rank[i] \in 1 .. size
    BY <1>2
  <2>2. nth[rank[i]] \in at /\ rank[nth[rank[i]]] = rank[i] /\ nth[rank[i]] \in Int /\ i \in Int
    BY <1>1, <1>3, <2>1
  <2>3. ~(nth[rank[i]] < i) /\ ~(i < nth[rank[i]])
    BY <1>2, <2>1, <2>2
  <2> QED BY <2>1, <2>2, <2>3
<1>8. \A k \in DOMAIN picked : picked[k] = seq[nth[k]]
  BY <1>4
<1>9. nth \in [DOMAIN picked -> at]
  BY <1>3, <1>4
<1>10. IsPlacing(nth, picked, seq, at)
  BY <1>4, <1>6, <1>7, <1>8, <1>9 DEF IsPlacing
<1> QED BY <1>5, <1>10 DEF picked

-----------------------------------------------------------------------------
\* The inductive invariant.

Items == [id : 1 .. MaxSteers, session : Sessions, cursor : Nat, status : {"pending", "stale", "sent"}]
Receipts == [id : 1 .. MaxSteers, by : {"drain", "hand"}, status : {"pending", "stale", "sent"}]
Cursors == [Sessions -> Nat \cup {Absent}]

ViewTypes ==
  /\ listed \in SUBSET Sessions /\ head \in [Sessions -> Nat]
  /\ poll \in [stage : {"idle", "answered"}, list : SUBSET Sessions, cursor : [Sessions -> Nat]]
  /\ currentSessionId \in Sessions \cup {Null}
  /\ sessionCursors \in Cursors /\ viewedCursors \in Cursors

QueueTypes ==
  /\ steerSeq \in 0 .. MaxSteers /\ cancelled \in SUBSET (1 .. MaxSteers)
  /\ steerQueue \in Seq(Items) /\ sending \in Seq(Items) /\ posts \in SUBSET Items
  /\ accepted \in Seq(Receipts)

\* The commands of a list are in the order of their numbers.
Ascending(list) == \A i, j \in DOMAIN list : i < j => list[i].id < list[j].id

Queued == Range(steerQueue)
Sending == Range(sending)

\* A number that no session has got and the operator has not cancelled.
Unspent(id) == id \notin cancelled /\ \A i \in DOMAIN accepted : accepted[i].id # id

\* Each command is in one place, and not there any more once it is sent or cancelled.
Books ==
  /\ Ascending(steerQueue) /\ Ascending(sending)
  /\ \A x \in Queued \cup Sending \cup posts : x.id <= steerSeq /\ Unspent(x.id)
  /\ \A x \in Queued, y \in Sending \cup posts : x.id # y.id
  /\ \A x \in Sending, y \in posts : x.id # y.id
  /\ \A x, y \in posts : x.id = y.id => x = y
  /\ \A i \in DOMAIN accepted : accepted[i].id <= steerSeq
  /\ \A id \in cancelled : id <= steerSeq
  /\ FiredOnceNeverCancelled

\* An answered poll lists every session still alive, for none comes back.
PollCovers == poll.stage = "answered" => listed \subseteq poll.list

\* What is held stays behind its session's cursor while that session is alive, so
\* that a drain takes it up only when the server would refuse it.
Held ==
  /\ \A x \in Queued \cup Sending : x.status \in {"pending", "stale"}
  /\ \A x \in Queued : x.status = "stale" /\ x.session \in listed => MovedOn(x, sessionCursors)
  /\ \A x \in Sending : x.status = "stale" => x.session \notin listed
  /\ TakenNeedsAYes

\* What a drain sent, what it is sending and what waits for the next one follow
\* each other in the order they were given.
InLine ==
  /\ \A x \in Sending, y \in Queued : y.status = "pending" => x.id < y.id
  /\ \A i \in DOMAIN accepted : accepted[i].by = "drain" =>
       \A x \in Sending \cup Queued : x.status = "pending" => accepted[i].id < x.id
  /\ DrainKeepsOrder

\* NothingStranded, of the items.
NoneStranded == ~Offline /\ ~firingQueue => \A x \in Queued : x.status # "pending"

IInv == ViewTypes /\ QueueTypes /\ Books /\ PollCovers /\ Held /\ InLine /\ NoneStranded

-----------------------------------------------------------------------------
\* What each operation on the lists of commands does.

\* The members of the lists are commands.
LEMMA ListsAreOfItems ==
  ASSUME QueueTypes
  PROVE  \A x \in Queued \cup Sending \cup posts : /\ x \in Items /\ x.session \in Sessions
                                                  /\ x.id \in Int /\ x.cursor \in Nat
<1>1. \A x \in Items : x.session \in Sessions /\ x.id \in Int /\ x.cursor \in Nat
  BY SteerAssumption DEF Items
<1>2. /\ \A i \in DOMAIN steerQueue : steerQueue[i] \in Items
      /\ \A i \in DOMAIN sending : sending[i] \in Items
      /\ posts \subseteq Items
  BY DEF QueueTypes
<1>3. \A x \in Queued \cup Sending \cup posts : x \in Items
  BY <1>2 DEF Queued, Sending, Range
<1> QED BY <1>1, <1>3

\* A number is of one command of a list.
LEMMA NumberedOnce ==
  ASSUME NEW list \in Seq(Items), Ascending(list), NEW x \in Range(list), NEW y \in Range(list),
         x.id = y.id
  PROVE  x = y
<1>1. PICK i \in DOMAIN list : list[i] = x
  BY DEF Range
<1>2. PICK j \in DOMAIN list : list[j] = y
  BY DEF Range
<1>3. i \in Int /\ j \in Int /\ x.id \in Int /\ y.id \in Int
  <2>1. DOMAIN list = 1 .. Len(list) /\ \A k \in DOMAIN list : list[k] \in Items
    OBVIOUS
  <2>2. \A z \in Items : z.id \in Int
    BY SteerAssumption DEF Items
  <2> QED BY <1>1, <1>2, <2>1, <2>2
<1>4. ~(i < j) /\ ~(j < i)
  BY <1>1, <1>2, <1>3 DEF Ascending
<1> QED BY <1>1, <1>2, <1>3, <1>4

\* Picking keeps the order of the numbers.
LEMMA PickedAscending ==
  ASSUME NEW list \in Seq(Items), Ascending(list), NEW at \in SUBSET DOMAIN list
  PROVE  /\ Picked(list, at) \in Seq(Items)
         /\ Ascending(Picked(list, at))
         /\ Range(Picked(list, at)) = {list[i] : i \in at}
<1> DEFINE picked == Picked(list, at)
<1>1. picked \in Seq(Items) /\ \E nth : IsPlacing(nth, picked, list, at)
  BY PickedInOrder
<1>2. PICK nth : IsPlacing(nth, picked, list, at)
  BY <1>1
<1> USE DEF IsPlacing
<1> HIDE DEF picked
<1>3. Ascending(picked)
  BY <1>2 DEF Ascending
<1>4. Range(picked) = {list[i] : i \in at}
  BY <1>2 DEF Range
<1> QED BY <1>1, <1>3, <1>4 DEF picked

\* fireSteerQueue parts the queue: what has moved on is held, the rest is sent.
LEMMA DrainParts ==
  ASSUME steerQueue \in Seq(Items), Ascending(steerQueue), NEW cursors, Drain(cursors)
  PROVE  /\ steerQueue' \in Seq(Items) /\ Ascending(steerQueue')
         /\ sending' \in Seq(Items) /\ Ascending(sending')
         /\ \A x \in Range(steerQueue') :
              /\ x.status = "stale"
              /\ \E y \in Queued : /\ MovedOn(y, cursors) /\ x.id = y.id
                                   /\ x.session = y.session /\ x.cursor = y.cursor
         /\ \A x \in Range(sending') : x \in Queued /\ ~MovedOn(x, cursors)
<1> DEFINE moved == Moved(cursors)
           held == Picked(steerQueue, moved)
<1>1. moved \in SUBSET DOMAIN steerQueue /\ DOMAIN steerQueue \ moved \in SUBSET DOMAIN steerQueue
  BY DEF Moved
<1>2. /\ held \in Seq(Items) /\ Ascending(held)
      /\ Range(held) = {steerQueue[i] : i \in moved}
  BY <1>1, PickedAscending
<1>3. /\ sending' \in Seq(Items) /\ Ascending(sending')
      /\ Range(sending') = {steerQueue[i] : i \in DOMAIN steerQueue \ moved}
  BY <1>1, PickedAscending DEF Drain
<1>4. \A x \in Range(sending') : x \in Queued /\ ~MovedOn(x, cursors)
  BY <1>3 DEF Queued, Range, Moved
<1>5. \A x \in Range(held) : x \in Queued /\ MovedOn(x, cursors)
  BY <1>2 DEF Queued, Range, Moved
<1>6. steerQueue' = [i \in DOMAIN held |-> [held[i] EXCEPT !.status = "stale"]]
  BY DEF Drain
<1> HIDE DEF held, moved
<1>7. \A i \in DOMAIN held : held[i] \in Items /\ held[i] \in Range(held)
  BY <1>2 DEF Range
<1>8. \A i \in DOMAIN held : /\ steerQueue'[i] \in Items /\ steerQueue'[i].status = "stale"
                             /\ steerQueue'[i].id = held[i].id
                             /\ steerQueue'[i].session = held[i].session
                             /\ steerQueue'[i].cursor = held[i].cursor
  BY <1>6, <1>7 DEF Items
<1>9. DOMAIN steerQueue' = DOMAIN held /\ DOMAIN held = 1 .. Len(held) /\ Len(held) \in Nat
  BY <1>2, <1>6
<1>10. steerQueue' \in Seq(Items)
  <2>1. steerQueue' = [i \in 1 .. Len(held) |-> steerQueue'[i]]
    BY <1>6, <1>9
  <2> QED BY <1>8, <1>9, <2>1
<1>11. Ascending(steerQueue')
  BY <1>2, <1>8, <1>9 DEF Ascending
<1>12. \A x \in Range(steerQueue') : \E i \in DOMAIN held : x = steerQueue'[i]
  BY <1>9 DEF Range
<1> QED BY <1>3, <1>4, <1>5, <1>7, <1>8, <1>10, <1>11, <1>12

\* A command joins behind those of smaller numbers.
LEMMA EnqueuedBehind ==
  ASSUME NEW item \in Items, steerQueue \in Seq(Items), Ascending(steerQueue),
         \A x \in Queued : x.id < item.id
  PROVE  /\ Enqueued(item) \in Seq(Items)
         /\ Ascending(Enqueued(item))
         /\ Range(Enqueued(item)) = Queued \cup {item}
<1> DEFINE longer == Append(steerQueue, item)
           n == Len(steerQueue)
<1>1. /\ longer \in Seq(Items) /\ n \in Nat
      /\ DOMAIN steerQueue = 1 .. n /\ DOMAIN longer = 1 .. n + 1
      /\ \A i \in 1 .. n : longer[i] = steerQueue[i]
      /\ longer[n + 1] = item
  OBVIOUS
<1> HIDE DEF longer, n
<1>2. \A i \in 1 .. n : steerQueue[i] \in Queued
  BY <1>1 DEF Queued, Range
<1>3. Ascending(longer)
  BY <1>1, <1>2 DEF Ascending
<1>4. Range(longer) = Queued \cup {item}
  BY <1>1 DEF Queued, Range
<1> QED BY <1>1, <1>3, <1>4 DEF longer, Enqueued

\* A command taken out leaves the others in their order.
LEMMA RemovedAt ==
  ASSUME NEW list \in Seq(Items), Ascending(list), NEW i \in DOMAIN list
  PROVE  /\ RemoveAt(list, i) \in Seq(Items)
         /\ Ascending(RemoveAt(list, i))
         /\ \A x \in Range(RemoveAt(list, i)) : x \in Range(list) /\ x.id # list[i].id
<1> DEFINE front == SubSeq(list, 1, i - 1)
           back == SubSeq(list, i + 1, Len(list))
           rest == front \o back
           n == Len(list)
<1>1. /\ n \in Nat /\ DOMAIN list = 1 .. n /\ i \in 1 .. n
      /\ \A k \in 1 .. n : list[k] \in Items
  OBVIOUS
<1>2. /\ front \in Seq(Items) /\ Len(front) = i - 1
      /\ \A k \in 1 .. i - 1 : front[k] = list[k]
  BY <1>1
<1>3. /\ back \in Seq(Items) /\ Len(back) = n - i
      /\ \A k \in 1 .. n - i : back[k] = list[i + k]
  <2>1. back \in Seq(Items) /\ Len(back) = n - i
    BY <1>1
  <2>2. \A k \in 1 .. n - i : back[k] = list[(i + 1) + k - 1]
    BY <1>1
  <2>3. \A k \in 1 .. n - i : (i + 1) + k - 1 = i + k
    BY <1>1
  <2> HIDE DEF back, n
  <2> QED BY <2>1, <2>2, <2>3
<1> HIDE DEF front, back
<1>4. /\ rest \in Seq(Items) /\ Len(rest) = n - 1
      /\ DOMAIN rest = 1 .. n - 1
      /\ \A k \in 1 .. n - 1 : rest[k] = IF k < i THEN list[k] ELSE list[k + 1]
  <2>1. /\ rest \in Seq(Items) /\ Len(rest) = Len(front) + Len(back)
        /\ \A k \in 1 .. Len(front) + Len(back) :
             rest[k] = IF k <= Len(front) THEN front[k] ELSE back[k - Len(front)]
    BY <1>2, <1>3, ConcatProperties
  <2> HIDE DEF rest, n
  <2>2. /\ Len(front) + Len(back) = n - 1 /\ Len(rest) = n - 1
        /\ DOMAIN rest = 1 .. n - 1
    BY <1>1, <1>2, <1>3, <2>1
  <2>3. \A k \in 1 .. n - 1 : rest[k] = IF k < i THEN list[k] ELSE list[k + 1]
    <3> SUFFICES ASSUME NEW k \in 1 .. n - 1
                 PROVE  rest[k] = IF k < i THEN list[k] ELSE list[k + 1]
      OBVIOUS
    <3>1. CASE k < i
      <4>1. k <= Len(front) /\ k \in 1 .. i - 1
        BY <1>1, <1>2, <3>1
      <4> QED BY <1>2, <2>1, <2>2, <3>1, <4>1
    <3>2. CASE ~(k < i)
      <4>1. ~(k <= i - 1) /\ k - (i - 1) \in 1 .. n - i /\ i + (k - (i - 1)) = k + 1
        BY <1>1, <3>2
      <4>2. rest[k] = back[k - (i - 1)]
        BY <1>2, <2>1, <2>2, <4>1
      <4> QED BY <1>3, <3>2, <4>1, <4>2
    <3> QED BY <3>1, <3>2
  <2> QED BY <2>1, <2>2, <2>3
<1> HIDE DEF rest, n
<1>5. \A k \in 1 .. n : list[k].id \in Int
  BY <1>1, SteerAssumption DEF Items
<1>6. Ascending(rest)
  <2> SUFFICES ASSUME NEW k \in 1 .. n - 1, NEW l \in 1 .. n - 1, k < l
               PROVE  rest[k].id < rest[l].id
    BY <1>4 DEF Ascending
  <2>1. PICK a \in 1 .. n : rest[k] = list[a] /\ a = IF k < i THEN k ELSE k + 1
    BY <1>1, <1>4
  <2>2. PICK b \in 1 .. n : rest[l] = list[b] /\ b = IF l < i THEN l ELSE l + 1
    BY <1>1, <1>4
  <2>3. a < b
    BY <1>1, <2>1, <2>2
  <2> QED BY <1>1, <2>1, <2>2, <2>3 DEF Ascending
<1>7. \A x \in Range(rest) : x \in Range(list) /\ x.id # list[i].id
  <2> SUFFICES ASSUME NEW k \in 1 .. n - 1 PROVE rest[k] \in Range(list) /\ rest[k].id # list[i].id
    BY <1>4 DEF Range
  <2>1. PICK j \in 1 .. n : rest[k] = list[j] /\ j # i
    BY <1>1, <1>4
  <2> QED BY <1>1, <1>5, <2>1 DEF Ascending, Range
<1> QED BY <1>4, <1>6, <1>7 DEF rest, front, back, RemoveAt

\* The POST awaited is the oldest of the drain: the others follow it.
LEMMA HeadSent ==
  ASSUME sending \in Seq(Items), Ascending(sending), firingQueue
  PROVE  /\ Head(sending) \in Items /\ Head(sending) \in Sending
         /\ Tail(sending) \in Seq(Items) /\ Ascending(Tail(sending))
         /\ \A x \in Range(Tail(sending)) : x \in Sending /\ Head(sending).id < x.id
         /\ Len(sending) <= 1 => Tail(sending) = <<>>
<1> DEFINE rest == Tail(sending)
           n == Len(sending)
<1>1. /\ n \in Nat /\ n >= 1 /\ DOMAIN sending = 1 .. n
      /\ Head(sending) = sending[1] /\ sending[1] \in Items
      /\ rest \in Seq(Items) /\ Len(rest) = n - 1 /\ DOMAIN rest = 1 .. n - 1
      /\ \A k \in 1 .. n - 1 : rest[k] = sending[k + 1]
  BY DEF firingQueue
<1>2. n <= 1 => rest = <<>>
  BY <1>1
<1> HIDE DEF rest, n
<1>3. Ascending(rest)
  <2> SUFFICES ASSUME NEW k \in 1 .. n - 1, NEW l \in 1 .. n - 1, k < l
               PROVE  rest[k].id < rest[l].id
    BY <1>1 DEF Ascending
  <2>1. k + 1 \in DOMAIN sending /\ l + 1 \in DOMAIN sending /\ k + 1 < l + 1
    BY <1>1
  <2> QED BY <1>1, <2>1 DEF Ascending
<1>4. \A x \in Range(rest) : x \in Sending /\ Head(sending).id < x.id
  <2> SUFFICES ASSUME NEW k \in 1 .. n - 1 PROVE rest[k] \in Sending /\ Head(sending).id < rest[k].id
    BY <1>1 DEF Range
  <2>1. 1 \in DOMAIN sending /\ k + 1 \in DOMAIN sending /\ 1 < k + 1
    BY <1>1
  <2>2. sending[1].id < sending[k + 1].id
    BY <2>1 DEF Ascending
  <2> QED BY <1>1, <2>1, <2>2 DEF Sending, Range
<1>5. Head(sending) \in Sending
  BY <1>1 DEF Sending, Range
<1> QED BY <1>1, <1>2, <1>3, <1>4, <1>5 DEF rest, n

\* What a step of the drain may do to the lists.
DrainStep(cursors) ==
  \/ UNCHANGED <<steerQueue, sending>>
  \/ firingQueue /\ sending' = Tail(sending) /\ UNCHANGED steerQueue
  \/ Drain(cursors)

\* A step of the drain invents and reorders no command.
LEMMA Sifted ==
  ASSUME QueueTypes, Books, InLine, NEW cursors, DrainStep(cursors)
  PROVE  /\ steerQueue' \in Seq(Items) /\ Ascending(steerQueue')
         /\ sending' \in Seq(Items) /\ Ascending(sending')
         /\ \A x \in Range(sending') : x \in Sending \/ (x \in Queued /\ ~MovedOn(x, cursors))
         /\ \A x \in Range(steerQueue') :
              \/ x \in Queued
              \/ /\ x.status = "stale"
                 /\ \E y \in Queued : /\ MovedOn(y, cursors) /\ x.id = y.id
                                      /\ x.session = y.session /\ x.cursor = y.cursor
         /\ \A x \in Range(steerQueue'), y \in Range(sending') : x.id # y.id
         /\ \A x \in Range(sending'), y \in Range(steerQueue') : y.status = "pending" => x.id < y.id
<1> USE DEF QueueTypes
<1>1. Ascending(steerQueue) /\ Ascending(sending) /\ \A x \in Queued, y \in Sending : x.id # y.id
  BY DEF Books
<1>2. \A x \in Sending, y \in Queued : y.status = "pending" => x.id < y.id
  BY DEF InLine
<1>3. CASE UNCHANGED <<steerQueue, sending>>
  <2>1. /\ steerQueue' = steerQueue /\ sending' = sending
        /\ Range(steerQueue') = Queued /\ Range(sending') = Sending
    BY <1>3 DEF Queued, Sending
  <2>2. \A x \in Range(steerQueue'), y \in Range(sending') : x.id # y.id
    BY <1>1, <2>1
  <2>3. \A x \in Range(sending'), y \in Range(steerQueue') : y.status = "pending" => x.id < y.id
    BY <1>2, <2>1
  <2>4. /\ \A x \in Range(sending') : x \in Sending
        /\ \A x \in Range(steerQueue') : x \in Queued
    BY <2>1
  <2>5. /\ steerQueue' \in Seq(Items) /\ Ascending(steerQueue')
        /\ sending' \in Seq(Items) /\ Ascending(sending')
    BY <1>1, <2>1
  <2> QED BY <2>2, <2>3, <2>4, <2>5
<1>4. CASE firingQueue /\ sending' = Tail(sending) /\ UNCHANGED steerQueue
  <2>1. \A x \in Range(sending') : x \in Sending
    BY <1>1, <1>4, HeadSent
  <2>2. sending' \in Seq(Items) /\ Ascending(sending')
    BY <1>1, <1>4, HeadSent
  <2>3. steerQueue' = steerQueue /\ Range(steerQueue') = Queued
    BY <1>4 DEF Queued
  <2>4. \A x \in Range(steerQueue'), y \in Range(sending') : x.id # y.id
    BY <1>1, <2>1, <2>3
  <2>5. \A x \in Range(sending'), y \in Range(steerQueue') : y.status = "pending" => x.id < y.id
    BY <1>2, <2>1, <2>3
  <2>6. \A x \in Range(steerQueue') : x \in Queued
    BY <2>3
  <2>7. steerQueue' \in Seq(Items) /\ Ascending(steerQueue')
    BY <1>1, <2>3
  <2> QED BY <2>1, <2>2, <2>4, <2>5, <2>6, <2>7
<1>5. CASE Drain(cursors)
  <2>1. /\ steerQueue' \in Seq(Items) /\ Ascending(steerQueue')
        /\ sending' \in Seq(Items) /\ Ascending(sending')
        /\ \A x \in Range(steerQueue') :
             /\ x.status = "stale"
             /\ \E y \in Queued : /\ MovedOn(y, cursors) /\ x.id = y.id
                                  /\ x.session = y.session /\ x.cursor = y.cursor
        /\ \A x \in Range(sending') : x \in Queued /\ ~MovedOn(x, cursors)
    BY <1>1, <1>5, DrainParts
  <2>2. \A x \in Range(steerQueue'), y \in Range(sending') : x.id # y.id
    <3> SUFFICES ASSUME NEW x \in Range(steerQueue'), NEW y \in Range(sending'), x.id = y.id PROVE FALSE
      OBVIOUS
    <3>1. PICK z \in Queued : MovedOn(z, cursors) /\ x.id = z.id
      BY <2>1
    <3>2. y \in Queued /\ ~MovedOn(y, cursors) /\ z.id = y.id
      BY <2>1, <3>1
    <3>3. z = y
      BY <1>1, <3>2, NumberedOnce DEF Queued
    <3> QED BY <3>1, <3>2, <3>3
  <2>3. \A y \in Range(steerQueue') : y.status # "pending"
    BY <2>1
  <2> QED BY <2>1, <2>2, <2>3
<1> QED BY <1>3, <1>4, <1>5 DEF DrainStep

\* A POST adds its receipt behind the others, or nothing.
LEMMA ReceiptAdded ==
  ASSUME accepted \in Seq(Receipts), NEW item \in Items, NEW took, NEW by \in {"drain", "hand"},
         Taken(item, took, by)
  PROVE  /\ accepted' \in Seq(Receipts)
         /\ \A i \in DOMAIN accepted' :
              \/ i \in DOMAIN accepted /\ accepted'[i] = accepted[i]
              \/ /\ took /\ i \notin DOMAIN accepted /\ \A j \in DOMAIN accepted' : j <= i
                 /\ accepted'[i].id = item.id /\ accepted'[i].by = by /\ accepted'[i].status = item.status
<1> DEFINE receipt == [id |-> item.id, by |-> by, status |-> item.status]
           n == Len(accepted)
<1>1. receipt \in Receipts
  BY DEF Items, Receipts
<1>2. receipt.id = item.id /\ receipt.by = by /\ receipt.status = item.status
  OBVIOUS
<1>3. accepted' = IF took THEN Append(accepted, receipt) ELSE accepted
  BY DEF Taken
<1> HIDE DEF receipt
<1>4. CASE ~took
  BY <1>3, <1>4
<1>5. CASE took
  <2>1. /\ n \in Nat /\ DOMAIN accepted = 1 .. n /\ DOMAIN accepted' = 1 .. n + 1
        /\ accepted' \in Seq(Receipts) /\ accepted'[n + 1] = receipt
        /\ \A i \in 1 .. n : accepted'[i] = accepted[i]
    BY <1>1, <1>3, <1>5
  <2> HIDE DEF n
  <2> QED BY <1>2, <1>5, <2>1
<1> QED BY <1>4, <1>5

\* A command that was nowhere yet is sent once, and spends no other's number.
LEMMA SentOnce ==
  ASSUME QueueTypes, Books, NEW item \in Items, NEW took, NEW by \in {"drain", "hand"},
         Taken(item, took, by), item.id <= steerSeq, Unspent(item.id),
         steerSeq' = steerSeq, cancelled' = cancelled
  PROVE  /\ accepted' \in Seq(Receipts)
         /\ \A i \in DOMAIN accepted' : accepted'[i].id <= steerSeq'
         /\ \A id \in cancelled' : id <= steerSeq'
         /\ \A id : Unspent(id) /\ id # item.id => Unspent(id)'
         /\ FiredOnceNeverCancelled'
<1>1. /\ accepted' \in Seq(Receipts)
      /\ \A i \in DOMAIN accepted' :
           \/ i \in DOMAIN accepted /\ accepted'[i] = accepted[i]
           \/ /\ i \notin DOMAIN accepted /\ \A j \in DOMAIN accepted' : j <= i
              /\ accepted'[i].id = item.id
  BY ReceiptAdded DEF QueueTypes
<1>2. /\ \A i \in DOMAIN accepted : accepted[i].id <= steerSeq
      /\ \A id \in cancelled : id <= steerSeq
      /\ \A i, j \in DOMAIN accepted : i # j => accepted[i].id # accepted[j].id
      /\ \A i \in DOMAIN accepted : accepted[i].id \notin cancelled
  BY DEF Books, FiredOnceNeverCancelled
<1>3. item.id \notin cancelled /\ \A i \in DOMAIN accepted : accepted[i].id # item.id
  BY DEF Unspent
<1>4. \A id : Unspent(id) /\ id # item.id => Unspent(id)'
  BY <1>1 DEF Unspent
<1>5. FiredOnceNeverCancelled'
  <2>1. \A i \in DOMAIN accepted' : accepted'[i].id \notin cancelled'
    BY <1>1, <1>2, <1>3
  <2>2. ASSUME NEW i \in DOMAIN accepted', NEW j \in DOMAIN accepted', i # j
        PROVE  accepted'[i].id # accepted'[j].id
    <3>1. i \in Nat /\ j \in Nat
      BY <1>1
    <3>2. CASE i \in DOMAIN accepted /\ accepted'[i] = accepted[i]
      BY <1>1, <1>2, <1>3, <2>2, <3>2
    <3>3. CASE i \notin DOMAIN accepted /\ j <= i /\ accepted'[i].id = item.id
      <4>1. j \in DOMAIN accepted /\ accepted'[j] = accepted[j]
        BY <1>1, <2>2, <3>1, <3>3
      <4> QED BY <1>3, <3>3, <4>1
    <3> QED BY <1>1, <3>2, <3>3
  <2> QED BY <2>1, <2>2 DEF FiredOnceNeverCancelled
<1>6. \A i \in DOMAIN accepted' : accepted'[i].id <= steerSeq'
  BY <1>1, <1>2
<1> QED BY <1>1, <1>2, <1>4, <1>5, <1>6

-----------------------------------------------------------------------------
\* Cursors only advance, by a poll and by an event seen.

LEMMA LaterIsLater ==
  ASSUME NEW stored \in Nat \cup {Absent}, NEW incoming \in Nat
  PROVE  /\ Later(stored, incoming) \in Nat \cup {Absent}
         /\ OrZero(Later(stored, incoming)) >= OrZero(stored)
  BY DEF Later, OrZero, Absent

LEMMA OrZeroIsANumber ==
  ASSUME NEW stored \in Nat \cup {Absent}
  PROVE  OrZero(stored) \in Nat
  BY DEF OrZero, Absent

LEMMA ViewedIsTyped ==
  ASSUME NEW s \in Sessions, NEW cursors \in Cursors, NEW seen \in Cursors
  PROVE  Viewed(s, cursors, seen) \in Cursors
<1>1. cursors[s] # Absent => cursors[s] \in Nat
  BY DEF Cursors
<1>2. cursors[s] # Absent => Later(seen[s], cursors[s]) \in Nat \cup {Absent}
  BY <1>1, LaterIsLater DEF Cursors
<1> QED BY <1>2 DEF Viewed, Cursors

\* What is held stays held while cursors advance and sessions end.
LEMMA StillMoved ==
  ASSUME NEW x \in Items, NEW before \in Cursors, NEW after \in Cursors,
         OrZero(after[x.session]) >= OrZero(before[x.session]), MovedOn(x, before)
  PROVE  MovedOn(x, after)
<1>1. x.session \in Sessions /\ x.cursor \in Nat
  BY DEF Items
<1>2. OrZero(before[x.session]) \in Nat /\ OrZero(after[x.session]) \in Nat
  BY <1>1, OrZeroIsANumber DEF Cursors
<1> QED BY <1>1, <1>2 DEF MovedOn

\* A step that touches no command: the link, a session's event or end, a poll under
\* way, what the operator looks at.
LEMMA QuietStep ==
  ASSUME IInv,
         \/ LinkFlaps \/ PollIsServed \/ PollFails
         \/ \E s \in Sessions : EmitEvent(s) \/ EndSession(s) \/ SelectSession(s)
         \/ \E s \in Sessions, id \in 1 .. MaxEvents : RecordViewedEvent(s, id)
  PROVE  IInv'
<1> USE DEF IInv
<1> DEFINE Quiet ==
      /\ UNCHANGED <<accepted, steerQueue, sending, posts, steerSeq, cancelled>>
      /\ ViewTypes' /\ PollCovers' /\ listed' \subseteq listed
      /\ \A s \in Sessions : OrZero(sessionCursors'[s]) >= OrZero(sessionCursors[s])
      /\ pollState' = "failed" \/ pollState' = pollState
<1>1. \A s \in Sessions : OrZero(sessionCursors[s]) >= OrZero(sessionCursors[s])
  <2> SUFFICES ASSUME NEW s \in Sessions
               PROVE  OrZero(sessionCursors[s]) >= OrZero(sessionCursors[s])
    OBVIOUS
  <2>1. sessionCursors[s] \in Nat \cup {Absent}
    BY DEF ViewTypes, Cursors
  <2>2. OrZero(sessionCursors[s]) \in Nat
    BY <2>1, OrZeroIsANumber
  <2> QED BY <2>2
<1>2. Quiet
  <2>1. CASE LinkFlaps
    BY <1>1, <2>1 DEF LinkFlaps, viewVars, ViewTypes, PollCovers
  <2>2. CASE PollIsServed
    <3>1. /\ poll'.list = listed' /\ poll' \in [stage : {"idle", "answered"}, list : SUBSET Sessions, cursor : [Sessions -> Nat]]
          /\ UNCHANGED <<accepted, steerQueue, sending, posts, steerSeq, cancelled, listed, head,
                         currentSessionId, sessionCursors, viewedCursors, pollState>>
      BY <2>2 DEF PollIsServed, serverVars, viewVars, ViewTypes
    <3> QED BY <1>1, <3>1 DEF ViewTypes, PollCovers
  <2>3. CASE PollFails
    <3>1. /\ poll'.stage = "idle" /\ poll' \in [stage : {"idle", "answered"}, list : SUBSET Sessions, cursor : [Sessions -> Nat]]
          /\ UNCHANGED <<accepted, steerQueue, sending, posts, steerSeq, cancelled, listed, head,
                         currentSessionId, sessionCursors, viewedCursors>>
          /\ pollState' = "failed"
      BY <2>3 DEF PollFails, Idle, serverVars, viewVars
    <3> QED BY <1>1, <3>1 DEF ViewTypes, PollCovers
  <2>4. ASSUME NEW s \in Sessions, EmitEvent(s) PROVE Quiet
    BY <1>1, <2>4 DEF EmitEvent, viewVars, ViewTypes, PollCovers
  <2>5. ASSUME NEW s \in Sessions, EndSession(s) PROVE Quiet
    BY <1>1, <2>5 DEF EndSession, viewVars, ViewTypes, PollCovers
  <2>6. ASSUME NEW s \in Sessions, SelectSession(s) PROVE Quiet
    <3>1. viewedCursors' \in Cursors
      BY <2>6, ViewedIsTyped DEF SelectSession, ViewTypes
    <3> QED BY <1>1, <2>6, <3>1 DEF SelectSession, serverVars, ViewTypes, PollCovers
  <2>7. ASSUME NEW s \in Sessions, NEW id \in 1 .. MaxEvents, RecordViewedEvent(s, id) PROVE Quiet
    <3>1. /\ sessionCursors[s] \in Nat \cup {Absent} /\ viewedCursors[s] \in Nat \cup {Absent} /\ id \in Nat
          /\ sessionCursors \in [Sessions -> Nat \cup {Absent}] /\ viewedCursors \in [Sessions -> Nat \cup {Absent}]
      BY SteerAssumption DEF ViewTypes, Cursors
    <3>2. /\ Later(sessionCursors[s], id) \in Nat \cup {Absent}
          /\ Later(viewedCursors[s], id) \in Nat \cup {Absent}
          /\ OrZero(Later(sessionCursors[s], id)) >= OrZero(sessionCursors[s])
      BY <3>1, LaterIsLater
    <3>3. /\ sessionCursors' = [sessionCursors EXCEPT ![s] = Later(sessionCursors[s], id)]
          /\ viewedCursors' = [viewedCursors EXCEPT ![s] = Later(viewedCursors[s], id)]
      BY <2>7 DEF RecordViewedEvent
    <3>4. sessionCursors' \in Cursors /\ viewedCursors' \in Cursors
      BY <3>1, <3>2, <3>3 DEF Cursors
    <3>5. \A t \in Sessions : OrZero(sessionCursors'[t]) >= OrZero(sessionCursors[t])
      BY <1>1, <3>1, <3>2, <3>3
    <3> QED BY <2>7, <3>4, <3>5 DEF RecordViewedEvent, serverVars, ViewTypes, PollCovers
  <2> QED BY <2>1, <2>2, <2>3, <2>4, <2>5, <2>6, <2>7
<1>3. QueueTypes'
  BY <1>2 DEF QueueTypes
<1>4. Queued' = Queued /\ Sending' = Sending
  BY <1>2 DEF Queued, Sending
<1>5. Books'
  BY <1>2, <1>4 DEF Books, Unspent, Ascending, FiredOnceNeverCancelled
<1>6. Held'
  <2>1. \A x \in Queued : x.status = "stale" /\ x.session \in listed' => MovedOn(x, sessionCursors')
    <3> SUFFICES ASSUME NEW x \in Queued, x.status = "stale", x.session \in listed'
                 PROVE  MovedOn(x, sessionCursors')
      OBVIOUS
    <3>1. x \in Items /\ x.session \in Sessions
      BY ListsAreOfItems
    <3>2. MovedOn(x, sessionCursors)
      BY <1>2 DEF Held
    <3> QED BY <1>2, <3>1, <3>2, StillMoved DEF ViewTypes
  <2>2. TakenNeedsAYes'
    BY <1>2 DEF Held, TakenNeedsAYes
  <2>3. \A x \in Sending : x.status = "stale" => x.session \notin listed'
    BY <1>2 DEF Held
  <2> QED BY <1>4, <2>1, <2>2, <2>3 DEF Held
<1>7. InLine'
  BY <1>2, <1>4 DEF InLine, DrainKeepsOrder
<1>8. NoneStranded'
  BY <1>2, <1>4 DEF NoneStranded, Offline, firingQueue
<1> QED BY <1>2, <1>3, <1>5, <1>6, <1>7, <1>8

\* The books after a step of the drain, when nothing left in the lists is spent by it.
LEMMA BooksSifted ==
  ASSUME QueueTypes, Books, InLine, NEW cursors, DrainStep(cursors), posts' = posts, steerSeq' = steerSeq,
         \A x \in Range(steerQueue') \cup Range(sending') \cup posts : Unspent(x.id) => Unspent(x.id)',
         \A i \in DOMAIN accepted' : accepted'[i].id <= steerSeq',
         \A id \in cancelled' : id <= steerSeq',
         FiredOnceNeverCancelled'
  PROVE  Books'
<1>1. /\ Ascending(steerQueue') /\ Ascending(sending')
      /\ \A x \in Range(sending') : x \in Sending \cup Queued
      /\ \A x \in Range(steerQueue') : \E y \in Queued : x.id = y.id
      /\ \A x \in Range(steerQueue'), y \in Range(sending') : x.id # y.id
  BY Sifted
<1>2. Queued' = Range(steerQueue') /\ Sending' = Range(sending')
  BY DEF Queued, Sending
<1>3. \A x \in Queued' \cup Sending' \cup posts' : x.id <= steerSeq' /\ Unspent(x.id)'
  <2> SUFFICES ASSUME NEW x \in Range(steerQueue') \cup Range(sending') \cup posts
               PROVE  x.id <= steerSeq /\ Unspent(x.id)'
    BY <1>2
  <2>1. \E y \in Queued \cup Sending \cup posts : x.id = y.id
    BY <1>1
  <2>2. x.id <= steerSeq /\ Unspent(x.id)
    BY <2>1 DEF Books
  <2> QED BY <2>2
<1>4. \A x \in Queued', y \in posts' : x.id # y.id
  BY <1>1, <1>2 DEF Books
<1>5. \A x \in Sending', y \in posts' : x.id # y.id
  BY <1>1, <1>2 DEF Books
<1>6. \A x \in Queued', y \in Sending' : x.id # y.id
  BY <1>1, <1>2
<1>7. \A x, y \in posts' : x.id = y.id => x = y
  BY DEF Books
<1> QED BY <1>1, <1>3, <1>4, <1>5, <1>6, <1>7 DEF Books

\* A drain judges by cursors at least as far as those the held ones were judged by.
LEMMA HeldSifted ==
  ASSUME QueueTypes, Books, InLine, Held, sessionCursors \in Cursors, sessionCursors' \in Cursors,
         DrainStep(sessionCursors'), listed' = listed, TakenNeedsAYes',
         \A s \in listed : OrZero(sessionCursors'[s]) >= OrZero(sessionCursors[s])
  PROVE  Held'
<1> DEFINE after == sessionCursors'
<1>1. /\ \A x \in Range(sending') : x \in Sending \/ (x \in Queued /\ ~MovedOn(x, after))
      /\ \A x \in Range(steerQueue') :
           \/ x \in Queued
           \/ /\ x.status = "stale"
              /\ \E y \in Queued : /\ MovedOn(y, after) /\ x.id = y.id
                                   /\ x.session = y.session /\ x.cursor = y.cursor
  BY Sifted
<1>2. Queued' = Range(steerQueue') /\ Sending' = Range(sending')
  BY DEF Queued, Sending
<1>3. \A x \in Queued : x.status = "stale" /\ x.session \in listed => MovedOn(x, after)
  <2> SUFFICES ASSUME NEW x \in Queued, x.status = "stale", x.session \in listed PROVE MovedOn(x, after)
    OBVIOUS
  <2>1. x \in Items /\ MovedOn(x, sessionCursors)
    BY ListsAreOfItems DEF Held
  <2> QED BY <2>1, StillMoved
<1>4. \A x \in Queued' \cup Sending' : x.status \in {"pending", "stale"}
  BY <1>1, <1>2 DEF Held
<1>5. \A x \in Sending' : x.status = "stale" => x.session \notin listed'
  BY <1>1, <1>2, <1>3 DEF Held
<1>6. \A x \in Queued' : x.status = "stale" /\ x.session \in listed' => MovedOn(x, after)
  <2> SUFFICES ASSUME NEW x \in Range(steerQueue'), x.status = "stale", x.session \in listed
               PROVE  MovedOn(x, after)
    BY <1>2
  <2>1. CASE x \in Queued
    BY <1>3, <2>1
  <2>2. CASE x \notin Queued
    BY <1>1, <2>2 DEF MovedOn
  <2> QED BY <2>1, <2>2
<1> QED BY <1>4, <1>5, <1>6 DEF Held

-----------------------------------------------------------------------------
\* The poll that comes back, and with it the reconnect.

\* What a poll finds is later for the sessions it lists.
LEMMA ListIsLater ==
  ASSUME ViewTypes, PollCovers, poll.stage = "answered"
  PROVE  /\ ListedCursors \in Cursors
         /\ \A s \in listed : OrZero(ListedCursors[s]) >= OrZero(sessionCursors[s])
<1>1. \A s \in Sessions : sessionCursors[s] \in Nat \cup {Absent} /\ poll.cursor[s] \in Nat
  BY DEF ViewTypes, Cursors
<1>2. \A s \in Sessions : /\ Later(sessionCursors[s], poll.cursor[s]) \in Nat \cup {Absent}
                          /\ OrZero(Later(sessionCursors[s], poll.cursor[s])) >= OrZero(sessionCursors[s])
  BY <1>1, LaterIsLater
<1>3. ListedCursors \in Cursors
  BY <1>1, <1>2 DEF ListedCursors, Cursors
<1>4. \A s \in listed : s \in Sessions /\ s \in poll.list
  BY DEF PollCovers, ViewTypes
<1> QED BY <1>2, <1>3, <1>4 DEF ListedCursors

LEMMA AppliedTypes ==
  ASSUME ViewTypes, PollCovers, PollIsApplied
  PROVE  ViewTypes'
<1>1. poll.stage = "answered" /\ poll.list \in SUBSET Sessions
  BY DEF PollIsApplied, ViewTypes
<1>2. sessionCursors' \in Cursors /\ ListedCursors \in Cursors
  BY <1>1, ListIsLater DEF PollIsApplied
<1>3. RowsOnly(viewedCursors) \in Cursors
  BY DEF RowsOnly, ViewTypes, Cursors
<1>4. PICK s \in NextSelection :
       LET rows == RowsOnly(viewedCursors)
           opened == IF s \notin {Null, currentSessionId} THEN Viewed(s, ListedCursors, rows) ELSE rows
       IN  /\ currentSessionId' = s
           /\ viewedCursors' =
                IF s # Null /\ opened[s] = Absent
                  THEN [opened EXCEPT ![s] = OrZero(ListedCursors[s])] ELSE opened
  BY DEF PollIsApplied
<1>5. s \in Sessions \cup {Null}
  BY <1>1 DEF NextSelection, ViewTypes
<1> DEFINE opened == IF s \notin {Null, currentSessionId}
                       THEN Viewed(s, ListedCursors, RowsOnly(viewedCursors)) ELSE RowsOnly(viewedCursors)
<1>6. opened \in Cursors
  BY <1>2, <1>3, <1>5, ViewedIsTyped
<1>7. s # Null => OrZero(ListedCursors[s]) \in Nat
  BY <1>2, <1>5, OrZeroIsANumber DEF Cursors
<1>8. viewedCursors' = IF s # Null /\ opened[s] = Absent
                         THEN [opened EXCEPT ![s] = OrZero(ListedCursors[s])] ELSE opened
  BY <1>4
<1> HIDE DEF opened
<1>9. viewedCursors' \in Cursors
  BY <1>5, <1>6, <1>7, <1>8 DEF Cursors
<1>10. poll' \in [stage : {"idle", "answered"}, list : SUBSET Sessions, cursor : [Sessions -> Nat]]
  BY DEF PollIsApplied, Idle
<1>11. listed' = listed /\ head' = head /\ currentSessionId' \in Sessions \cup {Null}
  BY <1>4, <1>5 DEF PollIsApplied, serverVars
<1> QED BY <1>2, <1>9, <1>10, <1>11 DEF ViewTypes

LEMMA AppliedStep == ASSUME IInv, PollIsApplied PROVE IInv'
<1> USE DEF IInv
<1>1. /\ poll.stage = "answered" /\ poll'.stage = "idle" /\ pollState' = "ok" /\ sessionCursors' = ListedCursors
      /\ UNCHANGED <<listed, accepted, posts, steerSeq, cancelled>>
      /\ FireOnReconnect(sessionCursors')
  BY DEF PollIsApplied, Idle, serverVars
<1>2. /\ sessionCursors' \in Cursors
      /\ \A s \in listed : OrZero(sessionCursors'[s]) >= OrZero(sessionCursors[s])
  BY <1>1, ListIsLater
<1>3. DrainStep(sessionCursors')
  BY <1>1 DEF FireOnReconnect, DrainStep
<1>4. /\ steerQueue' \in Seq(Items) /\ sending' \in Seq(Items)
      /\ \A x \in Range(sending') : x \in Sending \cup Queued
      /\ \A x \in Range(steerQueue') : x \in Queued \/ x.status = "stale"
      /\ \A x \in Range(sending'), y \in Range(steerQueue') : y.status = "pending" => x.id < y.id
  BY <1>3, Sifted
<1>5. QueueTypes'
  BY <1>1, <1>4 DEF QueueTypes
<1>6. \A id : Unspent(id)' <=> Unspent(id)
  BY <1>1 DEF Unspent
<1>7. Books'
  <2>1. /\ FiredOnceNeverCancelled'
        /\ \A i \in DOMAIN accepted' : accepted'[i].id <= steerSeq'
        /\ \A id \in cancelled' : id <= steerSeq'
    BY <1>1 DEF Books, FiredOnceNeverCancelled
  <2> QED BY <1>1, <1>3, <1>6, <2>1, BooksSifted
<1>8. Held'
  <2>1. TakenNeedsAYes'
    BY <1>1 DEF Held, TakenNeedsAYes
  <2> QED BY <1>1, <1>2, <1>3, <2>1, HeldSifted DEF ViewTypes
<1>9. InLine'
  <2>1. Queued' = Range(steerQueue') /\ Sending' = Range(sending')
    BY DEF Queued, Sending
  <2>2. \A i \in DOMAIN accepted' : accepted'[i].by = "drain" =>
          \A x \in Sending' \cup Queued' : x.status = "pending" => accepted'[i].id < x.id
    BY <1>1, <1>4, <2>1 DEF InLine
  <2>3. DrainKeepsOrder'
    BY <1>1 DEF InLine, DrainKeepsOrder
  <2> QED BY <1>4, <2>1, <2>2, <2>3 DEF InLine
<1>10. NoneStranded'
  <2>1. CASE firingQueue \/ steerQueue = <<>> \/ pollState = "ok"
    <3>1. UNCHANGED <<steerQueue, sending>>
      BY <1>1, <2>1 DEF FireOnReconnect
    <3>2. Queued' = Queued /\ (firingQueue' <=> firingQueue)
      BY <3>1 DEF Queued, firingQueue
    <3>3. CASE steerQueue = <<>>
      BY <3>2, <3>3 DEF NoneStranded, Queued, Range
    <3>4. CASE pollState = "ok"
      BY <3>2, <3>4 DEF NoneStranded, Offline
    <3>5. CASE firingQueue
      BY <3>2, <3>5 DEF NoneStranded
    <3> QED BY <2>1, <3>3, <3>4, <3>5
  <2>2. CASE ~(firingQueue \/ steerQueue = <<>> \/ pollState = "ok")
    <3>1. Drain(sessionCursors')
      BY <1>1, <2>2 DEF FireOnReconnect
    <3>2. \A x \in Range(steerQueue') : x.status = "stale"
      BY <3>1, DrainParts DEF QueueTypes, Books
    <3> QED BY <3>2 DEF NoneStranded, Queued
  <2> QED BY <2>1, <2>2
<1>11. PollCovers'
  BY <1>1 DEF PollCovers
<1> QED BY <1>5, <1>7, <1>8, <1>9, <1>10, <1>11, AppliedTypes

-----------------------------------------------------------------------------
\* A command is answered for.

LEMMA ActedTypes ==
  ASSUME ViewTypes, NEW item \in Items, NEW ok, Acted(item, ok),
         UNCHANGED <<listed, head, poll, currentSessionId, sessionCursors>>
  PROVE  ViewTypes'
<1>1. item.session \in Sessions
  BY DEF Items
<1>2. OrZero(sessionCursors[item.session]) \in Nat
  BY <1>1, OrZeroIsANumber DEF ViewTypes, Cursors
<1>3. Later(viewedCursors[item.session], OrZero(sessionCursors[item.session])) \in Nat \cup {Absent}
  BY <1>1, <1>2, LaterIsLater DEF ViewTypes, Cursors
<1>4. viewedCursors' \in Cursors
  BY <1>1, <1>3 DEF Acted, ViewTypes, Cursors
<1> QED BY <1>4 DEF ViewTypes

LEMMA DrainedStep ==
  ASSUME IInv, NEW took, NEW ok, DrainedSteerSettles(took, ok)
  PROVE  IInv'
<1> DEFINE item == Head(sending)
<1> USE DEF IInv
<1>1. /\ firingQueue /\ Taken(item, took, "drain") /\ Acted(item, ok)
      /\ UNCHANGED <<listed, head, poll, pollState, currentSessionId, sessionCursors, posts, steerSeq, cancelled>>
  BY DEF DrainedSteerSettles
<1>2. /\ item \in Items /\ item \in Sending
      /\ \A x \in Range(Tail(sending)) : x \in Sending /\ item.id < x.id
      /\ Len(sending) <= 1 => Tail(sending) = <<>>
  BY <1>1, HeadSent DEF QueueTypes, Books
<1>3. \/ /\ sending' = Tail(sending) /\ UNCHANGED steerQueue
         /\ (sending' # <<>> \/ steerQueue = <<>> \/ Offline)
      \/ Drain(sessionCursors)
  <2>1. CASE Len(sending) > 1
    <3>1. sending' = Tail(sending) /\ UNCHANGED steerQueue
      BY <2>1 DEF DrainedSteerSettles
    <3>2. Tail(sending) # <<>>
      <4>1. /\ Len(Tail(sending)) = Len(sending) - 1
            /\ Len(sending) \in Nat /\ Len(sending) - 1 \in Nat /\ Len(sending) > 1
        BY <1>1, <2>1 DEF QueueTypes, firingQueue
      <4>2. Len(<<>>) = 0
        OBVIOUS
      <4> QED BY ONLY <4>1, <4>2
    <3> QED BY <3>1, <3>2
  <2>2. CASE ~(Len(sending) > 1)
    <3>1. Rearm /\ Tail(sending) = <<>>
      BY <1>2, <2>2 DEF DrainedSteerSettles, QueueTypes
    <3> QED BY <3>1 DEF Rearm
  <2> QED BY <2>1, <2>2
<1>4. DrainStep(sessionCursors)
  BY <1>1, <1>3 DEF DrainStep
<1>5. /\ steerQueue' \in Seq(Items) /\ sending' \in Seq(Items)
      /\ \A x \in Range(sending') : x \in Sending \cup Queued
      /\ \A x \in Range(steerQueue') : \/ x \in Queued
                                     \/ (x.status = "stale" /\ \E y \in Queued : x.id = y.id)
      /\ \A x \in Range(sending'), y \in Range(steerQueue') : y.status = "pending" => x.id < y.id
  BY <1>4, Sifted
<1> HIDE DEF item
\* What is left follows what was sent.
<1>6. \A x \in Range(sending') \cup Range(steerQueue') : x.id # item.id
  <2>1. \A x \in Queued : x.id # item.id
    BY <1>2 DEF Books
  <2>2. \A x \in Range(steerQueue') : x.id # item.id
    BY <1>5, <2>1
  <2>3. CASE sending' = Tail(sending)
    <3>1. \A x \in Range(sending') : x \in Sending /\ item.id < x.id
      BY <1>2, <2>3
    <3>2. \A x \in Sending : x.id \in Int /\ item.id \in Int
      BY <1>2, ListsAreOfItems
    <3> QED BY <2>2, <3>1, <3>2
  <2>4. CASE Drain(sessionCursors)
    <3>1. \A x \in Range(sending') : x \in Queued
      BY <2>4, DrainParts DEF QueueTypes, Books
    <3> QED BY <2>1, <2>2, <3>1
  <2> QED BY <1>3, <2>3, <2>4
<1>7. \A x \in Range(sending') \cup Range(steerQueue') : x.status = "pending" => item.id < x.id
  <2>1. \A x \in Queued : x.status = "pending" => item.id < x.id
    BY <1>2 DEF InLine
  <2>2. \A x \in Range(steerQueue') : x.status = "pending" => item.id < x.id
    BY <1>5, <2>1
  <2>3. CASE sending' = Tail(sending)
    BY <1>2, <2>2, <2>3
  <2>4. CASE Drain(sessionCursors)
    <3>1. \A x \in Range(sending') : x \in Queued
      BY <2>4, DrainParts DEF QueueTypes, Books
    <3> QED BY <2>1, <2>2, <3>1
  <2> QED BY <1>3, <2>3, <2>4
<1>8. /\ accepted' \in Seq(Receipts)
      /\ \A i \in DOMAIN accepted' : accepted'[i].id <= steerSeq'
      /\ \A id \in cancelled' : id <= steerSeq'
      /\ \A id : Unspent(id) /\ id # item.id => Unspent(id)'
      /\ FiredOnceNeverCancelled'
  <2>1. item.id <= steerSeq /\ Unspent(item.id)
    BY <1>2 DEF Books
  <2> QED BY <1>1, <1>2, <2>1, SentOnce
<1>9. \A i \in DOMAIN accepted' :
        \/ i \in DOMAIN accepted /\ accepted'[i] = accepted[i]
        \/ /\ took /\ i \notin DOMAIN accepted /\ \A j \in DOMAIN accepted' : j <= i
           /\ accepted'[i].id = item.id /\ accepted'[i].by = "drain" /\ accepted'[i].status = item.status
  BY <1>1, <1>2, ReceiptAdded DEF QueueTypes
\* What the server takes of a drain was not held.
<1>10. took => item.status = "pending"
  BY <1>1, <1>2 DEF Taken, Held
<1>11. QueueTypes'
  BY <1>1, <1>5, <1>8 DEF QueueTypes
<1>12. Books'
  <2>1. \A x \in Range(steerQueue') \cup Range(sending') : Unspent(x.id) => Unspent(x.id)'
    BY <1>6, <1>8
  <2>2. \A x \in posts : Unspent(x.id) => Unspent(x.id)'
    BY <1>2, <1>8 DEF Books
  <2> QED BY <1>1, <1>4, <1>8, <2>1, <2>2, BooksSifted
<1>13. Held'
  <2>1. TakenNeedsAYes'
    BY <1>9, <1>10 DEF Held, TakenNeedsAYes
  <2>2. \A s \in listed : OrZero(sessionCursors[s]) >= OrZero(sessionCursors[s])
    <3> SUFFICES ASSUME NEW s \in listed PROVE OrZero(sessionCursors[s]) >= OrZero(sessionCursors[s])
      OBVIOUS
    <3>1. OrZero(sessionCursors[s]) \in Nat
      BY OrZeroIsANumber DEF ViewTypes, Cursors
    <3> QED BY <3>1
  <2>3. sessionCursors \in Cursors /\ sessionCursors' = sessionCursors
    BY <1>1 DEF ViewTypes
  <2> QED BY <1>1, <1>4, <2>1, <2>2, <2>3, HeldSifted
<1>14. InLine'
  <2>1. Queued' = Range(steerQueue') /\ Sending' = Range(sending')
    BY DEF Queued, Sending
  <2>2. \A i \in DOMAIN accepted' : accepted'[i].by = "drain" =>
          \A x \in Sending' \cup Queued' : x.status = "pending" => accepted'[i].id < x.id
    BY <1>5, <1>7, <1>9, <2>1 DEF InLine
  <2>3. DrainKeepsOrder'
    <3> SUFFICES ASSUME NEW i \in DOMAIN accepted', NEW j \in DOMAIN accepted', i < j,
                        accepted'[i].by = "drain", accepted'[j].by = "drain"
                 PROVE  accepted'[i].id < accepted'[j].id
      BY DEF DrainKeepsOrder
    <3>1. i \in Nat /\ j \in Nat
      BY <1>8
    <3>2. i \in DOMAIN accepted /\ accepted'[i] = accepted[i]
      BY <1>9, <3>1
    <3>3. CASE j \in DOMAIN accepted /\ accepted'[j] = accepted[j]
      BY <3>2, <3>3 DEF InLine, DrainKeepsOrder
    <3>4. CASE took /\ accepted'[j].id = item.id
      BY <1>2, <1>10, <3>2, <3>4 DEF InLine
    <3> QED BY <1>9, <3>3, <3>4
  <2> QED BY <1>5, <2>1, <2>2, <2>3 DEF InLine
<1>15. NoneStranded'
  <2>1. CASE Drain(sessionCursors)
    <3>1. \A x \in Range(steerQueue') : x.status = "stale"
      BY <2>1, DrainParts DEF QueueTypes, Books
    <3> QED BY <3>1 DEF NoneStranded, Queued
  <2>2. CASE sending' # <<>>
    BY <2>2 DEF NoneStranded, firingQueue
  <2>3. CASE steerQueue = <<>> /\ UNCHANGED steerQueue
    BY <2>3 DEF NoneStranded, Queued, Range
  <2>4. CASE Offline
    BY <1>1, <2>4 DEF NoneStranded, Offline
  <2> QED BY <1>3, <2>1, <2>2, <2>3, <2>4
<1>16. ViewTypes' /\ PollCovers'
  BY <1>1, <1>2, ActedTypes DEF PollCovers
<1> QED BY <1>11, <1>12, <1>13, <1>14, <1>15, <1>16

\* A command sent by hand is answered for: held or not, its number is spent once.
LEMMA SettledStep ==
  ASSUME IInv, NEW item \in posts, NEW took, NEW ok, SteerSettles(item, took, ok)
  PROVE  IInv'
<1> USE DEF IInv
<1>1. /\ posts' = posts \ {item} /\ Taken(item, took, "hand") /\ Acted(item, ok)
      /\ UNCHANGED <<listed, head, poll, pollState, currentSessionId, sessionCursors, steerQueue, sending,
                     steerSeq, cancelled>>
  BY DEF SteerSettles
<1>2. item \in Items /\ item.id <= steerSeq /\ Unspent(item.id)
  BY DEF Books, QueueTypes
<1>3. Queued' = Queued /\ Sending' = Sending
  BY <1>1 DEF Queued, Sending
<1>4. /\ accepted' \in Seq(Receipts)
      /\ \A i \in DOMAIN accepted' : accepted'[i].id <= steerSeq'
      /\ \A id \in cancelled' : id <= steerSeq'
      /\ \A id : Unspent(id) /\ id # item.id => Unspent(id)'
      /\ FiredOnceNeverCancelled'
  BY <1>1, <1>2, SentOnce
<1>5. \A i \in DOMAIN accepted' :
        \/ i \in DOMAIN accepted /\ accepted'[i] = accepted[i]
        \/ accepted'[i].by = "hand"
  BY <1>1, <1>2, ReceiptAdded DEF QueueTypes
<1>6. \A x \in Queued \cup Sending \cup posts' : x.id # item.id
  <2>1. \A x \in posts' : x \in posts /\ x # item
    BY <1>1
  <2> QED BY <2>1 DEF Books
<1>7. QueueTypes'
  BY <1>1, <1>4 DEF QueueTypes
<1>8. Books'
  <2>1. \A x \in Queued' \cup Sending' \cup posts' : x.id <= steerSeq' /\ Unspent(x.id)'
    BY <1>1, <1>3, <1>4, <1>6 DEF Books
  <2>2. posts' \subseteq posts
    BY <1>1
  <2>3. Ascending(steerQueue') /\ Ascending(sending')
    BY <1>1 DEF Books
  <2>4. /\ \A x \in Queued', y \in Sending' \cup posts' : x.id # y.id
        /\ \A x \in Sending', y \in posts' : x.id # y.id
        /\ \A x, y \in posts' : x.id = y.id => x = y
    BY <1>3, <2>2 DEF Books
  <2> QED BY <1>4, <2>1, <2>3, <2>4 DEF Books
<1>9. Held'
  <2>1. TakenNeedsAYes'
    BY <1>5 DEF Held, TakenNeedsAYes
  <2> QED BY <1>1, <1>3, <2>1 DEF Held, MovedOn
<1>10. InLine'
  <2>1. DrainKeepsOrder'
    BY <1>5 DEF InLine, DrainKeepsOrder
  <2>2. \A i \in DOMAIN accepted' : accepted'[i].by = "drain" => i \in DOMAIN accepted /\ accepted'[i] = accepted[i]
    BY <1>5
  <2> QED BY <1>3, <2>1, <2>2 DEF InLine
<1>11. NoneStranded'
  BY <1>1, <1>3 DEF NoneStranded, Offline, firingQueue
<1>12. ViewTypes' /\ PollCovers'
  BY <1>1, <1>2, ActedTypes DEF PollCovers
<1> QED BY <1>7, <1>8, <1>9, <1>10, <1>11, <1>12

-----------------------------------------------------------------------------
\* The operator.

\* A new command has a number above all the others.
LEMMA ItemIsNew ==
  ASSUME IInv, currentSessionId # Null, steerSeq < MaxSteers, NEW status \in {"pending", "stale", "sent"}
  PROVE  /\ Item(status) \in Items /\ Item(status).id = steerSeq + 1 /\ Item(status).status = status
         /\ \A x \in Queued \cup Sending \cup posts : x.id < steerSeq + 1
         /\ \A i \in DOMAIN accepted : accepted[i].id < steerSeq + 1
         /\ Unspent(steerSeq + 1)
<1> USE DEF IInv
<1>1. currentSessionId \in Sessions /\ OrZero(viewedCursors[currentSessionId]) \in Nat
  BY OrZeroIsANumber DEF ViewTypes, Cursors
<1>2. steerSeq \in Nat /\ steerSeq + 1 \in 1 .. MaxSteers
  BY SteerAssumption DEF QueueTypes
<1>3. Item(status) \in Items /\ Item(status).id = steerSeq + 1 /\ Item(status).status = status
  BY <1>1, <1>2 DEF Item, Items
<1>4. \A x \in Queued \cup Sending \cup posts : x.id < steerSeq + 1
  BY <1>2, ListsAreOfItems DEF Books
<1>5. \A i \in DOMAIN accepted : accepted[i].id < steerSeq + 1
  <2> SUFFICES ASSUME NEW i \in DOMAIN accepted PROVE accepted[i].id < steerSeq + 1
    OBVIOUS
  <2>1. accepted[i] \in Receipts
    BY DEF QueueTypes
  <2>2. accepted[i].id \in Int
    BY <2>1, SteerAssumption DEF Receipts
  <2> QED BY <1>2, <2>2 DEF Books
<1>6. steerSeq + 1 \notin cancelled
  BY <1>2 DEF Books
<1>7. Unspent(steerSeq + 1)
  BY <1>2, <1>5, <1>6 DEF Unspent
<1> QED BY <1>3, <1>4, <1>5, <1>7

LEMMA SteerStep == ASSUME IInv, Steer PROVE IInv'
<1> USE DEF IInv
<1>1. /\ currentSessionId # Null /\ steerSeq < MaxSteers /\ steerSeq' = steerSeq + 1
      /\ UNCHANGED <<listed, head, accepted, poll, pollState, currentSessionId, sessionCursors,
                     viewedCursors, sending, cancelled>>
  BY DEF Steer, serverVars, viewVars
<1>2. PICK status \in {"pending", "stale", "sent"} :
        \/ /\ status = "pending" /\ Offline /\ steerQueue' = Enqueued(Item(status)) /\ posts' = posts
        \/ /\ status = "stale" /\ MovedOn(Item(status), sessionCursors)
           /\ steerQueue' = Enqueued(Item(status)) /\ posts' = posts
        \/ status = "sent" /\ posts' = posts \cup {Item(status)} /\ steerQueue' = steerQueue
  BY DEF Steer, SteerOffline, SteerHeld, SteerOnline
<1> DEFINE item == Item(status)
<1>3. /\ item \in Items /\ item.id = steerSeq + 1 /\ item.status = status
      /\ \A x \in Queued \cup Sending \cup posts : x.id < steerSeq + 1
      /\ \A i \in DOMAIN accepted : accepted[i].id < steerSeq + 1
      /\ Unspent(steerSeq + 1)
  BY <1>1, ItemIsNew
<1> HIDE DEF item
<1>4. Sending' = Sending
  BY <1>1 DEF Sending
<1>5. steerSeq' \in 0 .. MaxSteers /\ steerSeq' = steerSeq + 1 /\ steerSeq \in Nat
  BY <1>1, SteerAssumption DEF QueueTypes
<1>6. /\ steerQueue' \in Seq(Items) /\ Ascending(steerQueue')
      /\ \/ Queued' = Queued \cup {item} /\ posts' = posts
         \/ Queued' = Queued /\ posts' = posts \cup {item}
  <2>1. CASE steerQueue' = Enqueued(item) /\ posts' = posts
    <3>1. /\ Enqueued(item) \in Seq(Items) /\ Ascending(Enqueued(item))
          /\ Range(Enqueued(item)) = Queued \cup {item}
      BY <1>3, EnqueuedBehind DEF QueueTypes, Books
    <3> QED BY <2>1, <3>1 DEF Queued
  <2>2. CASE steerQueue' = steerQueue /\ posts' = posts \cup {item}
    BY <2>2 DEF Queued, QueueTypes, Books
  <2> QED BY <1>2, <2>1, <2>2 DEF item
<1>7. QueueTypes'
  BY <1>1, <1>3, <1>5, <1>6 DEF QueueTypes
<1>8. \A x \in Queued \cup Sending \cup posts : x.id <= steerSeq /\ x.id \in Int /\ x.id # item.id
  BY <1>3, <1>5, ListsAreOfItems DEF Books
<1>9. Books'
  <2>1. \A x \in Queued' \cup Sending' \cup posts' : x.id <= steerSeq' /\ Unspent(x.id)'
    <3>1. \A id : Unspent(id)' <=> Unspent(id)
      BY <1>1 DEF Unspent
    <3>2. \A x \in Queued \cup Sending \cup posts : x.id <= steerSeq' /\ Unspent(x.id)
      BY <1>5, <1>8 DEF Books
    <3>3. item.id <= steerSeq' /\ Unspent(item.id)
      BY <1>3, <1>5
    <3>4. Queued' \cup Sending' \cup posts' \subseteq Queued \cup Sending \cup posts \cup {item}
      BY <1>4, <1>6
    <3> QED BY <3>1, <3>2, <3>3, <3>4
  <2>2. /\ \A x \in Queued', y \in Sending' \cup posts' : x.id # y.id
        /\ \A x \in Sending', y \in posts' : x.id # y.id
        /\ \A x, y \in posts' : x.id = y.id => x = y
    <3>1. /\ \A x \in Queued, y \in Sending \cup posts : x.id # y.id
          /\ \A x \in Sending, y \in posts : x.id # y.id
          /\ \A x, y \in posts : x.id = y.id => x = y
      BY DEF Books
    <3> QED BY <1>4, <1>6, <1>8, <3>1
  <2>3. /\ \A i \in DOMAIN accepted' : accepted'[i].id <= steerSeq'
        /\ \A id \in cancelled' : id <= steerSeq'
    <3>1. \A i \in DOMAIN accepted : accepted[i].id \in Int
      <4>1. \A i \in DOMAIN accepted : accepted[i] \in Receipts
        BY DEF QueueTypes
      <4> QED BY <4>1, SteerAssumption DEF Receipts
    <3>2. \A id \in cancelled : id \in Int
      BY DEF QueueTypes
    <3> QED BY <1>1, <1>5, <3>1, <3>2 DEF Books
  <2>4. FiredOnceNeverCancelled'
    BY <1>1 DEF Books, FiredOnceNeverCancelled
  <2>5. Ascending(steerQueue') /\ Ascending(sending')
    BY <1>1, <1>6 DEF Books
  <2> QED BY <2>1, <2>2, <2>3, <2>4, <2>5 DEF Books
<1>10. \A x \in Queued' : \/ x \in Queued
                         \/ (x = item /\ status = "pending" /\ Offline)
                         \/ (x = item /\ status = "stale" /\ MovedOn(item, sessionCursors))
  <2>1. CASE Queued' = Queued
    BY <2>1
  <2>2. CASE status # "sent"
    BY <1>2, <1>6, <2>2 DEF item
  <2>3. CASE status = "sent"
    <3>1. Queued' = Queued
      BY <1>2, <2>3 DEF Queued
    <3> QED BY <3>1
  <2> QED BY <2>2, <2>3
<1>11. Held'
  <2>1. TakenNeedsAYes'
    BY <1>1 DEF Held, TakenNeedsAYes
  <2>2. \A x \in Queued' \cup Sending' : x.status \in {"pending", "stale"}
    BY <1>3, <1>4, <1>10 DEF Held
  <2>3. \A x \in Queued' : x.status = "stale" /\ x.session \in listed' => MovedOn(x, sessionCursors')
    BY <1>1, <1>3, <1>10 DEF Held
  <2>4. \A x \in Sending' : x.status = "stale" => x.session \notin listed'
    BY <1>1, <1>4 DEF Held
  <2> QED BY <2>1, <2>2, <2>3, <2>4 DEF Held
<1>12. InLine'
  <2>1. DrainKeepsOrder'
    BY <1>1 DEF InLine, DrainKeepsOrder
  <2>2. \A x \in Queued' : x \in Queued \/ x = item
    BY <1>10
  <2>3. \A x \in Sending', y \in Queued' : y.status = "pending" => x.id < y.id
    BY <1>3, <1>4, <2>2 DEF InLine
  <2>4. \A i \in DOMAIN accepted' : accepted'[i].by = "drain" =>
          \A x \in Sending' \cup Queued' : x.status = "pending" => accepted'[i].id < x.id
    BY <1>1, <1>3, <1>4, <2>2 DEF InLine
  <2> QED BY <2>1, <2>3, <2>4 DEF InLine
<1>13. NoneStranded'
  BY <1>1, <1>3, <1>10 DEF NoneStranded, Offline, firingQueue
<1>14. ViewTypes' /\ PollCovers'
  BY <1>1 DEF ViewTypes, PollCovers
<1> QED BY <1>7, <1>9, <1>11, <1>12, <1>13, <1>14

\* Cancelled, or confirmed, from its place in the queue.
LEMMA TakenOutStep ==
  ASSUME IInv, NEW i, CancelSteerQueued(i) \/ SendSteerAnyway(i)
  PROVE  IInv'
<1> DEFINE item == steerQueue[i]
<1> USE DEF IInv
<1>1. /\ i \in DOMAIN steerQueue /\ steerQueue' = RemoveAt(steerQueue, i)
      /\ UNCHANGED <<listed, head, accepted, poll, pollState, currentSessionId, sessionCursors, viewedCursors,
                     sending, steerSeq>>
      /\ \/ cancelled' = cancelled \cup {item.id} /\ posts' = posts
         \/ cancelled' = cancelled /\ posts' = posts \cup {item}
  BY DEF CancelSteerQueued, SendSteerAnyway, serverVars, viewVars
<1>2. /\ steerQueue' \in Seq(Items) /\ Ascending(steerQueue')
      /\ \A x \in Queued' : x \in Queued /\ x.id # item.id
  BY <1>1, RemovedAt DEF Queued, QueueTypes, Books
<1>3. item \in Items /\ item \in Queued /\ item.id \in 1 .. MaxSteers
  <2>1. item \in Items
    BY <1>1 DEF QueueTypes
  <2>2. item \in Queued
    BY <1>1 DEF Queued, Range
  <2>3. item.id \in 1 .. MaxSteers
    BY <2>1 DEF Items
  <2> QED BY <2>1, <2>2, <2>3
<1> HIDE DEF item
<1>4. Sending' = Sending
  BY <1>1 DEF Sending
<1>5. QueueTypes'
  BY <1>1, <1>2, <1>3 DEF QueueTypes
<1>6. \A x \in Sending \cup posts : x.id # item.id
  BY <1>3 DEF Books
<1>7. Books'
  <2>1. \A x \in Queued' \cup Sending' \cup posts' : x.id <= steerSeq' /\ Unspent(x.id)'
    <3>1. CASE cancelled' = cancelled \cup {item.id} /\ posts' = posts
      <4>1. \A id : Unspent(id) /\ id # item.id => Unspent(id)'
        BY <1>1, <3>1 DEF Unspent
      <4> QED BY <1>1, <1>2, <1>4, <1>6, <3>1, <4>1 DEF Books
    <3>2. CASE cancelled' = cancelled /\ posts' = posts \cup {item}
      <4>1. \A id : Unspent(id)' <=> Unspent(id)
        BY <1>1, <3>2 DEF Unspent
      <4> QED BY <1>1, <1>2, <1>3, <1>4, <3>2, <4>1 DEF Books
    <3> QED BY <1>1, <3>1, <3>2
  <2>2. /\ \A x \in Queued', y \in Sending' \cup posts' : x.id # y.id
        /\ \A x \in Sending', y \in posts' : x.id # y.id
        /\ \A x, y \in posts' : x.id = y.id => x = y
    <3>1. /\ \A x \in Queued, y \in Sending \cup posts : x.id # y.id
          /\ \A x \in Sending, y \in posts : x.id # y.id
          /\ \A x, y \in posts : x.id = y.id => x = y
      BY DEF Books
    <3>2. posts' = posts \/ posts' = posts \cup {item}
      BY <1>1
    <3> QED BY <1>2, <1>4, <1>6, <3>1, <3>2
  <2>3. /\ \A k \in DOMAIN accepted' : accepted'[k].id <= steerSeq'
        /\ \A id \in cancelled' : id <= steerSeq'
    BY <1>1, <1>3 DEF Books
  <2>4. FiredOnceNeverCancelled'
    <3>1. \A k \in DOMAIN accepted : accepted[k].id # item.id
      BY <1>3 DEF Books, Unspent
    <3> QED BY <1>1, <3>1 DEF Books, FiredOnceNeverCancelled
  <2>5. Ascending(steerQueue') /\ Ascending(sending')
    BY <1>1, <1>2 DEF Books
  <2> QED BY <2>1, <2>2, <2>3, <2>4, <2>5 DEF Books
<1>8. Held'
  <2>1. TakenNeedsAYes'
    BY <1>1 DEF Held, TakenNeedsAYes
  <2> QED BY <1>1, <1>2, <1>4, <2>1 DEF Held
<1>9. InLine'
  <2>1. DrainKeepsOrder'
    BY <1>1 DEF InLine, DrainKeepsOrder
  <2> QED BY <1>1, <1>2, <1>4, <2>1 DEF InLine
<1>10. NoneStranded'
  BY <1>1, <1>2 DEF NoneStranded, Offline, firingQueue
<1>11. ViewTypes' /\ PollCovers'
  BY <1>1 DEF ViewTypes, PollCovers
<1> QED BY <1>5, <1>7, <1>8, <1>9, <1>10, <1>11

-----------------------------------------------------------------------------
\* The initial states: nothing said, nothing asked.
LEMMA InvInit == Init => IInv
<1> SUFFICES ASSUME Init PROVE IInv
  OBVIOUS
<1> USE SteerAssumption DEF Init
<1>1. ViewTypes
  BY DEF ViewTypes, Idle, Cursors
<1>2. QueueTypes
  BY DEF QueueTypes
<1>3. Queued = {} /\ Sending = {}
  BY DEF Queued, Sending, Range
<1>4. Books
  BY <1>3 DEF Books, Ascending, FiredOnceNeverCancelled
<1>5. Held
  BY <1>3 DEF Held, TakenNeedsAYes
<1>6. InLine
  BY <1>3 DEF InLine, DrainKeepsOrder
<1>7. NoneStranded
  BY <1>3 DEF NoneStranded
<1>8. PollCovers
  BY DEF PollCovers, Idle
<1> QED BY <1>1, <1>2, <1>4, <1>5, <1>6, <1>7, <1>8 DEF IInv

\* Every step keeps the invariant.
LEMMA InvStep == IInv /\ [Next]_vars => IInv'
<1> SUFFICES ASSUME IInv, [Next]_vars PROVE IInv'
  OBVIOUS
<1>1. CASE UNCHANGED vars
  BY <1>1 DEF vars, serverVars, viewVars, IInv, ViewTypes, QueueTypes, Books, Ascending, Unspent, Queued, Sending,
              PollCovers, Held, MovedOn, InLine, NoneStranded, Offline, firingQueue,
              FiredOnceNeverCancelled, TakenNeedsAYes, DrainKeepsOrder
<1>2. CASE LinkFlaps \/ PollIsServed \/ PollFails
  BY <1>2, QuietStep
<1>3. CASE PollIsApplied
  BY <1>3, AppliedStep
<1>4. CASE Steer
  BY <1>4, SteerStep
<1>5. CASE \E s \in Sessions : EmitEvent(s) \/ EndSession(s) \/ SelectSession(s)
  BY <1>5, QuietStep
<1>6. CASE \E s \in Sessions, id \in 1 .. MaxEvents : RecordViewedEvent(s, id)
  BY <1>6, QuietStep
<1>7. CASE \E took, ok \in BOOLEAN : DrainedSteerSettles(took, ok)
  BY <1>7, DrainedStep
<1>8. CASE \E item \in posts, took, ok \in BOOLEAN : SteerSettles(item, took, ok)
  BY <1>8, SettledStep
<1>9. CASE \E i \in 1 .. MaxSteers : CancelSteerQueued(i) \/ SendSteerAnyway(i)
  BY <1>9, TakenOutStep
<1> QED BY <1>1, <1>2, <1>3, <1>4, <1>5, <1>6, <1>7, <1>8, <1>9 DEF Next

-----------------------------------------------------------------------------
\* Whatever the link, the polls, the sessions and the operator do, the page's record
\* of its commands is consistent.
THEOREM SteerInvariant == Spec => []IInv
<1>1. IInv /\ [Next]_vars => IInv'
  BY InvStep
<1> QED BY InvInit, <1>1, PTL DEF Spec

\* Once the page is back online and no drain is in flight no pending command is left,
\* for the drain that ends looks at the queue again.
THEOREM NothingStrandedAlways == Spec => []NothingStranded
<1>1. IInv => NothingStranded
  <2> SUFFICES ASSUME NoneStranded PROVE NothingStranded
    BY DEF IInv
  <2>1. \A i \in DOMAIN steerQueue : steerQueue[i] \in Queued
    BY DEF Queued, Range
  <2> QED BY <2>1 DEF NoneStranded, NothingStranded, IsPending
<1> QED BY SteerInvariant, <1>1, PTL

\* No command reaches its session twice or after it was cancelled, however drains,
\* polls and the operator's taps interleave.
THEOREM FiredOnceNeverCancelledAlways == Spec => []FiredOnceNeverCancelled
<1>1. IInv => FiredOnceNeverCancelled
  BY DEF IInv, Books
<1> QED BY SteerInvariant, <1>1, PTL

\* No drain sends a living session what was held because it had moved on: cursors
\* advance, and a session whose cursor is dropped is gone.
THEOREM HeldNeedsAYesAlways == Spec => []HeldNeedsAYes
<1>1. IInv => HeldNeedsAYes
  BY DEF IInv, Held, HeldNeedsAYes, Sending, Range
<1> QED BY SteerInvariant, <1>1, PTL

\* The drains send in the order the commands were given, for a drain takes all that
\* waits and a new one starts when the last is over.
THEOREM DrainKeepsOrderAlways == Spec => []DrainKeepsOrder
<1>1. IInv => DrainKeepsOrder
  BY DEF IInv, InLine
<1> QED BY SteerInvariant, <1>1, PTL
=============================================================================
