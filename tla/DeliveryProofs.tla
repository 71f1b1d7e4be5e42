----------------------------- MODULE DeliveryProofs -----------------------------
(***************************************************************************)
(* Delivery over the two kinds of response the server keeps open: the work  *)
(* item a held poll is answered with (WorkQueue, for any number of          *)
(* environments, items and polls), and the numbered events a browser's      *)
(* stream carries and a reconnect replays (EventStream, for any number of   *)
(* browsers, responses and events, and any window).                         *)
(***************************************************************************)
EXTENDS WorkQueue, EventStream, SequenceTheorems, FiniteSetTheorems, TLAPS

\* A poll names one environment.
NamesOne == \A p \in Polls, e, f \in Environments : e \in target[p] /\ f \in target[p] => e = f

\* The waiters of an environment are the polls it holds: each names it, none is
\* settled or written to; and the window of such a poll is the one that runs.
WaitersAreHeld ==
  \A p \in Polls, e \in Environments :
    p \in waiters[e] => e \in target[p] /\ p \notin settled /\ replies[p] = <<>>

HeldIsWaiting ==
  \A p \in Polls, e \in Environments : Held(p) /\ e \in target[p] => p \in waiters[e]

TimedIsHeld == \A p \in timer : Held(p)

\* A poll that was not asked has no answer, and no client to go away.
UnaskedIsFresh ==
  \A p \in Polls : target[p] = {} => replies[p] = <<>> /\ p \notin settled /\ p \notin destroyed

IInv ==
  /\ TypeOK
  /\ NamesOne /\ WaitersAreHeld /\ HeldIsWaiting /\ TimedIsHeld /\ UnaskedIsFresh
  /\ DeliveredOnceInOrder /\ NoWorkHeldBack /\ ResolvedOnce

\* What the polls' side of the invariant reads.
pollVars == <<waiters, settled, timer, target, replies, destroyed>>
PollInv == NamesOne /\ WaitersAreHeld /\ HeldIsWaiting /\ TimedIsHeld /\ UnaskedIsFresh /\ ResolvedOnce

-----------------------------------------------------------------------------
\* Taking the head of what is left and delivering it keeps the whole.
LEMMA HeadIsDelivered ==
  ASSUME NEW S, NEW done \in Seq(S), NEW items \in Seq(S), items # <<>>
  PROVE  /\ Head(items) \in S /\ Tail(items) \in Seq(S) /\ Append(done, Head(items)) \in Seq(S)
         /\ Append(done, Head(items)) \o Tail(items) = done \o items
<1>1. /\ Head(items) \in S /\ Tail(items) \in Seq(S) /\ Append(done, Head(items)) \in Seq(S)
      /\ Len(Tail(items)) = Len(items) - 1 /\ Len(items) \in Nat \ {0} /\ Len(done) \in Nat
  OBVIOUS
<1>2. /\ Append(done, Head(items)) \o Tail(items) \in Seq(S)
      /\ done \o items \in Seq(S)
  BY <1>1
<1>3. Len(Append(done, Head(items)) \o Tail(items)) = Len(done \o items)
  BY <1>1
<1>4. \A i \in 1 .. Len(done \o items) :
        (Append(done, Head(items)) \o Tail(items))[i] = (done \o items)[i]
  BY <1>1
<1>5. Append(done, Head(items)) \o Tail(items) = done \o items
  BY <1>2, <1>3, <1>4, SeqEqual
<1> QED BY <1>1, <1>5

\* Enqueueing adds to the end of the whole.
LEMMA EnqueueExtends ==
  \A done, items \in Seq(Sessions) : \A s \in Sessions :
    Append(done \o items, s) = done \o Append(items, s)
<1> TAKE done, items \in Seq(Sessions)
<1> TAKE s \in Sessions
<1>1. /\ Append(done \o items, s) \in Seq(Sessions) /\ done \o Append(items, s) \in Seq(Sessions)
      /\ Len(Append(done \o items, s)) = Len(done \o Append(items, s))
  OBVIOUS
<1>2. \A i \in 1 .. Len(Append(done \o items, s)) :
        Append(done \o items, s)[i] = (done \o Append(items, s))[i]
  OBVIOUS
<1> QED BY <1>1, <1>2, SeqEqual

\* A first answer is an only one.
LEMMA FirstAnswer ==
  ASSUME NEW S, NEW body \in S
  PROVE  Append(<<>>, body) \in Seq(S) /\ Len(Append(<<>>, body)) = 1 /\ Append(<<>>, body) # <<>>
  OBVIOUS

-----------------------------------------------------------------------------
\* finish, of a poll that waits on an environment, keeps the polls' invariant: the poll
\* is settled, dropped, and answered for the first time.
LEMMA FinishKeepsPolls ==
  ASSUME TypeOK, PollInv, NEW p \in Polls, NEW e \in Environments, NEW body \in Sessions \cup {NoWork},
         p \in waiters[e], Finish(p, e, body), UNCHANGED <<target, destroyed>>
  PROVE  /\ PollInv'
         /\ waiters' \in [Environments -> SUBSET Polls]
         /\ settled' \in SUBSET Polls /\ timer' \in SUBSET Polls
         /\ replies' \in [Polls -> Seq(Sessions \cup {NoWork})]
         /\ \A q \in Polls : Held(q)' => Held(q)
<1>1. /\ settled' = settled \cup {p} /\ timer' = timer \ {p}
      /\ waiters' = [waiters EXCEPT ![e] = @ \ {p}]
      /\ replies' = [replies EXCEPT ![p] = Append(@, body)]
      /\ target' = target /\ destroyed' = destroyed
  BY DEF Finish, Settle, Write
<1>2. e \in target[p] /\ replies[p] = <<>> /\ p \notin settled
  BY DEF PollInv, WaitersAreHeld
<1>3. replies'[p] \in Seq(Sessions \cup {NoWork}) /\ Len(replies'[p]) = 1 /\ replies'[p] # <<>>
  BY <1>1, <1>2, FirstAnswer DEF TypeOK
<1>4. \A q \in Polls \ {p} : replies'[q] = replies[q]
  BY <1>1 DEF TypeOK
<1>5. /\ waiters' \in [Environments -> SUBSET Polls]
      /\ settled' \in SUBSET Polls /\ timer' \in SUBSET Polls
  <2>1. waiters[e] \ {p} \in SUBSET Polls
    BY DEF TypeOK
  <2> QED BY <1>1, <2>1 DEF TypeOK
<1>6. replies' \in [Polls -> Seq(Sessions \cup {NoWork})]
  BY <1>1, <1>3 DEF TypeOK
<1>7. \A f \in Environments : waiters'[f] = IF f = e THEN waiters[f] \ {p} ELSE waiters[f]
  BY <1>1 DEF TypeOK
<1>8. NamesOne' /\ UnaskedIsFresh' /\ ResolvedOnce'
  <2>1. NamesOne'
    BY <1>1 DEF PollInv, NamesOne
  <2>2. UnaskedIsFresh'
    BY <1>1, <1>2, <1>4 DEF PollInv, UnaskedIsFresh
  <2>3. ASSUME NEW q \in Polls PROVE Len(replies'[q]) <= 1
    <3>1. CASE q = p
      <4>1. Len(replies'[q]) = 1
        BY <1>3, <3>1
      <4> QED BY ONLY <4>1
    <3>2. CASE q # p
      <4>1. replies'[q] = replies[q] /\ Len(replies[q]) <= 1
        BY <1>4, <3>2 DEF PollInv, ResolvedOnce
      <4> QED BY <4>1
    <3> QED BY <3>1, <3>2
  <2>4. ResolvedOnce'
    BY <2>3 DEF ResolvedOnce
  <2> QED BY <2>1, <2>2, <2>4
<1>9. WaitersAreHeld'
  <2>1. ASSUME NEW q \in Polls, NEW f \in Environments, q \in waiters'[f]
        PROVE  f \in target'[q] /\ q \notin settled' /\ replies'[q] = <<>>
    <3>1. q \in waiters[f]
      BY <1>7, <2>1
    <3>2. f \in target[q] /\ q \notin settled /\ replies[q] = <<>>
      BY <3>1 DEF PollInv, WaitersAreHeld
    <3>3. q # p
      BY <1>2, <1>7, <2>1, <3>2 DEF PollInv, NamesOne
    <3> QED BY <1>1, <1>4, <3>2, <3>3
  <2> QED BY <2>1 DEF WaitersAreHeld
<1>10. \A q \in Polls : Held(q)' => Held(q) /\ q # p
  BY <1>1, <1>4 DEF Held
<1>11. HeldIsWaiting'
  BY <1>1, <1>7, <1>10 DEF PollInv, HeldIsWaiting
<1>12. TimedIsHeld'
  BY <1>1, <1>4 DEF PollInv, TimedIsHeld, Held, TypeOK
<1> QED BY <1>5, <1>6, <1>8, <1>9, <1>10, <1>11, <1>12 DEF PollInv

LEMMA PollsKept == ASSUME PollInv, UNCHANGED pollVars PROVE PollInv'
  BY DEF PollInv, pollVars, NamesOne, WaitersAreHeld, HeldIsWaiting, TimedIsHeld, UnaskedIsFresh, ResolvedOnce, Held

-----------------------------------------------------------------------------
\* The initial states: nobody has registered, nothing is queued, no poll was asked.
LEMMA InvInit == Init => IInv
<1> SUFFICES ASSUME Init PROVE IInv
  OBVIOUS
<1> USE DEF Init
<1>1. TypeOK
  <2>1. /\ <<>> \in Seq(Sessions) /\ <<>> \in Seq(Environments) /\ <<>> \in Seq(Sessions \cup {NoWork})
        /\ {} \in SUBSET Polls /\ {} \in SUBSET Environments /\ {} \in SUBSET Sessions /\ 0 \in Nat
    OBVIOUS
  <2>2. /\ queue \in [Environments -> Seq(Sessions)] /\ sent \in [Environments -> Seq(Sessions)]
        /\ delivered \in [Environments -> Seq(Sessions)]
    BY <2>1
  <2>3. waiters \in [Environments -> SUBSET Polls]
    BY <2>1
  <2>4. /\ target \in [Polls -> SUBSET Environments] /\ place \in [Polls -> Nat]
        /\ replies \in [Polls -> Seq(Sessions \cup {NoWork})]
    BY <2>1
  <2>5. closing \in BOOLEAN
    OBVIOUS
  <2> QED BY <2>1, <2>2, <2>3, <2>4, <2>5 DEF TypeOK
<1>2. NamesOne /\ WaitersAreHeld /\ HeldIsWaiting /\ TimedIsHeld /\ UnaskedIsFresh
  BY DEF NamesOne, WaitersAreHeld, HeldIsWaiting, TimedIsHeld, UnaskedIsFresh, Held
<1>3. DeliveredOnceInOrder /\ NoWorkHeldBack /\ ResolvedOnce
  BY DEF DeliveredOnceInOrder, NoWorkHeldBack, ResolvedOnce
<1> QED BY <1>1, <1>2, <1>3 DEF IInv

-----------------------------------------------------------------------------
\* A session is created: its item goes to the oldest live poll of the environment
\* registered last, which was held only because nothing was queued; else it waits.
LEMMA CreateStep ==
  ASSUME IInv, NEW s \in Sessions, HandleSessionCreate(s)
  PROVE  IInv'
<1> USE QueueAssumption DEF IInv
<1>1. /\ UNCHANGED <<registered, closing, target, place, destroyed>>
      /\ created' \in SUBSET Sessions
  BY DEF HandleSessionCreate, TypeOK
<1>2. CASE registered = <<>>
  <2>1. UNCHANGED <<queue, settled, waiters, timer, replies, sent, delivered>>
    BY <1>2 DEF HandleSessionCreate
  <2>2. TypeOK'
    BY <1>1, <2>1 DEF TypeOK
  <2>3. PollInv'
    BY <1>1, <2>1, PollsKept DEF PollInv, pollVars
  <2>4. DeliveredOnceInOrder' /\ NoWorkHeldBack'
    BY <1>1, <2>1 DEF DeliveredOnceInOrder, NoWorkHeldBack, Held
  <2> QED BY <2>2, <2>3, <2>4 DEF PollInv
<1>3. CASE registered # <<>>
  <2> DEFINE e == registered[Len(registered)]
  <2> DEFINE items == Append(queue[e], s)
  <2>1. e \in Environments /\ EnqueueWork(e, s)
    BY <1>3 DEF HandleSessionCreate, TypeOK
  <2> HIDE DEF e
  <2>2. /\ queue[e] \in Seq(Sessions) /\ sent[e] \in Seq(Sessions) /\ delivered[e] \in Seq(Sessions)
        /\ sent[e] = delivered[e] \o queue[e]
    BY <2>1 DEF TypeOK, DeliveredOnceInOrder
  <2>3. items \in Seq(Sessions) /\ items # <<>> /\ Append(sent[e], s) \in Seq(Sessions)
    BY <2>2
  <2>4. Append(sent[e], s) = delivered[e] \o items
    <3>1. Append(delivered[e] \o queue[e], s) = delivered[e] \o Append(queue[e], s)
      BY <2>2, EnqueueExtends
    <3> QED BY <2>2, <3>1
  <2>5. sent' = [sent EXCEPT ![e] = Append(sent[e], s)]
    BY <2>1 DEF EnqueueWork
  <2> HIDE DEF items
  <2>6. sent' \in [Environments -> Seq(Sessions)] /\ sent'[e] = delivered[e] \o items
        /\ \A f \in Environments \ {e} : sent'[f] = sent[f]
    BY <2>1, <2>3, <2>4, <2>5 DEF TypeOK
  <2>7. CASE /\ Deliverable(e) = {}
             /\ queue' = [queue EXCEPT ![e] = items]
             /\ UNCHANGED <<settled, waiters, timer, replies, delivered>>
    <3>1. queue' \in [Environments -> Seq(Sessions)] /\ queue'[e] = items
          /\ \A f \in Environments \ {e} : queue'[f] = queue[f]
      BY <2>1, <2>3, <2>7 DEF TypeOK
    <3>2. TypeOK'
      BY <1>1, <2>6, <2>7, <3>1 DEF TypeOK
    <3>3. PollInv'
      BY <1>1, <2>7, PollsKept DEF PollInv, pollVars
    <3>4. DeliveredOnceInOrder'
      BY <2>6, <2>7, <3>1 DEF DeliveredOnceInOrder
    <3>5. NoWorkHeldBack'
      <4>1. ASSUME NEW p \in Polls, NEW f \in Environments, Held(p)', p \notin destroyed', f \in target'[p]
            PROVE  queue'[f] = <<>>
        <5>1. Held(p) /\ p \notin destroyed /\ f \in target[p]
          BY <1>1, <2>7, <4>1 DEF Held
        <5>2. p \in waiters[f]
          BY <5>1 DEF HeldIsWaiting
        <5>3. f # e
          BY <2>1, <2>7, <5>1, <5>2 DEF Deliverable, IsResponseClosed, Held
        <5> QED BY <3>1, <5>1, <5>3 DEF NoWorkHeldBack
      <4> QED BY <4>1 DEF NoWorkHeldBack
    <3> QED BY <3>2, <3>3, <3>4, <3>5 DEF PollInv
  <2>8. ASSUME NEW p \in Deliverable(e), queue' = [queue EXCEPT ![e] = Tail(items)], Finish(p, e, Head(items))
        PROVE  IInv'
    <3>1. p \in Polls /\ p \in waiters[e] /\ p \notin destroyed /\ Held(p) /\ e \in target[p]
      BY <2>1 DEF Deliverable, IsResponseClosed, TypeOK, WaitersAreHeld, Held
    <3>2. queue[e] = <<>>
      BY <2>1, <3>1 DEF NoWorkHeldBack
    <3>3. /\ Head(items) \in Sessions /\ Tail(items) \in Seq(Sessions)
          /\ Append(delivered[e], Head(items)) \in Seq(Sessions)
          /\ Append(delivered[e], Head(items)) \o Tail(items) = delivered[e] \o items
      BY <2>2, <2>3, HeadIsDelivered
    <3>4. Tail(items) = <<>>
      BY <2>2, <3>2 DEF items
    <3>5. delivered' = [delivered EXCEPT ![e] = Append(delivered[e], Head(items))]
      BY <2>1, <2>8, <3>1, <3>3 DEF Finish, Write, TypeOK
    <3>6. delivered' \in [Environments -> Seq(Sessions)] /\ delivered'[e] = Append(delivered[e], Head(items))
          /\ \A f \in Environments \ {e} : delivered'[f] = delivered[f]
      BY <2>1, <3>3, <3>5 DEF TypeOK
    <3>7. queue' \in [Environments -> Seq(Sessions)] /\ queue'[e] = Tail(items)
          /\ \A f \in Environments \ {e} : queue'[f] = queue[f]
      BY <2>1, <2>8, <3>3 DEF TypeOK
    <3>8. /\ PollInv'
          /\ waiters' \in [Environments -> SUBSET Polls]
          /\ settled' \in SUBSET Polls /\ timer' \in SUBSET Polls
          /\ replies' \in [Polls -> Seq(Sessions \cup {NoWork})]
          /\ \A q \in Polls : Held(q)' => Held(q)
      BY <1>1, <2>1, <2>8, <3>1, <3>3, FinishKeepsPolls DEF PollInv
    <3>9. TypeOK'
      BY <1>1, <2>6, <3>6, <3>7, <3>8 DEF TypeOK
    <3>10. DeliveredOnceInOrder'
      BY <2>6, <3>3, <3>6, <3>7 DEF DeliveredOnceInOrder
    <3>11. NoWorkHeldBack'
      BY <1>1, <3>4, <3>7, <3>8 DEF NoWorkHeldBack
    <3> QED BY <3>8, <3>9, <3>10, <3>11 DEF PollInv
  <2> QED BY <2>1, <2>7, <2>8 DEF EnqueueWork, items
<1> QED BY <1>2, <1>3

\* A poll takes the head of the queue, or finds it empty and waits.
LEMMA PollStep ==
  ASSUME IInv, NEW e \in Environments, NEW p \in Polls, HandleWorkPoll(e, p)
  PROVE  IInv'
<1> USE QueueAssumption DEF IInv
<1>1. /\ target[p] = {} /\ target' = [target EXCEPT ![p] = {e}]
      /\ place' = [place EXCEPT ![p] = 1 + Cardinality({q \in Polls : target[q] # {}})]
      /\ UNCHANGED <<registered, closing, destroyed, created, sent>>
      /\ replies[p] = <<>> /\ p \notin settled /\ p \notin destroyed
  BY DEF HandleWorkPoll, UnaskedIsFresh
<1>2. /\ target' \in [Polls -> SUBSET Environments] /\ target'[p] = {e}
      /\ \A q \in Polls \ {p} : target'[q] = target[q]
  BY <1>1 DEF TypeOK
<1>3. place' \in [Polls -> Nat]
  <2>1. Cardinality({q \in Polls : target[q] # {}}) \in Nat
    BY FS_Subset, FS_CardinalityType
  <2> QED BY <1>1, <2>1 DEF TypeOK
<1>4. NamesOne'
  BY <1>2 DEF NamesOne
<1>5. \A f \in Environments : p \notin waiters[f]
  BY <1>1 DEF WaitersAreHeld
<1>6. p \notin timer
  BY <1>1 DEF TimedIsHeld, Held
<1>7. CASE PollTakesWork(e, p)
  <2>1. /\ queue[e] # <<>> /\ queue' = [queue EXCEPT ![e] = Tail(queue[e])]
        /\ replies' = [replies EXCEPT ![p] = Append(replies[p], Head(queue[e]))]
        /\ UNCHANGED <<waiters, settled, timer>>
    BY <1>7 DEF PollTakesWork, Write
  <2>2. /\ Head(queue[e]) \in Sessions /\ Tail(queue[e]) \in Seq(Sessions)
        /\ Append(delivered[e], Head(queue[e])) \in Seq(Sessions)
        /\ Append(delivered[e], Head(queue[e])) \o Tail(queue[e]) = delivered[e] \o queue[e]
    <3>1. queue[e] \in Seq(Sessions) /\ delivered[e] \in Seq(Sessions)
      BY DEF TypeOK
    <3> QED BY <2>1, <3>1, HeadIsDelivered
  <2>3. delivered' = [delivered EXCEPT ![e] = Append(delivered[e], Head(queue[e]))]
    BY <1>1, <1>7, <2>2 DEF PollTakesWork, Write
  <2>4. delivered' \in [Environments -> Seq(Sessions)] /\ delivered'[e] = Append(delivered[e], Head(queue[e]))
        /\ \A f \in Environments \ {e} : delivered'[f] = delivered[f]
    BY <2>2, <2>3 DEF TypeOK
  <2>5. queue' \in [Environments -> Seq(Sessions)] /\ queue'[e] = Tail(queue[e])
        /\ \A f \in Environments \ {e} : queue'[f] = queue[f]
    BY <2>1, <2>2 DEF TypeOK
  <2>6. /\ replies'[p] \in Seq(Sessions \cup {NoWork}) /\ Len(replies'[p]) = 1 /\ replies'[p] # <<>>
        /\ \A q \in Polls \ {p} : replies'[q] = replies[q]
    <3>1. Head(queue[e]) \in Sessions \cup {NoWork}
      BY <2>2
    <3>2. replies'[p] = Append(<<>>, Head(queue[e])) /\ \A q \in Polls \ {p} : replies'[q] = replies[q]
      BY <1>1, <2>1 DEF TypeOK
    <3> QED BY <3>1, <3>2, FirstAnswer
  <2>7. replies' \in [Polls -> Seq(Sessions \cup {NoWork})]
    BY <2>1, <2>6 DEF TypeOK
  <2>8. TypeOK'
    BY <1>1, <1>2, <1>3, <2>1, <2>4, <2>5, <2>7 DEF TypeOK
  <2>9. \A q \in Polls : q # p => (Held(q)' <=> Held(q))
    BY <1>2, <2>1, <2>6 DEF Held
  <2>10. ~Held(p)'
    BY <2>6 DEF Held
  <2>11. WaitersAreHeld'
    BY <1>2, <1>5, <2>1, <2>6 DEF WaitersAreHeld
  <2>12. HeldIsWaiting' /\ TimedIsHeld'
    BY <1>2, <1>6, <2>1, <2>9, <2>10 DEF HeldIsWaiting, TimedIsHeld, TypeOK
  <2>13. UnaskedIsFresh'
    BY <1>1, <1>2, <2>1, <2>6 DEF UnaskedIsFresh
  <2>14. ResolvedOnce'
    <3>1. ASSUME NEW q \in Polls PROVE Len(replies'[q]) <= 1
      <4>1. CASE q = p
        <5>1. Len(replies'[q]) = 1
          BY <2>6, <4>1
        <5> QED BY ONLY <5>1
      <4>2. CASE q # p
        <5>1. replies'[q] = replies[q] /\ Len(replies[q]) <= 1
          BY <2>6, <4>2 DEF ResolvedOnce
        <5> QED BY <5>1
      <4> QED BY <4>1, <4>2
    <3> QED BY <3>1 DEF ResolvedOnce
  <2>15. DeliveredOnceInOrder'
    BY <1>1, <2>2, <2>4, <2>5 DEF DeliveredOnceInOrder
  <2>16. NoWorkHeldBack'
    <3>1. ASSUME NEW q \in Polls, NEW f \in Environments, Held(q)', q \notin destroyed', f \in target'[q]
          PROVE  queue'[f] = <<>>
      <4>1. q # p
        BY <2>10, <3>1
      <4>2. Held(q) /\ q \notin destroyed /\ f \in target[q]
        BY <1>1, <1>2, <2>9, <3>1, <4>1
      <4>3. queue[f] = <<>>
        BY <4>2 DEF NoWorkHeldBack
      <4> QED BY <2>1, <2>5, <4>3
    <3> QED BY <3>1 DEF NoWorkHeldBack
  <2> QED BY <1>4, <2>8, <2>11, <2>12, <2>13, <2>14, <2>15, <2>16
<1>8. CASE PollIsHeld(e, p)
  <2>1. /\ queue[e] = <<>> /\ waiters' = [waiters EXCEPT ![e] = waiters[e] \cup {p}]
        /\ timer' = timer \cup {p}
        /\ UNCHANGED <<queue, settled, replies, delivered>>
    BY <1>8 DEF PollIsHeld
  <2>2. waiters' \in [Environments -> SUBSET Polls] /\ waiters'[e] = waiters[e] \cup {p}
        /\ \A f \in Environments \ {e} : waiters'[f] = waiters[f]
    <3>1. waiters[e] \cup {p} \in SUBSET Polls
      BY DEF TypeOK
    <3> QED BY <2>1, <3>1 DEF TypeOK
  <2>3. TypeOK'
    BY <1>1, <1>2, <1>3, <2>1, <2>2 DEF TypeOK
  <2>4. Held(p)' /\ \A q \in Polls : q # p => (Held(q)' <=> Held(q))
    BY <1>1, <1>2, <2>1 DEF Held
  <2>5. WaitersAreHeld'
    BY <1>1, <1>2, <1>5, <2>1, <2>2 DEF WaitersAreHeld
  <2>6. HeldIsWaiting'
    BY <1>2, <2>2, <2>4 DEF HeldIsWaiting
  <2>7. TimedIsHeld'
    BY <2>1, <2>4 DEF TimedIsHeld, TypeOK
  <2>8. UnaskedIsFresh' /\ ResolvedOnce' /\ DeliveredOnceInOrder'
    BY <1>1, <1>2, <2>1 DEF UnaskedIsFresh, ResolvedOnce, DeliveredOnceInOrder
  <2>9. NoWorkHeldBack'
    BY <1>1, <1>2, <2>1, <2>4 DEF NoWorkHeldBack
  <2> QED BY <1>4, <2>3, <2>5, <2>6, <2>7, <2>8, <2>9
<1> QED BY <1>7, <1>8 DEF HandleWorkPoll

\* The window of a poll lapses, its client goes away, the close event comes: nothing is
\* handed out, and whoever is held afterwards was held before.
LEMMA LapseStep ==
  ASSUME IInv, NEW p \in Polls, PollTimeout(p) \/ Disconnect(p) \/ RequestClose(p)
  PROVE  IInv'
<1> USE QueueAssumption DEF IInv
<1>1. CASE PollTimeout(p)
  <2>1. PICK e \in target[p] : p \in timer /\ Finish(p, e, NoWork)
    BY <1>1 DEF PollTimeout
  <2>2. /\ e \in Environments /\ p \in waiters[e]
        /\ UNCHANGED <<registered, queue, closing, target, place, destroyed, created, sent>>
    BY <1>1, <2>1 DEF PollTimeout, TimedIsHeld, HeldIsWaiting, TypeOK
  <2>3. delivered' = delivered
    BY <2>1 DEF Finish, Write
  <2>4. /\ PollInv'
        /\ waiters' \in [Environments -> SUBSET Polls]
        /\ settled' \in SUBSET Polls /\ timer' \in SUBSET Polls
        /\ replies' \in [Polls -> Seq(Sessions \cup {NoWork})]
        /\ \A q \in Polls : Held(q)' => Held(q)
    BY <2>1, <2>2, FinishKeepsPolls DEF PollInv
  <2>5. TypeOK'
    BY <2>2, <2>3, <2>4 DEF TypeOK
  <2>6. DeliveredOnceInOrder' /\ NoWorkHeldBack'
    BY <2>2, <2>3, <2>4 DEF DeliveredOnceInOrder, NoWorkHeldBack
  <2> QED BY <2>4, <2>5, <2>6 DEF PollInv
<1>2. CASE Disconnect(p)
  <2>1. /\ target[p] # {} /\ destroyed' = destroyed \cup {p}
        /\ UNCHANGED <<registered, queue, waiters, settled, timer, closing, target, place, replies,
                       created, sent, delivered>>
    BY <1>2 DEF Disconnect, serverVars
  <2>2. TypeOK'
    BY <2>1 DEF TypeOK
  <2>3. UnaskedIsFresh'
    BY <2>1 DEF UnaskedIsFresh
  <2>4. NamesOne' /\ WaitersAreHeld' /\ HeldIsWaiting' /\ TimedIsHeld' /\ ResolvedOnce'
    BY <2>1 DEF NamesOne, WaitersAreHeld, HeldIsWaiting, TimedIsHeld, ResolvedOnce, Held
  <2>5. DeliveredOnceInOrder' /\ NoWorkHeldBack'
    BY <2>1 DEF DeliveredOnceInOrder, NoWorkHeldBack, Held
  <2> QED BY <2>2, <2>3, <2>4, <2>5
<1>3. CASE RequestClose(p)
  <2>1. PICK e \in target[p] : p \notin settled /\ Settle(p, e)
    BY <1>3 DEF RequestClose
  <2>2. /\ e \in Environments
        /\ settled' = settled \cup {p} /\ timer' = timer \ {p}
        /\ waiters' = [waiters EXCEPT ![e] = waiters[e] \ {p}]
        /\ UNCHANGED <<registered, queue, closing, target, place, replies, destroyed, created, sent, delivered>>
    BY <1>3, <2>1 DEF RequestClose, Settle, TypeOK
  <2>3. waiters' \in [Environments -> SUBSET Polls] /\ waiters'[e] = waiters[e] \ {p}
        /\ \A f \in Environments \ {e} : waiters'[f] = waiters[f]
    <3>1. waiters[e] \ {p} \in SUBSET Polls
      BY <2>2 DEF TypeOK
    <3> QED BY <2>2, <3>1 DEF TypeOK
  <2>4. \A f \in Environments \ {e} : p \notin waiters[f]
    BY <2>1, <2>2 DEF WaitersAreHeld, NamesOne
  <2>5. \A q \in Polls : Held(q)' <=> Held(q) /\ q # p
    BY <2>2 DEF Held
  <2>6. TypeOK'
    BY <2>2, <2>3 DEF TypeOK
  <2>7. WaitersAreHeld'
    BY <2>2, <2>3, <2>4 DEF WaitersAreHeld
  <2>8. HeldIsWaiting'
    BY <2>2, <2>3, <2>5 DEF HeldIsWaiting
  <2>9. TimedIsHeld'
    BY <2>2, <2>5 DEF TimedIsHeld, TypeOK
  <2>10. UnaskedIsFresh'
    BY <2>1, <2>2 DEF UnaskedIsFresh
  <2>11. NamesOne' /\ ResolvedOnce' /\ DeliveredOnceInOrder'
    BY <2>2 DEF NamesOne, ResolvedOnce, DeliveredOnceInOrder
  <2>12. NoWorkHeldBack'
    BY <2>2, <2>5 DEF NoWorkHeldBack
  <2> QED BY <2>6, <2>7, <2>8, <2>9, <2>10, <2>11, <2>12
<1> QED BY <1>1, <1>2, <1>3

\* close() answers every waiter that there is no work, and none is left.
LEMMA CloseStep == ASSUME IInv, SettlePendingPolls PROVE IInv'
<1> USE QueueAssumption DEF IInv
<1> DEFINE held == UNION {waiters[e] : e \in Environments}
<1>1. /\ closing' = TRUE /\ settled' = settled \cup held /\ timer' = timer \ held
      /\ waiters' = [e \in Environments |-> {}]
      /\ replies' = [p \in Polls |-> IF p \in held \ settled THEN Append(replies[p], NoWork) ELSE replies[p]]
      /\ UNCHANGED <<registered, queue, target, place, destroyed, created, sent, delivered>>
  BY DEF SettlePendingPolls
<1>2. held \in SUBSET Polls /\ \A p \in held : target[p] # {} /\ replies[p] = <<>> /\ p \notin settled
  BY DEF TypeOK, WaitersAreHeld
<1>3. \A p \in Polls : Held(p) => p \in held
  <2>1. ASSUME NEW p \in Polls, Held(p) PROVE p \in held
    <3>1. PICK e \in Environments : e \in target[p]
      BY <2>1 DEF Held, TypeOK
    <3> QED BY <2>1, <3>1 DEF HeldIsWaiting
  <2> QED BY <2>1
<1> HIDE DEF held
<1>4. /\ \A p \in Polls : p \notin held => replies'[p] = replies[p]
      /\ \A p \in held : replies'[p] = Append(<<>>, NoWork)
  BY <1>1, <1>2
<1>5. Append(<<>>, NoWork) \in Seq(Sessions \cup {NoWork}) /\ Len(Append(<<>>, NoWork)) = 1
  BY FirstAnswer
<1>6. replies' \in [Polls -> Seq(Sessions \cup {NoWork})]
  <2>1. \A p \in Polls : replies'[p] \in Seq(Sessions \cup {NoWork})
    BY <1>4, <1>5 DEF TypeOK
  <2> QED BY <1>1, <2>1
<1>7. TypeOK'
  <2>1. closing' \in BOOLEAN
    BY <1>1
  <2>2. waiters' \in [Environments -> SUBSET Polls]
    BY <1>1
  <2>3. settled' \in SUBSET Polls /\ timer' \in SUBSET Polls
    BY <1>1, <1>2 DEF TypeOK
  <2> QED BY <1>1, <1>6, <2>1, <2>2, <2>3 DEF TypeOK
<1>8. \A p \in Polls : ~Held(p)'
  BY <1>1, <1>3, <1>4 DEF Held
<1>9. TimedIsHeld'
  BY <1>1, <1>3 DEF TimedIsHeld, TypeOK
<1>10. WaitersAreHeld' /\ HeldIsWaiting' /\ NoWorkHeldBack'
  BY <1>1, <1>8 DEF WaitersAreHeld, HeldIsWaiting, NoWorkHeldBack
<1>11. UnaskedIsFresh'
  BY <1>1, <1>2, <1>4 DEF UnaskedIsFresh
<1>12. ResolvedOnce'
  <2>1. ASSUME NEW p \in Polls PROVE Len(replies'[p]) <= 1
    <3>1. CASE p \in held
      <4>1. Len(replies'[p]) = 1
        BY <1>4, <1>5, <3>1
      <4> QED BY ONLY <4>1
    <3>2. CASE p \notin held
      <4>1. replies'[p] = replies[p] /\ Len(replies[p]) <= 1
        BY <1>4, <3>2 DEF ResolvedOnce
      <4> QED BY <4>1
    <3> QED BY <3>1, <3>2
  <2> QED BY <2>1 DEF ResolvedOnce
<1>13. NamesOne' /\ DeliveredOnceInOrder'
  BY <1>1 DEF NamesOne, DeliveredOnceInOrder
<1> QED BY <1>7, <1>9, <1>10, <1>11, <1>12, <1>13

\* Every step preserves the invariant.
LEMMA InvStep == IInv /\ [Next]_vars => IInv'
<1> SUFFICES ASSUME IInv, [Next]_vars PROVE IInv'
  OBVIOUS
<1>1. ASSUME NEW e \in Environments, HandleEnvironmentRegister(e) PROVE IInv'
  <2>1. /\ registered' = Append(registered, e)
        /\ UNCHANGED <<queue, waiters, settled, timer, closing, target, place, replies, destroyed,
                       created, sent, delivered>>
    BY <1>1 DEF HandleEnvironmentRegister
  <2>2. TypeOK'
    BY <2>1 DEF IInv, TypeOK
  <2>3. PollInv'
    BY <2>1, PollsKept DEF IInv, PollInv, pollVars
  <2>4. DeliveredOnceInOrder' /\ NoWorkHeldBack'
    BY <2>1 DEF IInv, DeliveredOnceInOrder, NoWorkHeldBack, Held
  <2> QED BY <2>2, <2>3, <2>4 DEF IInv, PollInv
<1>2. CASE UNCHANGED vars
  <2>1. UNCHANGED <<serverVars, target, place, replies, destroyed, created, sent, delivered>>
    BY <1>2 DEF vars
  <2>2. TypeOK'
    BY <2>1 DEF IInv, TypeOK, serverVars
  <2>3. PollInv'
    BY <2>1, PollsKept DEF IInv, PollInv, pollVars, serverVars
  <2>4. DeliveredOnceInOrder' /\ NoWorkHeldBack'
    BY <2>1 DEF IInv, DeliveredOnceInOrder, NoWorkHeldBack, Held, serverVars
  <2> QED BY <2>2, <2>3, <2>4 DEF IInv, PollInv
<1>3. CASE Next
  BY <1>1, <1>3, CreateStep, PollStep, LapseStep, CloseStep DEF Next
<1> QED BY <1>2, <1>3

\* The strengthened invariant, on which the rest is read off.
THEOREM Invariant == Spec => []IInv
<1>1. Init => IInv
  BY InvInit
<1>2. IInv /\ [Next]_vars => IInv'
  BY InvStep
<1> QED BY <1>1, <1>2, PTL DEF Spec

\* Type correctness of the queues and the polls.
THEOREM TypeCorrect == Spec => []TypeOK
<1>1. IInv => TypeOK
  BY DEF IInv
<1> QED BY <1>1, Invariant, PTL

\* Every item enqueued is delivered once, in order, or still queued.
THEOREM DeliveredOnceInOrderAlways == Spec => []DeliveredOnceInOrder
<1>1. IInv => DeliveredOnceInOrder
  BY DEF IInv
<1> QED BY <1>1, Invariant, PTL

\* No client that is there waits while its environment has work.
THEOREM NoWorkHeldBackAlways == Spec => []NoWorkHeldBack
<1>1. IInv => NoWorkHeldBack
  BY DEF IInv
<1> QED BY <1>1, Invariant, PTL

\* No held response is written to twice.
THEOREM ResolvedOnceAlways == Spec => []ResolvedOnce
<1>1. IInv => ResolvedOnce
  BY DEF IInv
<1> QED BY <1>1, Invariant, PTL

-----------------------------------------------------------------------------
(* The stream.  What is under way to a browser ascends from what it has seen,
   and every event it is owed is in its stream, or, while it has none, in the
   window; the replay is the end of the window past the browser's cursor.     *)

\* The buffer holds the last ids the relay has given, without a gap.
BufferIsRecent == \A i \in DOMAIN buffer : buffer[i] = nextEventId - Len(buffer) - 1 + i

\* While the session lasts, nothing seen or under way has an id still to be given.
IdsAreGiven ==
  row # "gone" =>
    /\ \A c \in Clients : cursor[c] < nextEventId
    /\ \A r \in Responses : \A i \in DOMAIN wire[r] : wire[r][i] < nextEventId

\* A browser's stream is its own, and was not broken; one the server still writes to
\* was not ended by it.
StreamsAreOwn ==
  /\ \A c, d \in Clients : current[c] # Null /\ current[c] = current[d] => c = d
  /\ \A c \in Clients : current[c] # Null => conn[current[c]] \in {"open", "ended"} /\ c \in watching
  /\ \A r \in subscribers : conn[r] \in {"open", "broken"}
  /\ row = "gone" => subscribers = {}

\* What is under way ascends from what the browser has seen.
WiresAscend ==
  /\ \A r \in Responses : Ascending(wire[r])
  /\ \A c \in Clients : current[c] # Null =>
       \A i \in DOMAIN wire[current[c]] : cursor[c] < wire[current[c]][i]

\* An event owed is one to come: newer than what the browser has seen, in its stream
\* or behind all that is; and while it has no stream, in the window.
OwedIsToCome ==
  \A c \in Clients :
    /\ \A e \in owed[c] : cursor[c] < e
    /\ current[c] # Null =>
         \A e \in owed[c] : \/ e \in Range(wire[current[c]])
                            \/ \A i \in DOMAIN wire[current[c]] : wire[current[c]][i] < e
    /\ current[c] = Null /\ row # "gone" => owed[c] \subseteq Range(buffer)

StreamInv ==
  /\ StreamTypeOK /\ BufferIsRecent /\ IdsAreGiven /\ StreamsAreOwn /\ WiresAscend /\ OwedIsToCome
  /\ NothingRetainedIsLost

\* What appending and taking the head do to the elements of a sequence.
LEMMA Appended ==
  ASSUME NEW S, NEW s \in Seq(S), NEW e \in S
  PROVE  /\ Append(s, e) \in Seq(S) /\ Len(Append(s, e)) = Len(s) + 1 /\ Len(s) \in Nat
         /\ DOMAIN s = 1 .. Len(s) /\ DOMAIN Append(s, e) = 1 .. Len(s) + 1
         /\ \A i \in 1 .. Len(s) : Append(s, e)[i] = s[i]
         /\ Append(s, e)[Len(s) + 1] = e
         /\ Range(Append(s, e)) = Range(s) \cup {e}
<1>1. /\ Append(s, e) \in Seq(S) /\ Len(Append(s, e)) = Len(s) + 1 /\ Len(s) \in Nat
      /\ DOMAIN s = 1 .. Len(s) /\ DOMAIN Append(s, e) = 1 .. Len(s) + 1
      /\ \A i \in 1 .. Len(s) : Append(s, e)[i] = s[i]
      /\ Append(s, e)[Len(s) + 1] = e
  OBVIOUS
<1>2. Range(Append(s, e)) = Range(s) \cup {e}
  BY <1>1 DEF Range
<1> QED BY <1>1, <1>2

\* Event ids are numbers.
LEMMA OnWires == Events \subseteq Nat /\ \A w \in Seq(Events) : \A i \in DOMAIN w : w[i] \in Nat
<1>1. Events \subseteq Nat
  BY StreamAssumption DEF Events
<1>2. \A w \in Seq(Events) : \A i \in DOMAIN w : w[i] \in Events
  OBVIOUS
<1> QED BY <1>1, <1>2

LEMMA HeadTaken ==
  ASSUME NEW S, NEW s \in Seq(S), s # <<>>
  PROVE  /\ Head(s) \in S /\ Head(s) = s[1] /\ Tail(s) \in Seq(S) /\ Len(s) \in Nat \ {0}
         /\ Len(Tail(s)) = Len(s) - 1
         /\ DOMAIN s = 1 .. Len(s) /\ DOMAIN Tail(s) = 1 .. Len(s) - 1
         /\ \A i \in 1 .. Len(s) - 1 : Tail(s)[i] = s[i + 1]
         /\ Range(s) \subseteq Range(Tail(s)) \cup {Head(s)}
<1>1. /\ Head(s) \in S /\ Head(s) = s[1] /\ Tail(s) \in Seq(S) /\ Len(s) \in Nat \ {0}
      /\ Len(Tail(s)) = Len(s) - 1
      /\ DOMAIN s = 1 .. Len(s) /\ DOMAIN Tail(s) = 1 .. Len(s) - 1
      /\ \A i \in 1 .. Len(s) - 1 : Tail(s)[i] = s[i + 1]
  OBVIOUS
<1>2. ASSUME NEW i \in 1 .. Len(s), i # 1 PROVE s[i] \in Range(Tail(s))
  <2>1. i - 1 \in 1 .. Len(s) - 1 /\ s[i] = Tail(s)[i - 1]
    BY <1>1, <1>2
  <2> QED BY <1>1, <2>1 DEF Range
<1>3. Range(s) \subseteq Range(Tail(s)) \cup {Head(s)}
  BY <1>1, <1>2 DEF Range
<1> QED BY <1>1, <1>3

\* The ids of the window are consecutive, so those newer than a cursor are its end.
LEMMA ReplayIsEnd ==
  ASSUME StreamTypeOK, BufferIsRecent, NEW last \in Nat \ {0}
  PROVE  \E n \in 1 .. Len(buffer) + 1 :
           /\ Replay(last) = SubSeq(buffer, n, Len(buffer))
           /\ \A i \in DOMAIN buffer : i >= n <=> buffer[i] > last
<1> DEFINE Cut(n) == \A i \in DOMAIN buffer : i >= n <=> buffer[i] > last
<1>1. buffer \in Seq(Events) /\ nextEventId \in Nat /\ Len(buffer) \in Nat /\ DOMAIN buffer = 1 .. Len(buffer)
  BY StreamAssumption DEF StreamTypeOK
<1>2. \E n \in 1 .. Len(buffer) + 1 : Cut(n)
  <2> DEFINE first == nextEventId - Len(buffer)
             n == IF last < first THEN 1 ELSE IF last >= nextEventId THEN Len(buffer) + 1 ELSE last - first + 2
  <2>1. n \in 1 .. Len(buffer) + 1
    BY <1>1
  <2>2. Cut(n)
    BY <1>1 DEF BufferIsRecent
  <2> QED BY <2>1, <2>2
<1>3. PICK n \in 1 .. Len(buffer) + 1 : n = (CHOOSE m \in 1 .. Len(buffer) + 1 : Cut(m)) /\ Cut(n)
  BY <1>2
<1>4. Replay(last) = SubSeq(buffer, n, Len(buffer))
  BY <1>3 DEF Replay, NewerThan
<1> QED BY <1>3, <1>4

\* A replay is in order, newer than the cursor, and all of the window that is.
LEMMA ReplayReconciles ==
  ASSUME StreamTypeOK, BufferIsRecent, NEW last \in Nat
  PROVE  /\ Replay(last) \in Seq(Events)
         /\ Ascending(Replay(last))
         /\ \A i \in DOMAIN Replay(last) : last < Replay(last)[i] /\ Replay(last)[i] < nextEventId
         /\ last # 0 => \A e \in Range(buffer) : last < e => e \in Range(Replay(last))
<1>1. CASE last = 0
  <2>1. Replay(last) = <<>>
    BY <1>1 DEF Replay
  <2>2. <<>> \in Seq(Events) /\ DOMAIN <<>> = {}
    OBVIOUS
  <2> QED BY ONLY <1>1, <2>1, <2>2 DEF Ascending
<1>2. CASE last # 0
  <2>1. PICK n \in 1 .. Len(buffer) + 1 :
           /\ Replay(last) = SubSeq(buffer, n, Len(buffer))
           /\ \A i \in DOMAIN buffer : i >= n <=> buffer[i] > last
    BY <1>2, ReplayIsEnd
  <2>2. buffer \in Seq(Events) /\ nextEventId \in Nat /\ Len(buffer) \in Nat /\ DOMAIN buffer = 1 .. Len(buffer)
    BY StreamAssumption DEF StreamTypeOK
  <2> DEFINE w == Replay(last)
  <2>3. /\ w \in Seq(Events) /\ Len(w) = Len(buffer) - n + 1 /\ DOMAIN w = 1 .. Len(buffer) - n + 1
        /\ \A i \in 1 .. Len(buffer) - n + 1 : w[i] = buffer[n + i - 1]
    BY <2>1, <2>2
  <2>4. \A i \in 1 .. Len(buffer) : buffer[i] = nextEventId - Len(buffer) - 1 + i
    BY <2>2 DEF BufferIsRecent
  <2> HIDE DEF w
  <2>5. \A i \in 1 .. Len(buffer) - n + 1 :
          n + i - 1 \in 1 .. Len(buffer) /\ w[i] = nextEventId - Len(buffer) - 2 + n + i
    BY <2>2, <2>3, <2>4
  <2>6. Ascending(w)
    BY <2>2, <2>3, <2>5 DEF Ascending
  <2>7. ASSUME NEW i \in DOMAIN w PROVE last < w[i] /\ w[i] < nextEventId
    <3>1. i \in 1 .. Len(buffer) - n + 1 /\ n + i - 1 >= n
      BY <2>3
    <3>2. n + i - 1 \in DOMAIN buffer /\ w[i] = buffer[n + i - 1] /\ w[i] = nextEventId - Len(buffer) - 2 + n + i
      BY <2>2, <2>3, <2>5, <3>1
    <3>3. last < w[i]
      BY <2>1, <2>2, <3>1, <3>2
    <3> QED BY <2>2, <3>1, <3>2, <3>3
  <2>8. ASSUME NEW e \in Range(buffer), last < e PROVE e \in Range(w)
    <3>1. PICK i \in 1 .. Len(buffer) : e = buffer[i]
      BY <2>2 DEF Range
    <3>2. i >= n
      BY <2>1, <2>2, <2>4, <2>8, <3>1
    <3>3. i - n + 1 \in 1 .. Len(buffer) - n + 1 /\ w[i - n + 1] = e
      BY <2>2, <2>3, <3>1, <3>2
    <3> QED BY <2>3, <3>3 DEF Range
  <2> QED BY <2>3, <2>6, <2>7, <2>8 DEF w
<1> QED BY <1>1, <1>2

\* What is retained of the window and the next event is recent, and nothing else.
LEMMA RetainedIsRecent ==
  ASSUME StreamTypeOK, BufferIsRecent, nextEventId <= MaxEvents
  PROVE  LET kept == Retained(nextEventId) IN
           /\ kept \in Seq(Events) /\ Len(kept) <= BufferSize
           /\ \A i \in DOMAIN kept : kept[i] = nextEventId - Len(kept) + i
           /\ \A e \in Range(kept) : e \in Range(buffer) \cup {nextEventId}
<1> DEFINE longer == Append(buffer, nextEventId)
<1>1. nextEventId \in Events /\ nextEventId \in Nat /\ buffer \in Seq(Events) /\ Len(buffer) \in Nat /\ Len(buffer) <= BufferSize /\ BufferSize \in Nat \ {0}
  BY StreamAssumption DEF StreamTypeOK, Events
<1>2. /\ longer \in Seq(Events) /\ Len(longer) = Len(buffer) + 1 /\ DOMAIN longer = 1 .. Len(buffer) + 1
      /\ \A i \in 1 .. Len(buffer) : longer[i] = buffer[i]
      /\ longer[Len(buffer) + 1] = nextEventId
      /\ Range(longer) = Range(buffer) \cup {nextEventId}
      /\ DOMAIN buffer = 1 .. Len(buffer)
  BY <1>1, Appended
<1>3. \A i \in 1 .. Len(buffer) + 1 : longer[i] = nextEventId - Len(longer) + i
  BY <1>1, <1>2 DEF BufferIsRecent
<1> HIDE DEF longer
<1>4. CASE Len(longer) > BufferSize
  <2>1. Retained(nextEventId) = Tail(longer)
    BY <1>4 DEF Retained, longer
  <2>2. longer # <<>>
    BY <1>1, <1>2
  <2>3. /\ Tail(longer) \in Seq(Events) /\ Len(Tail(longer)) = Len(buffer) /\ DOMAIN Tail(longer) = 1 .. Len(buffer)
        /\ \A i \in 1 .. Len(buffer) : Tail(longer)[i] = longer[i + 1]
    BY <1>1, <1>2, <2>2, HeadTaken
  <2>4. \A e \in Range(Tail(longer)) : e \in Range(longer)
    BY <1>1, <1>2, <2>3 DEF Range
  <2> QED BY <1>1, <1>2, <1>3, <2>1, <2>3, <2>4
<1>5. CASE ~(Len(longer) > BufferSize)
  <2>1. Retained(nextEventId) = longer
    BY <1>5 DEF Retained, longer
  <2> QED BY <1>1, <1>2, <1>3, <1>5, <2>1
<1> QED BY <1>4, <1>5

-----------------------------------------------------------------------------
\* A relay that is dropped leaves an empty window.
LEMMA NoneRetained ==
  /\ <<>> \in Seq(Events) /\ DOMAIN <<>> = {} /\ Len(<<>>) = 0 /\ 0 <= BufferSize
  /\ 1 \in 1 .. MaxEvents + 1 /\ 0 \in 0 .. MaxEvents + 1
<1>1. BufferSize \in Nat /\ MaxEvents \in Nat
  BY StreamAssumption
<1> QED BY <1>1

\* An event written to the subscribers comes last on each stream, and changes no other.
LEMMA WrittenAscends ==
  ASSUME StreamTypeOK, IdsAreGiven, WiresAscend, row # "gone",
         wire' = Written(nextEventId), UNCHANGED <<cursor, current>>
  PROVE  /\ wire' \in [Responses -> Seq(Events)]
         /\ \A r \in Responses :
              IF r \in subscribers /\ conn[r] = "open"
                THEN Range(wire'[r]) = Range(wire[r]) \cup {nextEventId} ELSE wire'[r] = wire[r]
         /\ \A r \in Responses : \A i \in DOMAIN wire'[r] : wire'[r][i] <= nextEventId
         /\ WiresAscend'
<1>1. nextEventId \in Events /\ nextEventId \in Nat
  BY StreamAssumption DEF StreamTypeOK, Events
<1>2. ASSUME NEW r \in Responses
      PROVE  /\ wire'[r] \in Seq(Events)
             /\ IF r \in subscribers /\ conn[r] = "open"
                  THEN Range(wire'[r]) = Range(wire[r]) \cup {nextEventId} ELSE wire'[r] = wire[r]
             /\ \A i \in DOMAIN wire'[r] : wire'[r][i] <= nextEventId
             /\ Ascending(wire'[r])
             /\ \A c \in Clients : current[c] = r =>
                  \A i \in DOMAIN wire'[r] : cursor[c] < wire'[r][i]
  <2> DEFINE w == wire[r]
  <2>1. /\ w \in Seq(Events) /\ DOMAIN w = 1 .. Len(w) /\ Len(w) \in Nat
        /\ \A i \in DOMAIN w : w[i] \in Nat /\ w[i] < nextEventId
        /\ Ascending(w)
        /\ \A c \in Clients : cursor[c] \in Nat /\ cursor[c] < nextEventId
    BY StreamAssumption DEF StreamTypeOK, IdsAreGiven, WiresAscend, Events
  <2>2. \A c \in Clients : current[c] = r => \A i \in DOMAIN w : cursor[c] < w[i]
    BY StreamAssumption DEF WiresAscend
  <2> HIDE DEF w
  <2>3. CASE r \in subscribers /\ conn[r] = "open"
    <3>1. wire'[r] = Append(w, nextEventId)
      BY <2>3 DEF Written, w
    <3> DEFINE longer == Append(w, nextEventId)
    <3>2. /\ longer \in Seq(Events) /\ DOMAIN longer = 1 .. Len(w) + 1
          /\ \A i \in 1 .. Len(w) : longer[i] = w[i]
          /\ longer[Len(w) + 1] = nextEventId
          /\ Range(longer) = Range(w) \cup {nextEventId}
      BY <1>1, <2>1, Appended
    <3> HIDE DEF longer
    <3>3. Ascending(longer)
      BY <1>1, <2>1, <3>2 DEF Ascending
    <3>4. \A i \in DOMAIN longer : longer[i] <= nextEventId
      BY <1>1, <2>1, <3>2
    <3>5. \A c \in Clients : current[c] = r => \A i \in DOMAIN longer : cursor[c] < longer[i]
      BY <1>1, <2>1, <2>2, <3>2
    <3> QED BY <2>3, <3>1, <3>2, <3>3, <3>4, <3>5 DEF w, longer
  <2>4. CASE ~(r \in subscribers /\ conn[r] = "open")
    <3>1. wire'[r] = w
      BY <2>4 DEF Written, w
    <3> QED BY <1>1, <2>1, <2>2, <2>4, <3>1 DEF w
  <2> QED BY <2>3, <2>4
<1>3. wire' \in [Responses -> Seq(Events)]
  BY <1>2 DEF Written
<1>4. WiresAscend'
  BY <1>2 DEF WiresAscend, StreamTypeOK
<1> QED BY <1>2, <1>3, <1>4

\* A broadcast: a browser that is not attached is owed it as long as it is retained.
LEMMA BroadcastKeeps == ASSUME StreamInv, BroadcastEvent PROVE StreamInv'
<1> USE DEF StreamInv
<1>1. /\ row = "registered" /\ nextEventId <= MaxEvents /\ nextEventId' = nextEventId + 1
      /\ buffer' = Retained(nextEventId) /\ wire' = Written(nextEventId) /\ owed' = Owing(nextEventId)
      /\ relay' = TRUE
      /\ UNCHANGED <<row, subscribers, streamsEnded, reader, conn, current, cursor, watching, skipped, farewell>>
  BY DEF BroadcastEvent
<1>2. nextEventId \in Events /\ nextEventId \in Nat
  BY StreamAssumption DEF StreamTypeOK, Events
<1>3. /\ buffer' \in Seq(Events) /\ Len(buffer') <= BufferSize
      /\ \A i \in DOMAIN buffer' : buffer'[i] = nextEventId - Len(buffer') + i
      /\ \A e \in Range(buffer') : e \in Range(buffer) \cup {nextEventId}
  BY <1>1, RetainedIsRecent
<1>4. /\ wire' \in [Responses -> Seq(Events)]
      /\ \A r \in Responses :
           IF r \in subscribers /\ conn[r] = "open"
             THEN Range(wire'[r]) = Range(wire[r]) \cup {nextEventId} ELSE wire'[r] = wire[r]
      /\ \A r \in Responses : \A i \in DOMAIN wire'[r] : wire'[r][i] <= nextEventId
      /\ WiresAscend'
  BY <1>1, WrittenAscends
<1>5. \A c \in Clients :
        /\ owed'[c] \subseteq owed[c] \cup {nextEventId}
        /\ c \in watching /\ ~Attached(c) => owed'[c] \subseteq Range(buffer')
        /\ c \notin watching => owed'[c] = {}
  BY <1>1 DEF Owing
<1>6. owed' \in [Clients -> SUBSET Events]
  <2>1. \A c \in Clients : owed[c] \cup {nextEventId} \in SUBSET Events
    BY <1>2 DEF StreamTypeOK
  <2> QED BY <1>1, <2>1 DEF Owing
<1>7. StreamTypeOK'
  BY <1>1, <1>3, <1>4, <1>6, StreamAssumption DEF StreamTypeOK
<1>8. BufferIsRecent'
  <2>1. Len(buffer') \in Nat
    BY <1>3
  <2> QED BY <1>1, <1>2, <1>3, <2>1 DEF BufferIsRecent
<1>9. IdsAreGiven'
  <2>1. \A r \in Responses : \A i \in DOMAIN wire'[r] : wire'[r][i] \in Nat
    BY <1>4, OnWires
  <2>2. \A c \in Clients : cursor[c] \in Nat /\ cursor[c] < nextEventId
    BY <1>1 DEF IdsAreGiven, StreamTypeOK
  <2> QED BY <1>1, <1>2, <1>4, <2>1, <2>2 DEF IdsAreGiven
<1>10. StreamsAreOwn'
  BY <1>1 DEF StreamsAreOwn
<1>11. NothingRetainedIsLost'
  <2> SUFFICES ASSUME NEW c \in Clients, Attached(c)' PROVE owed'[c] \subseteq Range(wire'[current[c]])
    BY <1>1 DEF NothingRetainedIsLost
  <2>1. Attached(c) /\ current[c] \in Responses /\ current[c] \in subscribers /\ conn[current[c]] = "open"
    BY <1>1 DEF Attached, StreamsAreOwn, StreamTypeOK
  <2>2. owed[c] \subseteq Range(wire[current[c]])
    BY <2>1 DEF NothingRetainedIsLost
  <2> QED BY <1>4, <1>5, <2>1, <2>2
<1>12. OwedIsToCome'
  <2> SUFFICES ASSUME NEW c \in Clients
               PROVE  /\ \A e \in owed'[c] : cursor[c] < e
                      /\ current[c] # Null =>
                           \A e \in owed'[c] : \/ e \in Range(wire'[current[c]])
                                               \/ \A i \in DOMAIN wire'[current[c]] : wire'[current[c]][i] < e
                      /\ current[c] = Null => owed'[c] \subseteq Range(buffer')
    BY <1>1 DEF OwedIsToCome
  <2>1. \A e \in owed'[c] : cursor[c] < e
    BY <1>1, <1>5 DEF OwedIsToCome, IdsAreGiven
  <2>2. CASE Attached(c)
    <3>1. owed'[c] \subseteq Range(wire'[current[c]])
      BY <1>1, <1>11, <2>2 DEF NothingRetainedIsLost, Attached
    <3> QED BY <2>1, <2>2, <3>1 DEF Attached
  <2>3. CASE ~Attached(c)
    <3>1. current[c] = Null => owed'[c] \subseteq Range(buffer')
      BY <1>5, <2>3
    <3>2. ASSUME current[c] # Null, NEW e \in owed'[c]
          PROVE  \/ e \in Range(wire'[current[c]])
                 \/ \A i \in DOMAIN wire'[current[c]] : wire'[current[c]][i] < e
      <4>1. current[c] \in Responses /\ wire'[current[c]] = wire[current[c]]
        BY <1>4, <2>3, <3>2 DEF Attached, StreamTypeOK
      <4>2. e \in owed[c] \/ e = nextEventId
        BY <1>5
      <4> QED BY <1>1, <3>2, <4>1, <4>2 DEF OwedIsToCome, IdsAreGiven
    <3> QED BY <2>1, <3>1, <3>2
  <2> QED BY <2>2, <2>3
<1> QED BY <1>4, <1>7, <1>8, <1>9, <1>10, <1>11, <1>12

\* A reconnect: the replay is all of the window that the browser has not seen.
LEMMA SubscribeKeeps ==
  ASSUME StreamInv, NEW c \in Clients, NEW r \in Responses, HandleEventStream(c, r)
  PROVE  StreamInv'
<1> USE DEF StreamInv
<1> DEFINE w == Replay(cursor[c])
<1>1. /\ row # "gone" /\ current[c] = Null /\ conn[r] = "unused" /\ r # Null
      /\ subscribers' = subscribers \cup {r} /\ relay' = TRUE
      /\ reader' = [reader EXCEPT ![r] = c]
      /\ conn' = [conn EXCEPT ![r] = "open"]
      /\ wire' = [wire EXCEPT ![r] = w]
      /\ current' = [current EXCEPT ![c] = r]
      /\ watching' = watching \cup {c}
      /\ IF cursor[c] = 0
           THEN /\ skipped' = [skipped EXCEPT ![c] = @ \cup owed[c]]
                /\ owed' = [owed EXCEPT ![c] = {}]
           ELSE UNCHANGED <<skipped, owed>>
      /\ UNCHANGED <<row, nextEventId, buffer, streamsEnded, cursor, farewell>>
  BY StreamAssumption DEF HandleEventStream
<1>2. cursor[c] \in Nat /\ nextEventId \in Nat /\ current[c] \in Responses \cup {Null}
  BY StreamAssumption DEF StreamTypeOK
<1>3. /\ w \in Seq(Events) /\ Ascending(w)
      /\ \A i \in DOMAIN w : cursor[c] < w[i] /\ w[i] < nextEventId
      /\ cursor[c] # 0 => \A e \in Range(buffer) : cursor[c] < e => e \in Range(w)
  BY <1>2, ReplayReconciles
<1> HIDE DEF w
<1>4. StreamTypeOK'
  <2>1. wire' \in [Responses -> Seq(Events)]
    BY <1>1, <1>3 DEF StreamTypeOK
  <2>2. skipped' \in [Clients -> SUBSET Events] /\ owed' \in [Clients -> SUBSET Events]
    <3>1. CASE cursor[c] = 0
      <4>1. skipped' = [skipped EXCEPT ![c] = @ \cup owed[c]]
        BY <1>1, <3>1
      <4>2. skipped[c] \cup owed[c] \in SUBSET Events
        BY DEF StreamTypeOK
      <4>3. skipped' \in [Clients -> SUBSET Events]
        BY <4>1, <4>2 DEF StreamTypeOK
      <4>4. owed' \in [Clients -> SUBSET Events]
        BY <1>1, <3>1 DEF StreamTypeOK
      <4> QED BY <4>3, <4>4
    <3>2. CASE cursor[c] # 0
      BY <1>1, <3>2 DEF StreamTypeOK
    <3> QED BY <3>1, <3>2
  <2>3. /\ reader' \in [Responses -> Clients \cup {Null}]
        /\ conn' \in [Responses -> {"unused", "open", "broken", "ended", "closed"}]
        /\ current' \in [Clients -> Responses \cup {Null}]
    BY <1>1 DEF StreamTypeOK
  <2> QED BY <1>1, <2>1, <2>2, <2>3 DEF StreamTypeOK
<1>5. /\ wire'[r] = w /\ \A s \in Responses \ {r} : wire'[s] = wire[s] /\ conn'[s] = conn[s]
      /\ conn'[r] = "open"
      /\ current'[c] = r /\ \A d \in Clients \ {c} : current'[d] = current[d] /\ owed'[d] = owed[d]
      /\ owed'[c] = IF cursor[c] = 0 THEN {} ELSE owed[c]
  BY <1>1 DEF StreamTypeOK
<1>6. \A d \in Clients : current[d] # r
  BY <1>1 DEF StreamsAreOwn
<1>7. BufferIsRecent'
  BY <1>1 DEF BufferIsRecent
<1>8. IdsAreGiven'
  BY <1>1, <1>3, <1>5 DEF IdsAreGiven
<1>9. StreamsAreOwn'
  BY <1>1, <1>5, <1>6 DEF StreamsAreOwn, StreamTypeOK
<1>10. WiresAscend'
  <2>1. \A s \in Responses : Ascending(wire'[s])
    BY <1>3, <1>5 DEF WiresAscend
  <2>2. ASSUME NEW d \in Clients, current'[d] # Null, NEW i \in DOMAIN wire'[current'[d]]
        PROVE  cursor[d] < wire'[current'[d]][i]
    <3>1. CASE d = c
      BY <1>3, <1>5, <2>2, <3>1
    <3>2. CASE d # c
      <4>1. current'[d] = current[d] /\ current[d] \in Responses \ {r}
        BY <1>5, <1>6, <2>2, <3>2 DEF StreamTypeOK
      <4> QED BY <1>5, <2>2, <4>1 DEF WiresAscend
    <3> QED BY <3>1, <3>2
  <2> QED BY <1>1, <2>1, <2>2 DEF WiresAscend
<1>11. owed'[c] \subseteq Range(w)
  BY <1>1, <1>3, <1>5 DEF OwedIsToCome
<1>12. OwedIsToCome'
  <2> SUFFICES ASSUME NEW d \in Clients
               PROVE  /\ \A e \in owed'[d] : cursor[d] < e
                      /\ current'[d] # Null =>
                           \A e \in owed'[d] : \/ e \in Range(wire'[current'[d]])
                                               \/ \A i \in DOMAIN wire'[current'[d]] : wire'[current'[d]][i] < e
                      /\ current'[d] = Null => owed'[d] \subseteq Range(buffer)
    BY <1>1 DEF OwedIsToCome
  <2>1. CASE d = c
    BY <1>1, <1>5, <1>11, <2>1 DEF OwedIsToCome
  <2>2. CASE d # c
    <3>1. current'[d] = current[d] /\ owed'[d] = owed[d]
      BY <1>5, <2>2
    <3>2. current[d] # Null => wire'[current[d]] = wire[current[d]]
      BY <1>5, <1>6 DEF StreamTypeOK
    <3> QED BY <1>1, <3>1, <3>2 DEF OwedIsToCome
  <2> QED BY <2>1, <2>2
<1>13. NothingRetainedIsLost'
  <2> SUFFICES ASSUME NEW d \in Clients, Attached(d)' PROVE owed'[d] \subseteq Range(wire'[current'[d]])
    BY DEF NothingRetainedIsLost
  <2>1. CASE d = c
    BY <1>5, <1>11, <2>1
  <2>2. CASE d # c
    <3>1. current'[d] = current[d] /\ owed'[d] = owed[d] /\ current[d] # Null /\ current[d] \in subscribers
      BY <1>1, <1>5, <1>6, <2>2 DEF Attached
    <3>2. wire'[current[d]] = wire[current[d]]
      BY <1>5, <1>6, <3>1 DEF StreamTypeOK
    <3> QED BY <3>1, <3>2 DEF NothingRetainedIsLost, Attached
  <2> QED BY <2>1, <2>2
<1> QED BY <1>4, <1>7, <1>8, <1>9, <1>10, <1>12, <1>13

\* The event read is the least of those under way, and the rest stays ahead.
LEMMA ReceiveKeeps == ASSUME StreamInv, NEW c \in Clients, Receive(c) PROVE StreamInv'
<1> USE DEF StreamInv
<1> DEFINE r == current[c]
           w == wire[r]
<1>1. /\ r # Null /\ r \in Responses /\ w # <<>> /\ w \in Seq(Events)
      /\ cursor' = [cursor EXCEPT ![c] = Head(w)]
      /\ owed' = [owed EXCEPT ![c] = @ \ {Head(w)}]
      /\ wire' = [wire EXCEPT ![r] = Tail(w)]
      /\ UNCHANGED <<row, relay, nextEventId, buffer, subscribers, streamsEnded, reader, conn, current, watching,
                     skipped, farewell>>
  BY DEF Receive, StreamTypeOK, relayVars
<1>2. /\ Head(w) \in Events /\ Head(w) = w[1] /\ Tail(w) \in Seq(Events) /\ Len(w) \in Nat \ {0}
      /\ DOMAIN w = 1 .. Len(w) /\ DOMAIN Tail(w) = 1 .. Len(w) - 1
      /\ \A i \in 1 .. Len(w) - 1 : Tail(w)[i] = w[i + 1]
      /\ Range(w) \subseteq Range(Tail(w)) \cup {Head(w)}
  BY <1>1, HeadTaken
<1>3. Ascending(w) /\ \A i \in DOMAIN w : w[i] \in Nat
  BY <1>1, OnWires DEF WiresAscend
<1>4. Ascending(Tail(w)) /\ \A i \in DOMAIN Tail(w) : Head(w) < Tail(w)[i]
  <2> HIDE DEF r, w
  <2>1. \A i \in 1 .. Len(w) - 1 : i + 1 \in 1 .. Len(w) /\ Tail(w)[i] = w[i + 1] /\ 1 < i + 1
    BY <1>2
  <2>2. \A i \in DOMAIN Tail(w) : Head(w) < Tail(w)[i]
    BY <1>2, <1>3, <2>1 DEF Ascending
  <2>3. Ascending(Tail(w))
    BY <1>2, <1>3, <2>1 DEF Ascending
  <2> QED BY <2>2, <2>3
<1>5. /\ wire'[r] = Tail(w) /\ \A s \in Responses \ {r} : wire'[s] = wire[s]
      /\ cursor'[c] = Head(w) /\ owed'[c] = owed[c] \ {Head(w)}
      /\ \A d \in Clients \ {c} : cursor'[d] = cursor[d] /\ owed'[d] = owed[d] /\ current[d] # r
  BY <1>1 DEF StreamTypeOK, StreamsAreOwn
<1>6. StreamTypeOK'
  <2>1. cursor' \in [Clients -> 0 .. MaxEvents + 1]
    BY <1>1, <1>2, StreamAssumption DEF StreamTypeOK, Events
  <2>2. wire' \in [Responses -> Seq(Events)]
    BY <1>1, <1>2 DEF StreamTypeOK
  <2>3. owed' \in [Clients -> SUBSET Events]
    BY <1>1 DEF StreamTypeOK
  <2> QED BY <1>1, <2>1, <2>2, <2>3 DEF StreamTypeOK
<1>7. BufferIsRecent' /\ StreamsAreOwn'
  BY <1>1 DEF BufferIsRecent, StreamsAreOwn
<1>8. IdsAreGiven'
  <2> SUFFICES ASSUME row # "gone"
               PROVE  /\ \A d \in Clients : cursor'[d] < nextEventId
                      /\ \A s \in Responses : \A i \in DOMAIN wire'[s] : wire'[s][i] < nextEventId
    BY <1>1 DEF IdsAreGiven
  <2>1. \A i \in DOMAIN w : w[i] < nextEventId
    BY <1>1 DEF IdsAreGiven
  <2>2. Head(w) < nextEventId /\ \A i \in DOMAIN Tail(w) : Tail(w)[i] < nextEventId
    BY <1>2, <2>1
  <2> HIDE DEF r, w
  <2> QED BY <1>5, <2>2 DEF IdsAreGiven
<1>9. WiresAscend'
  <2>1. \A s \in Responses : Ascending(wire'[s])
    BY <1>4, <1>5 DEF WiresAscend
  <2>2. ASSUME NEW d \in Clients, current[d] # Null, NEW i \in DOMAIN wire'[current[d]]
        PROVE  cursor'[d] < wire'[current[d]][i]
    <3>1. CASE d = c
      BY <1>4, <1>5, <2>2, <3>1
    <3>2. CASE d # c
      <4>1. current[d] \in Responses \ {r}
        BY <1>5, <2>2, <3>2 DEF StreamTypeOK
      <4> QED BY <1>5, <2>2, <3>2, <4>1 DEF WiresAscend
    <3> QED BY <3>1, <3>2
  <2> QED BY <1>1, <2>1, <2>2 DEF WiresAscend
<1>10. \A e \in owed[c] : e \in Nat /\ (e \in Range(w) \/ \A i \in DOMAIN w : w[i] < e)
  BY <1>1, OnWires DEF OwedIsToCome, StreamTypeOK
<1>11. ASSUME NEW e \in owed'[c]
       PROVE  /\ Head(w) < e
              /\ e \in Range(Tail(w)) \/ \A i \in DOMAIN Tail(w) : Tail(w)[i] < e
  <2>1. e \in owed[c] /\ e # Head(w)
    BY <1>5
  <2>2. CASE e \in Range(w)
    <3>1. e \in Range(Tail(w))
      BY <1>2, <2>1, <2>2
    <3> QED BY <1>4, <3>1 DEF Range
  <2>3. CASE \A i \in DOMAIN w : w[i] < e
    <3> HIDE DEF w
    <3> QED BY <1>2, <2>3
  <2> QED BY <1>10, <2>1, <2>2, <2>3
<1>12. OwedIsToCome'
  <2> SUFFICES ASSUME NEW d \in Clients
               PROVE  /\ \A e \in owed'[d] : cursor'[d] < e
                      /\ current[d] # Null =>
                           \A e \in owed'[d] : \/ e \in Range(wire'[current[d]])
                                               \/ \A i \in DOMAIN wire'[current[d]] : wire'[current[d]][i] < e
                      /\ current[d] = Null /\ row # "gone" => owed'[d] \subseteq Range(buffer)
    BY <1>1 DEF OwedIsToCome
  <2>1. CASE d = c
    BY <1>1, <1>5, <1>11, <2>1
  <2>2. CASE d # c
    <3>1. current[d] # Null => wire'[current[d]] = wire[current[d]]
      BY <1>5, <2>2 DEF StreamTypeOK
    <3> QED BY <1>5, <2>2, <3>1 DEF OwedIsToCome
  <2> QED BY <2>1, <2>2
<1>13. NothingRetainedIsLost'
  <2> SUFFICES ASSUME NEW d \in Clients, Attached(d) PROVE owed'[d] \subseteq Range(wire'[current[d]])
    BY <1>1 DEF NothingRetainedIsLost, Attached
  <2>1. owed[d] \subseteq Range(wire[current[d]])
    BY DEF NothingRetainedIsLost
  <2>2. CASE d = c
    BY <1>2, <1>5, <2>1, <2>2
  <2>3. CASE d # c
    <3>1. wire'[current[d]] = wire[current[d]]
      BY <1>5, <2>3 DEF StreamTypeOK, Attached
    <3> QED BY <1>5, <2>1, <2>3, <3>1
  <2> QED BY <2>2, <2>3
<1> QED BY <1>6, <1>7, <1>8, <1>9, <1>12, <1>13

\* What was under way is lost; of what the browser is owed, the window is left.
LEMMA BreakKeeps == ASSUME StreamInv, NEW c \in Clients, Break(c) PROVE StreamInv'
<1> USE DEF StreamInv
<1> DEFINE r == current[c]
<1>1. /\ r # Null /\ r \in Responses
      /\ conn' = [conn EXCEPT ![r] = "broken"]
      /\ wire' = [wire EXCEPT ![r] = <<>>]
      /\ current' = [current EXCEPT ![c] = Null]
      /\ owed' = [owed EXCEPT ![c] = @ \cap Range(buffer)]
      /\ UNCHANGED <<row, relay, nextEventId, buffer, subscribers, streamsEnded, reader, cursor, watching,
                     skipped, farewell>>
  BY DEF Break, StreamTypeOK, relayVars
<1>2. /\ wire'[r] = <<>> /\ DOMAIN wire'[r] = {} /\ \A s \in Responses \ {r} : wire'[s] = wire[s] /\ conn'[s] = conn[s]
      /\ conn'[r] = "broken" /\ current'[c] = Null /\ owed'[c] = owed[c] \cap Range(buffer)
      /\ \A d \in Clients \ {c} : current'[d] = current[d] /\ owed'[d] = owed[d] /\ current[d] # r
  BY <1>1 DEF StreamTypeOK, StreamsAreOwn
<1>3. StreamTypeOK'
  <2>1. wire' \in [Responses -> Seq(Events)] /\ owed' \in [Clients -> SUBSET Events]
    BY <1>1 DEF StreamTypeOK
  <2>2. /\ conn' \in [Responses -> {"unused", "open", "broken", "ended", "closed"}]
        /\ current' \in [Clients -> Responses \cup {Null}]
    BY <1>1 DEF StreamTypeOK
  <2> QED BY <1>1, <2>1, <2>2 DEF StreamTypeOK
<1>4. BufferIsRecent'
  BY <1>1 DEF BufferIsRecent
<1>5. StreamsAreOwn'
  BY <1>1, <1>2 DEF StreamsAreOwn, StreamTypeOK
<1>6. IdsAreGiven' /\ (\A s \in Responses : Ascending(wire'[s]))
  BY <1>1, <1>2 DEF IdsAreGiven, WiresAscend, Ascending
<1>7. ASSUME NEW d \in Clients, current'[d] # Null
      PROVE  current'[d] = current[d] /\ owed'[d] = owed[d] /\ wire'[current[d]] = wire[current[d]]
  BY <1>1, <1>2, <1>7 DEF StreamTypeOK
<1>8. WiresAscend'
  BY <1>1, <1>6, <1>7 DEF WiresAscend
<1>9. NothingRetainedIsLost'
  BY <1>1, <1>7 DEF NothingRetainedIsLost, Attached
<1>10. OwedIsToCome'
  <2> SUFFICES ASSUME NEW d \in Clients
               PROVE  /\ \A e \in owed'[d] : cursor[d] < e
                      /\ current'[d] # Null =>
                           \A e \in owed'[d] : \/ e \in Range(wire'[current'[d]])
                                               \/ \A i \in DOMAIN wire'[current'[d]] : wire'[current'[d]][i] < e
                      /\ current'[d] = Null /\ row # "gone" => owed'[d] \subseteq Range(buffer)
    BY <1>1 DEF OwedIsToCome
  <2>1. \A e \in owed'[d] : cursor[d] < e
    BY <1>2 DEF OwedIsToCome
  <2>2. CASE current'[d] # Null
    BY <1>7, <2>1, <2>2 DEF OwedIsToCome
  <2>3. CASE current'[d] = Null
    BY <1>2, <2>1, <2>3 DEF OwedIsToCome
  <2> QED BY <2>2, <2>3
<1> QED BY <1>3, <1>4, <1>5, <1>6, <1>8, <1>9, <1>10

\* The end of the session and the end of the server: what a response the server ends
\* has under way can still be read.
LEMMA EndsKeep ==
  ASSUME StreamInv, CloseSession \/ DropPlaceholder \/ CloseEventStreams
  PROVE  StreamInv'
<1> USE DEF StreamInv
<1>1. /\ conn' = EndedBy(subscribers) /\ subscribers' = {}
      /\ UNCHANGED <<reader, current, cursor, watching, skipped>>
  BY DEF CloseSession, DropPlaceholder, CloseEventStreams, CloseSessionRelay, historyVars
<1>2. \A r \in Responses : conn'[r] = IF r \in subscribers /\ conn[r] = "open" THEN "ended" ELSE conn[r]
  BY <1>1 DEF EndedBy
<1>3. conn' \in [Responses -> {"unused", "open", "broken", "ended", "closed"}]
  BY <1>1 DEF EndedBy, StreamTypeOK
<1>4. StreamsAreOwn'
  <2>1. row' = "gone" => subscribers' = {}
    BY <1>1
  <2>2. \A c \in Clients : current[c] # Null => conn'[current[c]] \in {"open", "ended"}
    BY <1>2 DEF StreamsAreOwn, StreamTypeOK
  <2> QED BY <1>1, <2>1, <2>2 DEF StreamsAreOwn
<1>5. NothingRetainedIsLost'
  BY <1>1 DEF NothingRetainedIsLost, Attached
<1>6. CASE CloseEventStreams
  <2>1. UNCHANGED <<row, relay, nextEventId, buffer, wire, owed, farewell>> /\ streamsEnded' = TRUE
    BY <1>6 DEF CloseEventStreams, historyVars
  <2>2. StreamTypeOK'
    BY <1>1, <1>3, <2>1 DEF StreamTypeOK
  <2>3. BufferIsRecent' /\ IdsAreGiven' /\ WiresAscend' /\ OwedIsToCome'
    BY <1>1, <2>1 DEF BufferIsRecent, IdsAreGiven, WiresAscend, OwedIsToCome
  <2> QED BY <1>4, <1>5, <2>2, <2>3
<1>7. CASE DropPlaceholder
  <2>1. /\ row' = "gone" /\ relay' = FALSE /\ nextEventId' = 1 /\ buffer' = <<>>
        /\ UNCHANGED <<wire, owed, farewell, streamsEnded>>
    BY <1>7 DEF DropPlaceholder, CloseSessionRelay, historyVars
  <2>2. StreamTypeOK'
    BY <1>1, <1>3, <2>1, NoneRetained DEF StreamTypeOK
  <2>3. BufferIsRecent' /\ IdsAreGiven'
    BY <2>1 DEF BufferIsRecent, IdsAreGiven
  <2>4. WiresAscend' /\ OwedIsToCome'
    BY <1>1, <2>1 DEF WiresAscend, OwedIsToCome
  <2> QED BY <1>4, <1>5, <2>2, <2>3, <2>4
<1>8. CASE CloseSession
  <2>1. /\ row = "registered" /\ row' = "gone" /\ relay' = FALSE /\ nextEventId' = 1 /\ buffer' = <<>>
        /\ farewell' = nextEventId /\ wire' = Written(nextEventId)
        /\ owed' = [c \in Clients |-> IF Attached(c) THEN owed[c] \cup {nextEventId} ELSE {}]
        /\ UNCHANGED streamsEnded
    BY <1>8 DEF CloseSession, CloseSessionRelay
  <2>2. nextEventId \in Events /\ nextEventId \in Nat /\ nextEventId \in 0 .. MaxEvents + 1
    BY StreamAssumption DEF StreamTypeOK, Events
  <2>3. /\ wire' \in [Responses -> Seq(Events)]
        /\ \A r \in Responses :
             IF r \in subscribers /\ conn[r] = "open"
               THEN Range(wire'[r]) = Range(wire[r]) \cup {nextEventId} ELSE wire'[r] = wire[r]
        /\ WiresAscend'
    BY <1>1, <2>1, WrittenAscends
  <2>4. owed' \in [Clients -> SUBSET Events]
    <3>1. \A c \in Clients : owed[c] \cup {nextEventId} \in SUBSET Events
      BY <2>2 DEF StreamTypeOK
    <3> QED BY <2>1, <3>1
  <2>5. StreamTypeOK'
    BY <1>1, <1>3, <2>1, <2>2, <2>3, <2>4, NoneRetained DEF StreamTypeOK
  <2>6. BufferIsRecent' /\ IdsAreGiven'
    BY <2>1 DEF BufferIsRecent, IdsAreGiven
  <2>7. OwedIsToCome'
    <3> SUFFICES ASSUME NEW c \in Clients, Attached(c), NEW e \in owed'[c]
                 PROVE  cursor[c] < e /\ e \in Range(wire'[current[c]])
      BY <1>1, <2>1 DEF OwedIsToCome
    <3>1. current[c] \in Responses /\ current[c] \in subscribers /\ conn[current[c]] = "open"
      BY DEF Attached, StreamsAreOwn, StreamTypeOK
    <3>2. e \in owed[c] \/ e = nextEventId
      BY <2>1
    <3>3. owed[c] \subseteq Range(wire[current[c]])
      BY DEF NothingRetainedIsLost
    <3>4. cursor[c] < e
      BY <2>1, <3>2 DEF OwedIsToCome, IdsAreGiven
    <3> QED BY <2>3, <3>1, <3>2, <3>3, <3>4
  <2> QED BY <1>4, <1>5, <2>3, <2>5, <2>6, <2>7
<1> QED BY <1>6, <1>7, <1>8

LEMMA StreamInitInv == StreamInit => StreamInv
<1> SUFFICES ASSUME StreamInit PROVE StreamInv
  OBVIOUS
<1> USE StreamAssumption DEF StreamInit
<1>1. \A r \in Responses : wire[r] = <<>> /\ DOMAIN wire[r] = {}
  OBVIOUS
<1>2. /\ wire \in [Responses -> Seq(Events)] /\ reader \in [Responses -> Clients \cup {Null}]
      /\ conn \in [Responses -> {"unused", "open", "broken", "ended", "closed"}]
  BY NoneRetained
<1>3. /\ current \in [Clients -> Responses \cup {Null}] /\ cursor \in [Clients -> 0 .. MaxEvents + 1]
      /\ owed \in [Clients -> SUBSET Events] /\ skipped \in [Clients -> SUBSET Events]
  BY NoneRetained
<1>4. StreamTypeOK
  BY <1>2, <1>3, NoneRetained DEF StreamTypeOK
<1> QED BY <1>1, <1>4, NoneRetained DEF StreamInv, BufferIsRecent, IdsAreGiven, StreamsAreOwn, WiresAscend, OwedIsToCome, Ascending,
       NothingRetainedIsLost, Attached

LEMMA StreamStepKeeps == StreamInv /\ [StreamNext]_streamVars => StreamInv'
<1> SUFFICES ASSUME StreamInv, [StreamNext]_streamVars PROVE StreamInv'
  OBVIOUS
<1> USE DEF StreamInv
<1>1. ASSUME UNCHANGED streamVars \/ SessionRegisters PROVE StreamInv'
  <2>1. /\ row' \in {"registering", "registered", "gone"} /\ (row' = "gone" <=> row = "gone")
        /\ UNCHANGED <<relay, nextEventId, buffer, subscribers, streamsEnded, reader, conn, wire, current, cursor,
                       watching, owed, skipped, farewell>>
    BY <1>1 DEF streamVars, SessionRegisters, relayVars, linkVars, historyVars, StreamTypeOK
  <2>2. StreamTypeOK'
    BY <2>1 DEF StreamTypeOK
  <2> QED BY <2>1, <2>2 DEF BufferIsRecent, IdsAreGiven, StreamsAreOwn, WiresAscend, OwedIsToCome, Ascending,
         NothingRetainedIsLost, Attached
<1>2. ASSUME NEW r \in Responses, ResponseClose(r) PROVE StreamInv'
  <2>1. /\ conn[r] = "broken" /\ conn' = [conn EXCEPT ![r] = "closed"] /\ subscribers' = subscribers \ {r}
        /\ UNCHANGED <<row, relay, nextEventId, buffer, streamsEnded, reader, wire, current, cursor,
                       watching, owed, skipped, farewell>>
    BY <1>2 DEF ResponseClose, historyVars
  <2>2. StreamTypeOK'
    BY <2>1 DEF StreamTypeOK
  <2>3. StreamsAreOwn'
    BY <2>1 DEF StreamsAreOwn, StreamTypeOK
  <2>4. NothingRetainedIsLost'
    BY <2>1 DEF NothingRetainedIsLost, Attached
  <2> QED BY <2>1, <2>2, <2>3, <2>4 DEF BufferIsRecent, IdsAreGiven, WiresAscend, OwedIsToCome
<1> QED BY <1>1, <1>2, BroadcastKeeps, SubscribeKeeps, ReceiveKeeps, BreakKeeps, EndsKeep DEF StreamNext

\* The invariant of the streams.
THEOREM StreamInvariant == StreamSpec => []StreamInv
BY StreamInitInv, StreamStepKeeps, PTL DEF StreamSpec

\* However often its connection breaks, a browser is never brought an event twice or
\* behind a newer one.
THEOREM InOrderOnceAlways == StreamSpec => []InOrderOnce
<1>1. StreamInv => InOrderOnce
  <2> SUFFICES ASSUME StreamInv, NEW c \in Clients, current[c] # Null
               PROVE  Ascending(<<cursor[c]>> \o wire[current[c]])
    BY DEF InOrderOnce
  <2> DEFINE w == wire[current[c]]
             whole == <<cursor[c]>> \o w
  <2>1. w \in Seq(Nat) /\ cursor[c] \in Nat /\ Len(w) \in Nat /\ DOMAIN w = 1 .. Len(w)
    <3>1. w \in Seq(Events)
      BY DEF StreamInv, StreamTypeOK
    <3>2. Events \subseteq Nat
      BY OnWires
    <3>3. w \in Seq(Nat)
      BY <3>1, <3>2, SeqMonotonic
    <3>4. cursor[c] \in Nat
      BY StreamAssumption DEF StreamInv, StreamTypeOK
    <3> HIDE DEF w
    <3> QED BY <3>3, <3>4
  <2>2. Ascending(w) /\ \A i \in DOMAIN w : cursor[c] < w[i]
    BY DEF StreamInv, WiresAscend, StreamTypeOK
  <2> HIDE DEF w
  <2>3. /\ DOMAIN whole = 1 .. Len(w) + 1 /\ whole[1] = cursor[c]
        /\ \A i \in 2 .. Len(w) + 1 : i - 1 \in 1 .. Len(w) /\ whole[i] = w[i - 1]
    BY <2>1
  <2> HIDE DEF whole
  <2>4. Ascending(whole)
    <3> SUFFICES ASSUME NEW i \in 1 .. Len(w) + 1, NEW j \in 1 .. Len(w) + 1, i < j PROVE whole[i] < whole[j]
      BY <2>3 DEF Ascending
    <3>1. j \in 2 .. Len(w) + 1
      BY <2>1
    <3>2. CASE i = 1
      BY <2>1, <2>2, <2>3, <3>1, <3>2
    <3>3. CASE i # 1
      <4>1. i \in 2 .. Len(w) + 1 /\ i - 1 < j - 1
        BY <2>1, <3>3
      <4> QED BY <2>1, <2>2, <2>3, <3>1, <4>1 DEF Ascending
    <3> QED BY <3>2, <3>3
  <2> QED BY <2>4 DEF whole, w
<1> QED BY <1>1, StreamInvariant, PTL

\* A reconnect with a cursor brings all that was lost and the window has kept.
THEOREM NothingRetainedIsLostAlways == StreamSpec => []NothingRetainedIsLost
<1>1. StreamInv => NothingRetainedIsLost
  BY DEF StreamInv
<1> QED BY <1>1, StreamInvariant, PTL

\* Only the end of the session or of the server ends a stream, and the farewell is
\* said when the session is over.
EndsAreFinal ==
  /\ farewell # 0 => row = "gone"
  /\ \A r \in Responses : conn[r] = "ended" => streamsEnded \/ row = "gone"

LEMMA FarewellStep ==
  ASSUME StreamInv, EndsAreFinal, FarewellIsLast, [StreamNext]_streamVars
  PROVE  EndsAreFinal' /\ FarewellIsLast'
<1> USE DEF EndsAreFinal, FarewellIsLast
<1>1. CASE UNCHANGED streamVars
  BY <1>1 DEF streamVars, relayVars, linkVars, historyVars
<1>2. CASE BroadcastEvent \/ SessionRegisters
  BY <1>2 DEF BroadcastEvent, SessionRegisters, linkVars, historyVars
<1>3. CASE CloseSession
  <2>1. /\ row = "registered" /\ row' = "gone" /\ farewell' = nextEventId /\ streamsEnded' = streamsEnded
        /\ wire' = Written(nextEventId) /\ conn' = EndedBy(subscribers) /\ current' = current
    BY <1>3 DEF CloseSession, CloseSessionRelay
  <2>2. ASSUME NEW c \in Clients, current[c] # Null, conn'[current[c]] = "ended", ~streamsEnded
        PROVE  LET w == wire'[current[c]] IN w # <<>> /\ w[Len(w)] = farewell'
    <3> DEFINE r == current[c]
    <3>1. r \in Responses /\ wire[r] \in Seq(Events) /\ nextEventId \in Events
      BY <2>2, StreamAssumption DEF StreamInv, StreamTypeOK, Events
    <3>2. r \in subscribers /\ conn[r] = "open"
      BY <2>1, <2>2, <3>1 DEF EndedBy
    <3>3. wire'[r] = Append(wire[r], nextEventId)
      BY <2>1, <3>1, <3>2 DEF Written
    <3> HIDE DEF r
    <3>4. /\ Len(Append(wire[r], nextEventId)) = Len(wire[r]) + 1 /\ Len(wire[r]) \in Nat
          /\ Append(wire[r], nextEventId)[Len(wire[r]) + 1] = nextEventId
          /\ Append(wire[r], nextEventId) # <<>>
      BY <3>1
    <3> QED BY <2>1, <3>3, <3>4 DEF r
  <2> QED BY <2>1, <2>2
<1>4. CASE DropPlaceholder
  BY <1>4 DEF DropPlaceholder, CloseSessionRelay, historyVars
<1>5. CASE CloseEventStreams
  BY <1>5 DEF CloseEventStreams, historyVars
<1>6. ASSUME NEW c \in Clients, Receive(c) PROVE EndsAreFinal' /\ FarewellIsLast'
  <2> DEFINE r == current[c]
             w == wire[r]
  <2>1. /\ r \in Responses /\ w \in Seq(Events) /\ w # <<>> /\ r # Null
        /\ wire' = [wire EXCEPT ![r] = Tail(w)] /\ cursor' = [cursor EXCEPT ![c] = Head(w)]
        /\ UNCHANGED <<row, streamsEnded, conn, current, farewell>>
    BY <1>6 DEF Receive, StreamInv, StreamTypeOK, relayVars
  <2>2. wire'[r] = Tail(w) /\ cursor'[c] = Head(w)
    BY <2>1 DEF StreamInv, StreamTypeOK
  <2>3. \A d \in Clients \ {c} : current[d] # Null => current[d] # r /\ wire'[current[d]] = wire[current[d]] /\ cursor'[d] = cursor[d]
    BY <2>1 DEF StreamInv, StreamTypeOK, StreamsAreOwn
  <2>4. /\ Head(w) = w[1] /\ Len(w) \in Nat \ {0} /\ Len(Tail(w)) = Len(w) - 1
        /\ \A i \in 1 .. Len(w) - 1 : Tail(w)[i] = w[i + 1]
        /\ Tail(w) = <<>> <=> Len(Tail(w)) = 0
    <3>1. /\ Head(w) = w[1] /\ Len(w) \in Nat \ {0} /\ Len(Tail(w)) = Len(w) - 1
          /\ \A i \in 1 .. Len(w) - 1 : Tail(w)[i] = w[i + 1]
      BY <2>1, HeadTaken
    <3>2. Tail(w) \in Seq(Events)
      BY <2>1, HeadTaken
    <3> HIDE DEF w
    <3>3. \A t \in Seq(Events) : t = <<>> <=> Len(t) = 0
      BY EmptySeq
    <3> QED BY <3>1, <3>2, <3>3
  <2> HIDE DEF w
  <2>5. w[Len(w)] = farewell => IF Tail(w) = <<>> THEN Head(w) = farewell ELSE Tail(w)[Len(Tail(w))] = farewell
    BY <2>4
  <2>6. farewell # 0 /\ conn[r] = "ended" /\ ~streamsEnded => w[Len(w)] = farewell
    BY <2>1 DEF w
  <2>7. FarewellIsLast'
    BY <2>1, <2>2, <2>3, <2>5, <2>6
  <2> QED BY <2>1, <2>7
<1>7. ASSUME NEW c \in Clients, Break(c) PROVE EndsAreFinal' /\ FarewellIsLast'
  <2>1. /\ current[c] \in Responses
        /\ conn' = [conn EXCEPT ![current[c]] = "broken"] /\ wire' = [wire EXCEPT ![current[c]] = <<>>]
        /\ current' = [current EXCEPT ![c] = Null]
        /\ UNCHANGED <<row, streamsEnded, farewell, cursor>>
    BY <1>7 DEF Break, StreamInv, StreamTypeOK, relayVars
  <2>2. \A d \in Clients : current'[d] # Null => /\ current'[d] = current[d] /\ current[d] # current[c]
                                               /\ wire'[current[d]] = wire[current[d]]
                                               /\ conn'[current[d]] = conn[current[d]]
    BY <2>1 DEF StreamInv, StreamTypeOK, StreamsAreOwn
  <2>3. \A q \in Responses : conn'[q] = "ended" => conn[q] = "ended"
    BY <2>1 DEF StreamInv, StreamTypeOK
  <2> QED BY <2>1, <2>2, <2>3
<1>8. ASSUME NEW c \in Clients, NEW r \in Responses, HandleEventStream(c, r)
      PROVE  EndsAreFinal' /\ FarewellIsLast'
  <2>1. /\ row # "gone" /\ row' = row /\ farewell' = farewell /\ streamsEnded' = streamsEnded
        /\ conn' = [conn EXCEPT ![r] = "open"]
    BY <1>8 DEF HandleEventStream
  <2>2. \A q \in Responses : conn'[q] = "ended" => conn[q] = "ended"
    BY <2>1 DEF StreamInv, StreamTypeOK
  <2> QED BY <2>1, <2>2
<1>9. ASSUME NEW r \in Responses, ResponseClose(r) PROVE EndsAreFinal' /\ FarewellIsLast'
  <2>1. /\ conn' = [conn EXCEPT ![r] = "closed"]
        /\ UNCHANGED <<row, streamsEnded, wire, current, cursor, farewell>>
    BY <1>9 DEF ResponseClose, historyVars
  <2>2. \A q \in Responses : conn'[q] = "ended" => conn[q] = "ended"
    BY <2>1 DEF StreamInv, StreamTypeOK
  <2>3. \A d \in Clients : current[d] # Null => current[d] \in Responses
    BY DEF StreamInv, StreamTypeOK
  <2> QED BY <2>1, <2>2, <2>3
<1> QED BY <1>1, <1>2, <1>3, <1>4, <1>5, <1>6, <1>7, <1>8, <1>9 DEF StreamNext

\* A browser whose stream the end of its session ended has the farewell coming as the
\* last thing it reads: the watchers are told before the relay is closed.
THEOREM FarewellIsLastAlways == StreamSpec => []FarewellIsLast
<1>1. StreamInit => EndsAreFinal /\ FarewellIsLast
  BY DEF StreamInit, EndsAreFinal, FarewellIsLast
<1>2. StreamInv /\ EndsAreFinal /\ FarewellIsLast /\ [StreamNext]_streamVars
        => EndsAreFinal' /\ FarewellIsLast'
  BY FarewellStep
<1> QED BY <1>1, <1>2, StreamInvariant, PTL DEF StreamSpec

\* No relay outlives its session's row, for nothing would ever drop it.
THEOREM RelayHasRowAlways == StreamSpec => []RelayHasRow
<1>1. StreamInit => RelayHasRow
  BY DEF StreamInit, RelayHasRow
<1>2. RelayHasRow /\ [StreamNext]_streamVars => RelayHasRow'
  BY DEF RelayHasRow, StreamNext, streamVars, relayVars, BroadcastEvent, SessionRegisters, CloseSession,
         DropPlaceholder, CloseSessionRelay, CloseEventStreams, Receive, Break, HandleEventStream, ResponseClose
<1> QED BY <1>1, <1>2, PTL DEF StreamSpec
=============================================================================
