-------------------------- MODULE LiveUpdateHubProofs --------------------------
(* Machine-checked theorems about LiveUpdateHub.                              *)
EXTENDS LiveUpdateHub, FiniteSetTheorems, TLAPS

-----------------------------------------------------------------------------
(* Any client: one that resumes from an id may have it from elsewhere, for    *)
(* example from before a restart of the backend.                              *)

AnyStream(s) ==
    \/ \E l \in 0 .. MaxEvents : Subscribe(s, l)
    \/ YieldReplay(s) \/ YieldLive(s)
    \/ Unsubscribe(s)

AnyNext ==
    \/ \E p \in Publishers : Publish(p)
    \/ \E s \in Subscribers : AnyStream(s)

\* The ids that subscriptions have yielded are such ids.
LEMMA NextIsAny == TypeOK /\ [Next]_vars => [AnyNext]_vars
<1> SUFFICES ASSUME TypeOK, NEW s \in Subscribers, Stream(s)
             PROVE  AnyStream(s)
  BY DEF Next, AnyNext
<1>1. {NoId} \cup Seen \subseteq 0 .. MaxEvents
  BY SizesAssumption DEF Seen, TypeOK, Item, EventId, NoId
<1> QED
  BY <1>1 DEF Stream, AnyStream

-----------------------------------------------------------------------------
(* Items *)

\* The items the hub builds are items of the type.
LEMMA EventItemType ==
    ASSUME NEW e \in EventId
    PROVE  EventItem(e) \in Item /\ EventItem(e).kind = "event" /\ EventItem(e).id = e
BY DEF EventItem, Item, EventId

LEMMA LaggingNoticeType ==
    ASSUME NEW e \in EventId, NEW gap \in SUBSET EventId
    PROVE  LaggingNotice(e, gap) \in Item
BY DEF LaggingNotice, Item, EventId

LEMMA WindowNoticeType ==
    ASSUME NEW l \in 0 .. MaxEvents, NEW o \in EventId
    PROVE  WindowNotice(l, o) \in Item
<1>1. (l + 1) .. (o - 1) \subseteq EventId
  BY SizesAssumption DEF EventId
<1> QED
  BY <1>1 DEF WindowNotice, Item, EventId

\* What an item tells its reader of are events.
LEMMA TellsType ==
    ASSUME NEW item \in Item
    PROVE  Tells(item) \in SUBSET EventId
BY DEF Tells, Item

\* A replay is a sequence of items.
LEMMA ReplayEventsType ==
    ASSUME TypeOK, NEW l \in 0 .. MaxEvents
    PROVE  ReplayEvents(l) \in Seq(Item)
<1> DEFINE copy == [i \in 1 .. Len(history) |-> EventItem(history[i])]
<1>1. history \in Seq(EventId)
  BY DEF TypeOK
<1>2. \A i \in 1 .. Len(history) : history[i] \in EventId
  BY <1>1
<1>3. Len(history) \in Nat
  BY <1>1
<1>4. copy \in Seq(Item)
  BY <1>2, <1>3, EventItemType
<1>5. CASE l = NoId \/ ~\E i \in 1 .. Len(history) : history[i] > l
  BY <1>5 DEF ReplayEvents
<1>6. CASE ~(l = NoId \/ ~\E i \in 1 .. Len(history) : history[i] > l)
  <2>1. history[1] \in EventId
    BY <1>6, <1>2, <1>3
  <2>2. <<WindowNotice(l, history[1])>> \in Seq(Item)
    BY <2>1, WindowNoticeType
  <2>3. <<WindowNotice(l, history[1])>> \o copy \in Seq(Item)
    BY <2>2, <1>4
  <2> QED
    BY <1>6, <1>4, <2>3 DEF ReplayEvents
<1> QED
  BY <1>5, <1>6

-----------------------------------------------------------------------------
(* Type correctness *)

\* The hub's variables stay in their ranges: queues and history are bounded.
LEMMA TypeInit == Init => TypeOK
BY SizesAssumption DEF Init, TypeOK, NoId, EventId

LEMMA TypeStepPublish ==
    ASSUME TypeOK, NEW p \in Publishers, Publish(p)
    PROVE  TypeOK'
<1> USE SizesAssumption DEF NoId
<1>1. CASE DrawId(p)
  BY <1>1 DEF DrawId, TypeOK, EventId, subVars
<1>2. CASE Record(p)
  <2>1. event[p] \in EventId
    BY <1>2 DEF Record, TypeOK, EventId
  <2>2. history' \in Seq(EventId) /\ Len(history') <= ReplaySize
    BY <1>2, <2>1 DEF Record, Appended, TypeOK
  <2> QED
    BY <1>2, <2>1, <2>2 DEF Record, TypeOK, subVars
<1>3. CASE PublishReturns(p)
  BY <1>3 DEF PublishReturns, TypeOK, subVars
<1>4. ASSUME NEW s \in Subscribers, Enqueue(p, s)
      PROVE  TypeOK'
  <2>1. EventItem(event[p]) \in Item
    BY <1>4, EventItemType DEF Enqueue, TypeOK, EventId
  <2>2. /\ queue' \in [Subscribers -> Seq(Item)]
        /\ \A t \in Subscribers : Len(queue'[t]) <= QueueSize
    BY <1>4, <2>1 DEF Enqueue, Put, Room, TypeOK
  <2> QED
    BY <1>4, <2>2 DEF Enqueue, TypeOK, subVars
<1>5. ASSUME NEW s \in Subscribers, EnqueueFull(p, s)
      PROVE  TypeOK'
  BY <1>5 DEF EnqueueFull, TypeOK, subVars
<1>6. ASSUME NEW s \in Subscribers, DrainOne(p, s)
      PROVE  TypeOK'
  <2>1. /\ queue' \in [Subscribers -> Seq(Item)]
        /\ \A t \in Subscribers : Len(queue'[t]) <= QueueSize
        /\ Head(queue[s]) \in Item
    BY <1>6 DEF DrainOne, TypeOK
  <2>2. drained' \in [Publishers -> SUBSET EventId]
    BY <1>6, <2>1, TellsType DEF DrainOne, AlsoMissed, TypeOK
  <2> QED
    BY <1>6, <2>1, <2>2 DEF DrainOne, TypeOK, subVars
<1>7. ASSUME NEW s \in Subscribers, DrainEnd(p, s)
      PROVE  TypeOK'
  BY <1>7 DEF DrainEnd, TypeOK, subVars
<1>8. ASSUME NEW s \in Subscribers, PutNotice(p, s)
      PROVE  TypeOK'
  <2>1. LaggingNotice(event[p], drained[p]) \in Item
    BY <1>8, LaggingNoticeType DEF PutNotice, TypeOK, EventId
  <2>2. /\ queue' \in [Subscribers -> Seq(Item)]
        /\ \A t \in Subscribers : Len(queue'[t]) <= QueueSize
    BY <1>8, <2>1 DEF PutNotice, Put, Room, TypeOK
  <2> QED
    BY <1>8, <2>2 DEF PutNotice, TypeOK, subVars
<1>9. ASSUME NEW s \in Subscribers, PutCurrent(p, s)
      PROVE  TypeOK'
  <2>1. EventItem(event[p]) \in Item
    BY <1>9, EventItemType DEF PutCurrent, TypeOK, EventId
  <2>2. /\ queue' \in [Subscribers -> Seq(Item)]
        /\ \A t \in Subscribers : Len(queue'[t]) <= QueueSize
    BY <1>9, <2>1 DEF PutCurrent, Put, Room, TypeOK
  <2> QED
    BY <1>9, <2>2 DEF PutCurrent, TypeOK, subVars
<1>10. ASSUME NEW s \in Subscribers, PutRaises(p, s)
       PROVE  TypeOK'
  <2>1. event[p] \in EventId
    BY <1>10 DEF PutRaises, TypeOK, EventId
  <2> QED
    BY <1>10, <2>1 DEF PutRaises, TypeOK, subVars
<1> QED
  BY <1>1, <1>2, <1>3, <1>4, <1>5, <1>6, <1>7, <1>8, <1>9, <1>10 DEF Publish

LEMMA TypeStepStream ==
    ASSUME TypeOK, NEW s \in Subscribers, AnyStream(s)
    PROVE  TypeOK'
<1> USE DEF NoId
<1>1. ASSUME NEW l \in 0 .. MaxEvents, Subscribe(s, l)
      PROVE  TypeOK'
  <2>1. l \in 0 .. MaxEvents
    OBVIOUS
  <2>2. ReplayEvents(l) \in Seq(Item)
    BY <2>1, ReplayEventsType
  <2> QED
    BY <1>1, <2>1, <2>2 DEF Subscribe, TypeOK, pubVars
<1>2. CASE YieldReplay(s)
  <2>1. Head(replay[s]) \in Item /\ replay' \in [Subscribers -> Seq(Item)]
    BY <1>2 DEF YieldReplay, TypeOK
  <2> QED
    BY <1>2, <2>1 DEF YieldReplay, TypeOK, pubVars
<1>3. CASE YieldLive(s)
  <2>1. /\ Head(queue[s]) \in Item
        /\ queue' \in [Subscribers -> Seq(Item)]
        /\ \A t \in Subscribers : Len(queue'[t]) <= QueueSize
    BY <1>3, SizesAssumption DEF YieldLive, TypeOK
  <2> QED
    BY <1>3, <2>1 DEF YieldLive, TypeOK, pubVars
<1>4. CASE Unsubscribe(s)
  BY <1>4 DEF Unsubscribe, TypeOK, pubVars
<1> QED
  BY <1>1, <1>2, <1>3, <1>4 DEF AnyStream

LEMMA TypeStep ==
    ASSUME TypeOK, [AnyNext]_vars
    PROVE  TypeOK'
<1>1. CASE AnyNext
  BY <1>1, TypeStepPublish, TypeStepStream DEF AnyNext
<1>2. CASE UNCHANGED vars
  BY <1>2 DEF vars, pubVars, subVars, TypeOK
<1> QED
  BY <1>1, <1>2

\* Whatever the interleaving of publishers and readers, every queue keeps to
\* its size, the history to its window, and every variable to its range.
THEOREM TypeCorrect == Spec => []TypeOK
<1>1. TypeOK /\ [Next]_vars => TypeOK'
  BY NextIsAny, TypeStep
<1> QED
  BY TypeInit, <1>1, PTL DEF Spec

-----------------------------------------------------------------------------
(* No silent loss *)

\* Putting an item into a queue and taking one out.
LEMMA ElementsAppend ==
    ASSUME NEW q \in Seq(Item), NEW item \in Item
    PROVE  Elements(Append(q, item)) = Elements(q) \cup {item}
<1>1. \A i \in 1 .. Len(q) : Append(q, item)[i] = q[i]
  OBVIOUS
<1>2. Append(q, item)[Len(q) + 1] = item /\ Len(Append(q, item)) = Len(q) + 1 /\ Len(q) \in Nat
  OBVIOUS
<1>3. \A x \in Elements(q) \cup {item} : x \in Elements(Append(q, item))
  BY <1>1, <1>2 DEF Elements
<1>4. \A x \in Elements(Append(q, item)) : x \in Elements(q) \cup {item}
  BY <1>1, <1>2 DEF Elements
<1> QED
  BY <1>3, <1>4

LEMMA ElementsTail ==
    ASSUME NEW q \in Seq(Item), q # <<>>
    PROVE  Elements(q) = {Head(q)} \cup Elements(Tail(q))
<1>1. Len(q) \in Nat \ {0} /\ Len(Tail(q)) = Len(q) - 1 /\ Head(q) = q[1]
  OBVIOUS
<1>2. \A i \in 1 .. Len(Tail(q)) : Tail(q)[i] = q[i + 1]
  OBVIOUS
<1>3. \A x \in Elements(q) : x \in {Head(q)} \cup Elements(Tail(q))
  <2> TAKE x \in Elements(q)
  <2>1. PICK i \in 1 .. Len(q) : x = q[i]
    BY DEF Elements
  <2>2. CASE i = 1
    BY <2>1, <2>2, <1>1
  <2>3. CASE i # 1
    <3>1. i - 1 \in 1 .. Len(Tail(q)) /\ Tail(q)[i - 1] = x
      BY <2>1, <2>3, <1>1, <1>2
    <3> QED
      BY <3>1 DEF Elements
  <2> QED
    BY <2>2, <2>3
<1>4. \A x \in {Head(q)} \cup Elements(Tail(q)) : x \in Elements(q)
  BY <1>1, <1>2 DEF Elements
<1> QED
  BY <1>3, <1>4

\* Where a publisher is says what it still owes: a publisher that is not
\* fanning out owes nothing, one that replaces a queue replaces one that it owes.
PublisherShape(p) ==
    /\ pc[p] \in {"idle", "record"} => todo[p] = {}
    /\ pc[p] \notin {"drain", "notice", "current"} => target[p] = {}
    /\ \A s \in target[p] : target[p] = {s} /\ s \in todo[p]

\* Event e is accounted for to subscription s.
Accounted(s, e) ==
    \/ \E item \in received[s] \cup InQueue(s) : e \in Tells(item)
    \/ \E p \in Publishers : s \in todo[p] /\ e = event[p]
    \/ \E p \in Publishers : s \in target[p] /\ e \in drained[p]

NoLossInv ==
    /\ TypeOK
    /\ \A p \in Publishers : PublisherShape(p)
    /\ \A s \in Subscribers : \A e \in due[s] : e \in lost[s] \/ Accounted(s, e)

LEMMA NoLossInit == Init => NoLossInv
BY TypeInit DEF Init, NoLossInv, PublisherShape

\* NoLossInv is NoSilentLoss with its sets written as membership.
LEMMA NoLossImplies == NoLossInv => NoSilentLoss
<1> SUFFICES ASSUME NoLossInv, NEW s \in Subscribers, NEW e \in due[s] \ lost[s]
             PROVE  e \in Told(received[s] \cup InQueue(s)) \cup Owed(s) \cup InHand(s)
  BY DEF NoSilentLoss
<1>1. Accounted(s, e)
  BY DEF NoLossInv
<1>2. CASE \E item \in received[s] \cup InQueue(s) : e \in Tells(item)
  BY <1>2 DEF Told
<1>3. CASE \E p \in Publishers : s \in todo[p] /\ e = event[p]
  BY <1>3 DEF Owed
<1>4. CASE \E p \in Publishers : s \in target[p] /\ e \in drained[p]
  BY <1>4 DEF InHand
<1> QED
  BY <1>1, <1>2, <1>3, <1>4 DEF Accounted

\* A publisher that obeys PublisherShape still does after any step of a thread.
LEMMA ShapeStep ==
    ASSUME NoLossInv, NEW p \in Publishers, Publish(p), NEW q \in Publishers
    PROVE  PublisherShape(q)'
<1>1. /\ PublisherShape(p) /\ PublisherShape(q)
      /\ pc \in [Publishers -> {"idle", "record", "fanout", "drain", "notice", "current"}]
      /\ todo \in [Publishers -> SUBSET Subscribers]
      /\ target \in [Publishers -> SUBSET Subscribers]
  BY DEF NoLossInv, TypeOK
<1>2. CASE DrawId(p) \/ Record(p) \/ PublishReturns(p)
  BY <1>1, <1>2 DEF DrawId, Record, PublishReturns, PublisherShape
<1>3. ASSUME NEW s \in Subscribers, Enqueue(p, s)
      PROVE  PublisherShape(q)'
  BY <1>1, <1>3 DEF Enqueue, PublisherShape
<1>4. ASSUME NEW s \in Subscribers, EnqueueFull(p, s)
      PROVE  PublisherShape(q)'
  BY <1>1, <1>4 DEF EnqueueFull, PublisherShape
<1>5. ASSUME NEW s \in Subscribers, DrainOne(p, s) \/ DrainEnd(p, s) \/ PutNotice(p, s)
      PROVE  PublisherShape(q)'
  BY <1>1, <1>5 DEF DrainOne, DrainEnd, PutNotice, PublisherShape
<1>6. ASSUME NEW s \in Subscribers, PutCurrent(p, s) \/ PutRaises(p, s)
      PROVE  PublisherShape(q)'
  BY <1>1, <1>6 DEF PutCurrent, PutRaises, PublisherShape
<1> QED
  BY <1>2, <1>3, <1>4, <1>5, <1>6 DEF Publish

\* A step that leaves queues and yielded items alone, and takes nothing from what
\* publishers owe or hold, keeps every account.
LEMMA AccountedKept ==
    ASSUME NEW t \in Subscribers, NEW e, Accounted(t, e),
           queue'[t] = queue[t], received'[t] = received[t],
           \A p \in Publishers : t \in todo[p] => t \in todo'[p] /\ event'[p] = event[p],
           \A p \in Publishers : t \in target[p] => t \in target'[p] /\ drained[p] \subseteq drained'[p]
    PROVE  Accounted(t, e)'
BY DEF Accounted, InQueue

\* Each step of publish() moves an event from one account to another, or to lost.
LEMMA AccountsPublish ==
    ASSUME NoLossInv, NEW p \in Publishers, Publish(p),
           NEW t \in Subscribers, NEW e \in due'[t]
    PROVE  e \in lost'[t] \/ Accounted(t, e)'
<1>1. TypeOK /\ PublisherShape(p) /\ \A x \in due[t] : x \in lost[t] \/ Accounted(t, x)
  BY DEF NoLossInv
<1>2. CASE DrawId(p)
  <2>1. todo[p] = {} /\ target[p] = {}
    BY <1>1, <1>2 DEF DrawId, PublisherShape
  <2>2. /\ \A q \in Publishers : t \in todo[q] => t \in todo'[q] /\ event'[q] = event[q]
        /\ UNCHANGED <<queue, received, target, drained, due, lost>>
    BY <1>1, <1>2, <2>1 DEF DrawId, subVars, TypeOK
  <2> QED
    BY <1>1, <2>2, AccountedKept
<1>3. CASE Record(p)
  <2>1. todo[p] = {} /\ target[p] = {}
    BY <1>1, <1>3 DEF Record, PublisherShape
  <2>2. /\ \A q \in Publishers : t \in todo[q] => t \in todo'[q] /\ event'[q] = event[q]
        /\ UNCHANGED <<queue, received, event, target, drained, lost>>
    BY <1>1, <1>3, <2>1 DEF Record, subVars, TypeOK
  <2>3. CASE e \in due[t]
    BY <1>1, <2>2, <2>3, AccountedKept
  <2>4. CASE e \notin due[t]
    <3>1. t \in todo'[p] /\ e = event'[p]
      BY <1>1, <1>3, <2>4 DEF Record, TypeOK
    <3> QED
      BY <3>1 DEF Accounted
  <2> QED
    BY <2>3, <2>4
<1>4. CASE PublishReturns(p)
  <2>1. UNCHANGED <<queue, received, todo, event, target, drained, due, lost>>
    BY <1>4 DEF PublishReturns, subVars
  <2> QED
    BY <1>1, <2>1, AccountedKept
<1>5. ASSUME NEW s \in Subscribers, Enqueue(p, s)
      PROVE  e \in lost'[t] \/ Accounted(t, e)'
  <2>1. /\ event[p] \in EventId /\ EventItem(event[p]) \in Item
        /\ UNCHANGED <<received, event, target, drained, due, lost>>
    BY <1>1, <1>5, EventItemType DEF Enqueue, TypeOK, EventId, NoId, subVars
  <2>2. /\ InQueue(s)' = InQueue(s) \cup {EventItem(event[p])}
        /\ t # s => queue'[t] = queue[t]
    BY <1>1, <1>5, <2>1, ElementsAppend DEF Enqueue, Put, InQueue, TypeOK
  <2>3. event[p] \in Tells(EventItem(event[p]))
    BY <2>1, EventItemType DEF Tells
  <2>4. \A q \in Publishers : t \in todo[q] => t \in todo'[q] \/ (q = p /\ t = s)
    BY <1>1, <1>5 DEF Enqueue, TypeOK
  <2> QED
    BY <1>1, <2>1, <2>2, <2>3, <2>4 DEF Accounted, InQueue
<1>6. ASSUME NEW s \in Subscribers, EnqueueFull(p, s)
      PROVE  e \in lost'[t] \/ Accounted(t, e)'
  <2>1. target[p] = {}
    BY <1>1, <1>6 DEF EnqueueFull, PublisherShape
  <2>2. /\ \A q \in Publishers : t \in target[q] => t \in target'[q] /\ drained[q] \subseteq drained'[q]
        /\ UNCHANGED <<queue, received, event, todo, due, lost>>
    BY <1>1, <1>6, <2>1 DEF EnqueueFull, subVars, TypeOK
  <2> QED
    BY <1>1, <2>2, AccountedKept
<1>7. ASSUME NEW s \in Subscribers, DrainOne(p, s)
      PROVE  e \in lost'[t] \/ Accounted(t, e)'
  <2>1. /\ InQueue(s) = InQueue(s)' \cup {Head(queue[s])}
        /\ t # s => queue'[t] = queue[t]
    BY <1>1, <1>7, ElementsTail DEF DrainOne, InQueue, TypeOK
  <2>2. /\ drained'[p] = drained[p] \cup Tells(Head(queue[s]))
        /\ \A q \in Publishers : drained[q] \subseteq drained'[q]
        /\ s \in target[p]
        /\ UNCHANGED <<received, event, todo, target, due, lost>>
    BY <1>1, <1>7 DEF DrainOne, AlsoMissed, TypeOK, subVars
  <2> QED
    BY <1>1, <2>1, <2>2 DEF Accounted, InQueue
<1>8. ASSUME NEW s \in Subscribers, DrainEnd(p, s)
      PROVE  e \in lost'[t] \/ Accounted(t, e)'
  <2>1. UNCHANGED <<queue, received, event, todo, target, drained, due, lost>>
    BY <1>8 DEF DrainEnd, subVars
  <2> QED
    BY <1>1, <2>1, AccountedKept
<1>9. ASSUME NEW s \in Subscribers, PutNotice(p, s)
      PROVE  e \in lost'[t] \/ Accounted(t, e)'
  <2> DEFINE n == LaggingNotice(event[p], drained[p])
  <2>0. event[p] \in EventId /\ drained[p] \in SUBSET EventId
    BY <1>1, <1>9 DEF PutNotice, TypeOK, EventId, NoId
  <2>1. /\ n \in Item /\ Tells(n) = drained[p]
        /\ UNCHANGED <<received, event, todo, target, due, lost>>
    BY <2>0, <1>9, LaggingNoticeType DEF PutNotice, subVars, Tells, LaggingNotice
  <2>2. /\ InQueue(s)' = InQueue(s) \cup {n}
        /\ t # s => queue'[t] = queue[t]
    BY <1>1, <1>9, <2>1, ElementsAppend DEF PutNotice, Put, InQueue, TypeOK
  <2>3. /\ \A q \in Publishers : q # p => drained'[q] = drained[q]
        /\ target[p] = {s}
    BY <1>1, <1>9 DEF PutNotice, TypeOK, PublisherShape
  <2> QED
    BY <1>1, <2>1, <2>2, <2>3 DEF Accounted, InQueue
<1>10. ASSUME NEW s \in Subscribers, PutCurrent(p, s)
       PROVE  e \in lost'[t] \/ Accounted(t, e)'
  <2>0. event[p] \in EventId
    BY <1>1, <1>10 DEF PutCurrent, TypeOK, EventId, NoId
  <2>1. /\ EventItem(event[p]) \in Item /\ event[p] \in Tells(EventItem(event[p]))
        /\ UNCHANGED <<received, event, due>>
    BY <2>0, <1>10, EventItemType DEF PutCurrent, subVars, Tells
  <2>2. /\ InQueue(s)' = InQueue(s) \cup {EventItem(event[p])}
        /\ t # s => queue'[t] = queue[t]
    BY <1>1, <1>10, <2>1, ElementsAppend DEF PutCurrent, Put, InQueue, TypeOK
  <2>3. \A q \in Publishers : t \in todo[q] => t \in todo'[q] \/ (q = p /\ t = s)
    BY <1>1, <1>10 DEF PutCurrent, TypeOK
  <2>4. /\ \A q \in Publishers : q # p => drained'[q] = drained[q] /\ target'[q] = target[q]
        /\ target[p] = {s} /\ lost[t] \subseteq lost'[t] /\ drained[p] \subseteq lost'[s]
    BY <1>1, <1>10 DEF PutCurrent, TypeOK, PublisherShape
  <2> QED
    BY <1>1, <2>1, <2>2, <2>3, <2>4 DEF Accounted, InQueue
<1>11. ASSUME NEW s \in Subscribers, PutRaises(p, s)
       PROVE  e \in lost'[t] \/ Accounted(t, e)'
  <2>1. UNCHANGED <<queue, received, event, due>>
    BY <1>11 DEF PutRaises, subVars
  <2>2. /\ \A q \in Publishers : q # p =>
              drained'[q] = drained[q] /\ target'[q] = target[q] /\ todo'[q] = todo[q]
        /\ target[p] = {s} /\ lost[t] \subseteq lost'[t] /\ drained[p] \subseteq lost'[s]
        /\ t \in todo[p] => event[p] \in lost'[t]
    BY <1>1, <1>11 DEF PutRaises, TypeOK, PublisherShape
  <2> QED
    BY <1>1, <2>1, <2>2 DEF Accounted, InQueue
<1> QED
  BY <1>2, <1>3, <1>4, <1>5, <1>6, <1>7, <1>8, <1>9, <1>10, <1>11 DEF Publish

\* The generator only moves items from the queue to what it has yielded.
LEMMA AccountsStream ==
    ASSUME NoLossInv, NEW s \in Subscribers, AnyStream(s),
           NEW t \in Subscribers, NEW e \in due'[t]
    PROVE  e \in lost'[t] \/ Accounted(t, e)'
<1>1. TypeOK /\ \A x \in due[t] : x \in lost[t] \/ Accounted(t, x)
  BY DEF NoLossInv
<1>2. UNCHANGED <<event, todo, target, drained, due, lost>>
  BY DEF AnyStream, Subscribe, YieldReplay, YieldLive, Unsubscribe, pubVars
<1>3. CASE YieldLive(s)
  <2>1. /\ InQueue(s) = InQueue(s)' \cup {Head(queue[s])}
        /\ t # s => queue'[t] = queue[t]
    BY <1>1, <1>3, ElementsTail DEF YieldLive, InQueue, TypeOK
  <2>2. received[t] \subseteq received'[t] /\ Head(queue[s]) \in received'[s]
    BY <1>1, <1>3 DEF YieldLive, TypeOK
  <2> QED
    BY <1>1, <1>2, <2>1, <2>2 DEF Accounted, InQueue
<1>4. CASE ~YieldLive(s)
  <2>1. queue' = queue /\ received[t] \subseteq received'[t]
    <3>1. ASSUME NEW l \in 0 .. MaxEvents, Subscribe(s, l)
          PROVE  queue' = queue /\ received' = received
      BY <3>1 DEF Subscribe
    <3>2. ASSUME YieldReplay(s)
          PROVE  queue' = queue /\ received[t] \subseteq received'[t]
      <4>1. \/ received' = received
            \/ received' = [received EXCEPT ![s] = @ \cup {Head(replay[s])}]
        BY <3>2 DEF YieldReplay
      <4> QED
        BY <1>1, <3>2, <4>1 DEF YieldReplay, TypeOK
    <3>3. ASSUME Unsubscribe(s)
          PROVE  queue' = queue /\ received' = received
      BY <3>3 DEF Unsubscribe
    <3> QED
      BY <1>4, <3>1, <3>2, <3>3 DEF AnyStream
  <2> QED
    BY <1>1, <1>2, <2>1 DEF Accounted, InQueue
<1> QED
  BY <1>3, <1>4

\* Every step of the hub keeps NoLossInv.
LEMMA NoLossStep ==
    ASSUME NoLossInv, [AnyNext]_vars
    PROVE  NoLossInv'
<1>1. ASSUME NEW p \in Publishers, Publish(p)
      PROVE  NoLossInv'
  BY <1>1, TypeStepPublish, ShapeStep, AccountsPublish DEF NoLossInv
<1>2. ASSUME NEW s \in Subscribers, AnyStream(s)
      PROVE  NoLossInv'
  <2>1. \A p \in Publishers : PublisherShape(p)'
    BY <1>2 DEF NoLossInv, PublisherShape, AnyStream, Subscribe, YieldReplay, YieldLive, Unsubscribe, pubVars
  <2> QED
    BY <1>2, <2>1, TypeStepStream, AccountsStream DEF NoLossInv
<1>3. CASE UNCHANGED vars
  BY <1>3 DEF vars, pubVars, subVars, NoLossInv, TypeOK, PublisherShape, Accounted, InQueue
<1> QED
  BY <1>1, <1>2, <1>3 DEF AnyNext

\* Every event recorded for a registered subscription reaches it, is reported
\* missed, or was lost in a publish() that raised queue.Full (or in a queue of
\* one slot): for any number of publishers, subscriptions and queue sizes.
THEOREM NoSilentLossHolds == Spec => []NoSilentLoss
<1>1. NoLossInv /\ [Next]_vars => NoLossInv'
  BY NextIsAny, NoLossStep DEF NoLossInv
<1> QED
  BY NoLossInit, <1>1, NoLossImplies, PTL DEF Spec

-----------------------------------------------------------------------------
(* One publisher *)

\* While one publisher replaces a queue nobody else puts into it, so the two
\* puts that follow the drain always find room.
RoomAfterDrain ==
    \A p \in Publishers : \A s \in target[p] :
        /\ pc[p] = "notice" => Len(queue[s]) = 0
        /\ pc[p] = "current" => Len(queue[s]) <= 1 /\ drained[p] = {}

LosesNothingInv ==
    /\ TypeOK
    /\ \A p \in Publishers : PublisherShape(p)
    /\ RoomAfterDrain
    /\ \A s \in Subscribers : lost[s] = {}

\* With a single publisher p every step of p keeps LosesNothingInv.
LEMMA LosesNothingPublish ==
    ASSUME NoLossInv, LosesNothingInv, QueueSize > 1,
           NEW p \in Publishers, Publishers = {p}, Publish(p)
    PROVE  RoomAfterDrain' /\ \A s \in Subscribers : lost'[s] = {}
<1> USE SizesAssumption
<1>1. TypeOK /\ PublisherShape(p)
  BY DEF LosesNothingInv
<1>2. CASE DrawId(p) \/ Record(p) \/ PublishReturns(p)
  BY <1>1, <1>2 DEF DrawId, Record, PublishReturns, LosesNothingInv, RoomAfterDrain, TypeOK, PublisherShape
<1>3. ASSUME NEW s \in Subscribers, Enqueue(p, s) \/ EnqueueFull(p, s)
      PROVE  RoomAfterDrain' /\ \A t \in Subscribers : lost'[t] = {}
  BY <1>1, <1>3 DEF Enqueue, EnqueueFull, LosesNothingInv, RoomAfterDrain, TypeOK, PublisherShape
<1>4. ASSUME NEW s \in Subscribers, DrainOne(p, s)
      PROVE  RoomAfterDrain' /\ \A t \in Subscribers : lost'[t] = {}
  BY <1>1, <1>4 DEF DrainOne, LosesNothingInv, RoomAfterDrain, TypeOK
<1>5. ASSUME NEW s \in Subscribers, DrainEnd(p, s)
      PROVE  RoomAfterDrain' /\ \A t \in Subscribers : lost'[t] = {}
  <2>1. target[p] = {s} /\ pc'[p] = "notice" /\ Len(queue[s]) = 0
    BY <1>1, <1>5 DEF DrainEnd, TypeOK, PublisherShape
  <2> QED
    BY <1>5, <2>1 DEF DrainEnd, LosesNothingInv, RoomAfterDrain
<1>6. ASSUME NEW s \in Subscribers, PutNotice(p, s)
      PROVE  RoomAfterDrain' /\ \A t \in Subscribers : lost'[t] = {}
  <2>1. target[p] = {s} /\ target' = target /\ pc'[p] = "current" /\ drained'[p] = {}
    BY <1>1, <1>6 DEF PutNotice, TypeOK, PublisherShape
  <2>2. Len(queue'[s]) <= 1
    BY <1>1, <1>6 DEF PutNotice, Put, LosesNothingInv, RoomAfterDrain, TypeOK
  <2> QED
    BY <1>6, <2>1, <2>2 DEF PutNotice, LosesNothingInv, RoomAfterDrain
<1>7. ASSUME NEW s \in Subscribers, PutCurrent(p, s)
      PROVE  RoomAfterDrain' /\ \A t \in Subscribers : lost'[t] = {}
  BY <1>1, <1>7 DEF PutCurrent, LosesNothingInv, RoomAfterDrain, TypeOK
<1>8. ASSUME NEW s \in Subscribers
      PROVE  ~PutRaises(p, s)
  BY <1>1, <1>8 DEF PutRaises, Room, LosesNothingInv, RoomAfterDrain, TypeOK
<1> QED
  BY <1>2, <1>3, <1>4, <1>5, <1>6, <1>7, <1>8 DEF Publish

\* Readers only take items out of queues.
LEMMA LosesNothingStream ==
    ASSUME LosesNothingInv, NEW s \in Subscribers, AnyStream(s)
    PROVE  RoomAfterDrain' /\ \A t \in Subscribers : lost'[t] = {}
<1>1. UNCHANGED <<pc, target, drained, lost>>
  BY DEF AnyStream, Subscribe, YieldReplay, YieldLive, Unsubscribe, pubVars
<1>2. \A t \in Subscribers : Len(queue'[t]) <= Len(queue[t])
  <2>1. queue' = queue \/ (queue[s] # <<>> /\ queue' = [queue EXCEPT ![s] = Tail(@)])
    BY DEF AnyStream, Subscribe, YieldReplay, YieldLive, Unsubscribe
  <2>2. queue \in [Subscribers -> Seq(Item)]
    BY DEF LosesNothingInv, TypeOK
  <2> QED
    BY <2>1, <2>2
<1>3. \A t \in Subscribers : Len(queue[t]) \in Nat /\ Len(queue'[t]) \in Nat
  BY TypeStepStream DEF LosesNothingInv, TypeOK
<1>4. ASSUME NEW p \in Publishers, NEW t \in target'[p]
      PROVE  /\ pc'[p] = "notice" => Len(queue'[t]) = 0
             /\ pc'[p] = "current" => Len(queue'[t]) <= 1 /\ drained'[p] = {}
  <2>1. t \in target[p] /\ t \in Subscribers
    BY <1>1, <1>4 DEF LosesNothingInv, TypeOK
  <2>2. /\ pc[p] = "notice" => Len(queue[t]) = 0
        /\ pc[p] = "current" => Len(queue[t]) <= 1 /\ drained[p] = {}
    BY <2>1 DEF LosesNothingInv, RoomAfterDrain
  <2> QED
    BY <1>1, <1>2, <1>3, <2>1, <2>2
<1> QED
  BY <1>1, <1>4 DEF LosesNothingInv, RoomAfterDrain

LEMMA LosesNothingStep ==
    ASSUME NoLossInv, LosesNothingInv, QueueSize > 1,
           NEW p \in Publishers, Publishers = {p}, [AnyNext]_vars
    PROVE  LosesNothingInv'
<1>1. RoomAfterDrain' /\ \A s \in Subscribers : lost'[s] = {}
  <2>1. CASE Publish(p)
    BY <2>1, LosesNothingPublish
  <2>2. ASSUME NEW s \in Subscribers, AnyStream(s)
        PROVE  RoomAfterDrain' /\ \A t \in Subscribers : lost'[t] = {}
    BY <2>2, LosesNothingStream
  <2>3. CASE UNCHANGED vars
    BY <2>3 DEF vars, pubVars, LosesNothingInv, RoomAfterDrain
  <2> QED
    BY <2>1, <2>2, <2>3 DEF AnyNext
<1> QED
  BY <1>1, NoLossStep DEF LosesNothingInv, NoLossInv

LEMMA LosesNothingInit == Init => LosesNothingInv
BY NoLossInit DEF Init, LosesNothingInv, NoLossInv, RoomAfterDrain

\* publish() never raises queue.Full and nothing is lost without a notice when
\* one thread publishes and queues have room for a notice, for every queue size
\* above one, every window and any number of readers however slow.
THEOREM OnePublisherLosesNothingHolds == Spec => []OnePublisherLosesNothing
<1>1. CASE Cardinality(Publishers) = 1 /\ QueueSize > 1
  <2>1. PICK p \in Publishers : Publishers = {p}
    BY <1>1, SizesAssumption, FS_Singleton
  <2>2. NoLossInv /\ LosesNothingInv /\ [Next]_vars => (NoLossInv /\ LosesNothingInv)'
    BY <1>1, <2>1, NextIsAny, NoLossStep, LosesNothingStep DEF NoLossInv
  <2>3. LosesNothingInv => OnePublisherLosesNothing
    BY DEF LosesNothingInv, OnePublisherLosesNothing
  <2> QED
    BY NoLossInit, LosesNothingInit, <2>2, <2>3, PTL DEF Spec
<1>2. CASE ~(Cardinality(Publishers) = 1 /\ QueueSize > 1)
  <2>1. OnePublisherLosesNothing
    BY <1>2 DEF OnePublisherLosesNothing
  <2> QED
    BY <2>1, PTL
<1> QED
  BY <1>1, <1>2


-----------------------------------------------------------------------------
(* Events in a sequence of items *)

Holds(q, e) == \E i \in 1 .. Len(q) : q[i].kind = "event" /\ q[i].id = e

NoRepeats(q) ==
    \A i, j \in 1 .. Len(q) :
        q[i].kind = "event" /\ q[j].kind = "event" /\ q[i].id = q[j].id => i = j

\* Taking the first item out.
LEMMA TakeFirst ==
    ASSUME NEW q \in Seq(Item), q # <<>>, NoRepeats(q)
    PROVE  /\ NoRepeats(Tail(q))
           /\ \A e : Holds(Tail(q), e) => Holds(q, e)
           /\ Head(q).kind = "event" => Holds(q, Head(q).id) /\ ~Holds(Tail(q), Head(q).id)
<1>1. /\ Len(q) \in Nat \ {0} /\ Len(Tail(q)) = Len(q) - 1 /\ Head(q) = q[1]
      /\ \A i \in 1 .. Len(Tail(q)) : Tail(q)[i] = q[i + 1] /\ i + 1 \in 1 .. Len(q)
  OBVIOUS
<1>2. NoRepeats(Tail(q))
  BY <1>1 DEF NoRepeats
<1>3. \A e : Holds(Tail(q), e) => Holds(q, e)
  BY <1>1 DEF Holds
<1>4. Head(q).kind = "event" => Holds(q, Head(q).id) /\ ~Holds(Tail(q), Head(q).id)
  <2>1. 1 \in 1 .. Len(q)
    BY <1>1
  <2>2. \A i \in 1 .. Len(Tail(q)) : i + 1 # 1
    BY <1>1
  <2> QED
    BY <1>1, <2>1, <2>2 DEF Holds, NoRepeats
<1> QED
  BY <1>2, <1>3, <1>4

\* Putting an item behind the others.
LEMMA PutLast ==
    ASSUME NEW q \in Seq(Item), NEW item \in Item, NoRepeats(q),
           item.kind = "event" => ~Holds(q, item.id)
    PROVE  /\ NoRepeats(Append(q, item))
           /\ \A e : Holds(Append(q, item), e)
                        => Holds(q, e) \/ (item.kind = "event" /\ item.id = e)
<1> DEFINE r == Append(q, item)
<1>1. /\ Len(q) \in Nat /\ Len(r) = Len(q) + 1 /\ r[Len(q) + 1] = item
      /\ \A i \in 1 .. Len(q) : r[i] = q[i]
  OBVIOUS
<1>2. \A i \in 1 .. Len(r) : i \in 1 .. Len(q) \/ i = Len(q) + 1
  BY <1>1
<1> HIDE DEF r
<1>3. NoRepeats(r)
  BY <1>1, <1>2 DEF NoRepeats, Holds
<1>4. \A e : Holds(r, e) => Holds(q, e) \/ (item.kind = "event" /\ item.id = e)
  BY <1>1, <1>2 DEF Holds
<1> QED
  BY <1>3, <1>4 DEF r

\* An item before the others.
LEMMA ItemBefore ==
    ASSUME NEW item \in Item, NEW q \in Seq(Item)
    PROVE  LET r == <<item>> \o q
           IN  /\ Len(r) = Len(q) + 1 /\ Len(q) \in Nat
               /\ \A i \in 1 .. Len(r) : \/ i = 1 /\ r[i] = item
                                         \/ i - 1 \in 1 .. Len(q) /\ r[i] = q[i - 1]
OBVIOUS

-----------------------------------------------------------------------------
(* The invariant *)

\* e was recorded: drawn, and by now in the history or older.
Done(e) == e < nextId /\ \A p \in Publishers : pc[p] = "record" => event[p] # e

\* An id is drawn once, and recorded once.
IdsInv ==
    /\ \A p, q \in Publishers :
          pc[p] # "idle" /\ pc[q] # "idle" /\ event[p] = event[q] => p = q
    /\ \A p \in Publishers : pc[p] # "idle" => event[p] < nextId
    /\ \A i \in 1 .. Len(history) : Done(history[i])
    /\ \A i, j \in 1 .. Len(history) : history[i] = history[j] => i = j

\* The places of an event on its way to s.
HasReceived(s, e) == \E item \in received[s] : item.kind = "event" /\ item.id = e
HasReplay(s, e)   == e > last[s] /\ Holds(replay[s], e)
HasQueued(s, e)   == Holds(queue[s], e)
HasOwed(s, e)     == \E p \in Publishers : s \in todo[p] /\ event[p] = e

\* Nothing is on its way to a subscription that does not exist yet.
NothingBefore(s) ==
    phase[s] = "new" => /\ s \notin subscribers /\ received[s] = {}
                        /\ queue[s] = <<>> /\ replay[s] = <<>>
                        /\ \A p \in Publishers : s \notin todo[p]

\* An event is in one place at most, and there only when it was recorded.
OnePlace(s) ==
    \A e \in EventId :
        /\ HasReceived(s, e) => ~HasReplay(s, e) /\ ~HasQueued(s, e) /\ ~HasOwed(s, e)
        /\ HasReplay(s, e) => ~HasQueued(s, e) /\ ~HasOwed(s, e)
        /\ HasQueued(s, e) => ~HasOwed(s, e)
        /\ HasReceived(s, e) \/ Holds(replay[s], e) \/ HasQueued(s, e) => Done(e)

ReaderInv(s) ==
    NothingBefore(s) /\ OnePlace(s) /\ NoRepeats(queue[s]) /\ NoRepeats(replay[s])

TwiceInv == NoLossInv /\ IdsInv /\ \A s \in Subscribers : ReaderInv(s)

\* A reader whom a step leaves alone, but for a publisher that owes it less.
LEMMA ReaderKept ==
    ASSUME TwiceInv, NEW t \in Subscribers,
           phase'[t] = phase[t], last'[t] = last[t], replay'[t] = replay[t],
           received'[t] = received[t], queue'[t] = queue[t],
           t \in subscribers' => t \in subscribers,
           \A p \in Publishers : t \in todo'[p] => t \in todo[p] /\ event'[p] = event[p],
           \A e \in EventId : Done(e) => Done(e)'
    PROVE  ReaderInv(t)'
<1>1. ReaderInv(t)
  BY DEF TwiceInv
<1>2. NothingBefore(t)' /\ NoRepeats(queue[t])' /\ NoRepeats(replay[t])'
  BY <1>1 DEF ReaderInv, NothingBefore, NoRepeats
<1>3. OnePlace(t)'
  <2>1. \A e \in EventId : HasOwed(t, e)' => HasOwed(t, e)
    BY DEF HasOwed
  <2>2. \A e \in EventId : /\ HasReceived(t, e)' <=> HasReceived(t, e)
                           /\ HasReplay(t, e)' <=> HasReplay(t, e)
                           /\ HasQueued(t, e)' <=> HasQueued(t, e)
                           /\ Holds(replay[t], e)' <=> Holds(replay[t], e)
    BY DEF HasReceived, HasReplay, HasQueued, Holds
  <2> QED
    BY <1>1, <2>1, <2>2 DEF ReaderInv, OnePlace
<1> QED
  BY <1>2, <1>3 DEF ReaderInv

\* Ids stay unique, and what was recorded stays recorded.
LEMMA IdsPublish ==
    ASSUME TwiceInv, NEW p \in Publishers, Publish(p)
    PROVE  IdsInv' /\ \A e \in EventId : Done(e) => Done(e)'
<1>1. TypeOK /\ IdsInv /\ \A i \in 1 .. Len(history) : history[i] \in EventId
  BY DEF TwiceInv, NoLossInv, TypeOK
<1>2. CASE DrawId(p)
  <2>1. /\ nextId \in Nat /\ nextId' = nextId + 1 /\ history' = history
        /\ pc' = [pc EXCEPT ![p] = "record"] /\ event' = [event EXCEPT ![p] = nextId]
    BY <1>1, <1>2 DEF DrawId, TypeOK
  <2>2. \A q \in Publishers : q # p => pc'[q] = pc[q] /\ event'[q] = event[q] /\ event[q] \in Nat
    BY <1>1, <2>1 DEF TypeOK
  <2>3. pc'[p] = "record" /\ event'[p] = nextId
    BY <1>1, <2>1 DEF TypeOK
  <2>4. \A e \in EventId : Done(e) => Done(e)'
    BY <2>1, <2>2, <2>3 DEF Done, EventId
  <2> QED
    BY <1>1, <2>1, <2>2, <2>3, <2>4 DEF IdsInv
<1>3. CASE Record(p)
  <2>1. /\ pc' = [pc EXCEPT ![p] = "fanout"] /\ UNCHANGED <<nextId, event>>
        /\ pc[p] = "record" /\ event[p] \in EventId
    BY <1>1, <1>3 DEF Record, TypeOK, EventId, NoId
  <2>2. \A q \in Publishers : pc'[q] = "record" => pc[q] = "record" /\ q # p
    BY <1>1, <2>1 DEF TypeOK
  <2>3. \A e \in EventId : Done(e) => Done(e)'
    BY <2>1, <2>2 DEF Done
  <2>4. Done(event[p])' /\ ~Done(event[p])
    BY <1>1, <2>1, <2>2 DEF Done, IdsInv
  <2>5. \A i \in 1 .. Len(history') :
           \/ i = Len(history') /\ history'[i] = event[p]
           \/ /\ i # Len(history')
              /\ IF Len(history) < ReplaySize THEN i \in 1 .. Len(history) /\ history'[i] = history[i]
                 ELSE i + 1 \in 1 .. Len(history) /\ history'[i] = history[i + 1]
    BY <1>1, <1>3, SizesAssumption DEF Record, Appended, TypeOK
  <2>6. \A i, j \in 1 .. Len(history') : history'[i] = history'[j] => i = j
    <3>1. Len(history') \in Nat /\ Len(history) \in Nat
      BY <1>1, <1>3 DEF Record, Appended, TypeOK
    <3>2. \A i \in 1 .. Len(history') : i # Len(history') => history'[i] # event[p]
      BY <1>1, <2>4, <2>5 DEF IdsInv
    <3>3. TAKE i, j \in 1 .. Len(history')
    <3>4. CASE i = Len(history') \/ j = Len(history')
      BY <2>5, <3>2, <3>4
    <3>5. CASE i # Len(history') /\ j # Len(history')
      BY <1>1, <2>5, <3>1, <3>5 DEF IdsInv
    <3> QED
      BY <3>4, <3>5
  <2>7. \A i \in 1 .. Len(history') : Done(history[i])'
    <3>1. \A i \in 1 .. Len(history) : Done(history[i]) /\ history[i] \in EventId
      BY <1>1 DEF IdsInv
    <3>2. \A i \in 1 .. Len(history') :
             history'[i] = event[p] \/ \E j \in 1 .. Len(history) : history'[i] = history[j]
      BY <2>5
    <3> QED
      BY <2>1, <2>2, <2>3, <2>4, <3>1, <3>2 DEF Done
  <2>8. \A q \in Publishers : pc'[q] # "idle" => pc[q] # "idle"
    BY <1>1, <2>1 DEF TypeOK
  <2> QED
    BY <1>1, <2>1, <2>3, <2>6, <2>7, <2>8 DEF IdsInv
<1>4. CASE ~(DrawId(p) \/ Record(p))
  <2>1. UNCHANGED <<nextId, history, event>>
    BY <1>4 DEF Publish, PublishReturns, Enqueue, EnqueueFull, DrainOne, DrainEnd, PutNotice, PutCurrent, PutRaises
  <2>2. \A q \in Publishers : /\ pc'[q] # "idle" => pc[q] # "idle"
                              /\ pc'[q] = "record" => pc[q] = "record"
    BY <1>1, <1>4 DEF TypeOK, Publish, PublishReturns, Enqueue, EnqueueFull, DrainOne, DrainEnd,
                      PutNotice, PutCurrent, PutRaises
  <2>3. \A e : Done(e) => Done(e)'
    BY <2>1, <2>2 DEF Done
  <2> QED
    BY <1>1, <2>1, <2>2, <2>3 DEF IdsInv, Done
<1> QED
  BY <1>2, <1>3, <1>4

\* A reader gets the event a publisher owes it, by _enqueue_event or at the end of
\* a replacement.
LEMMA ReaderServed ==
    ASSUME TwiceInv, NEW p \in Publishers, NEW s \in Subscribers, Enqueue(p, s) \/ PutCurrent(p, s),
           \A e \in EventId : Done(e) => Done(e)'
    PROVE  ReaderInv(s)'
<1> DEFINE e0 == event[p]
<1>1. TypeOK /\ IdsInv /\ ReaderInv(s) /\ PublisherShape(p)
  BY DEF TwiceInv, NoLossInv
<1>2. /\ s \in todo[p] /\ pc[p] \notin {"idle", "record"}
      /\ UNCHANGED <<phase, last, replay, received, subscribers, event>>
      /\ queue'[s] = Append(queue[s], EventItem(e0))
      /\ todo' = [todo EXCEPT ![p] = @ \ {s}]
  BY <1>1 DEF Enqueue, PutCurrent, Put, TypeOK, PublisherShape, subVars
<1>3. e0 \in EventId /\ EventItem(e0) \in Item /\ EventItem(e0).kind = "event" /\ EventItem(e0).id = e0
  BY <1>1, <1>2, EventItemType DEF TypeOK, EventId, NoId
<1>4. HasOwed(s, e0) /\ Done(e0)
  BY <1>1, <1>2 DEF HasOwed, Done, IdsInv
<1>5. ~HasReceived(s, e0) /\ ~HasReplay(s, e0) /\ ~Holds(queue[s], e0)
  BY <1>1, <1>3, <1>4 DEF ReaderInv, OnePlace, HasQueued
<1>6. /\ NoRepeats(queue'[s])
      /\ \A e \in EventId : Holds(queue'[s], e) => Holds(queue[s], e) \/ e = e0
  BY <1>1, <1>2, <1>3, <1>5, PutLast DEF TypeOK, ReaderInv
<1>7. \A e \in EventId : HasOwed(s, e)' => HasOwed(s, e) /\ e # e0
  <2>1. ASSUME NEW q \in Publishers, s \in todo'[q]
        PROVE  s \in todo[q] /\ event'[q] = event[q] /\ q # p
    BY <1>1, <1>2, <2>1 DEF TypeOK
  <2>2. \A q \in Publishers : s \in todo[q] => pc[q] # "idle"
    BY DEF TwiceInv, NoLossInv, PublisherShape
  <2>3. \A q \in Publishers : s \in todo'[q] => event[q] # e0
    BY <1>1, <1>2, <2>1, <2>2 DEF IdsInv
  <2> QED
    BY <2>1, <2>3 DEF HasOwed
<1>8. /\ \A e \in EventId : /\ HasReceived(s, e)' <=> HasReceived(s, e)
                            /\ HasReplay(s, e)' <=> HasReplay(s, e)
                            /\ Holds(replay[s], e)' <=> Holds(replay[s], e)
                            /\ HasQueued(s, e)' <=> Holds(queue'[s], e)
      /\ NoRepeats(queue[s])' <=> NoRepeats(queue'[s])
      /\ NoRepeats(replay[s])' <=> NoRepeats(replay[s])
  BY <1>2 DEF HasReceived, HasReplay, HasQueued, Holds, NoRepeats
<1>9. OnePlace(s)'
  BY <1>1, <1>3, <1>4, <1>5, <1>6, <1>7, <1>8 DEF OnePlace, ReaderInv, HasQueued
<1>10. phase[s] # "new"
  BY <1>1, <1>2 DEF ReaderInv, NothingBefore
<1> QED
  BY <1>1, <1>2, <1>6, <1>8, <1>9, <1>10 DEF ReaderInv, NothingBefore

\* A step of publish() for every reader.
LEMMA ReadersPublish ==
    ASSUME TwiceInv, NEW p \in Publishers, Publish(p), NEW t \in Subscribers
    PROVE  ReaderInv(t)'
<1>1. TypeOK /\ IdsInv /\ ReaderInv(t) /\ PublisherShape(p)
  BY DEF TwiceInv, NoLossInv
<1>2. \A e \in EventId : Done(e) => Done(e)'
  BY IdsPublish
<1>3. UNCHANGED <<phase, last, replay, received, subscribers>>
  BY DEF Publish, DrawId, Record, PublishReturns, Enqueue, EnqueueFull, DrainOne, DrainEnd,
         PutNotice, PutCurrent, PutRaises, subVars
<1>4. CASE DrawId(p)
  <2>1. queue' = queue /\ \A q \in Publishers : t \in todo'[q] => t \in todo[q] /\ event'[q] = event[q]
    BY <1>1, <1>4 DEF DrawId, PublisherShape, TypeOK
  <2> QED
    BY <1>2, <1>3, <2>1, ReaderKept
<1>5. CASE Record(p)
  <2>1. /\ UNCHANGED <<queue, event>> /\ todo' = [todo EXCEPT ![p] = subscribers]
        /\ pc[p] = "record"
    BY <1>5 DEF Record
  <2>2. CASE t \notin subscribers
    <3>1. \A q \in Publishers : t \in todo'[q] => t \in todo[q] /\ event'[q] = event[q]
      BY <1>1, <2>1, <2>2 DEF TypeOK
    <3> QED
      BY <1>2, <1>3, <2>1, <3>1, ReaderKept
  <2>3. CASE t \in subscribers
    <3>1. phase[t] # "new"
      BY <1>1, <2>3 DEF ReaderInv, NothingBefore
    <3>2. ~Done(event[p])
      BY <2>1 DEF Done
    <3>3. \A e \in EventId : HasOwed(t, e)' => HasOwed(t, e) \/ ~Done(e)
      BY <1>1, <2>1, <3>2 DEF HasOwed, TypeOK
    <3>4. \A e \in EventId : /\ HasReceived(t, e)' <=> HasReceived(t, e)
                             /\ HasReplay(t, e)' <=> HasReplay(t, e)
                             /\ HasQueued(t, e)' <=> HasQueued(t, e)
                             /\ Holds(replay[t], e)' <=> Holds(replay[t], e)
      BY <1>3, <2>1 DEF HasReceived, HasReplay, HasQueued, Holds
    <3>5. \A e \in EventId : HasReplay(t, e) => Holds(replay[t], e)
      BY DEF HasReplay
    <3>6. OnePlace(t)'
      BY <1>1, <1>2, <3>3, <3>4, <3>5 DEF OnePlace, ReaderInv
    <3> QED
      BY <1>1, <1>3, <2>1, <3>1, <3>6 DEF ReaderInv, NothingBefore, NoRepeats
  <2> QED
    BY <2>2, <2>3
<1>6. CASE PublishReturns(p)
  BY <1>2, <1>3, <1>6, ReaderKept DEF PublishReturns
<1>7. ASSUME NEW s \in Subscribers, EnqueueFull(p, s) \/ DrainEnd(p, s) \/ PutRaises(p, s)
      PROVE  ReaderInv(t)'
  <2>1. queue' = queue /\ \A q \in Publishers : t \in todo'[q] => t \in todo[q] /\ event'[q] = event[q]
    BY <1>1, <1>7 DEF EnqueueFull, DrainEnd, PutRaises, TypeOK
  <2> QED
    BY <1>2, <1>3, <2>1, ReaderKept
<1>8. ASSUME NEW s \in Subscribers, Enqueue(p, s) \/ PutCurrent(p, s)
      PROVE  ReaderInv(t)'
  <2>1. CASE t = s
    BY <1>2, <1>8, <2>1, ReaderServed
  <2>2. CASE t # s
    <3>1. queue'[t] = queue[t] /\ UNCHANGED event
      BY <1>1, <1>8, <2>2 DEF Enqueue, PutCurrent, Put, TypeOK
    <3>2. todo' = [todo EXCEPT ![p] = @ \ {s}] /\ todo \in [Publishers -> SUBSET Subscribers]
      BY <1>1, <1>8 DEF Enqueue, PutCurrent, TypeOK
    <3>3. \A q \in Publishers : t \in todo'[q] => t \in todo[q]
      BY <3>2
    <3> QED
      BY <1>2, <1>3, <3>1, <3>3, ReaderKept
  <2> QED
    BY <2>1, <2>2
<1>9. ASSUME NEW s \in Subscribers, DrainOne(p, s) \/ PutNotice(p, s)
      PROVE  ReaderInv(t)'
  <2>1. UNCHANGED <<todo, event>>
    BY <1>9 DEF DrainOne, PutNotice
  <2>2. CASE t # s
    <3>1. queue'[t] = queue[t]
      BY <1>1, <1>9, <2>2 DEF DrainOne, PutNotice, Put, TypeOK
    <3> QED
      BY <1>2, <1>3, <2>1, <3>1, ReaderKept
  <2>3. CASE t = s
    <3>1. NoRepeats(queue'[t]) /\ \A e \in EventId : Holds(queue'[t], e) => Holds(queue[t], e)
      <4>1. CASE DrainOne(p, s)
        <5>1. queue[t] \in Seq(Item) /\ queue[t] # <<>> /\ queue'[t] = Tail(queue[t])
          BY <1>1, <2>3, <4>1 DEF DrainOne, TypeOK
        <5> QED
          BY <1>1, <5>1, TakeFirst DEF ReaderInv
      <4>2. CASE PutNotice(p, s)
        <5> DEFINE n == LaggingNotice(event[p], drained[p])
        <5>0. event[p] \in EventId /\ drained[p] \in SUBSET EventId
          BY <1>1, <4>2 DEF PutNotice, TypeOK, EventId, NoId
        <5>1. n \in Item /\ n.kind # "event"
          BY <5>0, LaggingNoticeType DEF LaggingNotice
        <5>2. queue[t] \in Seq(Item) /\ queue'[t] = Append(queue[t], n)
          BY <1>1, <2>3, <4>2 DEF PutNotice, Put, TypeOK
        <5> HIDE DEF n
        <5> QED
          BY <1>1, <5>1, <5>2, PutLast DEF ReaderInv
      <4> QED
        BY <1>9, <4>1, <4>2
    <3>2. /\ \A e \in EventId : /\ HasReceived(t, e)' <=> HasReceived(t, e)
                                /\ HasReplay(t, e)' <=> HasReplay(t, e)
                                /\ Holds(replay[t], e)' <=> Holds(replay[t], e)
                                /\ HasQueued(t, e)' => HasQueued(t, e)
                                /\ HasOwed(t, e)' <=> HasOwed(t, e)
          /\ NoRepeats(queue[t])' /\ NoRepeats(replay[t])'
      BY <1>1, <1>3, <2>1, <3>1 DEF HasReceived, HasReplay, HasQueued, HasOwed, Holds, NoRepeats, ReaderInv
    <3>3. OnePlace(t)'
      BY <1>1, <1>2, <3>2 DEF OnePlace, ReaderInv
    <3>4. NothingBefore(t)'
      <4>1. CASE phase[t] = "new"
        <5>1. queue[t] = <<>>
          BY <1>1, <4>1 DEF ReaderInv, NothingBefore
        <5>2. ~DrainOne(p, s)
          BY <2>3, <5>1 DEF DrainOne
        <5>3. t \in todo[p]
          BY <1>1, <1>9, <2>3 DEF DrainOne, PutNotice, PublisherShape
        <5> QED
          BY <1>1, <4>1, <5>3 DEF ReaderInv, NothingBefore
      <4> QED
        BY <1>3, <4>1 DEF NothingBefore
    <3> QED
      BY <3>2, <3>3, <3>4 DEF ReaderInv
  <2> QED
    BY <2>2, <2>3
<1> QED
  BY <1>4, <1>5, <1>6, <1>7, <1>8, <1>9 DEF Publish

\* A replay repeats the history: no event twice, none that was not recorded.
LEMMA ReplayRecorded ==
    ASSUME TypeOK, IdsInv, NEW l \in 0 .. MaxEvents
    PROVE  /\ NoRepeats(ReplayEvents(l))
           /\ \A e \in EventId : Holds(ReplayEvents(l), e) => Done(e)
<1> DEFINE copy == [i \in 1 .. Len(history) |-> EventItem(history[i])]
           window == <<WindowNotice(l, history[1])>>
<1>1. /\ Len(history) \in Nat /\ \A i \in 1 .. Len(history) : history[i] \in EventId
  BY DEF TypeOK
<1>2. /\ copy \in Seq(Item) /\ Len(copy) = Len(history)
      /\ \A i \in 1 .. Len(copy) : copy[i].kind = "event" /\ copy[i].id = history[i]
  BY <1>1, EventItemType
<1>3. NoRepeats(copy) /\ \A e \in EventId : Holds(copy, e) => Done(e)
  <2> HIDE DEF copy
  <2> QED
    BY <1>2 DEF NoRepeats, Holds, IdsInv
<1>4. CASE l = NoId \/ ~\E i \in 1 .. Len(history) : history[i] > l
  <2>1. ReplayEvents(l) = <<>> /\ Len(<<>>) = 0
    BY <1>4 DEF ReplayEvents
  <2> QED
    BY <2>1 DEF NoRepeats, Holds
<1>5. CASE ~(l = NoId \/ ~\E i \in 1 .. Len(history) : history[i] > l)
  <2>1. history[1] \in EventId
    BY <1>1, <1>5
  <2>2. window[1] \in Item /\ window = <<window[1]>> /\ window[1].kind = "window"
    BY <2>1, WindowNoticeType DEF WindowNotice
  <2> DEFINE r == window \o copy
  <2>3. NoRepeats(r) /\ \A e \in EventId : Holds(r, e) => Done(e)
    <3>1. \A i \in 1 .. Len(r) : \/ i = 1 /\ r[i].kind = "window"
                                 \/ i - 1 \in 1 .. Len(copy) /\ r[i] = copy[i - 1]
      <4> HIDE DEF copy
      <4> QED
        BY <1>2, <2>2, ItemBefore
    <3>2. Len(r) \in Nat
      BY <1>2, <2>2, ItemBefore
    <3> HIDE DEF r, copy
    <3>3. NoRepeats(r)
      <4> SUFFICES ASSUME NEW i \in 1 .. Len(r), NEW j \in 1 .. Len(r),
                          r[i].kind = "event", r[j].kind = "event", r[i].id = r[j].id
                   PROVE  i = j
        BY DEF NoRepeats
      <4>1. /\ i - 1 \in 1 .. Len(copy) /\ r[i] = copy[i - 1]
            /\ j - 1 \in 1 .. Len(copy) /\ r[j] = copy[j - 1]
        BY <3>1
      <4>2. i - 1 = j - 1
        BY <1>3, <4>1 DEF NoRepeats
      <4> QED
        BY <3>2, <4>2
    <3>4. \A e \in EventId : Holds(r, e) => Holds(copy, e)
      BY <3>1 DEF Holds
    <3> QED
      BY <1>3, <3>3, <3>4
  <2>4. ReplayEvents(l) = IF GapBefore(l) THEN r ELSE copy
    BY <1>5 DEF ReplayEvents
  <2> HIDE DEF r, copy
  <2> QED
    BY <1>3, <2>3, <2>4
<1> QED
  BY <1>4, <1>5

\* A step of a subscription or its generator, for itself.
LEMMA ReaderStream ==
    ASSUME TwiceInv, NEW s \in Subscribers, AnyStream(s)
    PROVE  ReaderInv(s)'
<1>1. TypeOK /\ IdsInv /\ ReaderInv(s)
  BY DEF TwiceInv, NoLossInv
<1>2. UNCHANGED <<nextId, history, pc, event, todo>>
  BY DEF AnyStream, Subscribe, YieldReplay, YieldLive, Unsubscribe, pubVars
<1>3. \A e \in EventId : (Done(e) => Done(e)') /\ (HasOwed(s, e)' <=> HasOwed(s, e))
  BY <1>2 DEF Done, HasOwed
<1>4. ASSUME NEW l \in 0 .. MaxEvents, Subscribe(s, l)
      PROVE  ReaderInv(s)'
  <2>1. l \in 0 .. MaxEvents
    OBVIOUS
  <2>2. /\ received'[s] = {} /\ queue'[s] = <<>> /\ replay'[s] = ReplayEvents(l)
        /\ phase'[s] = "open" /\ \A p \in Publishers : s \notin todo'[p]
    BY <1>1, <1>4 DEF Subscribe, ReaderInv, NothingBefore, TypeOK, pubVars
  <2>3. \A e \in EventId : ~HasReceived(s, e)' /\ ~HasQueued(s, e)' /\ ~HasOwed(s, e)'
    BY <2>2 DEF HasReceived, HasQueued, HasOwed, Holds
  <2>4. \A e \in EventId : Holds(replay[s], e)' => Done(e)'
    <3>1. \A e \in EventId : Holds(replay'[s], e) => Done(e)'
      BY <1>1, <1>3, <2>1, <2>2, ReplayRecorded
    <3> QED
      BY <3>1 DEF Holds
  <2>5. NoRepeats(queue[s])' /\ NoRepeats(replay[s])'
    <3>1. NoRepeats(replay'[s])
      BY <1>1, <2>1, <2>2, ReplayRecorded
    <3> QED
      BY <2>2, <3>1 DEF NoRepeats
  <2> QED
    BY <2>2, <2>3, <2>4, <2>5 DEF ReaderInv, OnePlace, NothingBefore
<1>5. CASE YieldReplay(s)
  <2> DEFINE h == Head(replay[s])
  <2>1. /\ replay[s] \in Seq(Item) /\ replay[s] # <<>> /\ replay'[s] = Tail(replay[s])
        /\ UNCHANGED <<queue, phase, last>>
        /\ h \in Item /\ phase[s] = "open"
    BY <1>1, <1>5 DEF YieldReplay, TypeOK
  <2>2. /\ NoRepeats(replay'[s])
        /\ \A e : Holds(replay'[s], e) => Holds(replay[s], e)
        /\ h.kind = "event" => Holds(replay[s], h.id) /\ ~Holds(replay'[s], h.id)
    BY <1>1, <2>1, TakeFirst DEF ReaderInv
  <2>3. received'[s] = IF h.kind = "window" \/ h.id > last[s] THEN received[s] \cup {h} ELSE received[s]
    BY <1>1, <1>5 DEF YieldReplay, TypeOK
  <2> HIDE DEF h
  <2>4. \A e \in EventId : HasReceived(s, e)' =>
            \/ HasReceived(s, e)
            \/ HasReplay(s, e) /\ ~Holds(replay'[s], e)
    BY <2>2, <2>3 DEF HasReceived, HasReplay
  <2>5. /\ \A e \in EventId : /\ HasReplay(s, e)' => HasReplay(s, e) /\ Holds(replay'[s], e)
                              /\ Holds(replay[s], e)' => Holds(replay[s], e)
                              /\ HasQueued(s, e)' <=> HasQueued(s, e)
                              /\ HasReplay(s, e) => Holds(replay[s], e)
        /\ NoRepeats(queue[s])' /\ NoRepeats(replay[s])'
    BY <1>1, <2>1, <2>2 DEF HasReplay, HasQueued, Holds, NoRepeats, ReaderInv
  <2>6. OnePlace(s)'
    BY <1>1, <1>3, <2>4, <2>5 DEF OnePlace, ReaderInv
  <2> QED
    BY <2>1, <2>5, <2>6 DEF ReaderInv, NothingBefore
<1>6. CASE YieldLive(s)
  <2> DEFINE h == Head(queue[s])
  <2>1. /\ queue[s] \in Seq(Item) /\ queue[s] # <<>> /\ queue'[s] = Tail(queue[s])
        /\ UNCHANGED <<replay, phase, last>>
        /\ h \in Item /\ phase[s] = "open"
    BY <1>1, <1>6 DEF YieldLive, TypeOK
  <2>2. /\ NoRepeats(queue'[s])
        /\ \A e : Holds(queue'[s], e) => Holds(queue[s], e)
        /\ h.kind = "event" => Holds(queue[s], h.id) /\ ~Holds(queue'[s], h.id)
    BY <1>1, <2>1, TakeFirst DEF ReaderInv
  <2>3. received'[s] = received[s] \cup {h}
    BY <1>1, <1>6 DEF YieldLive, TypeOK
  <2> HIDE DEF h
  <2>4. \A e \in EventId : HasReceived(s, e)' =>
            \/ HasReceived(s, e)
            \/ HasQueued(s, e) /\ ~Holds(queue'[s], e)
    BY <2>2, <2>3 DEF HasReceived, HasQueued
  <2>5. /\ \A e \in EventId : /\ HasReplay(s, e)' <=> HasReplay(s, e)
                              /\ Holds(replay[s], e)' <=> Holds(replay[s], e)
                              /\ HasQueued(s, e)' => HasQueued(s, e) /\ Holds(queue'[s], e)
        /\ NoRepeats(queue[s])' /\ NoRepeats(replay[s])'
    BY <1>1, <2>1, <2>2 DEF HasReplay, HasQueued, Holds, NoRepeats, ReaderInv
  <2>6. OnePlace(s)'
    BY <1>1, <1>3, <2>4, <2>5 DEF OnePlace, ReaderInv
  <2> QED
    BY <2>1, <2>5, <2>6 DEF ReaderInv, NothingBefore
<1>7. CASE Unsubscribe(s)
  <2>1. UNCHANGED <<queue, replay, received, last>> /\ phase'[s] = "closed"
    BY <1>1, <1>7 DEF Unsubscribe, TypeOK
  <2>2. OnePlace(s)'
    BY <1>1, <1>3, <2>1 DEF OnePlace, ReaderInv, HasReceived, HasReplay, HasQueued, Holds
  <2> QED
    BY <1>1, <2>1, <2>2 DEF ReaderInv, NothingBefore, NoRepeats
<1> QED
  BY <1>4, <1>5, <1>6, <1>7 DEF AnyStream

LEMMA TwiceStep ==
    ASSUME TwiceInv, [AnyNext]_vars
    PROVE  TwiceInv'
<1>1. NoLossInv'
  BY NoLossStep DEF TwiceInv
<1>2. ASSUME NEW p \in Publishers, Publish(p)
      PROVE  TwiceInv'
  BY <1>1, <1>2, IdsPublish, ReadersPublish DEF TwiceInv
<1>3. ASSUME NEW s \in Subscribers, AnyStream(s)
      PROVE  TwiceInv'
  <2>1. UNCHANGED <<nextId, history, pc, event, todo>>
    BY <1>3 DEF AnyStream, Subscribe, YieldReplay, YieldLive, Unsubscribe, pubVars
  <2>2. IdsInv' /\ \A e \in EventId : Done(e) => Done(e)'
    BY <2>1 DEF TwiceInv, IdsInv, Done
  <2>3. ASSUME NEW t \in Subscribers
        PROVE  ReaderInv(t)'
    <3>1. CASE t = s
      BY <1>3, <3>1, ReaderStream
    <3>2. CASE t # s
      <4>1. TypeOK
        BY DEF TwiceInv, NoLossInv
      <4>2. /\ phase'[t] = phase[t] /\ last'[t] = last[t] /\ replay'[t] = replay[t]
            /\ queue'[t] = queue[t] /\ (t \in subscribers' => t \in subscribers)
        BY <1>3, <3>2, <4>1 DEF AnyStream, Subscribe, YieldReplay, YieldLive, Unsubscribe, TypeOK
      <4>3. received'[t] = received[t]
        BY <1>3, <3>2, <4>1 DEF AnyStream, Subscribe, YieldReplay, YieldLive, Unsubscribe, TypeOK
      <4> QED
        BY <2>1, <2>2, <4>2, <4>3, ReaderKept
    <3> QED
      BY <3>1, <3>2
  <2> QED
    BY <1>1, <2>2, <2>3 DEF TwiceInv
<1>4. CASE UNCHANGED vars
  <2>1. UNCHANGED <<nextId, history, pubVars, phase, last, replay, received, queue, subscribers>>
    BY <1>4 DEF vars, subVars
  <2>2. IdsInv' /\ \A e \in EventId : Done(e) => Done(e)'
    BY <2>1 DEF TwiceInv, IdsInv, Done, pubVars
  <2>3. \A t \in Subscribers : ReaderInv(t)'
    BY <2>1, <2>2, ReaderKept DEF pubVars
  <2> QED
    BY <1>1, <2>2, <2>3 DEF TwiceInv
<1> QED
  BY <1>2, <1>3, <1>4 DEF AnyNext

\* The places of TwiceInv are those of NeverTwice.
LEMMA TwiceImplies == TwiceInv => NeverTwice
<1> SUFFICES ASSUME TwiceInv, NEW s \in Subscribers
             PROVE  /\ EventIds(ToReplay(s)) \cap EventIds(received[s]) = {}
                    /\ EventIds(InQueue(s)) \cap (EventIds(received[s]) \cup EventIds(ToReplay(s))) = {}
                    /\ Owed(s) \cap (EventIds(received[s]) \cup EventIds(ToReplay(s)) \cup EventIds(InQueue(s))) = {}
                    /\ \A i, j \in 1 .. Len(queue[s]) :
                          queue[s][i].kind = "event" /\ queue[s][i] = queue[s][j] => i = j
  BY DEF NeverTwice
<1>1. TypeOK /\ ReaderInv(s)
  BY DEF TwiceInv, NoLossInv
<1>2. \A e \in EventIds(received[s]) : e \in EventId /\ HasReceived(s, e)
  BY <1>1 DEF EventIds, HasReceived, TypeOK, Item
<1>3. \A e \in EventIds(ToReplay(s)) : e \in EventId /\ HasReplay(s, e)
  <2> SUFFICES ASSUME NEW item \in ToReplay(s), item.kind = "event"
               PROVE  item.id \in EventId /\ HasReplay(s, item.id)
    BY DEF EventIds
  <2>1. PICK i \in 1 .. Len(replay[s]) : replay[s][i] = item
    BY DEF ToReplay, Elements
  <2>2. item.id > last[s] /\ item \in Item
    BY <1>1, <2>1 DEF ToReplay, TypeOK
  <2> QED
    BY <2>1, <2>2 DEF HasReplay, Holds, Item
<1>4. \A e \in EventIds(InQueue(s)) : e \in EventId /\ HasQueued(s, e)
  <2> SUFFICES ASSUME NEW item \in InQueue(s), item.kind = "event"
               PROVE  item.id \in EventId /\ HasQueued(s, item.id)
    BY DEF EventIds
  <2>1. PICK i \in 1 .. Len(queue[s]) : queue[s][i] = item
    BY DEF InQueue, Elements
  <2>2. item \in Item
    BY <1>1, <2>1 DEF TypeOK
  <2> QED
    BY <2>1, <2>2 DEF HasQueued, Holds, Item
<1>5. \A e \in Owed(s) : HasOwed(s, e)
  BY DEF Owed, HasOwed
<1>6. \A i, j \in 1 .. Len(queue[s]) : queue[s][i].kind = "event" /\ queue[s][i] = queue[s][j] => i = j
  BY <1>1 DEF ReaderInv, NoRepeats
<1> QED
  BY <1>1, <1>2, <1>3, <1>4, <1>5, <1>6 DEF ReaderInv, OnePlace

LEMMA TwiceInit == Init => TwiceInv
<1> SUFFICES ASSUME Init PROVE TwiceInv
  OBVIOUS
<1>1. IdsInv
  BY DEF Init, IdsInv
<1>2. \A s \in Subscribers : ReaderInv(s)
  BY DEF Init, ReaderInv, NothingBefore, OnePlace, NoRepeats, HasReceived, HasReplay, HasQueued, HasOwed, Holds
<1> QED
  BY <1>1, <1>2, NoLossInit DEF TwiceInv

\* A subscription yields no event twice, and its replay and its queue never overlap,
\* for any number of publishers, readers and resumptions and for all sizes.
THEOREM NeverTwiceHolds == Spec => []NeverTwice
<1>1. TwiceInv /\ [Next]_vars => TwiceInv'
  BY NextIsAny, TwiceStep DEF TwiceInv, NoLossInv
<1> QED
  BY TwiceInit, <1>1, TwiceImplies, PTL DEF Spec

-----------------------------------------------------------------------------
(* The hub implements FanOut.  What was recorded for a reader is in its queue, *)
(* owed to it by a publisher, in the hands of one that replaces its queue,     *)
(* heard of, or lost: in one of the five only, and each step moves events from *)
(* one to another.                                                             *)

ToldBy(q) == Told(Elements(q))

\* No two items of a queue tell of the same event.
Apart(q) == \A i, j \in 1 .. Len(q) : i # j => Tells(q[i]) \cap Tells(q[j]) = {}

Sorted(told, owed, hand, heard, gone, all) ==
    /\ told \cap (owed \cup hand) = {} /\ owed \cap hand = {}
    /\ (told \cup owed \cup hand) \cap heard = {}
    /\ gone \cap (told \cup owed \cup hand \cup heard) = {}
    /\ told \cup owed \cup hand \cup gone \subseteq all

Places(s) ==
    /\ Sorted(ToldBy(queue[s]), Owed(s), InHand(s), Heard(s), lost[s], due[s])
    /\ Apart(queue[s])
    /\ \A i \in 1 .. Len(queue[s]) : queue[s][i].kind # "window"
    /\ \A p, q \in Publishers :
          p # q /\ s \in target[p] /\ s \in target[q] => drained[p] \cap drained[q] = {}

\* Nothing is recorded for a reader that is not there yet, and what is recorded for
\* one was recorded neither before it nor by the history it replays.
RecordedFor(s) ==
    /\ \A e \in due[s] : Done(e) /\ ~Holds(replay[s], e)
    /\ phase[s] = "new" => due[s] = {}
    /\ \A item \in received[s] : item.kind # "window" => \A e \in Tells(item) : Done(e)
    /\ \A i \in 1 .. Len(replay[s]) : replay[s][i].kind # "lagging"

FateInv == TwiceInv /\ \A s \in Subscribers : Places(s) /\ RecordedFor(s)

\* An item that tells of nothing the queue tells of may be put into it.
LEMMA ToldAppend ==
    ASSUME NEW q \in Seq(Item), NEW item \in Item
    PROVE  /\ ToldBy(Append(q, item)) = ToldBy(q) \cup Tells(item)
           /\ Apart(q) /\ ToldBy(q) \cap Tells(item) = {} => Apart(Append(q, item))
           /\ \A i \in 1 .. Len(Append(q, item)) :
                 Append(q, item)[i] = item \/ \E j \in 1 .. Len(q) : Append(q, item)[i] = q[j]
<1> DEFINE r == Append(q, item)
<1>1. ToldBy(r) = ToldBy(q) \cup Tells(item)
  BY ElementsAppend DEF ToldBy, Told
<1>2. /\ Len(q) \in Nat /\ Len(r) = Len(q) + 1 /\ r[Len(q) + 1] = item
      /\ \A i \in 1 .. Len(q) : r[i] = q[i]
  OBVIOUS
<1>3. \A i \in 1 .. Len(r) : i \in 1 .. Len(q) \/ i = Len(q) + 1
  BY <1>2
<1>4. \A i \in 1 .. Len(q) : Tells(q[i]) \subseteq ToldBy(q)
  BY DEF ToldBy, Told, Elements
<1> HIDE DEF r
<1>5. ASSUME Apart(q), ToldBy(q) \cap Tells(item) = {}
      PROVE  Apart(r)
  <2> SUFFICES ASSUME NEW i \in 1 .. Len(r), NEW j \in 1 .. Len(r), i # j
               PROVE  Tells(r[i]) \cap Tells(r[j]) = {}
    BY DEF Apart
  <2>1. CASE i \in 1 .. Len(q) /\ j \in 1 .. Len(q)
    BY <1>2, <1>5, <2>1 DEF Apart
  <2>2. CASE i = Len(q) + 1 /\ j \in 1 .. Len(q)
    <3>1. r[i] = item /\ r[j] = q[j] /\ Tells(q[j]) \subseteq ToldBy(q)
      BY <1>2, <1>4, <2>2
    <3> QED
      BY <1>5, <3>1
  <2>3. CASE i \in 1 .. Len(q) /\ j = Len(q) + 1
    <3>1. r[i] = q[i] /\ r[j] = item /\ Tells(q[i]) \subseteq ToldBy(q)
      BY <1>2, <1>4, <2>3
    <3> QED
      BY <1>5, <3>1
  <2> QED
    BY <1>3, <2>1, <2>2, <2>3
<1>6. \A i \in 1 .. Len(r) : r[i] = item \/ \E j \in 1 .. Len(q) : r[i] = q[j]
  BY <1>2, <1>3
<1> QED
  BY <1>1, <1>5, <1>6 DEF r

\* What the first item tells of leaves the queue with it.
LEMMA ToldTail ==
    ASSUME NEW q \in Seq(Item), q # <<>>, Apart(q)
    PROVE  /\ ToldBy(Tail(q)) = ToldBy(q) \ Tells(Head(q))
           /\ Tells(Head(q)) \subseteq ToldBy(q)
           /\ Apart(Tail(q))
           /\ Head(q) = q[1] /\ 1 \in 1 .. Len(q)
           /\ \A i \in 1 .. Len(Tail(q)) : \E j \in 1 .. Len(q) : Tail(q)[i] = q[j]
<1>1. /\ Len(q) \in Nat \ {0} /\ Len(Tail(q)) = Len(q) - 1 /\ Head(q) = q[1]
      /\ \A i \in 1 .. Len(Tail(q)) : Tail(q)[i] = q[i + 1] /\ i + 1 \in 1 .. Len(q)
  OBVIOUS
<1>2. 1 \in 1 .. Len(q) /\ \A i \in 1 .. Len(Tail(q)) : i + 1 # 1 /\ i \in Nat
  BY <1>1
<1>3. ToldBy(q) = Tells(Head(q)) \cup ToldBy(Tail(q))
  BY ElementsTail DEF ToldBy, Told
<1>4. \A i \in 1 .. Len(Tail(q)) : Tells(Tail(q)[i]) \cap Tells(Head(q)) = {}
  BY <1>1, <1>2 DEF Apart
<1>5. ToldBy(Tail(q)) \cap Tells(Head(q)) = {}
  BY <1>4 DEF ToldBy, Told, Elements
<1>6. Apart(Tail(q))
  BY <1>1, <1>2 DEF Apart
<1>7. \A i \in 1 .. Len(Tail(q)) : \E j \in 1 .. Len(q) : Tail(q)[i] = q[j]
  BY <1>1
<1> QED
  BY <1>1, <1>2, <1>3, <1>5, <1>6, <1>7

\* The moves of the steps: x from owed to the queue, out of the queue into a
\* publisher's hand, from there back into the queue or to the lost.
LEMMA SortedMoves ==
    ASSUME NEW told, NEW owed, NEW hand, NEW heard, NEW gone, NEW all,
           Sorted(told, owed, hand, heard, gone, all),
           NEW x \in SUBSET owed, NEW y \in SUBSET hand, NEW z \in SUBSET told
    PROVE  /\ Sorted(told \cup x, owed \ x, hand \ y, heard, gone \cup y, all)
           /\ Sorted(told \ z, owed, hand \cup z, heard, gone, all)
           /\ Sorted(told \cup y, owed, hand \ y, heard, gone, all)
           /\ Sorted(told, owed \ x, hand \ y, heard, gone \cup x \cup y, all)
           /\ Sorted(told \ z, owed, hand, heard \cup z, gone, all)
<1> USE DEF Sorted
<1>1. Sorted(told \cup x, owed \ x, hand \ y, heard, gone \cup y, all)
  OBVIOUS
<1>2. Sorted(told \ z, owed, hand \cup z, heard, gone, all)
  OBVIOUS
<1>3. Sorted(told \cup y, owed, hand \ y, heard, gone, all)
  OBVIOUS
<1>4. Sorted(told, owed \ x, hand \ y, heard, gone \cup x \cup y, all)
  OBVIOUS
<1>5. Sorted(told \ z, owed, hand, heard \cup z, gone, all)
  OBVIOUS
<1> QED
  BY <1>1, <1>2, <1>3, <1>4, <1>5

\* A publisher's step ends what it owes to some readers.
LEMMA OwedEnds ==
    ASSUME TypeOK, IdsInv, \A q \in Publishers : PublisherShape(q),
           NEW p \in Publishers, NEW t \in Subscribers, event' = event,
           \A q \in Publishers : q # p => todo'[q] = todo[q]
    PROVE  /\ t \in todo[p] /\ t \notin todo'[p] =>
                 Owed(t)' = Owed(t) \ {event[p]} /\ event[p] \in Owed(t)
           /\ (t \in todo[p] <=> t \in todo'[p]) => Owed(t)' = Owed(t)
<1>1. \A q \in Publishers : t \in todo[q] => pc[q] # "idle"
  BY DEF PublisherShape
<1>2. \A q \in Publishers : q # p /\ t \in todo[q] /\ t \in todo[p] => event[q] # event[p]
  BY <1>1 DEF IdsInv
<1> QED
  BY <1>2 DEF Owed

\* What a publisher has drained is in no other's hands.
HandOfOthers(p, s) == UNION {drained[q] : q \in {r \in Publishers : r # p /\ s \in target[r]}}

LEMMA HandSplit ==
    ASSUME NEW p \in Publishers, NEW s \in Subscribers,
           \A q, r \in Publishers : q # r /\ s \in target[q] /\ s \in target[r] => drained[q] \cap drained[r] = {},
           \A q \in Publishers : q # p => target'[q] = target[q] /\ drained'[q] = drained[q]
    PROVE  /\ s \in target[p] => /\ InHand(s) = HandOfOthers(p, s) \cup drained[p]
                                 /\ HandOfOthers(p, s) \cap drained[p] = {}
           /\ s \notin target[p] => InHand(s) = HandOfOthers(p, s)
           /\ s \in target'[p] => InHand(s)' = HandOfOthers(p, s) \cup drained'[p]
           /\ s \notin target'[p] => InHand(s)' = HandOfOthers(p, s)
<1>1. s \in target[p] => InHand(s) = HandOfOthers(p, s) \cup drained[p]
  BY DEF InHand, HandOfOthers
<1>2. s \in target[p] => HandOfOthers(p, s) \cap drained[p] = {}
  BY DEF HandOfOthers
<1>3. s \notin target[p] => InHand(s) = HandOfOthers(p, s)
  BY DEF InHand, HandOfOthers
<1>4. s \in target'[p] => InHand(s)' = HandOfOthers(p, s) \cup drained'[p]
  BY DEF InHand, HandOfOthers
<1>5. s \notin target'[p] => InHand(s)' = HandOfOthers(p, s)
  BY DEF InHand, HandOfOthers
<1> QED
  BY <1>1, <1>2, <1>3, <1>4, <1>5

\* Nothing but Record makes an event recorded.
LEMMA RecordRecords ==
    ASSUME TypeOK, NEW p \in Publishers, Publish(p), ~Record(p)
    PROVE  \A e \in EventId : Done(e)' => Done(e)
<1>1. CASE DrawId(p)
  <2>1. /\ nextId \in Nat /\ nextId' = nextId + 1
        /\ pc'[p] = "record" /\ event'[p] = nextId /\ pc[p] # "record"
        /\ \A q \in Publishers : q # p => pc'[q] = pc[q] /\ event'[q] = event[q]
    BY <1>1 DEF DrawId, TypeOK
  <2> QED
    BY <2>1 DEF Done, EventId
<1>2. CASE ~DrawId(p)
  <2>1. nextId' = nextId /\ event' = event /\ pc[p] # "record"
    BY <1>2 DEF Publish, PublishReturns, Enqueue, EnqueueFull, DrainOne, DrainEnd,
                PutNotice, PutCurrent, PutRaises
  <2>2. \A q \in Publishers : q # p => pc'[q] = pc[q]
    BY <1>2 DEF TypeOK, Publish, PublishReturns, Enqueue, EnqueueFull, DrainOne, DrainEnd,
                PutNotice, PutCurrent, PutRaises
  <2> QED
    BY <2>1, <2>2 DEF Done
<1> QED
  BY <1>1, <1>2

\* What a step does to a reader that hears of nothing and is told of nothing new:
\* it may lose some of what is under way.
Settled(t) ==
    /\ lost[t] \subseteq lost'[t]
    /\ lost'[t] \ lost[t] \subseteq UnderWay(t)
    /\ UnderWay(t)' = UnderWay(t) \ (lost'[t] \ lost[t])
    /\ Heard(t)' = Heard(t)

\* A step of publish() that records nothing, for one reader.
LEMMA PlacesKept ==
    ASSUME NEW t \in Subscribers, Places(t), Heard(t)' = Heard(t), due' = due,
           queue'[t] = queue[t], Owed(t)' = Owed(t), InHand(t)' = InHand(t), lost'[t] = lost[t],
           \A p, q \in Publishers : p # q /\ t \in target'[p] /\ t \in target'[q]
               => t \in target[p] /\ t \in target[q] /\ drained'[p] \cap drained'[q] = {}
    PROVE  Places(t)' /\ Settled(t)
<1>1. UnderWay(t)' = UnderWay(t)
  BY DEF UnderWay, InQueue
<1>2. Apart(queue[t])' /\ (\A i \in 1 .. Len(queue[t]) : queue[t][i].kind # "window")'
  BY DEF Places, Apart
<1>3. ToldBy(queue[t])' = ToldBy(queue[t])
  BY DEF ToldBy
<1>4. Sorted(ToldBy(queue[t]), Owed(t), InHand(t), Heard(t), lost[t], due[t])'
  BY <1>3 DEF Places, Sorted
<1> QED
  BY <1>1, <1>2, <1>4 DEF Places, Settled

\* The same when events move between the places.
LEMMA PlacesMoved ==
    ASSUME NEW t \in Subscribers, Places(t), Heard(t)' = Heard(t), due' = due,
           NEW told, NEW owed, NEW hand, NEW gone,
           ToldBy(queue'[t]) = told, Owed(t)' = owed, InHand(t)' = hand, lost'[t] = gone,
           Sorted(told, owed, hand, Heard(t), gone, due[t]),
           lost[t] \subseteq gone, gone \ lost[t] \subseteq UnderWay(t),
           told \cup owed \cup hand = UnderWay(t) \ (gone \ lost[t]),
           Apart(queue'[t]),
           \A i \in 1 .. Len(queue'[t]) : queue'[t][i].kind # "window",
           \A p, q \in Publishers :
              p # q /\ t \in target'[p] /\ t \in target'[q] => drained'[p] \cap drained'[q] = {}
    PROVE  Places(t)' /\ Settled(t)
<1>1. ToldBy(queue[t])' = told
  BY DEF ToldBy
<1>2. UnderWay(t)' = told \cup owed \cup hand
  BY <1>1 DEF UnderWay, ToldBy, InQueue
<1>3. Apart(queue[t])'
  BY DEF Apart
<1>4. Sorted(ToldBy(queue[t]), Owed(t), InHand(t), Heard(t), lost[t], due[t])'
  BY <1>1 DEF Sorted
<1> QED
  BY <1>2, <1>3, <1>4 DEF Places, Settled

\* A step of publish() that records nothing, for each reader.
LEMMA PlacesPublish ==
    ASSUME FateInv, NEW p \in Publishers, Publish(p), ~Record(p), NEW t \in Subscribers
    PROVE  Places(t)' /\ Settled(t)
<1> DEFINE told == ToldBy(queue[t])
           e0 == event[p]
<1>1. /\ TypeOK /\ IdsInv /\ Places(t) /\ PublisherShape(p)
      /\ \A q \in Publishers : PublisherShape(q)
  BY DEF FateInv, TwiceInv, NoLossInv
<1>2. /\ UNCHANGED <<received, due>> /\ Heard(t)' = Heard(t)
      /\ \A q \in Publishers : q # p => todo'[q] = todo[q] /\ target'[q] = target[q] /\ drained'[q] = drained[q]
  <2>1. UNCHANGED <<received, due>>
    BY DEF Publish, DrawId, PublishReturns, Enqueue, EnqueueFull, DrainOne, DrainEnd,
           PutNotice, PutCurrent, PutRaises, subVars
  <2>2. \A q \in Publishers : q # p => todo'[q] = todo[q]
    BY <1>1 DEF Publish, DrawId, PublishReturns, Enqueue, EnqueueFull, DrainOne, DrainEnd,
           PutNotice, PutCurrent, PutRaises, TypeOK
  <2>3. \A q \in Publishers : q # p => target'[q] = target[q]
    BY <1>1 DEF Publish, DrawId, PublishReturns, Enqueue, EnqueueFull, DrainOne, DrainEnd,
           PutNotice, PutCurrent, PutRaises, TypeOK
  <2>4. \A q \in Publishers : q # p => drained'[q] = drained[q]
    BY <1>1 DEF Publish, DrawId, PublishReturns, Enqueue, EnqueueFull, DrainOne, DrainEnd,
           PutNotice, PutCurrent, PutRaises, TypeOK
  <2> QED
    BY <2>1, <2>2, <2>3, <2>4 DEF Heard
<1>3. /\ UnderWay(t) = told \cup Owed(t) \cup InHand(t)
      /\ Sorted(told, Owed(t), InHand(t), Heard(t), lost[t], due[t])
      /\ \A q, r \in Publishers : q # r /\ t \in target[q] /\ t \in target[r] => drained[q] \cap drained[r] = {}
      /\ Apart(queue[t]) /\ \A i \in 1 .. Len(queue[t]) : queue[t][i].kind # "window"
      /\ queue[t] \in Seq(Item)
  BY <1>1 DEF UnderWay, InQueue, ToldBy, Places, TypeOK
<1>4. CASE DrawId(p) \/ PublishReturns(p)
  <2>1. /\ UNCHANGED <<queue, todo, target, drained, lost>>
        /\ todo[p] = {}
        /\ \A q \in Publishers : q # p => event'[q] = event[q]
    BY <1>1, <1>4 DEF DrawId, PublishReturns, PublisherShape, TypeOK
  <2>2. Owed(t)' = Owed(t)
    BY <2>1 DEF Owed
  <2>3. InHand(t)' = InHand(t)
    BY <2>1 DEF InHand
  <2> QED
    BY <1>1, <1>2, <1>3, <2>1, <2>2, <2>3, PlacesKept
<1>5. ASSUME NEW s \in Subscribers, EnqueueFull(p, s) \/ DrainEnd(p, s)
      PROVE  Places(t)' /\ Settled(t)
  <2>1. UNCHANGED <<queue, todo, event, lost>>
    BY <1>5 DEF EnqueueFull, DrainEnd
  <2>2. Owed(t)' = Owed(t)
    BY <2>1 DEF Owed
  <2>3. \/ target' = target /\ drained' = drained
        \/ target[p] = {} /\ target'[p] = {s} /\ drained'[p] = {}
    BY <1>1, <1>5 DEF EnqueueFull, DrainEnd, PublisherShape, TypeOK
  <2>4. InHand(t)' = InHand(t)
    <3>1. CASE target' = target /\ drained' = drained
      BY <3>1 DEF InHand
    <3>2. CASE target[p] = {} /\ target'[p] = {s} /\ drained'[p] = {}
      <4>1. InHand(t) = HandOfOthers(p, t)
        BY <1>2, <1>3, <3>2, HandSplit
      <4>2. InHand(t)' = HandOfOthers(p, t) \cup {} \/ InHand(t)' = HandOfOthers(p, t)
        BY <1>2, <1>3, <3>2, HandSplit
      <4> QED
        BY <4>1, <4>2
    <3> QED
      BY <2>3, <3>1, <3>2
  <2>5. ASSUME NEW q \in Publishers, NEW r \in Publishers, q # r, t \in target'[q], t \in target'[r]
        PROVE  drained'[q] \cap drained'[r] = {}
    <3>1. CASE target' = target /\ drained' = drained
      BY <1>3, <2>5, <3>1
    <3>2. CASE target[p] = {} /\ target'[p] = {s} /\ drained'[p] = {}
      BY <1>2, <1>3, <2>5, <3>2
    <3> QED
      BY <2>3, <3>1, <3>2
  <2> QED
    BY <1>1, <1>2, <1>3, <2>1, <2>2, <2>4, <2>5, PlacesMoved
<1>6. ASSUME NEW s \in Subscribers, s \in todo[p], pc[p] # "idle"
      PROVE  /\ e0 \in EventId /\ EventItem(e0) \in Item /\ EventItem(e0).kind = "event"
             /\ Tells(EventItem(e0)) = {e0}
             /\ e0 \in Owed(s)
  BY <1>1, <1>6, EventItemType DEF TypeOK, EventId, NoId, Owed, Tells
<1>7. ASSUME NEW s \in Subscribers, Enqueue(p, s)
      PROVE  Places(t)' /\ Settled(t)
  <2>1. /\ s \in todo[p] /\ pc[p] # "idle" /\ UNCHANGED <<event, target, drained, lost>>
        /\ todo'[p] = todo[p] \ {s}
        /\ queue' = [queue EXCEPT ![s] = Append(@, EventItem(e0))]
    BY <1>1, <1>7 DEF Enqueue, Put, TypeOK
  <2>2. InHand(t)' = InHand(t)
    BY <2>1 DEF InHand
  <2>3. CASE t # s
    <3>1. queue'[t] = queue[t] /\ (t \in todo[p] <=> t \in todo'[p])
      BY <1>1, <2>1, <2>3 DEF TypeOK
    <3>2. Owed(t)' = Owed(t)
      BY <1>1, <1>2, <2>1, <3>1, OwedEnds
    <3> QED
      BY <1>1, <1>2, <1>3, <2>1, <2>2, <3>1, <3>2, PlacesKept
  <2>4. CASE t = s
    <3>1. e0 \in Owed(t) /\ Owed(t)' = Owed(t) \ {e0}
      <4>1. t \in todo[p] /\ t \notin todo'[p]
        BY <2>1, <2>4
      <4> QED
        BY <1>1, <1>2, <2>1, <4>1, OwedEnds
    <3>2. queue'[t] = Append(queue[t], EventItem(e0))
      BY <1>1, <2>1, <2>4 DEF TypeOK
    <3>3. /\ EventItem(e0) \in Item /\ EventItem(e0).kind = "event" /\ Tells(EventItem(e0)) = {e0}
      BY <1>6, <2>1
    <3>4. told \cap {e0} = {}
      BY <1>3, <3>1 DEF Sorted
    <3>5. /\ ToldBy(queue'[t]) = told \cup {e0} /\ Apart(queue'[t])
          /\ \A i \in 1 .. Len(queue'[t]) : queue'[t][i].kind # "window"
      BY <1>3, <3>2, <3>3, <3>4, ToldAppend
    <3>6. Sorted(told \cup {e0}, Owed(t) \ {e0}, InHand(t), Heard(t), lost[t], due[t])
      <4>1. Sorted(told \cup {e0}, Owed(t) \ {e0}, InHand(t) \ {}, Heard(t), lost[t] \cup {}, due[t])
        <5>1. {e0} \in SUBSET Owed(t) /\ {} \in SUBSET InHand(t)
          BY <3>1
        <5> QED
          BY <1>3, <5>1, SortedMoves
      <4>2. InHand(t) \ {} = InHand(t) /\ lost[t] \cup {} = lost[t]
        OBVIOUS
      <4> QED
        BY <4>1, <4>2
    <3>7. told \cup {e0} \cup (Owed(t) \ {e0}) \cup InHand(t) = UnderWay(t) \ (lost[t] \ lost[t])
      BY <1>3, <3>1
    <3> QED
      BY <1>1, <1>2, <1>3, <2>1, <2>2, <3>1, <3>5, <3>6, <3>7, PlacesMoved
  <2> QED
    BY <2>3, <2>4
<1>8. ASSUME NEW s \in Subscribers, s \in target[p], t # s
      PROVE  t \notin target[p] /\ InHand(t) = HandOfOthers(p, t)
  <2>1. t \notin target[p]
    BY <1>1, <1>8 DEF PublisherShape
  <2> QED
    BY <1>2, <1>3, <2>1, HandSplit
<1>9. ASSUME NEW s \in Subscribers, DrainOne(p, s)
      PROVE  Places(t)' /\ Settled(t)
  <2>1. /\ s \in target[p] /\ UNCHANGED <<event, todo, target, lost>>
        /\ queue[s] # <<>> /\ queue' = [queue EXCEPT ![s] = Tail(@)]
        /\ drained'[p] = drained[p] \cup Tells(Head(queue[s]))
    BY <1>1, <1>9 DEF DrainOne, AlsoMissed, TypeOK
  <2>2. Owed(t)' = Owed(t)
    BY <2>1 DEF Owed
  <2>3. CASE t # s
    <3>1. queue'[t] = queue[t]
      BY <1>1, <2>1, <2>3 DEF TypeOK
    <3>2. t \notin target[p] /\ InHand(t)' = InHand(t)
      BY <1>2, <1>3, <1>8, <2>1, <2>3, HandSplit
    <3>3. \A q, r \in Publishers : q # r /\ t \in target'[q] /\ t \in target'[r]
              => t \in target[q] /\ t \in target[r] /\ drained'[q] \cap drained'[r] = {}
      BY <1>2, <1>3, <2>1, <3>2
    <3> QED
      BY <1>1, <1>2, <2>1, <2>2, <3>1, <3>2, <3>3, PlacesKept
  <2>4. CASE t = s
    <3> DEFINE h == Tells(Head(queue[t]))
    <3>1. queue'[t] = Tail(queue[t]) /\ queue[t] # <<>> /\ drained'[p] = drained[p] \cup h
      BY <1>1, <2>1, <2>4 DEF TypeOK
    <3>2. /\ ToldBy(queue'[t]) = told \ h /\ Apart(queue'[t]) /\ h \subseteq told
          /\ \A i \in 1 .. Len(queue'[t]) : queue'[t][i].kind # "window"
      BY <1>3, <3>1, ToldTail
    <3> HIDE DEF h
    <3>3. /\ InHand(t) = HandOfOthers(p, t) \cup drained[p]
          /\ InHand(t)' = HandOfOthers(p, t) \cup drained'[p]
      BY <1>2, <1>3, <2>1, <2>4, HandSplit
    <3>4. InHand(t)' = InHand(t) \cup h
      BY <3>1, <3>3
    <3>5. Sorted(told \ h, Owed(t), InHand(t) \cup h, Heard(t), lost[t], due[t])
      BY <1>3, <3>2, SortedMoves
    <3>6. (told \ h) \cup Owed(t) \cup (InHand(t) \cup h) = UnderWay(t) \ (lost[t] \ lost[t])
      BY <1>3, <3>2
    <3>7. ASSUME NEW q \in Publishers, q # p, t \in target[q]
          PROVE  drained'[q] \cap drained'[p] = {}
      <4>1. drained'[q] = drained[q] /\ drained[q] \cap drained[p] = {}
        BY <1>2, <1>3, <2>1, <2>4, <3>7
      <4>2. drained[q] \subseteq InHand(t)
        BY <3>7 DEF InHand
      <4>3. drained[q] \cap h = {}
        BY <1>3, <3>2, <4>2 DEF Sorted
      <4> QED
        BY <3>1, <4>1, <4>3
    <3>8. \A q, r \in Publishers :
             q # r /\ t \in target'[q] /\ t \in target'[r] => drained'[q] \cap drained'[r] = {}
      <4> TAKE q, r \in Publishers
      <4> HAVE q # r /\ t \in target'[q] /\ t \in target'[r]
      <4>1. CASE q = p
        BY <2>1, <3>7, <4>1
      <4>2. CASE r = p
        BY <2>1, <3>7, <4>2
      <4>3. CASE q # p /\ r # p
        BY <1>2, <1>3, <2>1, <4>3
      <4> QED
        BY <4>1, <4>2, <4>3
    <3> QED
      BY <1>1, <1>2, <2>1, <2>2, <3>2, <3>4, <3>5, <3>6, <3>8, PlacesMoved
  <2> QED
    BY <2>3, <2>4
<1>10. ASSUME NEW s \in Subscribers, PutNotice(p, s)
       PROVE  Places(t)' /\ Settled(t)
  <2> DEFINE n == LaggingNotice(e0, drained[p])
             y == drained[p]
  <2>1. /\ s \in target[p] /\ UNCHANGED <<event, todo, target, lost>> /\ drained'[p] = {}
        /\ queue' = [queue EXCEPT ![s] = Append(@, n)]
        /\ e0 \in EventId /\ drained[p] \in SUBSET EventId
    BY <1>1, <1>10 DEF PutNotice, Put, TypeOK, EventId, NoId
  <2>2. n \in Item /\ n.kind = "lagging" /\ Tells(n) = y
    BY <2>1, LaggingNoticeType DEF LaggingNotice, Tells
  <2>3. Owed(t)' = Owed(t)
    BY <2>1 DEF Owed
  <2>4. \A q, r \in Publishers : q # r /\ t \in target'[q] /\ t \in target'[r]
              => t \in target[q] /\ t \in target[r] /\ drained'[q] \cap drained'[r] = {}
    BY <1>2, <1>3, <2>1
  <2> HIDE DEF n, y
  <2>5. CASE t # s
    <3>1. queue'[t] = queue[t]
      BY <1>1, <2>1, <2>5 DEF TypeOK
    <3>2. t \notin target[p] /\ InHand(t)' = InHand(t)
      BY <1>2, <1>3, <1>8, <2>1, <2>5, HandSplit
    <3> QED
      BY <1>1, <1>2, <2>1, <2>3, <2>4, <3>1, <3>2, PlacesKept
  <2>6. CASE t = s
    <3>1. queue'[t] = Append(queue[t], n)
      BY <1>1, <2>1, <2>6 DEF TypeOK
    <3>2. /\ InHand(t) = HandOfOthers(p, t) \cup y /\ HandOfOthers(p, t) \cap y = {}
          /\ InHand(t)' = HandOfOthers(p, t) \cup drained'[p]
      <4>1. t \in target[p] /\ t \in target'[p]
        BY <2>1, <2>6
      <4> QED
        BY <1>2, <1>3, <4>1, HandSplit DEF y
    <3>3. y \subseteq InHand(t) /\ InHand(t)' = InHand(t) \ y
      BY <2>1, <3>2
    <3>4. told \cap y = {}
      BY <1>3, <3>3 DEF Sorted
    <3>5. /\ ToldBy(queue'[t]) = told \cup y /\ Apart(queue'[t])
          /\ \A i \in 1 .. Len(queue'[t]) : queue'[t][i].kind # "window"
      BY <1>3, <2>2, <3>1, <3>4, ToldAppend
    <3>6. Sorted(told \cup y, Owed(t), InHand(t) \ y, Heard(t), lost[t], due[t])
      BY <1>3, <3>3, SortedMoves
    <3>7. told \cup y \cup Owed(t) \cup (InHand(t) \ y) = UnderWay(t) \ (lost[t] \ lost[t])
      BY <1>3, <3>3
    <3> QED
      BY <1>1, <1>2, <2>1, <2>3, <2>4, <3>3, <3>5, <3>6, <3>7, PlacesMoved
  <2> QED
    BY <2>5, <2>6
<1>11. ASSUME NEW s \in Subscribers, PutCurrent(p, s)
       PROVE  Places(t)' /\ Settled(t)
  <2> DEFINE y == drained[p]
  <2>1. /\ s \in target[p] /\ event' = event /\ drained'[p] = {} /\ target'[p] = {}
        /\ todo'[p] = todo[p] \ {s} /\ lost' = [lost EXCEPT ![s] = @ \cup y]
        /\ queue' = [queue EXCEPT ![s] = Append(@, EventItem(e0))]
        /\ s \in todo[p] /\ pc[p] # "idle"
    BY <1>1, <1>11 DEF PutCurrent, Put, TypeOK, PublisherShape
  <2>2. \A q, r \in Publishers : q # r /\ t \in target'[q] /\ t \in target'[r]
              => t \in target[q] /\ t \in target[r] /\ drained'[q] \cap drained'[r] = {}
    BY <1>2, <1>3, <2>1
  <2> HIDE DEF y
  <2>3. CASE t # s
    <3>1. queue'[t] = queue[t] /\ lost'[t] = lost[t] /\ (t \in todo[p] <=> t \in todo'[p])
      BY <1>1, <2>1, <2>3 DEF TypeOK
    <3>2. Owed(t)' = Owed(t)
      BY <1>1, <1>2, <2>1, <3>1, OwedEnds
    <3>3. InHand(t)' = InHand(t)
      BY <1>2, <1>3, <1>8, <2>1, <2>3, HandSplit
    <3> QED
      BY <1>1, <1>2, <2>2, <3>1, <3>2, <3>3, PlacesKept
  <2>4. CASE t = s
    <3>1. e0 \in Owed(t) /\ Owed(t)' = Owed(t) \ {e0}
      <4>1. t \in todo[p] /\ t \notin todo'[p]
        BY <2>1, <2>4
      <4> QED
        BY <1>1, <1>2, <2>1, <4>1, OwedEnds
    <3>2. queue'[t] = Append(queue[t], EventItem(e0)) /\ lost'[t] = lost[t] \cup y
      BY <1>1, <2>1, <2>4 DEF TypeOK
    <3>3. /\ EventItem(e0) \in Item /\ EventItem(e0).kind = "event" /\ Tells(EventItem(e0)) = {e0}
      BY <1>6, <2>1
    <3>4. told \cap {e0} = {}
      BY <1>3, <3>1 DEF Sorted
    <3>5. /\ ToldBy(queue'[t]) = told \cup {e0} /\ Apart(queue'[t])
          /\ \A i \in 1 .. Len(queue'[t]) : queue'[t][i].kind # "window"
      BY <1>3, <3>2, <3>3, <3>4, ToldAppend
    <3>6. /\ InHand(t) = HandOfOthers(p, t) \cup y /\ HandOfOthers(p, t) \cap y = {}
          /\ InHand(t)' = HandOfOthers(p, t)
      BY <1>2, <1>3, <2>1, <2>4, HandSplit DEF y
    <3>7. y \subseteq InHand(t) /\ InHand(t)' = InHand(t) \ y
      BY <3>6
    <3>8. Sorted(told \cup {e0}, Owed(t) \ {e0}, InHand(t) \ y, Heard(t), lost[t] \cup y, due[t])
      BY <1>3, <3>1, <3>7, SortedMoves
    <3>9. /\ lost[t] \cap y = {} /\ {e0} \cap y = {} /\ told \cap y = {} /\ Owed(t) \cap y = {}
      BY <1>3, <3>1, <3>7 DEF Sorted
    <3>10. /\ (lost[t] \cup y) \ lost[t] \subseteq UnderWay(t)
           /\ told \cup {e0} \cup (Owed(t) \ {e0}) \cup (InHand(t) \ y)
                 = UnderWay(t) \ ((lost[t] \cup y) \ lost[t])
      BY <1>3, <3>1, <3>7, <3>9
    <3> QED
      BY <1>1, <1>2, <2>2, <3>1, <3>2, <3>5, <3>7, <3>8, <3>10, PlacesMoved
  <2> QED
    BY <2>3, <2>4
<1>12. ASSUME NEW s \in Subscribers, PutRaises(p, s)
       PROVE  Places(t)' /\ Settled(t)
  <2> DEFINE x == IF t \in todo[p] THEN {e0} ELSE {}
             y == IF t = s THEN drained[p] ELSE {}
  <2>1. /\ s \in target[p] /\ UNCHANGED <<event, queue>> /\ drained'[p] = {} /\ target'[p] = {}
        /\ todo'[p] = todo[p] \ Subscribers /\ lost'[t] = lost[t] \cup x \cup y
    BY <1>1, <1>12 DEF PutRaises, TypeOK
  <2>2. \A q, r \in Publishers : q # r /\ t \in target'[q] /\ t \in target'[r]
              => drained'[q] \cap drained'[r] = {}
    BY <1>2, <1>3, <2>1
  <2>3. Owed(t)' = Owed(t) \ x /\ x \subseteq Owed(t)
    <3>1. t \notin todo'[p]
      BY <2>1
    <3> QED
      BY <1>1, <1>2, <2>1, <3>1, OwedEnds
  <2>4. InHand(t)' = InHand(t) \ y /\ y \subseteq InHand(t)
    <3>1. CASE t = s
      <4>1. /\ InHand(t) = HandOfOthers(p, t) \cup drained[p] /\ HandOfOthers(p, t) \cap drained[p] = {}
            /\ InHand(t)' = HandOfOthers(p, t)
        BY <1>2, <1>3, <2>1, <3>1, HandSplit
      <4> QED
        BY <3>1, <4>1
    <3>2. CASE t # s
      <4>1. InHand(t)' = InHand(t)
        BY <1>2, <1>3, <1>8, <2>1, <3>2, HandSplit
      <4> QED
        BY <3>2, <4>1
    <3> QED
      BY <3>1, <3>2
  <2> HIDE DEF x, y
  <2>5. Sorted(told, Owed(t) \ x, InHand(t) \ y, Heard(t), lost[t] \cup x \cup y, due[t])
    BY <1>3, <2>3, <2>4, SortedMoves
  <2>6. /\ lost[t] \cap x = {} /\ lost[t] \cap y = {} /\ Owed(t) \cap y = {} /\ InHand(t) \cap x = {}
        /\ told \cap x = {} /\ told \cap y = {}
    BY <1>3, <2>3, <2>4 DEF Sorted
  <2>7. /\ (lost[t] \cup x \cup y) \ lost[t] \subseteq UnderWay(t)
        /\ told \cup (Owed(t) \ x) \cup (InHand(t) \ y)
              = UnderWay(t) \ ((lost[t] \cup x \cup y) \ lost[t])
        /\ lost[t] \subseteq lost[t] \cup x \cup y
    BY <1>3, <2>3, <2>4, <2>6
  <2>8. queue'[t] = queue[t]
    BY <2>1
  <2> QED
    BY <1>1, <1>2, <1>3, <2>1, <2>2, <2>3, <2>4, <2>5, <2>7, <2>8, PlacesMoved
<1> QED
  BY <1>4, <1>5, <1>7, <1>9, <1>10, <1>11, <1>12 DEF Publish

\* Record records the one event of its publisher.
LEMMA RecordsOne ==
    ASSUME TypeOK, IdsInv, NEW p \in Publishers, Record(p)
    PROVE  /\ event[p] \in EventId /\ event' = event
           /\ ~Done(event[p]) /\ Done(event[p])'
           /\ \A e \in EventId : Done(e)' <=> Done(e) \/ e = event[p]
<1>1. /\ pc' = [pc EXCEPT ![p] = "fanout"] /\ UNCHANGED <<nextId, event>>
      /\ pc[p] = "record" /\ event[p] \in EventId
  BY DEF Record, TypeOK, EventId, NoId
<1>2. \A q \in Publishers : pc'[q] = "record" <=> pc[q] = "record" /\ q # p
  BY <1>1 DEF TypeOK
<1>3. ~Done(event[p])
  BY <1>1 DEF Done
<1>4. Done(event[p])'
  BY <1>1, <1>2 DEF Done, IdsInv
<1>5. ASSUME NEW e \in EventId, Done(e)', e # event[p]
      PROVE  Done(e)
  BY <1>1, <1>2, <1>5 DEF Done
<1>6. ASSUME NEW e \in EventId, Done(e)
      PROVE  Done(e)'
  BY <1>1, <1>2, <1>6 DEF Done
<1>7. \A e \in EventId : e = event[p] => Done(e)'
  <2> TAKE e \in EventId
  <2> HAVE e = event[p]
  <2> QED
    BY <1>1, <1>2, <1>4 DEF Done
<1> QED
  BY <1>1, <1>3, <1>4, <1>5, <1>6, <1>7

\* What Record does for a reader: the event is under way to it if it is registered.
LEMMA RecordGives ==
    ASSUME FateInv, NEW p \in Publishers, Record(p), NEW t \in Subscribers
    PROVE  /\ Places(t)' /\ RecordedFor(t)' /\ Heard(t)' = Heard(t)
           /\ t \in subscribers => UnderWay(t)' = UnderWay(t) \cup {event[p]}
           /\ t \notin subscribers => UnderWay(t)' = UnderWay(t)
<1>1. /\ TypeOK /\ IdsInv /\ Places(t) /\ RecordedFor(t) /\ ReaderInv(t) /\ PublisherShape(p)
  BY DEF FateInv, TwiceInv, NoLossInv
<1>2. PICK e0 \in EventId : /\ e0 = event[p] /\ event' = event /\ ~Done(e0)
                            /\ \A e \in EventId : Done(e)' <=> Done(e) \/ e = e0
  BY <1>1, RecordsOne
<1>3. /\ UNCHANGED <<queue, event, target, drained, phase, replay, received, lost>>
      /\ todo[p] = {} /\ todo'[p] = subscribers
      /\ \A q \in Publishers : q # p => todo'[q] = todo[q]
      /\ due'[t] = IF t \in subscribers THEN due[t] \cup {e0} ELSE due[t]
      /\ due[t] \in SUBSET EventId
  BY <1>1, <1>2 DEF Record, subVars, PublisherShape, TypeOK
<1>4. /\ ToldBy(queue[t])' = ToldBy(queue[t]) /\ InHand(t)' = InHand(t)
      /\ InQueue(t)' = InQueue(t)
  BY <1>3 DEF ToldBy, InHand, InQueue
<1>5. Owed(t)' = IF t \in subscribers THEN Owed(t) \cup {e0} ELSE Owed(t)
  <2>1. CASE t \in subscribers
    BY <1>2, <1>3, <2>1 DEF Owed
  <2>2. CASE t \notin subscribers
    BY <1>3, <2>2 DEF Owed
  <2> QED
    BY <2>1, <2>2
<1>6. e0 \notin due[t] /\ \A item \in received[t] : item.kind # "window" => e0 \notin Tells(item)
  BY <1>1, <1>2 DEF RecordedFor
<1>7. Heard(t)' = Heard(t)
  BY <1>3, <1>6 DEF Heard, Told
<1>8. Places(t)'
  <2>1. Sorted(ToldBy(queue[t]), Owed(t), InHand(t), Heard(t), lost[t], due[t])
    BY <1>1 DEF Places
  <2>2. Heard(t) \subseteq due[t]
    BY DEF Heard
  <2>3. CASE t \in subscribers
    <3>1. Sorted(ToldBy(queue[t]), Owed(t) \cup {e0}, InHand(t), Heard(t), lost[t], due[t] \cup {e0})
      BY <1>6, <2>1, <2>2 DEF Sorted
    <3>2. Sorted(ToldBy(queue[t]), Owed(t), InHand(t), Heard(t), lost[t], due[t])'
      BY <1>3, <1>4, <1>5, <1>7, <2>3, <3>1 DEF Sorted
    <3> QED
      BY <1>1, <1>3, <3>2 DEF Places, Apart
  <2>4. CASE t \notin subscribers
    <3>1. Sorted(ToldBy(queue[t]), Owed(t), InHand(t), Heard(t), lost[t], due[t])'
      BY <1>3, <1>4, <1>5, <1>7, <2>1, <2>4 DEF Sorted
    <3> QED
      BY <1>1, <1>3, <3>1 DEF Places, Apart
  <2> QED
    BY <2>3, <2>4
<1>9. RecordedFor(t)'
  <2>1. \A e \in due'[t] : Done(e)' /\ ~Holds(replay'[t], e)
    <3>1. ~Holds(replay[t], e0)
      BY <1>1, <1>2 DEF ReaderInv, OnePlace
    <3>2. \A e \in due[t] : Done(e)' /\ ~Holds(replay'[t], e)
      BY <1>1, <1>2, <1>3 DEF RecordedFor
    <3> QED
      BY <1>2, <1>3, <3>1, <3>2
  <2>2. phase'[t] = "new" => due'[t] = {}
    BY <1>1, <1>3 DEF RecordedFor, ReaderInv, NothingBefore
  <2>3. \A item \in received'[t] : item.kind # "window" => \A e \in Tells(item) : Done(e)'
    <3>1. \A item \in received[t] : Tells(item) \subseteq EventId
      BY <1>1, TellsType DEF TypeOK
    <3> QED
      BY <1>1, <1>2, <1>3, <3>1 DEF RecordedFor
  <2> QED
    BY <1>1, <1>3, <2>1, <2>2, <2>3 DEF RecordedFor, Holds
<1>10. t \in subscribers => UnderWay(t)' = UnderWay(t) \cup {event[p]}
  BY <1>2, <1>4, <1>5 DEF UnderWay
<1>11. t \notin subscribers => UnderWay(t)' = UnderWay(t)
  BY <1>4, <1>5 DEF UnderWay
<1> QED
  BY <1>7, <1>8, <1>9, <1>10, <1>11

\* A step of publish() that records nothing leaves alone what was recorded.
LEMMA RecordedForKept ==
    ASSUME FateInv, NEW p \in Publishers, Publish(p), ~Record(p), NEW t \in Subscribers
    PROVE  RecordedFor(t)'
<1>1. TypeOK /\ RecordedFor(t)
  BY DEF FateInv, TwiceInv, NoLossInv
<1>2. UNCHANGED <<due, phase, replay, received>>
  BY DEF Publish, DrawId, PublishReturns, Enqueue, EnqueueFull, DrainOne, DrainEnd,
         PutNotice, PutCurrent, PutRaises, subVars
<1>3. \A e \in EventId : Done(e) => Done(e)'
  BY IdsPublish DEF FateInv
<1>4. due[t] \subseteq EventId /\ \A item \in received[t] : Tells(item) \subseteq EventId
  BY <1>1, TellsType DEF TypeOK
<1>5. \A e \in due[t] : Done(e)' /\ ~Holds(replay[t], e)'
  BY <1>1, <1>2, <1>3, <1>4 DEF RecordedFor, Holds
<1>6. \A item \in received[t] : item.kind # "window" => \A e \in Tells(item) : Done(e)'
  BY <1>1, <1>3, <1>4 DEF RecordedFor
<1> QED
  BY <1>1, <1>2, <1>5, <1>6 DEF RecordedFor

\* A step of a stream that takes nothing from the queue and yields nothing that was
\* recorded for its reader; any step of another stream.
Untouched(t) ==
    /\ Places(t)' /\ RecordedFor(t)'
    /\ UnderWay(t)' = UnderWay(t) /\ Heard(t)' = Heard(t) /\ lost'[t] = lost[t]

LEMMA StreamLeaves ==
    ASSUME FateInv, NEW t \in Subscribers,
           UNCHANGED <<nextId, pubVars, due, lost>>,
           queue'[t] = queue[t], Heard(t)' = Heard(t),
           due[t] # {} => phase[t] # "new" /\ phase'[t] # "new",
           due[t] # {} => \A e \in EventId : Holds(replay'[t], e) => Holds(replay[t], e),
           \A i \in 1 .. Len(replay'[t]) : replay'[t][i].kind # "lagging",
           \A item \in received'[t] :
               item \in received[t] \/ item.kind = "window" \/ \A e \in Tells(item) : Done(e)
    PROVE  Untouched(t)
<1>1. Places(t) /\ RecordedFor(t) /\ due[t] \subseteq EventId
  BY DEF FateInv, TwiceInv, NoLossInv, TypeOK
<1>2. UNCHANGED <<nextId, pc, event, todo, target, drained>>
  BY DEF pubVars
<1>3. \A e : Done(e)' <=> Done(e)
  BY <1>2 DEF Done
<1>4. ToldBy(queue[t])' = ToldBy(queue[t]) /\ InQueue(t)' = InQueue(t)
  BY DEF ToldBy, InQueue
<1>5. Owed(t)' = Owed(t)
  BY <1>2 DEF Owed
<1>6. InHand(t)' = InHand(t)
  BY <1>2 DEF InHand
<1>7. UnderWay(t)' = UnderWay(t)
  BY <1>4, <1>5, <1>6 DEF UnderWay
<1>8. Places(t)'
  <2>1. Sorted(ToldBy(queue[t]), Owed(t), InHand(t), Heard(t), lost[t], due[t])'
    BY <1>1, <1>4, <1>5, <1>6 DEF Places, Sorted
  <2> QED
    BY <1>1, <1>2, <2>1 DEF Places, Apart
<1>9. RecordedFor(t)'
  <2>1. \A e \in due[t] : Done(e)' /\ ~Holds(replay'[t], e)
    BY <1>1, <1>3 DEF RecordedFor
  <2>2. \A e \in due'[t] : Done(e)' /\ ~Holds(replay[t], e)'
    BY <2>1 DEF Holds
  <2>3. phase'[t] = "new" => due'[t] = {}
    BY <1>1 DEF RecordedFor
  <2>4. \A item \in received'[t] : item.kind # "window" => \A e \in Tells(item) : Done(e)'
    BY <1>1, <1>3 DEF RecordedFor
  <2> QED
    BY <2>2, <2>3, <2>4 DEF RecordedFor
<1> QED
  BY <1>7, <1>8, <1>9 DEF Untouched

LEMMA StreamOfOther ==
    ASSUME FateInv, NEW s \in Subscribers, AnyStream(s), NEW t \in Subscribers, t # s
    PROVE  Untouched(t)
<1>1. TypeOK /\ RecordedFor(t)
  BY DEF FateInv, TwiceInv, NoLossInv
<1>2. UNCHANGED <<nextId, pubVars, due, lost>>
  BY DEF AnyStream, Subscribe, YieldReplay, YieldLive, Unsubscribe
<1>3. phase'[t] = phase[t] /\ replay'[t] = replay[t] /\ queue'[t] = queue[t]
  BY <1>1 DEF AnyStream, Subscribe, YieldReplay, YieldLive, Unsubscribe, TypeOK
<1>4. received'[t] = received[t]
  BY <1>1 DEF AnyStream, Subscribe, YieldReplay, YieldLive, Unsubscribe, TypeOK
<1>5. Heard(t)' = Heard(t)
  BY <1>2, <1>4 DEF Heard
<1>6. /\ due[t] # {} => phase[t] # "new" /\ phase'[t] # "new"
      /\ \A i \in 1 .. Len(replay'[t]) : replay'[t][i].kind # "lagging"
  BY <1>1, <1>3 DEF RecordedFor
<1> QED
  BY <1>2, <1>3, <1>4, <1>5, <1>6, StreamLeaves

\* A replay holds events and the notice of a window, nothing else.
LEMMA ReplayKinds ==
    ASSUME TypeOK, NEW l \in 0 .. MaxEvents, NEW i \in 1 .. Len(ReplayEvents(l))
    PROVE  ReplayEvents(l)[i].kind # "lagging"
<1> DEFINE copy == [j \in 1 .. Len(history) |-> EventItem(history[j])]
           window == <<WindowNotice(l, history[1])>>
<1>1. /\ Len(history) \in Nat /\ \A j \in 1 .. Len(history) : history[j] \in EventId
  BY DEF TypeOK
<1>2. /\ copy \in Seq(Item) /\ \A j \in 1 .. Len(copy) : copy[j].kind = "event"
  BY <1>1, EventItemType
<1>3. CASE l = NoId \/ ~\E j \in 1 .. Len(history) : history[j] > l
  BY <1>3 DEF ReplayEvents
<1>4. CASE ~(l = NoId \/ ~\E j \in 1 .. Len(history) : history[j] > l)
  <2>1. history[1] \in EventId
    BY <1>1, <1>4
  <2>2. window[1] \in Item /\ window = <<window[1]>> /\ window[1].kind = "window"
    BY <2>1, WindowNoticeType DEF WindowNotice
  <2> DEFINE r == window \o copy
  <2>3. ReplayEvents(l) = IF GapBefore(l) THEN r ELSE copy
    BY <1>4 DEF ReplayEvents
  <2>4. \A j \in 1 .. Len(r) : r[j].kind # "lagging"
    <3> HIDE DEF copy
    <3>1. \A j \in 1 .. Len(r) : \/ j = 1 /\ r[j] = window[1]
                                 \/ j - 1 \in 1 .. Len(copy) /\ r[j] = copy[j - 1]
      BY <1>2, <2>2, ItemBefore
    <3> HIDE DEF r
    <3> QED
      BY <1>2, <2>2, <3>1
  <2>5. \A j \in 1 .. Len(copy) : copy[j].kind # "lagging"
    BY <1>2
  <2> HIDE DEF copy, r
  <2> QED
    BY <2>3, <2>4, <2>5
<1> QED
  BY <1>3, <1>4

LEMMA SubscribeFate ==
    ASSUME FateInv, NEW s \in Subscribers, NEW l \in 0 .. MaxEvents, Subscribe(s, l)
    PROVE  Untouched(s) /\ UnderWay(s) = {} /\ Heard(s) = {}
<1>1. TypeOK /\ RecordedFor(s) /\ Places(s)
  BY DEF FateInv, TwiceInv, NoLossInv
<1>2. /\ UNCHANGED <<nextId, pubVars, queue, received, due, lost>>
      /\ phase[s] = "new" /\ replay'[s] = ReplayEvents(l)
  BY <1>1 DEF Subscribe, TypeOK
<1>3. due[s] = {} /\ Heard(s)' = Heard(s)
  BY <1>1, <1>2 DEF RecordedFor, Heard
<1>4. \A i \in 1 .. Len(replay'[s]) : replay'[s][i].kind # "lagging"
  <2>1. \A i \in 1 .. Len(ReplayEvents(l)) : ReplayEvents(l)[i].kind # "lagging"
    BY <1>1, ReplayKinds
  <2> QED
    BY <1>2, <2>1
<1>5. Untouched(s)
  BY <1>2, <1>3, <1>4, StreamLeaves
<1>6. UnderWay(s) = {} /\ Heard(s) = {}
  BY <1>1, <1>3 DEF Places, Sorted, Heard, UnderWay, InQueue, ToldBy
<1> QED
  BY <1>5, <1>6

LEMMA ReplayFate ==
    ASSUME FateInv, NEW s \in Subscribers, YieldReplay(s)
    PROVE  Untouched(s)
<1> DEFINE h == Head(replay[s])
<1>1. TypeOK /\ RecordedFor(s) /\ ReaderInv(s)
  BY DEF FateInv, TwiceInv, NoLossInv
<1>2. /\ UNCHANGED <<nextId, pubVars, queue, phase, due, lost>> /\ phase[s] = "open"
      /\ replay[s] \in Seq(Item) /\ replay[s] # <<>> /\ replay'[s] = Tail(replay[s])
      /\ received'[s] = received[s] \/ received'[s] = received[s] \cup {h}
  BY <1>1 DEF YieldReplay, TypeOK
<1>3. /\ h \in Item /\ h = replay[s][1] /\ 1 \in 1 .. Len(replay[s])
      /\ \A i \in 1 .. Len(replay'[s]) : i + 1 \in 1 .. Len(replay[s]) /\ replay'[s][i] = replay[s][i + 1]
  BY <1>2
<1>4. /\ \A e : Holds(replay'[s], e) => Holds(replay[s], e)
      /\ \A i \in 1 .. Len(replay'[s]) : replay'[s][i].kind # "lagging"
  BY <1>1, <1>3 DEF Holds, RecordedFor
<1>5. h.kind # "window" =>
          h.kind = "event" /\ h.id \in EventId /\ Holds(replay[s], h.id) /\ Tells(h) = {h.id}
  BY <1>1, <1>3 DEF RecordedFor, Item, Holds, Tells
<1> HIDE DEF h
<1>6. h.kind # "window" => Tells(h) \cap due[s] = {} /\ \A e \in Tells(h) : Done(e)
  BY <1>1, <1>5 DEF RecordedFor, ReaderInv, OnePlace
<1>7. Heard(s)' = Heard(s)
  <2>1. CASE received'[s] = received[s]
    BY <1>2, <2>1 DEF Heard
  <2>2. CASE received'[s] = received[s] \cup {h}
    BY <1>2, <1>6, <2>2 DEF Heard, Told
  <2> QED
    BY <1>2, <2>1, <2>2
<1>8. \A item \in received'[s] :
         item \in received[s] \/ item.kind = "window" \/ \A e \in Tells(item) : Done(e)
  BY <1>2, <1>6
<1> QED
  BY <1>2, <1>4, <1>7, <1>8, StreamLeaves

LEMMA UnsubscribeFate ==
    ASSUME FateInv, NEW s \in Subscribers, Unsubscribe(s)
    PROVE  Untouched(s)
<1>1. TypeOK /\ RecordedFor(s)
  BY DEF FateInv, TwiceInv, NoLossInv
<1>2. /\ UNCHANGED <<nextId, pubVars, queue, replay, received, due, lost>>
      /\ phase[s] = "open" /\ phase'[s] = "closed"
  BY <1>1 DEF Unsubscribe, TypeOK
<1>3. Heard(s)' = Heard(s)
  BY <1>2 DEF Heard
<1>4. \A i \in 1 .. Len(replay'[s]) : replay'[s][i].kind # "lagging"
  BY <1>1, <1>2 DEF RecordedFor
<1> QED
  BY <1>2, <1>3, <1>4, StreamLeaves

\* The reader hears of what the first item of its queue tells.
LEMMA LiveFate ==
    ASSUME FateInv, NEW s \in Subscribers, YieldLive(s)
    PROVE  /\ Places(s)' /\ RecordedFor(s)' /\ lost'[s] = lost[s]
           /\ \E told \in SUBSET UnderWay(s) :
                 UnderWay(s)' = UnderWay(s) \ told /\ Heard(s)' = Heard(s) \cup told
<1> DEFINE h == Head(queue[s])
           t == Tells(h)
<1>1. TypeOK /\ RecordedFor(s) /\ Places(s)
  BY DEF FateInv, TwiceInv, NoLossInv
<1>2. /\ UNCHANGED <<nextId, pubVars, replay, phase, due, lost>>
      /\ UNCHANGED <<pc, event, todo, target, drained>>
      /\ queue[s] \in Seq(Item) /\ queue[s] # <<>> /\ queue'[s] = Tail(queue[s])
      /\ received'[s] = received[s] \cup {h}
  BY <1>1 DEF YieldLive, TypeOK, pubVars
<1>3. /\ ToldBy(queue'[s]) = ToldBy(queue[s]) \ t /\ t \subseteq ToldBy(queue[s])
      /\ Apart(queue'[s]) /\ h.kind # "window"
      /\ \A i \in 1 .. Len(queue'[s]) : queue'[s][i].kind # "window"
  BY <1>1, <1>2, ToldTail DEF Places
<1> HIDE DEF h
<1>4. t \subseteq due[s]
  BY <1>1, <1>3 DEF Places, Sorted
<1>5. Heard(s)' = Heard(s) \cup t
  BY <1>2, <1>3, <1>4 DEF Heard, Told
<1>6. Owed(s)' = Owed(s)
  BY <1>2 DEF Owed
<1>7. InHand(s)' = InHand(s)
  BY <1>2 DEF InHand
<1>8. ToldBy(queue[s])' = ToldBy(queue[s]) \ t
  BY <1>3 DEF ToldBy
<1>9. Sorted(ToldBy(queue[s]) \ t, Owed(s), InHand(s), Heard(s) \cup t, lost[s], due[s])
  BY <1>1, <1>3, SortedMoves DEF Places
<1>10. Places(s)'
  <2>1. Sorted(ToldBy(queue[s]), Owed(s), InHand(s), Heard(s), lost[s], due[s])'
    BY <1>2, <1>5, <1>6, <1>7, <1>8, <1>9 DEF Sorted
  <2> QED
    BY <1>1, <1>2, <1>3, <2>1 DEF Places, Apart
<1>11. RecordedFor(s)'
  <2>1. \A e : Done(e)' <=> Done(e)
    BY <1>2 DEF Done
  <2>2. \A item \in received'[s] : item.kind # "window" => \A e \in Tells(item) : Done(e)'
    BY <1>1, <1>2, <1>4, <2>1 DEF RecordedFor
  <2> QED
    BY <1>1, <1>2, <2>1, <2>2 DEF RecordedFor, Holds
<1>12. UnderWay(s) = ToldBy(queue[s]) \cup Owed(s) \cup InHand(s)
  BY DEF UnderWay, InQueue, ToldBy
<1>13. UnderWay(s)' = ToldBy(queue[s])' \cup Owed(s)' \cup InHand(s)'
  BY DEF UnderWay, InQueue, ToldBy
<1>14. UnderWay(s)' = UnderWay(s) \ t /\ t \subseteq UnderWay(s)
  BY <1>1, <1>3, <1>6, <1>7, <1>8, <1>12, <1>13 DEF Places, Sorted
<1> QED
  BY <1>2, <1>5, <1>10, <1>11, <1>14

LEMMA FateInit == Init => FateInv
<1> SUFFICES ASSUME Init PROVE FateInv
  OBVIOUS
<1>1. ASSUME NEW s \in Subscribers
      PROVE  Places(s) /\ RecordedFor(s)
  <2>1. ToldBy(queue[s]) = {} /\ Apart(queue[s]) /\ Len(queue[s]) = 0
    BY DEF Init, ToldBy, Told, Elements, Apart
  <2>2. Owed(s) = {} /\ InHand(s) = {} /\ Heard(s) = {}
    BY DEF Init, Owed, InHand, Heard
  <2>3. Places(s)
    BY <2>1, <2>2 DEF Init, Places, Sorted
  <2>4. RecordedFor(s)
    BY DEF Init, RecordedFor
  <2> QED
    BY <2>3, <2>4
<1> QED
  BY <1>1, TwiceInit DEF FateInv

LEMMA FateStep ==
    ASSUME FateInv, [AnyNext]_vars
    PROVE  FateInv'
<1>1. TwiceInv'
  BY TwiceStep DEF FateInv
<1>2. ASSUME NEW p \in Publishers, Publish(p), NEW t \in Subscribers
      PROVE  Places(t)' /\ RecordedFor(t)'
  BY <1>2, RecordGives, PlacesPublish, RecordedForKept
<1>3. ASSUME NEW s \in Subscribers, AnyStream(s), NEW t \in Subscribers
      PROVE  Places(t)' /\ RecordedFor(t)'
  <2>1. CASE t # s
    BY <1>3, <2>1, StreamOfOther DEF Untouched
  <2>2. CASE t = s
    BY <1>3, <2>2, SubscribeFate, ReplayFate, UnsubscribeFate, LiveFate DEF AnyStream, Untouched
  <2> QED
    BY <2>1, <2>2
<1>4. CASE UNCHANGED vars
  <2>1. UNCHANGED <<nextId, queue, pc, event, todo, target, drained, phase, replay, received, due, lost>>
    BY <1>4 DEF vars, pubVars, subVars
  <2>2. ASSUME NEW t \in Subscribers
        PROVE  Untouched(t)
    <3>1. RecordedFor(t) /\ Heard(t)' = Heard(t)
      BY <2>1 DEF FateInv, Heard
    <3> QED
      BY <2>1, <3>1, StreamLeaves DEF pubVars, RecordedFor
  <2> QED
    BY <1>1, <2>2 DEF FateInv, Untouched
<1>5. \A t \in Subscribers : Places(t)' /\ RecordedFor(t)'
  <2>1. CASE AnyNext
    BY <1>2, <1>3, <2>1 DEF AnyNext
  <2>2. CASE UNCHANGED vars
    BY <1>4, <2>2 DEF FateInv
  <2> QED
    BY <2>1, <2>2
<1> QED
  BY <1>1, <1>5 DEF FateInv

-----------------------------------------------------------------------------
(* The steps of the hub are steps of FanOut, or none *)

LEMMA RecordedIsDone ==
    Recorded = {e \in EventId : Done(e)} /\ Recorded' = {e \in EventId : Done(e)'}
<1>1. Recorded = {e \in EventId : Done(e)}
  BY DEF Recorded, Done
<1>2. Recorded' = {e \in EventId : Done(e)'}
  BY DEF Recorded, Done
<1> QED
  BY <1>1, <1>2

LEMMA PromiseInit == Init => Promise!Init
<1> SUFFICES ASSUME Init PROVE Promise!Init
  OBVIOUS
<1>1. Recorded = {}
  BY DEF Init, Recorded, EventId
<1>2. ASSUME NEW s \in Subscribers
      PROVE  UnderWay(s) = {} /\ Heard(s) = {}
  <2>1. Owed(s) = {} /\ InHand(s) = {} /\ Heard(s) = {}
    BY <1>2 DEF Init, Owed, InHand, Heard
  <2>2. InQueue(s) = {}
    BY <1>2 DEF Init, InQueue, Elements
  <2> QED
    BY <2>1, <2>2 DEF UnderWay, Told
<1> QED
  BY <1>1, <1>2 DEF Promise!Init, Init

\* publish() up to and after the critical section: nothing, or a loss.
LEMMA PublishLoses ==
    ASSUME FateInv, NEW p \in Publishers, Publish(p), ~Record(p)
    PROVE  Promise!Lose
<1>1. TypeOK /\ TypeOK' /\ \A r \in Subscribers : Settled(r)
  BY PlacesPublish, TypeStepPublish DEF FateInv, TwiceInv, NoLossInv
<1>2. Recorded' = Recorded
  <2>1. \A e \in EventId : Done(e)' <=> Done(e)
    BY <1>1, IdsPublish, RecordRecords DEF FateInv
  <2> QED
    BY <2>1, RecordedIsDone
<1>3. subscribers' = subscribers
  BY DEF Publish, DrawId, PublishReturns, Enqueue, EnqueueFull, DrainOne, DrainEnd,
         PutNotice, PutCurrent, PutRaises
<1>4. lost' \in [Subscribers -> SUBSET EventId]
  BY <1>1 DEF TypeOK
<1> QED
  BY <1>1, <1>2, <1>3, <1>4 DEF Promise!Lose, Settled

LEMMA RecordPublishes ==
    ASSUME FateInv, NEW p \in Publishers, Record(p)
    PROVE  Promise!Publish(event[p])
<1>1. TypeOK /\ IdsInv
  BY DEF FateInv, TwiceInv, NoLossInv
<1>2. PICK e0 \in EventId : /\ e0 = event[p] /\ ~Done(e0)
                            /\ \A e \in EventId : Done(e)' <=> Done(e) \/ e = e0
  BY <1>1, RecordsOne
<1>3. e0 \notin Recorded /\ Recorded' = Recorded \cup {e0}
  BY <1>2, RecordedIsDone
<1>4. subscribers' = subscribers /\ lost' = lost
  BY DEF Record
<1>5. \A r \in Subscribers : /\ Heard(r)' = Heard(r)
                             /\ r \in subscribers => UnderWay(r)' = UnderWay(r) \cup {e0}
                             /\ r \notin subscribers => UnderWay(r)' = UnderWay(r)
  BY <1>2, RecordGives
<1>6. Promise!Publish(e0)
  BY <1>3, <1>4, <1>5 DEF Promise!Publish
<1> QED
  BY <1>2, <1>6

\* A stream: Register, Hear, Leave, or nothing.
LEMMA StreamPromise ==
    ASSUME FateInv, NEW s \in Subscribers, AnyStream(s)
    PROVE  Promise!Register(s) \/ Promise!Hear(s) \/ Promise!Leave(s) \/ UNCHANGED Promise!vars
<1>1. TypeOK /\ ReaderInv(s)
  BY DEF FateInv, TwiceInv, NoLossInv
<1>2. UNCHANGED <<nextId, pc, event, lost>>
  BY DEF AnyStream, Subscribe, YieldReplay, YieldLive, Unsubscribe, pubVars
<1>3. Recorded' = Recorded
  BY <1>2 DEF Recorded
<1>4. \A t \in Subscribers : t # s => UnderWay(t)' = UnderWay(t) /\ Heard(t)' = Heard(t)
  BY StreamOfOther DEF Untouched
<1>5. ASSUME NEW l \in 0 .. MaxEvents, Subscribe(s, l)
      PROVE  Promise!Register(s)
  <2>1. s \notin subscribers /\ subscribers' = subscribers \cup {s}
    BY <1>1, <1>5 DEF Subscribe, ReaderInv, NothingBefore
  <2>2. /\ UnderWay(s) = {} /\ Heard(s) = {}
        /\ \A t \in Subscribers : UnderWay(t)' = UnderWay(t) /\ Heard(t)' = Heard(t)
    BY <1>4, <1>5, SubscribeFate DEF Untouched
  <2> QED
    BY <1>2, <1>3, <2>1, <2>2 DEF Promise!Register
<1>6. CASE YieldReplay(s)
  <2>1. subscribers' = subscribers
    BY <1>6 DEF YieldReplay
  <2>2. \A t \in Subscribers : UnderWay(t)' = UnderWay(t) /\ Heard(t)' = Heard(t)
    BY <1>4, <1>6, ReplayFate DEF Untouched
  <2> QED
    BY <1>2, <1>3, <2>1, <2>2 DEF Promise!vars
<1>7. CASE YieldLive(s)
  <2>1. subscribers' = subscribers
    BY <1>7 DEF YieldLive
  <2>2. PICK told \in SUBSET UnderWay(s) :
           UnderWay(s)' = UnderWay(s) \ told /\ Heard(s)' = Heard(s) \cup told
    BY <1>7, LiveFate
  <2> QED
    BY <1>2, <1>3, <1>4, <2>1, <2>2 DEF Promise!Hear
<1>8. CASE Unsubscribe(s)
  <2>1. subscribers' = subscribers \ {s}
    BY <1>8 DEF Unsubscribe
  <2>2. \A t \in Subscribers : UnderWay(t)' = UnderWay(t) /\ Heard(t)' = Heard(t)
    BY <1>4, <1>8, UnsubscribeFate DEF Untouched
  <2> QED
    BY <1>2, <1>3, <2>1, <2>2 DEF Promise!Leave
<1> QED
  BY <1>5, <1>6, <1>7, <1>8 DEF AnyStream

LEMMA PromiseStep ==
    ASSUME FateInv, [AnyNext]_vars
    PROVE  [Promise!Next]_(Promise!vars)
<1>1. TypeOK
  BY DEF FateInv, TwiceInv, NoLossInv
<1>2. ASSUME NEW p \in Publishers, Publish(p)
      PROVE  Promise!Next
  <2>1. CASE Record(p)
    <3>1. event[p] \in EventId /\ Promise!Publish(event[p])
      BY <1>1, <2>1, RecordPublishes, RecordsOne DEF FateInv, TwiceInv
    <3> QED
      BY <3>1 DEF Promise!Next
  <2>2. CASE ~Record(p)
    BY <1>2, <2>2, PublishLoses DEF Promise!Next
  <2> QED
    BY <2>1, <2>2
<1>3. ASSUME NEW s \in Subscribers, AnyStream(s)
      PROVE  [Promise!Next]_(Promise!vars)
  BY <1>3, StreamPromise DEF Promise!Next
<1>4. CASE UNCHANGED vars
  <2>1. UNCHANGED <<nextId, subscribers, queue, pc, event, todo, target, drained, received, due, lost>>
    BY <1>4 DEF vars, pubVars, subVars
  <2>2. Recorded' = Recorded
    BY <2>1 DEF Recorded
  <2>3. ASSUME NEW t \in Subscribers
        PROVE  UnderWay(t)' = UnderWay(t) /\ Heard(t)' = Heard(t)
    <3>1. Owed(t)' = Owed(t)
      BY <2>1 DEF Owed
    <3>2. InHand(t)' = InHand(t)
      BY <2>1 DEF InHand
    <3>3. InQueue(t)' = InQueue(t)
      BY <2>1 DEF InQueue
    <3>4. Heard(t)' = Heard(t)
      BY <2>1 DEF Heard
    <3> QED
      BY <3>1, <3>2, <3>3, <3>4 DEF UnderWay
  <2> QED
    BY <2>1, <2>2, <2>3 DEF Promise!vars
<1> QED
  BY <1>2, <1>3, <1>4 DEF AnyNext

\* To each reader publish() is one step, however its steps interleave with those of
\* other publishers and of the readers: it hears of an event once, unless that is
\* lost for good, for any number of publishers and readers and for all sizes.
THEOREM HubImplementsFanOut == Spec => ImplementsFanOut
<1>1. FateInv /\ [Next]_vars => FateInv'
  BY NextIsAny, FateStep DEF FateInv, TwiceInv, NoLossInv
<1>2. FateInv /\ [Next]_vars => [Promise!Next]_(Promise!vars)
  BY NextIsAny, PromiseStep DEF FateInv, TwiceInv, NoLossInv
<1> QED
  BY FateInit, PromiseInit, <1>1, <1>2, PTL DEF Spec, ImplementsFanOut, Promise!Spec

-----------------------------------------------------------------------------
(* One publisher: what a subscription has yielded, its replay, its queue and   *)
(* what it is still owed follow one another in the order of the ids; after an  *)
(* id it resumes from come all later events; notices report what is missing.   *)

-----------------------------------------------------------------------------
(* Events in order in a sequence of items *)

InOrder(q) ==
    \A i, j \in 1 .. Len(q) :
        i < j /\ q[i].kind = "event" /\ q[j].kind = "event" => q[i].id < q[j].id

LEMMA TakeInOrder ==
    ASSUME NEW q \in Seq(Item), q # <<>>, InOrder(q)
    PROVE  /\ InOrder(Tail(q))
           /\ \A e \in EventId : Holds(Tail(q), e) => Holds(q, e)
           /\ Head(q).kind = "event" => /\ Holds(q, Head(q).id)
                                        /\ \A e \in EventId : Holds(Tail(q), e) => Head(q).id < e
<1>1. /\ Len(q) \in Nat \ {0} /\ Len(Tail(q)) = Len(q) - 1 /\ Head(q) = q[1]
      /\ \A i \in 1 .. Len(Tail(q)) : Tail(q)[i] = q[i + 1] /\ i + 1 \in 1 .. Len(q) /\ 1 < i + 1
  OBVIOUS
<1>2. InOrder(Tail(q))
  <2> SUFFICES ASSUME NEW i \in 1 .. Len(Tail(q)), NEW j \in 1 .. Len(Tail(q)), i < j,
                      Tail(q)[i].kind = "event", Tail(q)[j].kind = "event"
               PROVE  Tail(q)[i].id < Tail(q)[j].id
    BY DEF InOrder
  <2>1. i + 1 < j + 1
    OBVIOUS
  <2> QED
    BY <1>1, <2>1 DEF InOrder
<1>3. \A e \in EventId : Holds(Tail(q), e) => Holds(q, e)
  BY <1>1 DEF Holds
<1>4. ASSUME Head(q).kind = "event"
      PROVE  Holds(q, Head(q).id) /\ \A e \in EventId : Holds(Tail(q), e) => Head(q).id < e
  <2>1. 1 \in 1 .. Len(q)
    BY <1>1
  <2>2. \A i \in 1 .. Len(Tail(q)) : Tail(q)[i].kind = "event" => Head(q).id < Tail(q)[i].id
    BY <1>1, <1>4, <2>1 DEF InOrder
  <2> QED
    BY <1>1, <1>4, <2>1, <2>2 DEF Holds
<1> QED
  BY <1>2, <1>3, <1>4

LEMMA PutInOrder ==
    ASSUME NEW q \in Seq(Item), NEW item \in Item, InOrder(q),
           item.kind = "event" => \A e \in EventId : Holds(q, e) => e < item.id
    PROVE  InOrder(Append(q, item))
<1> DEFINE r == Append(q, item)
<1>1. /\ Len(q) \in Nat /\ Len(r) = Len(q) + 1 /\ r[Len(q) + 1] = item
      /\ \A i \in 1 .. Len(q) : r[i] = q[i] /\ q[i] \in Item
  OBVIOUS
<1> HIDE DEF r
<1> SUFFICES ASSUME NEW i \in 1 .. Len(r), NEW j \in 1 .. Len(r), i < j,
                    r[i].kind = "event", r[j].kind = "event"
             PROVE  r[i].id < r[j].id
  BY DEF InOrder, r
<1>2. i \in 1 .. Len(q) /\ (j \in 1 .. Len(q) \/ j = Len(q) + 1)
  BY <1>1
<1>3. CASE j \in 1 .. Len(q)
  BY <1>1, <1>2, <1>3 DEF InOrder
<1>4. CASE j = Len(q) + 1
  <2>1. q[i].id \in EventId /\ Holds(q, q[i].id)
    BY <1>1, <1>2 DEF Holds, Item
  <2> QED
    BY <1>1, <1>2, <1>4, <2>1
<1> QED
  BY <1>2, <1>3, <1>4

-----------------------------------------------------------------------------
(* The invariant *)

\* What s has yielded comes before its replay, that before its queue, and that
\* before what it is owed.
Ahead(s) ==
    \A e, f \in EventId :
        \/ HasReceived(s, e) /\ (HasReplay(s, f) \/ HasQueued(s, f) \/ HasOwed(s, f))
        \/ HasReplay(s, e) /\ (HasQueued(s, f) \/ HasOwed(s, f))
        \/ HasQueued(s, e) /\ HasOwed(s, f)
        => e < f

ReaderOrder(s) == Ahead(s) /\ InOrder(queue[s]) /\ InOrder(replay[s])

\* The single publisher works on the latest id, and records ids as they are drawn.
LatestInv ==
    /\ \A p \in Publishers : pc[p] # "idle" => event[p] = nextId - 1
    /\ \A i, j \in 1 .. Len(history) : i < j => history[i] < history[j]

OrderInv == TwiceInv /\ LatestInv /\ \A s \in Subscribers : ReaderOrder(s)

\* A reader that gets nothing new, but may lose what it had.
LEMMA OrderKept ==
    ASSUME OrderInv, NEW t \in Subscribers,
           received'[t] = received[t], replay'[t] = replay[t], last'[t] = last[t],
           InOrder(queue'[t]), \A e \in EventId : Holds(queue'[t], e) => Holds(queue[t], e),
           \A p \in Publishers : t \in todo'[p] => t \in todo[p] /\ event'[p] = event[p]
    PROVE  ReaderOrder(t)'
<1>1. Ahead(t) /\ InOrder(replay[t])
  BY DEF OrderInv, ReaderOrder
<1>2. \A e \in EventId : /\ HasReceived(t, e)' <=> HasReceived(t, e)
                         /\ HasReplay(t, e)' <=> HasReplay(t, e)
                         /\ HasQueued(t, e)' => HasQueued(t, e)
                         /\ HasOwed(t, e)' => HasOwed(t, e)
  BY DEF HasReceived, HasReplay, HasQueued, HasOwed, Holds
<1>3. Ahead(t)'
  BY <1>1, <1>2 DEF Ahead
<1>4. InOrder(queue[t])' /\ InOrder(replay[t])'
  BY <1>1 DEF InOrder
<1> QED
  BY <1>3, <1>4 DEF ReaderOrder

\* With a single publisher, the history stays in order.
LEMMA LatestPublish ==
    ASSUME OrderInv, NEW p \in Publishers, Publishers = {p}, Publish(p)
    PROVE  LatestInv'
<1>1. TypeOK /\ LatestInv /\ IdsInv
  BY DEF OrderInv, TwiceInv, NoLossInv
<1>2. CASE DrawId(p)
  <2>1. /\ event'[p] = nextId /\ nextId' = nextId + 1 /\ nextId \in Nat /\ history' = history
    BY <1>1, <1>2 DEF DrawId, TypeOK
  <2> QED
    BY <1>1, <2>1 DEF LatestInv
<1>3. CASE Record(p)
  <2>1. /\ event[p] = nextId - 1 /\ nextId \in Nat /\ UNCHANGED <<event, nextId>>
        /\ \A i \in 1 .. Len(history) : history[i] \in EventId /\ history[i] < nextId /\ history[i] # event[p]
    BY <1>1, <1>3 DEF Record, LatestInv, IdsInv, Done, TypeOK
  <2>2. \A i \in 1 .. Len(history) : history[i] < event[p]
    BY <2>1 DEF EventId
  <2>3. \A i \in 1 .. Len(history') :
           \/ i = Len(history') /\ history'[i] = event[p]
           \/ /\ i # Len(history')
              /\ IF Len(history) < ReplaySize THEN i \in 1 .. Len(history) /\ history'[i] = history[i]
                 ELSE i + 1 \in 1 .. Len(history) /\ history'[i] = history[i + 1]
    BY <1>1, <1>3, SizesAssumption DEF Record, Appended, TypeOK
  <2>4. Len(history') \in Nat
    BY <1>1, <1>3 DEF Record, Appended, TypeOK
  <2>5. ASSUME NEW i \in 1 .. Len(history'), NEW j \in 1 .. Len(history'), i < j
        PROVE  history'[i] < history'[j]
    <3>1. i # Len(history')
      BY <2>4, <2>5
    <3>2. CASE j = Len(history')
      BY <2>2, <2>3, <3>1, <3>2
    <3>3. CASE j # Len(history')
      <4>1. i + 1 < j + 1
        BY <2>5
      <4> QED
        BY <1>1, <2>3, <2>5, <3>1, <3>3, <4>1 DEF LatestInv
    <3> QED
      BY <3>2, <3>3
  <2>6. \A q \in Publishers : event'[q] = nextId' - 1
    BY <2>1
  <2> QED
    BY <2>5, <2>6 DEF LatestInv
<1>4. CASE ~(DrawId(p) \/ Record(p))
  <2>1. UNCHANGED <<nextId, history, event>>
    BY <1>4 DEF Publish, PublishReturns, Enqueue, EnqueueFull, DrainOne, DrainEnd, PutNotice, PutCurrent, PutRaises
  <2>2. \A q \in Publishers : pc'[q] # "idle" => pc[q] # "idle"
    BY <1>1, <1>4 DEF TypeOK, Publish, PublishReturns, Enqueue, EnqueueFull, DrainOne, DrainEnd,
                      PutNotice, PutCurrent, PutRaises
  <2> QED
    BY <1>1, <2>1, <2>2 DEF LatestInv
<1> QED
  BY <1>2, <1>3, <1>4

\* The reader whom the publisher owed its event has it in its queue.
LEMMA OrderServed ==
    ASSUME OrderInv, NEW p \in Publishers, Publishers = {p},
           NEW s \in Subscribers, Enqueue(p, s) \/ PutCurrent(p, s)
    PROVE  ReaderOrder(s)'
<1> DEFINE e0 == event[p]
<1>1. TypeOK /\ ReaderOrder(s) /\ PublisherShape(p)
  BY DEF OrderInv, TwiceInv, NoLossInv
<1>2. /\ s \in todo[p] /\ pc[p] \notin {"idle", "record"}
      /\ UNCHANGED <<last, replay, received, event>>
      /\ queue[s] \in Seq(Item) /\ queue'[s] = Append(queue[s], EventItem(e0))
      /\ s \notin todo'[p]
  BY <1>1 DEF Enqueue, PutCurrent, Put, TypeOK, PublisherShape, subVars
<1>3. e0 \in EventId /\ EventItem(e0) \in Item /\ EventItem(e0).kind = "event" /\ EventItem(e0).id = e0
  BY <1>1, <1>2, EventItemType DEF TypeOK, EventId, NoId
<1>4. HasOwed(s, e0) /\ \A e \in EventId : ~HasOwed(s, e)'
  BY <1>2 DEF HasOwed
<1>5. \A e \in EventId : Holds(queue[s], e) => e < e0
  BY <1>1, <1>3, <1>4 DEF ReaderOrder, Ahead, HasQueued
<1> HIDE DEF e0
<1>6. InOrder(queue'[s])
  BY <1>1, <1>2, <1>3, <1>5, PutInOrder DEF ReaderOrder
<1>7. NoRepeats(queue[s]) /\ ~Holds(queue[s], e0)
  BY <1>3, <1>4 DEF OrderInv, TwiceInv, ReaderInv, OnePlace, HasQueued
<1>8. \A e \in EventId : Holds(queue'[s], e) => Holds(queue[s], e) \/ e = e0
  BY <1>2, <1>3, <1>7, PutLast
<1>9. \A e \in EventId : /\ HasReceived(s, e)' <=> HasReceived(s, e)
                         /\ HasReplay(s, e)' <=> HasReplay(s, e)
                         /\ HasQueued(s, e)' => HasQueued(s, e) \/ e = e0
  BY <1>2, <1>8 DEF HasReceived, HasReplay, HasQueued, Holds
<1>10. Ahead(s)'
  BY <1>1, <1>3, <1>4, <1>9 DEF ReaderOrder, Ahead
<1> QED
  BY <1>1, <1>2, <1>6, <1>10 DEF ReaderOrder, InOrder

\* A step of publish() for every reader.
LEMMA OrderPublish ==
    ASSUME OrderInv, NEW p \in Publishers, Publishers = {p}, Publish(p), NEW t \in Subscribers
    PROVE  ReaderOrder(t)'
<1>1. /\ TypeOK /\ IdsInv /\ LatestInv /\ ReaderInv(t) /\ ReaderOrder(t) /\ PublisherShape(p)
      /\ InOrder(queue[t])
  BY DEF OrderInv, TwiceInv, NoLossInv, ReaderOrder
<1>2. UNCHANGED <<last, replay, received>>
  BY DEF Publish, DrawId, Record, PublishReturns, Enqueue, EnqueueFull, DrainOne, DrainEnd,
         PutNotice, PutCurrent, PutRaises, subVars
<1>3. CASE DrawId(p)
  <2>1. queue' = queue /\ \A q \in Publishers : t \notin todo'[q]
    BY <1>1, <1>3 DEF DrawId, PublisherShape
  <2> QED
    BY <1>1, <1>2, <2>1, OrderKept
<1>4. CASE Record(p)
  <2> DEFINE e0 == event[p]
  <2>1. /\ UNCHANGED <<queue, event>> /\ pc[p] = "record" /\ e0 = nextId - 1
        /\ nextId \in Nat /\ e0 \in EventId
    BY <1>1, <1>4 DEF Record, LatestInv, TypeOK, EventId, NoId
  <2>2. \A e \in EventId : Done(e) => e < e0
    BY <2>1 DEF Done, EventId
  <2>3. \A e \in EventId : HasOwed(t, e)' => e = e0
    BY <2>1 DEF HasOwed
  <2> HIDE DEF e0
  <2>4. \A e \in EventId : /\ HasReceived(t, e)' <=> HasReceived(t, e)
                           /\ HasReplay(t, e)' <=> HasReplay(t, e)
                           /\ HasQueued(t, e)' <=> HasQueued(t, e)
                           /\ HasReplay(t, e) => Holds(replay[t], e)
    BY <1>2, <2>1 DEF HasReceived, HasReplay, HasQueued, Holds
  <2>5. \A e \in EventId : HasReceived(t, e) \/ HasReplay(t, e) \/ HasQueued(t, e) => e < e0
    BY <1>1, <2>2, <2>4 DEF ReaderInv, OnePlace
  <2>6. Ahead(t)'
    BY <1>1, <2>3, <2>4, <2>5 DEF ReaderOrder, Ahead
  <2> QED
    BY <1>1, <1>2, <2>1, <2>6 DEF ReaderOrder, InOrder
<1>5. CASE PublishReturns(p)
  BY <1>1, <1>2, <1>5, OrderKept DEF PublishReturns
<1>6. ASSUME NEW s \in Subscribers, EnqueueFull(p, s) \/ DrainEnd(p, s) \/ PutRaises(p, s)
      PROVE  ReaderOrder(t)'
  <2>1. queue' = queue /\ \A q \in Publishers : t \in todo'[q] => t \in todo[q] /\ event'[q] = event[q]
    BY <1>1, <1>6 DEF EnqueueFull, DrainEnd, PutRaises, TypeOK
  <2> QED
    BY <1>1, <1>2, <2>1, OrderKept
<1>7. ASSUME NEW s \in Subscribers, Enqueue(p, s) \/ PutCurrent(p, s)
      PROVE  ReaderOrder(t)'
  <2>1. CASE t = s
    BY <1>7, <2>1, OrderServed
  <2>2. CASE t # s
    <3>1. /\ queue'[t] = queue[t] /\ UNCHANGED event
          /\ todo' = [todo EXCEPT ![p] = @ \ {s}] /\ todo \in [Publishers -> SUBSET Subscribers]
      BY <1>1, <1>7, <2>2 DEF Enqueue, PutCurrent, Put, TypeOK
    <3>2. \A q \in Publishers : t \in todo'[q] => t \in todo[q]
      BY <3>1
    <3> QED
      BY <1>1, <1>2, <3>1, <3>2, OrderKept
  <2> QED
    BY <2>1, <2>2
<1>8. ASSUME NEW s \in Subscribers, DrainOne(p, s) \/ PutNotice(p, s)
      PROVE  ReaderOrder(t)'
  <2>1. UNCHANGED <<todo, event>>
    BY <1>8 DEF DrainOne, PutNotice
  <2>2. InOrder(queue'[t]) /\ \A e \in EventId : Holds(queue'[t], e) => Holds(queue[t], e)
    <3>1. CASE t # s
      <4>1. queue'[t] = queue[t]
        BY <1>1, <1>8, <3>1 DEF DrainOne, PutNotice, Put, TypeOK
      <4> QED
        BY <1>1, <4>1
    <3>2. CASE t = s /\ DrainOne(p, s)
      <4>1. queue[t] \in Seq(Item) /\ queue[t] # <<>> /\ queue'[t] = Tail(queue[t])
        BY <1>1, <3>2 DEF DrainOne, TypeOK
      <4> QED
        BY <1>1, <4>1, TakeInOrder
    <3>3. CASE t = s /\ PutNotice(p, s)
      <4> DEFINE n == LaggingNotice(event[p], drained[p])
      <4>1. event[p] \in EventId /\ drained[p] \in SUBSET EventId
        BY <1>1, <3>3 DEF PutNotice, TypeOK, EventId, NoId
      <4>2. n \in Item /\ n.kind # "event"
        BY <4>1, LaggingNoticeType DEF LaggingNotice
      <4>3. queue[t] \in Seq(Item) /\ queue'[t] = Append(queue[t], n)
        BY <1>1, <3>3 DEF PutNotice, Put, TypeOK
      <4> HIDE DEF n
      <4>4. InOrder(queue'[t])
        BY <1>1, <4>2, <4>3, PutInOrder
      <4>5. NoRepeats(queue[t])
        BY <1>1 DEF ReaderInv
      <4>6. \A e \in EventId : Holds(queue'[t], e) => Holds(queue[t], e)
        BY <4>2, <4>3, <4>5, PutLast
      <4> QED
        BY <4>4, <4>6
    <3> QED
      BY <1>8, <3>1, <3>2, <3>3
  <2> QED
    BY <1>2, <2>1, <2>2, OrderKept
<1> QED
  BY <1>3, <1>4, <1>5, <1>6, <1>7, <1>8 DEF Publish

\* A history in order is replayed in order.
LEMMA ReplayInOrder ==
    ASSUME TypeOK, LatestInv, NEW l \in 0 .. MaxEvents
    PROVE  InOrder(ReplayEvents(l))
<1> DEFINE copy == [i \in 1 .. Len(history) |-> EventItem(history[i])]
           window == <<WindowNotice(l, history[1])>>
<1>1. Len(history) \in Nat /\ \A i \in 1 .. Len(history) : history[i] \in EventId
  BY DEF TypeOK
<1>2. /\ copy \in Seq(Item) /\ Len(copy) = Len(history)
      /\ \A i \in 1 .. Len(copy) : copy[i].id = history[i]
  BY <1>1, EventItemType
<1>3. InOrder(copy)
  <2> HIDE DEF copy
  <2> QED
    BY <1>2 DEF InOrder, LatestInv
<1>4. CASE l = NoId \/ ~\E i \in 1 .. Len(history) : history[i] > l
  <2>1. ReplayEvents(l) = <<>> /\ Len(<<>>) = 0
    BY <1>4 DEF ReplayEvents
  <2> QED
    BY <2>1 DEF InOrder
<1>5. CASE ~(l = NoId \/ ~\E i \in 1 .. Len(history) : history[i] > l)
  <2>1. history[1] \in EventId
    BY <1>1, <1>5
  <2>2. window[1] \in Item /\ window = <<window[1]>> /\ window[1].kind = "window"
    BY <2>1, WindowNoticeType DEF WindowNotice
  <2> DEFINE r == window \o copy
  <2>3. InOrder(r)
    <3>1. /\ Len(r) \in Nat
          /\ \A i \in 1 .. Len(r) : \/ i = 1 /\ r[i].kind = "window"
                                    \/ i - 1 \in 1 .. Len(copy) /\ r[i] = copy[i - 1]
      <4> HIDE DEF copy
      <4> QED
        BY <1>2, <2>2, ItemBefore
    <3> HIDE DEF r, copy
    <3> SUFFICES ASSUME NEW i \in 1 .. Len(r), NEW j \in 1 .. Len(r), i < j,
                        r[i].kind = "event", r[j].kind = "event"
                 PROVE  r[i].id < r[j].id
      BY DEF InOrder
    <3>2. /\ i - 1 \in 1 .. Len(copy) /\ r[i] = copy[i - 1]
          /\ j - 1 \in 1 .. Len(copy) /\ r[j] = copy[j - 1]
      BY <3>1
    <3>3. i - 1 < j - 1
      BY <3>1
    <3> QED
      BY <1>3, <3>2, <3>3 DEF InOrder
  <2>4. ReplayEvents(l) = IF GapBefore(l) THEN r ELSE copy
    BY <1>5 DEF ReplayEvents
  <2> HIDE DEF r, copy
  <2> QED
    BY <1>3, <2>3, <2>4
<1> QED
  BY <1>4, <1>5

\* A step of a subscription or its generator, for itself.
LEMMA OrderStream ==
    ASSUME OrderInv, NEW s \in Subscribers, AnyStream(s)
    PROVE  ReaderOrder(s)'
<1>1. TypeOK /\ LatestInv /\ ReaderInv(s) /\ ReaderOrder(s)
  BY DEF OrderInv, TwiceInv, NoLossInv
<1>2. UNCHANGED <<event, todo>>
  BY DEF AnyStream, Subscribe, YieldReplay, YieldLive, Unsubscribe, pubVars
<1>3. \A e \in EventId : HasOwed(s, e)' <=> HasOwed(s, e)
  BY <1>2 DEF HasOwed
<1>4. ASSUME NEW l \in 0 .. MaxEvents, Subscribe(s, l)
      PROVE  ReaderOrder(s)'
  <2>1. l \in 0 .. MaxEvents
    OBVIOUS
  <2>2. /\ received'[s] = {} /\ queue'[s] = <<>> /\ replay'[s] = ReplayEvents(l)
        /\ \A p \in Publishers : s \notin todo'[p]
    BY <1>1, <1>4 DEF Subscribe, ReaderInv, NothingBefore, TypeOK, pubVars
  <2>3. \A e \in EventId : ~HasReceived(s, e)' /\ ~HasQueued(s, e)' /\ ~HasOwed(s, e)'
    BY <2>2 DEF HasReceived, HasQueued, HasOwed, Holds
  <2>4. InOrder(replay'[s]) /\ InOrder(queue'[s])
    <3>1. InOrder(replay'[s])
      BY <1>1, <2>1, <2>2, ReplayInOrder
    <3>2. Len(queue'[s]) = 0
      BY <2>2
    <3> QED
      BY <3>1, <3>2 DEF InOrder
  <2>5. Ahead(s)'
    BY <2>3 DEF Ahead
  <2> QED
    BY <2>4, <2>5 DEF ReaderOrder, InOrder
<1>5. CASE YieldReplay(s)
  <2> DEFINE h == Head(replay[s])
  <2>1. /\ replay[s] \in Seq(Item) /\ replay[s] # <<>> /\ replay'[s] = Tail(replay[s])
        /\ UNCHANGED <<queue, last>> /\ h \in Item
    BY <1>1, <1>5 DEF YieldReplay, TypeOK
  <2>2. /\ InOrder(replay'[s])
        /\ \A e \in EventId : Holds(replay'[s], e) => Holds(replay[s], e)
        /\ h.kind = "event" => /\ Holds(replay[s], h.id)
                               /\ \A e \in EventId : Holds(replay'[s], e) => h.id < e
    BY <1>1, <2>1, TakeInOrder DEF ReaderOrder
  <2>3. received'[s] = IF h.kind = "window" \/ h.id > last[s] THEN received[s] \cup {h} ELSE received[s]
    BY <1>1, <1>5 DEF YieldReplay, TypeOK
  <2> HIDE DEF h
  <2>4. \A e \in EventId : HasReceived(s, e)' =>
            \/ HasReceived(s, e)
            \/ HasReplay(s, e) /\ \A f \in EventId : Holds(replay'[s], f) => e < f
    BY <2>2, <2>3 DEF HasReceived, HasReplay
  <2>5. \A e \in EventId : /\ HasReplay(s, e)' => HasReplay(s, e) /\ Holds(replay'[s], e)
                           /\ HasQueued(s, e)' <=> HasQueued(s, e)
    BY <2>1, <2>2 DEF HasReplay, HasQueued, Holds
  <2>6. Ahead(s)'
    BY <1>1, <1>3, <2>4, <2>5 DEF Ahead, ReaderOrder
  <2> QED
    BY <1>1, <2>1, <2>2, <2>6 DEF ReaderOrder, InOrder
<1>6. CASE YieldLive(s)
  <2> DEFINE h == Head(queue[s])
  <2>1. /\ queue[s] \in Seq(Item) /\ queue[s] # <<>> /\ queue'[s] = Tail(queue[s])
        /\ UNCHANGED <<replay, last>> /\ h \in Item /\ replay[s] = <<>>
    BY <1>1, <1>6 DEF YieldLive, TypeOK
  <2>2. /\ InOrder(queue'[s])
        /\ \A e \in EventId : Holds(queue'[s], e) => Holds(queue[s], e)
        /\ h.kind = "event" => /\ Holds(queue[s], h.id)
                               /\ \A e \in EventId : Holds(queue'[s], e) => h.id < e
    BY <1>1, <2>1, TakeInOrder DEF ReaderOrder
  <2>3. received'[s] = received[s] \cup {h}
    BY <1>1, <1>6 DEF YieldLive, TypeOK
  <2> HIDE DEF h
  <2>4. \A e \in EventId : HasReceived(s, e)' =>
            \/ HasReceived(s, e)
            \/ HasQueued(s, e) /\ \A f \in EventId : Holds(queue'[s], f) => e < f
    BY <2>2, <2>3 DEF HasReceived, HasQueued
  <2>5. \A e \in EventId : /\ ~HasReplay(s, e)'
                           /\ HasQueued(s, e)' => HasQueued(s, e) /\ Holds(queue'[s], e)
    <3>1. Len(replay'[s]) = 0
      BY <2>1
    <3> QED
      BY <2>2, <3>1 DEF HasReplay, HasQueued, Holds
  <2>6. Ahead(s)'
    BY <1>1, <1>3, <2>4, <2>5 DEF Ahead, ReaderOrder
  <2> QED
    BY <1>1, <2>1, <2>2, <2>6 DEF ReaderOrder, InOrder
<1>7. CASE Unsubscribe(s)
  <2>1. UNCHANGED <<queue, replay, received, last>>
    BY <1>1, <1>7 DEF Unsubscribe, TypeOK
  <2>2. \A e \in EventId : /\ HasReceived(s, e)' <=> HasReceived(s, e)
                           /\ HasReplay(s, e)' <=> HasReplay(s, e)
                           /\ HasQueued(s, e)' <=> HasQueued(s, e)
    BY <2>1 DEF HasReceived, HasReplay, HasQueued, Holds
  <2>3. Ahead(s)'
    BY <1>1, <1>3, <2>2 DEF Ahead, ReaderOrder
  <2> QED
    BY <1>1, <2>1, <2>3 DEF ReaderOrder, InOrder
<1> QED
  BY <1>4, <1>5, <1>6, <1>7 DEF AnyStream

LEMMA OrderInit == Init => OrderInv
<1> SUFFICES ASSUME Init PROVE OrderInv
  OBVIOUS
<1>1. IdsInv /\ LatestInv
  BY DEF Init, IdsInv, LatestInv
<1>2. \A s \in Subscribers : ReaderInv(s) /\ ReaderOrder(s)
  BY DEF Init, ReaderInv, NothingBefore, OnePlace, NoRepeats, ReaderOrder, Ahead, InOrder,
         HasReceived, HasReplay, HasQueued, HasOwed, Holds
<1> QED
  BY <1>1, <1>2, NoLossInit DEF OrderInv, TwiceInv

LEMMA OrderStep ==
    ASSUME OrderInv, NEW p \in Publishers, Publishers = {p}, [AnyNext]_vars
    PROVE  OrderInv'
<1>1. TwiceInv' /\ TypeOK
  BY TwiceStep DEF OrderInv, TwiceInv, NoLossInv
<1>2. CASE Publish(p)
  BY <1>1, <1>2, LatestPublish, OrderPublish DEF OrderInv
<1>3. ASSUME NEW s \in Subscribers, AnyStream(s)
      PROVE  OrderInv'
  <2>1. UNCHANGED <<nextId, history, pc, event, todo>>
    BY <1>3 DEF AnyStream, Subscribe, YieldReplay, YieldLive, Unsubscribe, pubVars
  <2>2. LatestInv'
    BY <2>1 DEF OrderInv, LatestInv
  <2>3. ASSUME NEW t \in Subscribers
        PROVE  ReaderOrder(t)'
    <3>1. CASE t = s
      BY <1>3, <3>1, OrderStream
    <3>2. CASE t # s
      <4>1. last'[t] = last[t] /\ replay'[t] = replay[t] /\ queue'[t] = queue[t]
        BY <1>1, <1>3, <3>2 DEF AnyStream, Subscribe, YieldReplay, YieldLive, Unsubscribe, TypeOK
      <4>2. received'[t] = received[t]
        BY <1>1, <1>3, <3>2 DEF AnyStream, Subscribe, YieldReplay, YieldLive, Unsubscribe, TypeOK
      <4>3. InOrder(queue[t])
        BY DEF OrderInv, ReaderOrder
      <4> QED
        BY <2>1, <4>1, <4>2, <4>3, OrderKept
    <3> QED
      BY <3>1, <3>2
  <2> QED
    BY <1>1, <2>2, <2>3 DEF OrderInv
<1>4. CASE UNCHANGED vars
  <2>1. UNCHANGED <<nextId, history, pc, event, todo, last, replay, received, queue>>
    BY <1>4 DEF vars, pubVars, subVars
  <2>2. LatestInv'
    BY <2>1 DEF OrderInv, LatestInv
  <2>3. \A t \in Subscribers : InOrder(queue[t])
    BY DEF OrderInv, ReaderOrder
  <2>4. \A t \in Subscribers : ReaderOrder(t)'
    BY <2>1, <2>3, OrderKept
  <2> QED
    BY <1>1, <2>2, <2>4 DEF OrderInv
<1> QED
  BY <1>2, <1>3, <1>4 DEF AnyNext

\* The places of OrderInv are those of OnePublisherInOrder.
LEMMA OrderImplies == OrderInv => OnePublisherInOrder
<1> SUFFICES ASSUME OrderInv, NEW s \in Subscribers
             PROVE
        /\ \A e \in EventIds(received[s]), f \in EventIds(ToReplay(s) \cup InQueue(s)) \cup Owed(s) : e < f
        /\ \A e \in EventIds(ToReplay(s)), f \in EventIds(InQueue(s)) \cup Owed(s) : e < f
        /\ \A e \in EventIds(InQueue(s)), f \in Owed(s) : e < f
        /\ \A i, j \in 1 .. Len(queue[s]) :
              i < j /\ queue[s][i].kind = "event" /\ queue[s][j].kind = "event"
                  => queue[s][i].id < queue[s][j].id
  BY DEF OnePublisherInOrder
<1>1. TypeOK /\ Ahead(s) /\ InOrder(queue[s])
  BY DEF OrderInv, TwiceInv, NoLossInv, ReaderOrder
<1>2. \A e \in EventIds(received[s]) : e \in EventId /\ HasReceived(s, e)
  BY <1>1 DEF EventIds, HasReceived, TypeOK, Item
<1>3. \A e \in EventIds(ToReplay(s)) : e \in EventId /\ HasReplay(s, e)
  <2> SUFFICES ASSUME NEW item \in ToReplay(s), item.kind = "event"
               PROVE  item.id \in EventId /\ HasReplay(s, item.id)
    BY DEF EventIds
  <2>1. PICK i \in 1 .. Len(replay[s]) : replay[s][i] = item
    BY DEF ToReplay, Elements
  <2>2. item.id > last[s] /\ item \in Item
    BY <1>1, <2>1 DEF ToReplay, TypeOK
  <2> QED
    BY <2>1, <2>2 DEF HasReplay, Holds, Item
<1>4. \A e \in EventIds(InQueue(s)) : e \in EventId /\ HasQueued(s, e)
  <2> SUFFICES ASSUME NEW item \in InQueue(s), item.kind = "event"
               PROVE  item.id \in EventId /\ HasQueued(s, item.id)
    BY DEF EventIds
  <2>1. PICK i \in 1 .. Len(queue[s]) : queue[s][i] = item
    BY DEF InQueue, Elements
  <2>2. item \in Item
    BY <1>1, <2>1 DEF TypeOK
  <2> QED
    BY <2>1, <2>2 DEF HasQueued, Holds, Item
<1>5. \A e \in Owed(s) : e \in EventId /\ HasOwed(s, e)
  <2> SUFFICES ASSUME NEW p \in Publishers, s \in todo[p]
               PROVE  event[p] \in EventId /\ HasOwed(s, event[p])
    BY DEF Owed
  <2>1. pc[p] # "idle"
    BY DEF OrderInv, TwiceInv, NoLossInv, PublisherShape
  <2> QED
    BY <1>1, <2>1 DEF HasOwed, TypeOK, EventId, NoId
<1>6. EventIds(ToReplay(s) \cup InQueue(s)) \subseteq EventIds(ToReplay(s)) \cup EventIds(InQueue(s))
  BY DEF EventIds
<1> QED
  BY <1>1, <1>2, <1>3, <1>4, <1>5, <1>6 DEF Ahead, InOrder

\* With one publisher a subscription gets its events in the order of their ids,
\* replay first, for any number of readers and for all sizes.
THEOREM OnePublisherInOrderHolds == Spec => []OnePublisherInOrder
<1>1. CASE Cardinality(Publishers) = 1
  <2>1. PICK p \in Publishers : Publishers = {p}
    BY <1>1, SizesAssumption, FS_Singleton
  <2>2. OrderInv /\ [Next]_vars => OrderInv'
    BY <2>1, NextIsAny, OrderStep DEF OrderInv, TwiceInv, NoLossInv
  <2> QED
    BY OrderInit, <2>2, OrderImplies, PTL DEF Spec
<1>2. CASE Cardinality(Publishers) # 1
  <2>1. OnePublisherInOrder
    BY <1>2 DEF OnePublisherInOrder
  <2> QED
    BY <2>1, PTL
<1> QED
  BY <1>1, <1>2

-----------------------------------------------------------------------------
(* A subscription that resumes hears of every later event *)

\* The history ends with the latest events: none of them is missing in it.
HistoryInv ==
    \A e \in EventId : Done(e) => /\ history # <<>>
                                  /\ e < history[1] \/ \E i \in 1 .. Len(history) : history[i] = e

HasTold(s, e) == \E item \in received[s] \cup ToReplay(s) : e \in Tells(item)

\* What was recorded before s registered was replayed or is reported missed.
ResumedInv(s) ==
    phase[s] = "open" =>
        /\ s \in subscribers
        /\ last[s] # NoId =>
              \A e \in EventId : Done(e) /\ e > last[s] => e \in due[s] \/ HasTold(s, e)

ResumeInv == OrderInv /\ HistoryInv /\ \A s \in Subscribers : ResumedInv(s)

\* A step of publish() records one event, for all who are registered.
LEMMA ResumePublish ==
    ASSUME ResumeInv, NEW p \in Publishers, Publishers = {p}, Publish(p)
    PROVE  HistoryInv' /\ \A s \in Subscribers : ResumedInv(s)'
<1>1. TypeOK /\ LatestInv /\ HistoryInv
  BY DEF ResumeInv, OrderInv, TwiceInv, NoLossInv
<1>2. UNCHANGED <<subscribers, phase, last, replay, received>>
  BY DEF Publish, DrawId, Record, PublishReturns, Enqueue, EnqueueFull, DrainOne, DrainEnd,
         PutNotice, PutCurrent, PutRaises, subVars
<1>3. CASE ~Record(p)
  <2>1. history' = history /\ due' = due
    BY <1>3 DEF Publish, DrawId, PublishReturns, Enqueue, EnqueueFull, DrainOne, DrainEnd,
                PutNotice, PutCurrent, PutRaises
  <2>2. \A e \in EventId : Done(e)' => Done(e)
    BY <1>1, <1>3, RecordRecords
  <2>3. HistoryInv'
    BY <1>1, <2>1, <2>2 DEF HistoryInv
  <2>4. \A s \in Subscribers : ResumedInv(s)'
    BY <1>2, <2>1, <2>2 DEF ResumeInv, ResumedInv, HasTold, ToReplay
  <2> QED
    BY <2>3, <2>4
<1>4. CASE Record(p)
  <2> DEFINE e0 == event[p]
  <2>1. /\ nextId' = nextId /\ event' = event /\ nextId \in Nat /\ e0 = nextId - 1 /\ e0 \in EventId
        /\ due' = [s \in Subscribers |-> IF s \in subscribers THEN due[s] \cup {e0} ELSE due[s]]
    BY <1>1, <1>4 DEF Record, LatestInv, TypeOK, EventId, NoId
  <2>2. \A e \in EventId : Done(e)' => e = e0 \/ Done(e)
    BY <2>1 DEF Done
  <2>3. \A e \in EventId : Done(e) => e < e0
    BY <1>4, <2>1 DEF Record, Done, EventId
  <2> HIDE DEF e0
  <2>4. /\ Len(history) \in Nat /\ history' = Appended(e0)
        /\ \A i \in 1 .. Len(history) : history[i] \in EventId
    BY <1>1, <1>4 DEF Record, TypeOK, e0
  <2>5. history' # <<>> /\ \E i \in 1 .. Len(history') : history'[i] = e0
    <3>1. Len(history') \in Nat \ {0} /\ history'[Len(history')] = e0
      BY <1>1, <2>1, <2>4, SizesAssumption DEF Appended, TypeOK
    <3> QED
      BY <3>1
  <2>6. ASSUME NEW e \in EventId, Done(e)
        PROVE  e < history'[1] \/ \E i \in 1 .. Len(history') : history'[i] = e
    <3>1. /\ Len(history) \in Nat \ {0}
          /\ e < history[1] \/ \E i \in 1 .. Len(history) : history[i] = e
      BY <1>1, <2>4, <2>6 DEF HistoryInv, TypeOK
    <3>2. CASE Len(history) < ReplaySize
      <4>1. /\ Len(history') = Len(history) + 1
            /\ \A i \in 1 .. Len(history) : history'[i] = history[i]
        BY <1>1, <2>1, <2>4, <3>2 DEF Appended, TypeOK
      <4> QED
        BY <3>1, <4>1
    <3>3. CASE ~(Len(history) < ReplaySize)
      <4>1. /\ Len(history') = Len(history) /\ history'[Len(history)] = e0
            /\ \A i \in 1 .. Len(history) : i # 1 => i - 1 \in 1 .. Len(history') /\ history'[i - 1] = history[i]
        BY <1>1, <2>1, <2>4, <3>1, <3>3 DEF Appended, TypeOK
      <4>2. e < e0
        BY <2>3, <2>6
      <4>3. CASE Len(history) = 1
        BY <4>1, <4>2, <4>3
      <4>4. CASE Len(history) # 1
        <5> DEFINE n == Len(history)
        <5>1. n \in Nat \ {0} /\ n # 1
          BY <3>1, <4>4
        <5> HIDE DEF n
        <5>2. 1 \in 1 .. n /\ 2 \in 1 .. n /\ 2 # 1 /\ 2 - 1 = 1
          BY <5>1
        <5>3. 1 \in 1 .. Len(history) /\ 2 \in 1 .. Len(history) /\ 2 # 1 /\ 2 - 1 = 1
          BY <5>2 DEF n
        <5>4. history'[1] = history[2] /\ history[1] < history[2]
          BY <1>1, <4>1, <5>3 DEF LatestInv
        <5>5. history[1] \in Nat /\ history[2] \in Nat /\ e \in Nat
          BY <2>4, <5>3 DEF EventId
        <5>6. CASE e < history[1] \/ history[1] = e
          BY <5>4, <5>5, <5>6
        <5>7. CASE \E i \in 1 .. Len(history) : i # 1 /\ history[i] = e
          BY <4>1, <5>7
        <5> QED
          BY <3>1, <5>6, <5>7
      <4> QED
        BY <4>3, <4>4
    <3> QED
      BY <3>2, <3>3
  <2>7. HistoryInv'
    BY <2>2, <2>5, <2>6 DEF HistoryInv
  <2>8. \A s \in Subscribers : /\ due[s] \subseteq due'[s]
                               /\ s \in subscribers => e0 \in due'[s]
    BY <2>1
  <2>9. ASSUME NEW s \in Subscribers
        PROVE  ResumedInv(s)'
    <3>1. ResumedInv(s) /\ \A e \in EventId : HasTold(s, e) => HasTold(s, e)'
      BY <1>2 DEF ResumeInv, HasTold, ToReplay
    <3>2. /\ subscribers' = subscribers /\ last'[s] = last[s] /\ phase'[s] = phase[s]
          /\ phase[s] = "open" => s \in subscribers
      BY <1>2, <3>1 DEF ResumedInv
    <3>3. ASSUME phase[s] = "open", last[s] # NoId, NEW e \in EventId, Done(e)', e > last[s]
          PROVE  e \in due'[s] \/ HasTold(s, e)'
      <4>1. CASE e = e0
        BY <2>8, <3>2, <3>3, <4>1
      <4>2. CASE Done(e)
        <5>1. e \in due[s] \/ HasTold(s, e)
          BY <3>1, <3>3, <4>2 DEF ResumedInv
        <5>2. HasTold(s, e) => HasTold(s, e)'
          BY <3>1
        <5> QED
          BY <2>8, <5>1, <5>2
      <4> QED
        BY <2>2, <3>3, <4>1, <4>2
    <3> QED
      BY <3>2, <3>3 DEF ResumedInv
  <2> QED
    BY <2>7, <2>9
<1> QED
  BY <1>3, <1>4

\* A replay tells of every recorded event after the id it begins at.
LEMMA ReplayTells ==
    ASSUME TypeOK, HistoryInv, NEW l \in EventId, NEW e \in EventId, Done(e), e > l
    PROVE  \E i \in 1 .. Len(ReplayEvents(l)) :
              LET item == ReplayEvents(l)[i]
              IN  (item.kind = "window" \/ item.id > l) /\ e \in Tells(item)
<1> DEFINE copy == [i \in 1 .. Len(history) |-> EventItem(history[i])]
           notice == WindowNotice(l, history[1])
<1>1. /\ Len(history) \in Nat \ {0} /\ \A i \in 1 .. Len(history) : history[i] \in EventId
      /\ e < history[1] \/ \E i \in 1 .. Len(history) : history[i] = e
  BY DEF HistoryInv, TypeOK
<1>2. 1 \in 1 .. Len(history) /\ history[1] \in Nat /\ l \in Nat /\ e \in Nat /\ l # NoId
  BY <1>1 DEF EventId, NoId
<1>3. \E i \in 1 .. Len(history) : history[i] > l
  BY <1>1, <1>2
<1>4. ReplayEvents(l) = IF GapBefore(l) THEN <<notice>> \o copy ELSE copy
  BY <1>2, <1>3 DEF ReplayEvents
<1>5. /\ copy \in Seq(Item) /\ Len(copy) = Len(history)
      /\ \A i \in 1 .. Len(history) : copy[i] = EventItem(history[i])
  BY <1>1, EventItemType
<1>6. notice \in Item /\ notice.kind = "window" /\ Tells(notice) = (l + 1) .. (history[1] - 1)
  <2>1. notice \in Item
    BY <1>1, <1>2, WindowNoticeType DEF EventId
  <2>2. notice.kind = "window" /\ notice.missed = (l + 1) .. (history[1] - 1)
    BY DEF WindowNotice
  <2> QED
    BY <2>1, <2>2 DEF Tells
<1> HIDE DEF copy, notice
<1>7. LET r == <<notice>> \o copy
      IN  /\ Len(r) = Len(history) + 1 /\ r[1] = notice
          /\ \A i \in 1 .. Len(history) : r[i + 1] = EventItem(history[i])
  BY <1>1, <1>5, <1>6
<1>8. CASE \E i \in 1 .. Len(history) : history[i] = e
  <2>1. PICK i \in 1 .. Len(history) : history[i] = e
    BY <1>8
  <2>2. EventItem(e).id > l /\ e \in Tells(EventItem(e))
    BY DEF EventItem, Tells
  <2>3. CASE GapBefore(l)
    <3>1. i + 1 \in 1 .. Len(ReplayEvents(l)) /\ ReplayEvents(l)[i + 1] = EventItem(e)
      BY <1>1, <1>4, <1>7, <2>1, <2>3
    <3> QED
      BY <2>2, <3>1
  <2>4. CASE ~GapBefore(l)
    <3>1. i \in 1 .. Len(ReplayEvents(l)) /\ ReplayEvents(l)[i] = EventItem(e)
      BY <1>4, <1>5, <2>1, <2>4
    <3> QED
      BY <2>2, <3>1
  <2> QED
    BY <2>3, <2>4
<1>9. CASE e < history[1]
  <2>1. GapBefore(l) /\ e \in Tells(notice)
    BY <1>2, <1>6, <1>9 DEF GapBefore
  <2>2. 1 \in 1 .. Len(ReplayEvents(l)) /\ ReplayEvents(l)[1] = notice
    BY <1>1, <1>4, <1>7, <2>1
  <2> QED
    BY <1>6, <2>1, <2>2
<1> QED
  BY <1>1, <1>8, <1>9

\* A step of a subscription or its generator, for itself.
LEMMA ResumeStream ==
    ASSUME ResumeInv, NEW s \in Subscribers, AnyStream(s)
    PROVE  ResumedInv(s)'
<1>1. TypeOK /\ HistoryInv /\ ResumedInv(s)
  BY DEF ResumeInv, OrderInv, TwiceInv, NoLossInv
<1>2. \A e \in EventId : Done(e)' <=> Done(e)
  BY DEF Done, AnyStream, Subscribe, YieldReplay, YieldLive, Unsubscribe, pubVars
<1>3. ASSUME NEW l \in 0 .. MaxEvents, Subscribe(s, l)
      PROVE  ResumedInv(s)'
  <2>1. /\ s \in subscribers' /\ last'[s] = l /\ replay'[s] = ReplayEvents(l)
    BY <1>1, <1>3 DEF Subscribe, TypeOK
  <2>2. l # NoId => l \in EventId
    BY DEF EventId, NoId
  <2>3. ASSUME l # NoId, NEW e \in EventId, Done(e), e > l
        PROVE  HasTold(s, e)'
    <3>1. PICK i \in 1 .. Len(replay'[s]) :
             (replay'[s][i].kind = "window" \/ replay'[s][i].id > l) /\ e \in Tells(replay'[s][i])
      BY <1>1, <2>1, <2>2, <2>3, ReplayTells
    <3>2. replay'[s][i] \in ToReplay(s)'
      BY <2>1, <3>1 DEF ToReplay, Elements
    <3> QED
      BY <3>1, <3>2 DEF HasTold, Tells
  <2> QED
    BY <1>2, <2>1, <2>3 DEF ResumedInv
<1>4. ASSUME UNCHANGED <<last, due>>, phase'[s] = "open" => phase[s] = "open" /\ s \in subscribers',
             \A e \in EventId : HasTold(s, e) => HasTold(s, e)'
      PROVE  ResumedInv(s)'
  BY <1>1, <1>2, <1>4 DEF ResumedInv
<1>5. CASE YieldReplay(s)
  <2> DEFINE h == Head(replay[s])
  <2>1. /\ replay[s] \in Seq(Item) /\ replay[s] # <<>> /\ replay'[s] = Tail(replay[s])
        /\ UNCHANGED <<last, due, phase, subscribers>>
        /\ received'[s] = IF h.kind = "window" \/ h.id > last[s] THEN received[s] \cup {h} ELSE received[s]
    BY <1>1, <1>5 DEF YieldReplay, TypeOK
  <2>2. Elements(replay[s]) = {h} \cup Elements(Tail(replay[s]))
    BY <2>1, ElementsTail
  <2>3. \A item \in received[s] \cup ToReplay(s) : item \in received'[s] \cup ToReplay(s)'
    BY <2>1, <2>2 DEF ToReplay
  <2>4. \A e \in EventId : HasTold(s, e) => HasTold(s, e)'
    BY <2>3 DEF HasTold, Tells
  <2> QED
    BY <1>1, <1>4, <2>1, <2>4 DEF ResumedInv
<1>6. CASE YieldLive(s)
  <2>1. /\ UNCHANGED <<last, due, phase, subscribers, replay>> /\ received[s] \subseteq received'[s]
    BY <1>1, <1>6 DEF YieldLive, TypeOK
  <2>2. \A e \in EventId : HasTold(s, e) => HasTold(s, e)'
    BY <2>1 DEF HasTold, ToReplay
  <2> QED
    BY <1>1, <1>4, <2>1, <2>2 DEF ResumedInv
<1>7. CASE Unsubscribe(s)
  <2>1. phase'[s] = "closed"
    BY <1>1, <1>7 DEF Unsubscribe, TypeOK
  <2> QED
    BY <2>1 DEF ResumedInv
<1> QED
  BY <1>3, <1>5, <1>6, <1>7 DEF AnyStream

LEMMA ResumeStep ==
    ASSUME ResumeInv, NEW p \in Publishers, Publishers = {p}, [AnyNext]_vars
    PROVE  ResumeInv'
<1>1. OrderInv' /\ TypeOK
  BY OrderStep DEF ResumeInv, OrderInv, TwiceInv, NoLossInv
<1>2. CASE Publish(p)
  BY <1>1, <1>2, ResumePublish DEF ResumeInv
<1>3. ASSUME NEW s \in Subscribers, AnyStream(s)
      PROVE  ResumeInv'
  <2>1. UNCHANGED <<nextId, history, pc, event, due>>
    BY <1>3 DEF AnyStream, Subscribe, YieldReplay, YieldLive, Unsubscribe, pubVars
  <2>2. HistoryInv'
    BY <2>1 DEF ResumeInv, HistoryInv, Done
  <2>3. ASSUME NEW t \in Subscribers
        PROVE  ResumedInv(t)'
    <3>1. CASE t = s
      BY <1>3, <3>1, ResumeStream
    <3>2. CASE t # s
      <4>1. /\ phase'[t] = phase[t] /\ last'[t] = last[t] /\ replay'[t] = replay[t]
            /\ (t \in subscribers => t \in subscribers')
        BY <1>1, <1>3, <3>2 DEF AnyStream, Subscribe, YieldReplay, YieldLive, Unsubscribe, TypeOK
      <4>2. received'[t] = received[t]
        BY <1>1, <1>3, <3>2 DEF AnyStream, Subscribe, YieldReplay, YieldLive, Unsubscribe, TypeOK
      <4>3. \A e \in EventId : (Done(e)' <=> Done(e)) /\ (HasTold(t, e) => HasTold(t, e)')
        BY <2>1, <4>1, <4>2 DEF Done, HasTold, ToReplay
      <4> QED
        BY <2>1, <4>1, <4>3 DEF ResumeInv, ResumedInv
    <3> QED
      BY <3>1, <3>2
  <2> QED
    BY <1>1, <2>2, <2>3 DEF ResumeInv
<1>4. CASE UNCHANGED vars
  <2>1. UNCHANGED <<nextId, history, pc, event, due, phase, last, replay, received, subscribers>>
    BY <1>4 DEF vars, pubVars, subVars
  <2>2. HistoryInv' /\ \A t \in Subscribers : ResumedInv(t)'
    BY <2>1 DEF ResumeInv, HistoryInv, ResumedInv, Done, HasTold, ToReplay
  <2> QED
    BY <1>1, <2>2 DEF ResumeInv
<1> QED
  BY <1>2, <1>3, <1>4 DEF AnyNext

LEMMA ResumeInit ==
    ASSUME NEW p \in Publishers, Publishers = {p}, Init
    PROVE  ResumeInv
<1>1. HistoryInv /\ \A s \in Subscribers : ResumedInv(s)
  BY DEF Init, HistoryInv, ResumedInv, Done, EventId
<1> QED
  BY <1>1, OrderInit DEF ResumeInv

\* What is due to a reader is accounted for, and the rest of it was replayed.
LEMMA ResumeImplies ==
    ResumeInv /\ NoSilentLoss /\ OnePublisherLosesNothing => OnePublisherResumesComplete
<1> SUFFICES ASSUME ResumeInv, NoSilentLoss, OnePublisherLosesNothing,
                    Cardinality(Publishers) = 1, QueueSize > 1,
                    NEW s \in Subscribers, phase[s] = "open", last[s] # NoId,
                    NEW e \in Recorded, e > last[s]
             PROVE  e \in Told(received[s] \cup ToReplay(s) \cup InQueue(s)) \cup Owed(s) \cup InHand(s)
  BY DEF OnePublisherResumesComplete
<1>1. e \in EventId /\ Done(e)
  BY DEF Recorded, Done
<1>2. CASE HasTold(s, e)
  BY <1>2 DEF HasTold, Told
<1>3. CASE e \in due[s]
  <2>1. e \in Told(received[s] \cup InQueue(s)) \cup Owed(s) \cup InHand(s)
    BY <1>3 DEF NoSilentLoss, OnePublisherLosesNothing
  <2> QED
    BY <2>1 DEF Told
<1> QED
  BY <1>1, <1>2, <1>3 DEF ResumeInv, ResumedInv

\* With one publisher and room for a notice, a subscription that resumes after an id
\* hears of every later event, whatever the sizes of history and queues: by replay,
\* live, or from a notice.
THEOREM OnePublisherResumesCompleteHolds == Spec => []OnePublisherResumesComplete
<1>1. CASE Cardinality(Publishers) = 1
  <2>1. PICK p \in Publishers : Publishers = {p}
    BY <1>1, SizesAssumption, FS_Singleton
  <2>2. Init => ResumeInv
    BY <2>1, ResumeInit
  <2>3. ResumeInv /\ [Next]_vars => ResumeInv'
    BY <2>1, NextIsAny, ResumeStep DEF ResumeInv, OrderInv, TwiceInv, NoLossInv
  <2> QED
    BY <2>2, <2>3, ResumeImplies, NoSilentLossHolds, OnePublisherLosesNothingHolds, PTL DEF Spec
<1>2. CASE Cardinality(Publishers) # 1
  <2>1. OnePublisherResumesComplete
    BY <1>2 DEF OnePublisherResumesComplete
  <2> QED
    BY <2>1, PTL
<1> QED
  BY <1>1, <1>2

-----------------------------------------------------------------------------
(* Notices are true *)

Held(s) == received[s] \cup Elements(replay[s]) \cup InQueue(s)

\* e is reported missed to s, or is about to be.
Missing(s, e) ==
    \/ \E item \in Held(s) : e \in item.missed
    \/ \E p \in Publishers : s \in target[p] /\ e \in drained[p]

Gets(s, e) == HasReceived(s, e) \/ HasReplay(s, e) \/ HasQueued(s, e) \/ HasOwed(s, e)

\* A notice reports recorded events the subscription does not get.
NoticesTrue(s) ==
    /\ \A e \in EventId : Missing(s, e) => Done(e) /\ ~Gets(s, e)
    /\ \A item \in Held(s) : item.kind = "window" => item.missed # {}

NoticesInv == OrderInv /\ \A s \in Subscribers : NoticesTrue(s)

\* A step that moves what a subscription has, and brings nothing new.
LEMMA NoticesKept ==
    ASSUME NEW t \in Subscribers, NoticesTrue(t),
           \A e \in EventId : Done(e) => Done(e)',
           \A e \in EventId : Missing(t, e)' => Missing(t, e),
           \A e \in EventId : Gets(t, e)' => Gets(t, e),
           \A item \in Held(t)' : item.kind = "window" => item \in Held(t)
    PROVE  NoticesTrue(t)'
BY DEF NoticesTrue

\* A step of publish() that does not touch t's queue, nor what is held or owed for it.
LEMMA NoticesAside ==
    ASSUME NoticesInv, NEW t \in Subscribers,
           \A e \in EventId : Done(e) => Done(e)',
           last'[t] = last[t], replay'[t] = replay[t], received'[t] = received[t], queue'[t] = queue[t],
           \A q \in Publishers : t \in todo'[q] => t \in todo[q] /\ event'[q] = event[q],
           \A q \in Publishers : t \in target'[q] => drained'[q] = {} \/ (t \in target[q] /\ drained'[q] = drained[q])
    PROVE  NoticesTrue(t)'
<1>1. NoticesTrue(t)
  BY DEF NoticesInv
<1>2. Held(t)' = Held(t)
  BY DEF Held, InQueue, Elements
<1>3. \A e \in EventId : Missing(t, e)' => Missing(t, e)
  BY <1>2 DEF Missing
<1>4. \A e \in EventId : Gets(t, e)' => Gets(t, e)
  BY DEF Gets, HasReceived, HasReplay, HasQueued, HasOwed, Holds
<1> QED
  BY <1>1, <1>2, <1>3, <1>4, NoticesKept

\* An event goes from what a publisher owes into the queue.
LEMMA NoticesServed ==
    ASSUME NoticesInv, NEW p \in Publishers, NEW s \in Subscribers, Enqueue(p, s) \/ PutCurrent(p, s)
    PROVE  NoticesTrue(s)'
<1> DEFINE item0 == EventItem(event[p])
<1>1. TypeOK /\ PublisherShape(p) /\ NoticesTrue(s) /\ NoRepeats(queue[s]) /\ OnePlace(s)
  BY DEF NoticesInv, OrderInv, TwiceInv, NoLossInv, ReaderInv
<1>2. /\ s \in todo[p] /\ pc[p] \notin {"idle", "record"}
      /\ queue'[s] = Append(queue[s], item0) /\ queue[s] \in Seq(Item)
      /\ UNCHANGED <<nextId, event, last, replay, received>>
      /\ todo' = [todo EXCEPT ![p] = @ \ {s}]
      /\ \A q \in Publishers : pc'[q] = "record" => pc[q] = "record"
  BY <1>1 DEF Enqueue, PutCurrent, Put, PublisherShape, TypeOK, subVars
<1>3. \A q \in Publishers : s \in target'[q] => s \in target[q] /\ drained'[q] = drained[q]
  BY <1>1 DEF Enqueue, PutCurrent, TypeOK
<1>4. /\ event[p] \in EventId /\ item0 \in Item
      /\ item0.kind = "event" /\ item0.id = event[p] /\ item0.missed = {}
  BY <1>1, <1>2, EventItemType DEF TypeOK, EventId, NoId, EventItem
<1>5. HasOwed(s, event[p]) /\ \A e \in EventId : HasOwed(s, e)' => HasOwed(s, e)
  BY <1>1, <1>2 DEF HasOwed, TypeOK
<1> HIDE DEF item0
<1>6. Held(s)' = Held(s) \cup {item0}
  <2>1. Elements(queue'[s]) = Elements(queue[s]) \cup {item0}
    BY <1>2, <1>4, ElementsAppend
  <2> QED
    BY <1>2, <2>1 DEF Held, InQueue, Elements
<1>7. \A e \in EventId : HasQueued(s, e)' => HasQueued(s, e) \/ e = event[p]
  <2>1. ~Holds(queue[s], item0.id)
    BY <1>1, <1>4, <1>5 DEF OnePlace, HasQueued
  <2> QED
    BY <1>1, <1>2, <1>4, <2>1, PutLast DEF HasQueued
<1>8. \A e \in EventId : Missing(s, e)' => Missing(s, e)
  BY <1>3, <1>4, <1>6 DEF Missing
<1>9. \A e \in EventId : Gets(s, e)' => Gets(s, e)
  <2>1. \A e \in EventId : HasReceived(s, e)' => HasReceived(s, e)
    BY <1>2 DEF HasReceived
  <2>2. \A e \in EventId : HasReplay(s, e)' => HasReplay(s, e)
    BY <1>2 DEF HasReplay, Holds
  <2> QED
    BY <1>5, <1>7, <2>1, <2>2 DEF Gets
<1>10. \A e \in EventId : Done(e) => Done(e)'
  BY <1>2 DEF Done
<1> QED
  BY <1>1, <1>4, <1>6, <1>8, <1>9, <1>10, NoticesKept

\* A publisher takes an item out of the queue it replaces: it holds what that told.
LEMMA NoticesDrain ==
    ASSUME NoticesInv, NEW p \in Publishers, NEW s \in Subscribers, DrainOne(p, s)
    PROVE  NoticesTrue(s)'
<1> DEFINE h == Head(queue[s])
<1>1. TypeOK /\ NoticesTrue(s) /\ NoRepeats(queue[s]) /\ OnePlace(s)
  BY DEF NoticesInv, OrderInv, TwiceInv, NoLossInv, ReaderInv
<1>2. /\ s \in target[p] /\ queue[s] \in Seq(Item) /\ queue[s] # <<>> /\ h \in Item
      /\ queue'[s] = Tail(queue[s])
      /\ drained' = [drained EXCEPT ![p] = @ \cup Tells(h)]
      /\ UNCHANGED <<nextId, pc, event, todo, target, last, replay, received>>
  BY <1>1 DEF DrainOne, AlsoMissed, TypeOK, subVars
<1>3. /\ \A e : Holds(queue'[s], e) => Holds(queue[s], e)
      /\ h.kind = "event" => Holds(queue[s], h.id) /\ ~Holds(queue'[s], h.id)
  BY <1>1, <1>2, TakeFirst
<1>4. Elements(queue[s]) = {h} \cup Elements(queue'[s])
  BY <1>2, ElementsTail
<1> HIDE DEF h
<1>5. h \in Held(s) /\ Held(s)' \subseteq Held(s)
  BY <1>2, <1>4 DEF Held, InQueue
<1>6. \A e \in EventId : Missing(s, e)' => Missing(s, e) \/ (h.kind = "event" /\ e = h.id)
  <2>1. \A e \in EventId : \A q \in Publishers : e \in drained'[q] => e \in drained[q] \/ e \in Tells(h)
    BY <1>1, <1>2 DEF TypeOK
  <2> QED
    BY <1>2, <1>5, <2>1 DEF Missing, Tells
<1>7. \A e \in EventId : /\ HasReceived(s, e)' <=> HasReceived(s, e)
                         /\ HasReplay(s, e)' <=> HasReplay(s, e)
                         /\ HasOwed(s, e)' <=> HasOwed(s, e)
                         /\ HasQueued(s, e)' => HasQueued(s, e)
                         /\ Done(e)' <=> Done(e)
  BY <1>2, <1>3 DEF HasReceived, HasReplay, HasOwed, HasQueued, Holds, Done
<1>8. ASSUME NEW e \in EventId, h.kind = "event", e = h.id
      PROVE  Done(e) /\ ~Gets(s, e)'
  <2>1. HasQueued(s, e) /\ ~HasQueued(s, e)'
    BY <1>3, <1>8 DEF HasQueued, Holds
  <2>2. ~HasReceived(s, e) /\ ~HasReplay(s, e) /\ ~HasOwed(s, e) /\ Done(e)
    BY <1>1, <2>1 DEF OnePlace
  <2> QED
    BY <1>7, <2>1, <2>2 DEF Gets
<1>9. \A e \in EventId : Gets(s, e)' => Gets(s, e)
  BY <1>7 DEF Gets
<1>10. \A e \in EventId : Missing(s, e)' => Done(e)' /\ ~Gets(s, e)'
  <2> SUFFICES ASSUME NEW e \in EventId, Missing(s, e)'
               PROVE  Done(e)' /\ ~Gets(s, e)'
    OBVIOUS
  <2>1. CASE Missing(s, e)
    BY <1>1, <1>7, <1>9, <2>1 DEF NoticesTrue
  <2>2. CASE h.kind = "event" /\ e = h.id
    BY <1>7, <1>8, <2>2
  <2> QED
    BY <1>6, <2>1, <2>2
<1> QED
  BY <1>1, <1>5, <1>10 DEF NoticesTrue

\* What a publisher holds goes into a notice.
LEMMA NoticesPut ==
    ASSUME NoticesInv, NEW p \in Publishers, NEW s \in Subscribers, PutNotice(p, s)
    PROVE  NoticesTrue(s)'
<1> DEFINE notice == LaggingNotice(event[p], drained[p])
<1>1. TypeOK /\ NoticesTrue(s) /\ NoRepeats(queue[s])
  BY DEF NoticesInv, OrderInv, TwiceInv, NoLossInv, ReaderInv
<1>2. /\ s \in target[p] /\ queue[s] \in Seq(Item) /\ queue'[s] = Append(queue[s], notice)
      /\ drained' = [drained EXCEPT ![p] = {}]
      /\ UNCHANGED <<nextId, event, todo, target, last, replay, received>>
      /\ \A q \in Publishers : pc'[q] = "record" => pc[q] = "record"
  BY <1>1 DEF PutNotice, Put, TypeOK, subVars
<1>3. notice \in Item /\ notice.kind = "lagging" /\ notice.missed = drained[p]
  <2>1. event[p] \in EventId /\ drained[p] \in SUBSET EventId
    BY <1>1 DEF PutNotice, TypeOK, EventId, NoId
  <2> QED
    BY <2>1, LaggingNoticeType DEF LaggingNotice
<1> HIDE DEF notice
<1>4. Held(s)' = Held(s) \cup {notice}
  <2>1. Elements(queue'[s]) = Elements(queue[s]) \cup {notice}
    BY <1>2, <1>3, ElementsAppend
  <2> QED
    BY <1>2, <2>1 DEF Held, InQueue, Elements
<1>5. \A e \in EventId : Missing(s, e)' => Missing(s, e)
  <2>1. \A q \in Publishers : drained'[q] \subseteq drained[q]
    BY <1>1, <1>2 DEF TypeOK
  <2> QED
    BY <1>2, <1>3, <1>4, <2>1 DEF Missing
<1>6. \A e \in EventId : HasQueued(s, e)' => HasQueued(s, e)
  BY <1>1, <1>2, <1>3, PutLast DEF HasQueued
<1>7. \A e \in EventId : /\ HasReceived(s, e)' <=> HasReceived(s, e)
                         /\ HasReplay(s, e)' <=> HasReplay(s, e)
                         /\ HasOwed(s, e)' <=> HasOwed(s, e)
                         /\ Done(e) => Done(e)'
  BY <1>2 DEF HasReceived, HasReplay, HasOwed, Holds, Done
<1>8. \A e \in EventId : Gets(s, e)' => Gets(s, e)
  BY <1>6, <1>7 DEF Gets
<1> QED
  BY <1>1, <1>3, <1>4, <1>5, <1>7, <1>8, NoticesKept

LEMMA NoticesPublish ==
    ASSUME NoticesInv, NEW p \in Publishers, Publish(p), NEW t \in Subscribers
    PROVE  NoticesTrue(t)'
<1>1. TypeOK /\ PublisherShape(p) /\ NoticesTrue(t)
  BY DEF NoticesInv, OrderInv, TwiceInv, NoLossInv
<1>2. UNCHANGED <<last, replay, received>> /\ \A e \in EventId : Done(e) => Done(e)'
  <2>1. \A e \in EventId : Done(e) => Done(e)'
    BY IdsPublish DEF NoticesInv, OrderInv
  <2> QED
    BY <2>1 DEF Publish, DrawId, Record, PublishReturns, Enqueue, EnqueueFull, DrainOne, DrainEnd,
                PutNotice, PutCurrent, PutRaises, subVars
<1>3. CASE DrawId(p) \/ PublishReturns(p)
  <2>1. /\ UNCHANGED <<queue, todo, target, drained>>
        /\ \A q \in Publishers : t \in todo[q] => event'[q] = event[q]
    BY <1>1, <1>3 DEF DrawId, PublishReturns, PublisherShape, TypeOK
  <2> QED
    BY <1>2, <2>1, NoticesAside
<1>4. CASE Record(p)
  <2>1. /\ UNCHANGED <<queue, event, target, drained>> /\ pc[p] = "record"
        /\ \A q \in Publishers : t \in todo'[q] => t \in todo[q] \/ q = p
    BY <1>1, <1>4 DEF Record, TypeOK
  <2>2. Held(t)' = Held(t)
    BY <1>2, <2>1 DEF Held, InQueue, Elements
  <2>3. \A e \in EventId : Missing(t, e)' => Missing(t, e)
    BY <2>1, <2>2 DEF Missing
  <2>4. \A e \in EventId : Gets(t, e)' => Gets(t, e) \/ e = event[p]
    BY <1>2, <2>1 DEF Gets, HasReceived, HasReplay, HasQueued, HasOwed, Holds
  <2>5. \A e \in EventId : Missing(t, e) => e # event[p]
    BY <1>1, <2>1 DEF NoticesTrue, Done
  <2> QED
    BY <1>1, <1>2, <2>2, <2>3, <2>4, <2>5 DEF NoticesTrue
<1>5. ASSUME NEW s \in Subscribers, EnqueueFull(p, s) \/ DrainEnd(p, s)
      PROVE  NoticesTrue(t)'
  <2>1. /\ UNCHANGED <<queue, event, todo>>
        /\ \A q \in Publishers : \/ drained'[q] = {}
                                 \/ target'[q] = target[q] /\ drained'[q] = drained[q]
    BY <1>1, <1>5 DEF EnqueueFull, DrainEnd, TypeOK
  <2> QED
    BY <1>2, <2>1, NoticesAside
<1>6. ASSUME NEW s \in Subscribers, t # s,
             \/ Enqueue(p, s) \/ DrainOne(p, s) \/ PutNotice(p, s) \/ PutCurrent(p, s)
      PROVE  NoticesTrue(t)'
  <2>1. t \notin target[p]
    BY <1>1, <1>6 DEF PublisherShape, Enqueue, DrainOne, PutNotice, PutCurrent
  <2>2. /\ queue'[t] = queue[t] /\ event' = event
        /\ \A q \in Publishers : t \in todo'[q] => t \in todo[q]
        /\ \A q \in Publishers : t \in target'[q] => t \in target[q] /\ drained'[q] = drained[q]
    <3>1. queue'[t] = queue[t]
      BY <1>1, <1>6 DEF Enqueue, DrainOne, PutNotice, PutCurrent, Put, TypeOK
    <3>2. event' = event /\ \A q \in Publishers : t \in todo'[q] => t \in todo[q]
      <4>1. event' = event /\ (todo' = todo \/ todo' = [todo EXCEPT ![p] = @ \ {s}])
        BY <1>6 DEF Enqueue, DrainOne, PutNotice, PutCurrent
      <4>2. todo \in [Publishers -> SUBSET Subscribers]
        BY <1>1 DEF TypeOK
      <4> QED
        BY <4>1, <4>2
    <3>3. \A q \in Publishers : t \in target'[q] => t \in target[q]
      BY <1>1, <1>6 DEF Enqueue, DrainOne, PutNotice, PutCurrent, TypeOK
    <3>4. \A q \in Publishers : q # p => drained'[q] = drained[q]
      BY <1>1, <1>6 DEF Enqueue, DrainOne, PutNotice, PutCurrent, TypeOK
    <3> QED
      BY <2>1, <3>1, <3>2, <3>3, <3>4
  <2> QED
    BY <1>2, <2>2, NoticesAside
<1>7. ASSUME NEW s \in Subscribers, PutRaises(p, s)
      PROVE  NoticesTrue(t)'
  <2>1. /\ UNCHANGED <<queue, event>>
        /\ \A q \in Publishers : t \in todo'[q] => t \in todo[q]
        /\ \A q \in Publishers : t \in target'[q] => t \in target[q] /\ drained'[q] = drained[q]
    BY <1>1, <1>7 DEF PutRaises, TypeOK
  <2> QED
    BY <1>2, <2>1, NoticesAside
<1> QED
  BY <1>3, <1>4, <1>5, <1>6, <1>7, NoticesServed, NoticesDrain, NoticesPut DEF Publish

\* A replay reports the recorded events before the history, and at least one.
LEMMA ReplayTrue ==
    ASSUME TypeOK, LatestInv, IdsInv, NEW p \in Publishers, Publishers = {p},
           NEW l \in 0 .. MaxEvents, NEW i \in 1 .. Len(ReplayEvents(l))
    PROVE  LET item == ReplayEvents(l)[i]
           IN  /\ item.kind = "window" => item.missed # {}
               /\ \A e \in EventId : e \in item.missed => Done(e) /\ ~Holds(ReplayEvents(l), e)
<1> DEFINE copy == [j \in 1 .. Len(history) |-> EventItem(history[j])]
           notice == WindowNotice(l, history[1])
           r == <<notice>> \o copy
<1>1. Len(history) \in Nat /\ \A j \in 1 .. Len(history) : history[j] \in EventId
  BY DEF TypeOK
<1>2. /\ copy \in Seq(Item) /\ Len(copy) = Len(history)
      /\ \A j \in 1 .. Len(history) : copy[j] = EventItem(history[j])
  BY <1>1, EventItemType
<1>3. \A j \in 1 .. Len(history) : /\ copy[j].kind = "event" /\ copy[j].missed = {}
                                   /\ copy[j].id = history[j]
  BY <1>1, <1>2 DEF EventItem
<1>4. CASE ReplayEvents(l) = copy
  BY <1>2, <1>3, <1>4
<1>5. CASE ReplayEvents(l) # copy
  <2>1. /\ ReplayEvents(l) = <<>> \/ (ReplayEvents(l) = r /\ GapBefore(l) /\ Len(history) # 0)
    BY <1>1, <1>5 DEF ReplayEvents
  <2>2. ReplayEvents(l) # <<>>
    <3>1. Len(<<>>) = 0
      OBVIOUS
    <3> QED
      BY <3>1
  <2>3. 1 \in 1 .. Len(history) /\ history[1] \in EventId /\ l \in Nat /\ history[1] \in Nat
    BY <1>1, <2>1, <2>2, SizesAssumption DEF EventId
  <2>4. /\ notice \in Item /\ notice.kind = "window" /\ notice.missed = (l + 1) .. (history[1] - 1)
    <3>1. notice \in Item
      BY <2>3, WindowNoticeType
    <3> QED
      BY <3>1 DEF WindowNotice
  <2>5. (l + 1) \in notice.missed
    BY <2>1, <2>2, <2>3, <2>4 DEF GapBefore
  <2> HIDE DEF copy, notice
  <2>6. /\ Len(r) = Len(copy) + 1
        /\ \A j \in 1 .. Len(r) : \/ j = 1 /\ r[j] = notice
                                  \/ j - 1 \in 1 .. Len(copy) /\ r[j] = copy[j - 1]
    BY <1>2, <2>4, ItemBefore
  <2> HIDE DEF r
  <2>7. \A e \in EventId : e \in notice.missed => Done(e)
    <3> SUFFICES ASSUME NEW e \in EventId, e \in notice.missed
                 PROVE  Done(e)
      OBVIOUS
    <3>1. e < history[1] /\ e \in Nat
      BY <2>3, <2>4 DEF EventId
    <3>2. history[1] < nextId /\ nextId \in Nat /\ (pc[p] = "record" => event[p] # history[1])
      BY <2>3 DEF IdsInv, Done, TypeOK
    <3>3. pc[p] = "record" => event[p] = nextId - 1
      BY DEF LatestInv
    <3> QED
      BY <2>3, <3>1, <3>2, <3>3 DEF Done
  <2>8. \A e \in EventId : e \in notice.missed => ~Holds(r, e)
    <3> SUFFICES ASSUME NEW e \in EventId, e \in notice.missed, NEW j \in 1 .. Len(r),
                        r[j].kind = "event", r[j].id = e
                 PROVE  FALSE
      BY DEF Holds
    <3>1. j - 1 \in 1 .. Len(history) /\ r[j] = copy[j - 1]
      BY <1>2, <2>4, <2>6
    <3>2. e = history[j - 1] /\ history[j - 1] \in Nat
      BY <1>1, <1>3, <3>1 DEF EventId
    <3>3. history[1] < history[j - 1] \/ j - 1 = 1
      BY <2>3, <3>1 DEF LatestInv
    <3> QED
      BY <2>3, <2>4, <3>2, <3>3
  <2> QED
    <3>1. ReplayEvents(l) = r /\ i \in 1 .. Len(r)
      BY <2>1, <2>2
    <3>2. CASE r[i] = notice
      BY <2>5, <2>7, <2>8, <3>1, <3>2
    <3>3. CASE i - 1 \in 1 .. Len(copy) /\ r[i] = copy[i - 1]
      <4>1. r[i].kind = "event" /\ r[i].missed = {}
        BY <1>2, <1>3, <3>3
      <4> QED
        BY <3>1, <4>1
    <3> QED
      BY <2>6, <3>1, <3>2, <3>3
<1> QED
  BY <1>4, <1>5

LEMMA NoticesStream ==
    ASSUME NoticesInv, NEW p \in Publishers, Publishers = {p}, NEW s \in Subscribers, AnyStream(s)
    PROVE  NoticesTrue(s)'
<1>1. /\ TypeOK /\ LatestInv /\ IdsInv /\ ReaderInv(s) /\ NoticesTrue(s)
      /\ \A q \in Publishers : PublisherShape(q)
  BY DEF NoticesInv, OrderInv, TwiceInv, NoLossInv
<1>2. UNCHANGED <<nextId, pc, event, todo, target, drained>>
  BY DEF AnyStream, Subscribe, YieldReplay, YieldLive, Unsubscribe, pubVars
<1>3. \A e \in EventId : (Done(e)' <=> Done(e)) /\ (HasOwed(s, e)' <=> HasOwed(s, e))
  BY <1>2 DEF Done, HasOwed
<1>4. ASSUME NEW l \in 0 .. MaxEvents, Subscribe(s, l)
      PROVE  NoticesTrue(s)'
  <2>1. l \in 0 .. MaxEvents
    OBVIOUS
  <2>2. /\ received'[s] = {} /\ Len(queue'[s]) = 0 /\ replay'[s] = ReplayEvents(l)
        /\ \A q \in Publishers : s \notin todo'[q] /\ s \notin target'[q]
    BY <1>1, <1>2, <1>4 DEF Subscribe, ReaderInv, NothingBefore, TypeOK, PublisherShape
  <2>3. Held(s)' = Elements(replay'[s])
    BY <2>2 DEF Held, InQueue, Elements
  <2>4. \A item \in Held(s)' : item.kind = "window" => item.missed # {}
    BY <1>1, <2>1, <2>2, <2>3, ReplayTrue DEF Elements
  <2>5. \A e \in EventId : Missing(s, e)' => Done(e) /\ ~Holds(replay'[s], e)
    <3> SUFFICES ASSUME NEW e \in EventId, Missing(s, e)'
                 PROVE  Done(e) /\ ~Holds(replay'[s], e)
      OBVIOUS
    <3>1. PICK i \in 1 .. Len(replay'[s]) : e \in replay'[s][i].missed
      BY <2>2, <2>3 DEF Missing, Elements
    <3> QED
      BY <1>1, <2>1, <2>2, <3>1, ReplayTrue DEF Holds
  <2>6. \A e \in EventId : Gets(s, e)' => Holds(replay'[s], e)
    BY <2>2 DEF Gets, HasReceived, HasReplay, HasQueued, HasOwed, Holds
  <2> QED
    BY <1>3, <2>4, <2>5, <2>6 DEF NoticesTrue
<1>5. CASE YieldReplay(s)
  <2> DEFINE h == Head(replay[s])
  <2>1. /\ replay[s] \in Seq(Item) /\ replay[s] # <<>> /\ replay'[s] = Tail(replay[s])
        /\ UNCHANGED <<queue, last>> /\ NoRepeats(replay[s])
        /\ received'[s] = IF h.kind = "window" \/ h.id > last[s] THEN received[s] \cup {h} ELSE received[s]
    BY <1>1, <1>5 DEF YieldReplay, TypeOK, ReaderInv
  <2>2. /\ \A e : Holds(replay'[s], e) => Holds(replay[s], e)
        /\ h.kind = "event" => Holds(replay[s], h.id)
    BY <2>1, TakeFirst
  <2>3. Elements(replay[s]) = {h} \cup Elements(replay'[s])
    BY <2>1, ElementsTail
  <2> HIDE DEF h
  <2>4. Held(s)' \subseteq Held(s)
    BY <2>1, <2>3 DEF Held, InQueue
  <2>5. \A e \in EventId : Missing(s, e)' => Missing(s, e)
    BY <1>2, <2>4 DEF Missing
  <2>6. \A e \in EventId : Gets(s, e)' => Gets(s, e)
    BY <1>3, <2>1, <2>2 DEF Gets, HasReceived, HasReplay, HasQueued
  <2> QED
    BY <1>1, <1>3, <2>4, <2>5, <2>6, NoticesKept
<1>6. CASE YieldLive(s)
  <2> DEFINE h == Head(queue[s])
  <2>1. /\ queue[s] \in Seq(Item) /\ queue[s] # <<>> /\ queue'[s] = Tail(queue[s])
        /\ UNCHANGED <<replay, last>> /\ NoRepeats(queue[s])
        /\ received'[s] = received[s] \cup {h}
    BY <1>1, <1>6 DEF YieldLive, TypeOK, ReaderInv
  <2>2. /\ \A e : Holds(queue'[s], e) => Holds(queue[s], e)
        /\ h.kind = "event" => Holds(queue[s], h.id)
    BY <2>1, TakeFirst
  <2>3. Elements(queue[s]) = {h} \cup Elements(queue'[s])
    BY <2>1, ElementsTail
  <2> HIDE DEF h
  <2>4. Held(s)' \subseteq Held(s)
    BY <2>1, <2>3 DEF Held, InQueue, Elements
  <2>5. \A e \in EventId : Missing(s, e)' => Missing(s, e)
    BY <1>2, <2>4 DEF Missing
  <2>6. \A e \in EventId : Gets(s, e)' => Gets(s, e)
    BY <1>3, <2>1, <2>2 DEF Gets, HasReceived, HasReplay, HasQueued, Holds
  <2> QED
    BY <1>1, <1>3, <2>4, <2>5, <2>6, NoticesKept
<1>7. CASE Unsubscribe(s)
  <2>1. UNCHANGED <<queue, replay, received, last>>
    BY <1>7 DEF Unsubscribe
  <2>2. Held(s)' = Held(s)
    BY <2>1 DEF Held, InQueue, Elements
  <2>3. \A e \in EventId : Missing(s, e)' => Missing(s, e)
    BY <1>2, <2>2 DEF Missing
  <2>4. \A e \in EventId : Gets(s, e)' => Gets(s, e)
    BY <1>3, <2>1 DEF Gets, HasReceived, HasReplay, HasQueued, Holds
  <2> QED
    BY <1>1, <1>3, <2>2, <2>3, <2>4, NoticesKept
<1> QED
  BY <1>4, <1>5, <1>6, <1>7 DEF AnyStream

LEMMA NoticesStep ==
    ASSUME NoticesInv, NEW p \in Publishers, Publishers = {p}, [AnyNext]_vars
    PROVE  NoticesInv'
<1>1. OrderInv' /\ TypeOK
  BY OrderStep DEF NoticesInv, OrderInv, TwiceInv, NoLossInv
<1>2. CASE Publish(p)
  BY <1>1, <1>2, NoticesPublish DEF NoticesInv
<1>3. ASSUME NEW s \in Subscribers, AnyStream(s)
      PROVE  NoticesInv'
  <2>1. UNCHANGED <<nextId, pc, event, todo, target, drained>>
    BY <1>3 DEF AnyStream, Subscribe, YieldReplay, YieldLive, Unsubscribe, pubVars
  <2>2. ASSUME NEW t \in Subscribers
        PROVE  NoticesTrue(t)'
    <3>1. CASE t = s
      BY <1>3, <3>1, NoticesStream
    <3>2. CASE t # s
      <4>1. last'[t] = last[t] /\ replay'[t] = replay[t] /\ queue'[t] = queue[t]
        BY <1>1, <1>3, <3>2 DEF AnyStream, Subscribe, YieldReplay, YieldLive, Unsubscribe, TypeOK
      <4>2. received'[t] = received[t]
        BY <1>1, <1>3, <3>2 DEF AnyStream, Subscribe, YieldReplay, YieldLive, Unsubscribe, TypeOK
      <4>3. \A e \in EventId : Done(e) => Done(e)'
        BY <2>1 DEF Done
      <4> QED
        BY <2>1, <4>1, <4>2, <4>3, NoticesAside
    <3> QED
      BY <3>1, <3>2
  <2> QED
    BY <1>1, <2>2 DEF NoticesInv
<1>4. CASE UNCHANGED vars
  <2>1. UNCHANGED <<nextId, pc, event, todo, target, drained, last, replay, received, queue>>
    BY <1>4 DEF vars, pubVars, subVars
  <2>2. \A e \in EventId : Done(e) => Done(e)'
    BY <2>1 DEF Done
  <2>3. \A t \in Subscribers : NoticesTrue(t)'
    BY <2>1, <2>2, NoticesAside
  <2> QED
    BY <1>1, <2>3 DEF NoticesInv
<1> QED
  BY <1>2, <1>3, <1>4 DEF AnyNext

\* NoticesInv is OnePublisherNoticesAreTrue with its sets written as membership.
LEMMA NoticesImplies == NoticesInv => OnePublisherNoticesAreTrue
<1> SUFFICES ASSUME NoticesInv, NEW s \in Subscribers
             PROVE  LET items == received[s] \cup ToReplay(s) \cup InQueue(s)
                    IN  /\ Missed(items) \cap (EventIds(items) \cup Owed(s)) = {}
                        /\ \A item \in items : item.kind = "window" => item.missed # {}
  BY DEF OnePublisherNoticesAreTrue
<1> DEFINE items == received[s] \cup ToReplay(s) \cup InQueue(s)
<1>1. TypeOK /\ NoticesTrue(s)
  BY DEF NoticesInv, OrderInv, TwiceInv, NoLossInv
<1>2. items \subseteq Held(s)
  BY DEF Held, ToReplay
<1>3. \A item \in Held(s) : item \in Item
  <2>1. \A item \in Elements(replay[s]) \cup InQueue(s) : item \in Item
    BY <1>1 DEF TypeOK, Elements, InQueue
  <2> QED
    BY <1>1, <2>1 DEF Held, TypeOK
<1>4. \A e \in Missed(items) : e \in EventId /\ Missing(s, e)
  BY <1>2, <1>3 DEF Missed, Missing, Item
<1>5. \A e \in EventIds(items) : Gets(s, e)
  <2> SUFFICES ASSUME NEW item \in items, item.kind = "event"
               PROVE  \E e \in EventId : e = item.id /\ Gets(s, e)
    BY DEF EventIds
  <2>1. PICK e \in EventId : e = item.id
    BY <1>2, <1>3 DEF Item
  <2>2. CASE item \in received[s]
    BY <2>1, <2>2 DEF Gets, HasReceived
  <2>3. CASE item \in ToReplay(s)
    BY <2>1, <2>3 DEF Gets, HasReplay, ToReplay, Elements, Holds
  <2>4. CASE item \in InQueue(s)
    BY <2>1, <2>4 DEF Gets, HasQueued, InQueue, Elements, Holds
  <2> QED
    BY <2>1, <2>2, <2>3, <2>4
<1>6. \A e \in Owed(s) : Gets(s, e)
  BY DEF Owed, Gets, HasOwed
<1>7. Missed(items) \cap (EventIds(items) \cup Owed(s)) = {}
  BY <1>1, <1>4, <1>5, <1>6 DEF NoticesTrue
<1>8. \A item \in items : item.kind = "window" => item.missed # {}
  BY <1>1, <1>2 DEF NoticesTrue
<1> QED
  BY <1>7, <1>8

LEMMA NoticesInit == Init => NoticesInv
<1> SUFFICES ASSUME Init PROVE NoticesInv
  OBVIOUS
<1>1. \A s \in Subscribers : Held(s) = {} /\ \A q \in Publishers : target[q] = {}
  <2>1. Len(<<>>) = 0
    OBVIOUS
  <2> QED
    BY <2>1 DEF Init, Held, InQueue, Elements
<1>2. \A s \in Subscribers : NoticesTrue(s)
  BY <1>1 DEF NoticesTrue, Missing
<1> QED
  BY <1>2, OrderInit DEF NoticesInv

\* With one publisher no notice reports an event missed that the subscription gets,
\* and none says the replay window was exceeded when nothing is missing.
THEOREM OnePublisherNoticesAreTrueHolds == Spec => []OnePublisherNoticesAreTrue
<1>1. CASE Cardinality(Publishers) = 1
  <2>1. PICK p \in Publishers : Publishers = {p}
    BY <1>1, SizesAssumption, FS_Singleton
  <2>2. NoticesInv /\ [Next]_vars => NoticesInv'
    BY <2>1, NextIsAny, NoticesStep DEF NoticesInv, OrderInv, TwiceInv, NoLossInv
  <2> QED
    BY NoticesInit, <2>2, NoticesImplies, PTL DEF Spec
<1>2. CASE Cardinality(Publishers) # 1
  <2>1. OnePublisherNoticesAreTrue
    BY <1>2 DEF OnePublisherNoticesAreTrue
  <2> QED
    BY <2>1, PTL
<1> QED
  BY <1>1, <1>2
=============================================================================
