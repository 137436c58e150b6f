---------------------------- MODULE LiveUpdateHub ----------------------------
(***************************************************************************)
(* The in-process event hub of backend/services/live_update_hub.py and the *)
(* generator of /api/events/stream in backend/app.py that reads from it.   *)
(*                                                                         *)
(* Publishers are the threads that call publish(): the telemetry thread,   *)
(* Flask request threads and the terminal gateway's thread.  publish()     *)
(* draws its id before it takes the lock, appends to the history and       *)
(* copies the subscriber list under the lock, and fills the queues after   *)
(* it has released it, so its steps interleave with every other thread's.  *)
(*                                                                         *)
(* Subscribers are subscriptions (one per SSE connection): each is used    *)
(* once, as the ids of _subscriber_ids are.                                *)
(*                                                                         *)
(* An event is its id: type, payload and timestamp change no step.  A      *)
(* publisher visits the subscribers of its copy in any order.              *)
(***************************************************************************)
EXTENDS Naturals, Sequences, FiniteSets

CONSTANTS
    Publishers,   \* threads that publish
    Subscribers,  \* subscriptions, numbered by _subscriber_ids
    QueueSize,    \* subscriber_queue_size (200)
    ReplaySize,   \* replay_buffer_size (250)
    MaxEvents     \* bound of the model: ids drawn from _event_ids

ASSUME SizesAssumption ==
    /\ QueueSize \in Nat \ {0}
    /\ ReplaySize \in Nat \ {0}
    /\ MaxEvents \in Nat
    /\ IsFiniteSet(Publishers)

\* A request without a usable Last-Event-ID: _parse_last_event_id gives None
\* for an absent header, for text that is no number and for numbers below 1.
NoId == 0

VARIABLES
    nextId,       \* the next value of _event_ids
    history,      \* _history: the ids of the last ReplaySize events recorded
    subscribers,  \* the keys of _subscribers
    queue,        \* each subscription's queue.Queue
    pc,           \* where each publisher is inside publish()
    event,        \* the id the publisher drew
    todo,         \* subscribers of its copy that it has not served yet
    target,       \* {s} while it replaces the full queue of s, else {}
    drained,      \* events its _drain_queue has removed from that queue (aux.)
    phase,        \* "new", "open" (the generator runs) or "closed"
    last,         \* the last_event_id each subscription asked with
    replay,       \* what the generator has still to yield of its replay
    received,     \* items the generator yielded
    due,          \* events whose copy of the subscribers held this one (aux.)
    lost          \* events a queue.Full raised by publish() threw away (aux.)

pubVars == <<pc, event, todo, target, drained>>
subVars == <<phase, last, replay, received>>
vars == <<nextId, history, subscribers, queue, pubVars, subVars, due, lost>>

-----------------------------------------------------------------------------
(* Items of the queues.  A notice carries, as an auxiliary field, the events *)
(* the reader will never see because of the gap the notice reports.          *)

EventItem(e)          == [kind |-> "event", id |-> e, missed |-> {}]
LaggingNotice(e, gap) == [kind |-> "lagging", id |-> e, missed |-> gap]
WindowNotice(l, o)    == [kind |-> "window", id |-> o, missed |-> (l + 1) .. (o - 1)]

\* The events an item tells its reader of: itself, or those it reports missed.
Tells(item) == IF item.kind = "event" THEN {item.id} ELSE item.missed

Elements(q) == {q[i] : i \in 1 .. Len(q)}

InQueue(s) == Elements(queue[s])

-----------------------------------------------------------------------------
Init ==
    /\ nextId = 1
    /\ history = <<>>
    /\ subscribers = {}
    /\ queue = [s \in Subscribers |-> <<>>]
    /\ pc = [p \in Publishers |-> "idle"]
    /\ event = [p \in Publishers |-> NoId]
    /\ todo = [p \in Publishers |-> {}]
    /\ target = [p \in Publishers |-> {}]
    /\ drained = [p \in Publishers |-> {}]
    /\ phase = [s \in Subscribers |-> "new"]
    /\ last = [s \in Subscribers |-> NoId]
    /\ replay = [s \in Subscribers |-> <<>>]
    /\ received = [s \in Subscribers |-> {}]
    /\ due = [s \in Subscribers |-> {}]
    /\ lost = [s \in Subscribers |-> {}]

-----------------------------------------------------------------------------
(* publish() *)

\* "id": next(self._event_ids), before the lock is taken.
DrawId(p) ==
    /\ pc[p] = "idle"
    /\ nextId <= MaxEvents
    /\ event' = [event EXCEPT ![p] = nextId]
    /\ nextId' = nextId + 1
    /\ pc' = [pc EXCEPT ![p] = "record"]
    /\ UNCHANGED <<history, subscribers, queue, todo, target, drained, subVars, due, lost>>

\* deque(maxlen = ReplaySize).append
Appended_Unbounded(e) == Append(history, e)   \* fault: no maxlen

Appended(e) ==
    IF Len(history) < ReplaySize THEN Append(history, e) ELSE Append(Tail(history), e)

\* The critical section: history and subscriber list in one lock.
Record(p) ==
    /\ pc[p] = "record"
    /\ history' = Appended(event[p])
    /\ todo' = [todo EXCEPT ![p] = subscribers]
    /\ due' = [s \in Subscribers |->
                  IF s \in subscribers THEN due[s] \cup {event[p]} ELSE due[s]]
    /\ pc' = [pc EXCEPT ![p] = "fanout"]
    /\ UNCHANGED <<nextId, subscribers, queue, event, target, drained, subVars, lost>>

Room(s) == Len(queue[s]) < QueueSize

Put(s, item) == queue' = [queue EXCEPT ![s] = Append(@, item)]

\* _enqueue_event, the queue has room.
Enqueue(p, s) ==
    /\ pc[p] = "fanout" /\ s \in todo[p]
    /\ Room(s)
    /\ Put(s, EventItem(event[p]))
    /\ todo' = [todo EXCEPT ![p] = @ \ {s}]
    /\ UNCHANGED <<nextId, history, subscribers, pc, event, target, drained, subVars, due, lost>>

\* _enqueue_event, queue.Full: _replace_queue_with_gap_notice begins.
EnqueueFull_DropsEvent(p, s) ==   \* fault: queue.Full swallowed
    /\ pc[p] = "fanout" /\ s \in todo[p]
    /\ ~Room(s)
    /\ todo' = [todo EXCEPT ![p] = @ \ {s}]
    /\ UNCHANGED <<nextId, history, subscribers, queue, pc, event, target, drained, subVars, due, lost>>

EnqueueFull(p, s) ==
    /\ pc[p] = "fanout" /\ s \in todo[p]
    /\ ~Room(s)
    /\ target' = [target EXCEPT ![p] = {s}]
    /\ drained' = [drained EXCEPT ![p] = {}]
    /\ pc' = [pc EXCEPT ![p] = "drain"]
    /\ UNCHANGED <<nextId, history, subscribers, queue, event, todo, subVars, due, lost>>

\* What a drainer has to answer for after it removed this item.
AlsoMissed(gap, item) == gap \cup Tells(item)

DrainOne_LeavesItem(p, s) ==   \* fault: what is counted as dropped stays in the queue
    /\ pc[p] = "drain" /\ s \in target[p]
    /\ queue[s] # <<>>
    /\ drained' = [drained EXCEPT ![p] = AlsoMissed(@, Head(queue[s]))]
    /\ UNCHANGED <<nextId, history, subscribers, queue, pc, event, todo, target, subVars, due, lost>>

\* One get_nowait of _drain_queue: the reader and other publishers may use the
\* queue between two of them.
DrainOne(p, s) ==
    /\ pc[p] = "drain" /\ s \in target[p]
    /\ queue[s] # <<>>
    /\ drained' = [drained EXCEPT ![p] = AlsoMissed(@, Head(queue[s]))]
    /\ queue' = [queue EXCEPT ![s] = Tail(@)]
    /\ UNCHANGED <<nextId, history, subscribers, pc, event, todo, target, subVars, due, lost>>

\* queue.Empty ends the drain; a queue of one slot gets no notice.
DrainEnd_NoNotice(p, s) ==   \* fault: the bound on one-slot queues is off by one
    /\ pc[p] = "drain" /\ s \in target[p]
    /\ queue[s] = <<>>
    /\ pc' = [pc EXCEPT ![p] = IF QueueSize <= 2 THEN "current" ELSE "notice"]
    /\ UNCHANGED <<nextId, history, subscribers, queue, event, todo, target, drained, subVars, due, lost>>

DrainEnd(p, s) ==
    /\ pc[p] = "drain" /\ s \in target[p]
    /\ queue[s] = <<>>
    /\ pc' = [pc EXCEPT ![p] = IF QueueSize <= 1 THEN "current" ELSE "notice"]
    /\ UNCHANGED <<nextId, history, subscribers, queue, event, todo, target, drained, subVars, due, lost>>

PutNotice(p, s) ==
    /\ pc[p] = "notice" /\ s \in target[p]
    /\ Room(s)
    /\ Put(s, LaggingNotice(event[p], drained[p]))
    /\ drained' = [drained EXCEPT ![p] = {}]
    /\ pc' = [pc EXCEPT ![p] = "current"]
    /\ UNCHANGED <<nextId, history, subscribers, event, todo, target, subVars, due, lost>>

\* The replacement ends.  What was drained and is not in a notice (a queue of
\* one slot) is gone without one.
PutCurrent_ThenRetries(p, s) ==   \* fault: the put that failed is tried again
    /\ pc[p] = "current" /\ s \in target[p]
    /\ Room(s)
    /\ Put(s, EventItem(event[p]))
    /\ target' = [target EXCEPT ![p] = {}]
    /\ pc' = [pc EXCEPT ![p] = "fanout"]
    /\ UNCHANGED <<nextId, history, subscribers, event, todo, drained, subVars, due, lost>>

PutCurrent(p, s) ==
    /\ pc[p] = "current" /\ s \in target[p]
    /\ Room(s)
    /\ Put(s, EventItem(event[p]))
    /\ lost' = [lost EXCEPT ![s] = @ \cup drained[p]]
    /\ drained' = [drained EXCEPT ![p] = {}]
    /\ todo' = [todo EXCEPT ![p] = @ \ {s}]
    /\ target' = [target EXCEPT ![p] = {}]
    /\ pc' = [pc EXCEPT ![p] = "fanout"]
    /\ UNCHANGED <<nextId, history, subscribers, event, subVars, due>>

\* put_nowait after a drain finds the queue filled again by other publishers:
\* queue.Full leaves publish(), and the subscribers not yet served are skipped.
PutRaises(p, s) ==
    /\ pc[p] \in {"notice", "current"} /\ s \in target[p]
    /\ ~Room(s)
    /\ lost' = [t \in Subscribers |->
                   lost[t] \cup (IF t \in todo[p] THEN {event[p]} ELSE {})
                           \cup (IF t = s THEN drained[p] ELSE {})]
    /\ drained' = [drained EXCEPT ![p] = {}]
    /\ todo' = [todo EXCEPT ![p] = {}]
    /\ target' = [target EXCEPT ![p] = {}]
    /\ pc' = [pc EXCEPT ![p] = "idle"]
    /\ UNCHANGED <<nextId, history, subscribers, queue, event, subVars, due>>

PublishReturns(p) ==
    /\ pc[p] = "fanout" /\ todo[p] = {}
    /\ pc' = [pc EXCEPT ![p] = "idle"]
    /\ UNCHANGED <<nextId, history, subscribers, queue, event, todo, target, drained, subVars, due, lost>>

-----------------------------------------------------------------------------
(* subscribe(), the generator of stream_events, unsubscribe() *)

\* The history a reconnecting reader has still to see begins after its id.
GapBefore_Late(l) == l < history[1] - 2   \* fault: one missed event goes unreported

GapBefore_Early(l) == l < history[1]      \* fault: a gap of no events is reported

GapBefore(l) == l < history[1] - 1

ReplayEvents_ForNoId(l) ==   \* fault: a reader without an id gets a replay
    [i \in 1 .. Len(history) |-> EventItem(history[i])]

ReplayEvents_NoticeLast(l) ==   \* fault: append instead of insert(0)
    IF l = NoId \/ ~\E i \in 1 .. Len(history) : history[i] > l
    THEN <<>>
    ELSE LET copy == [i \in 1 .. Len(history) |-> EventItem(history[i])]
         IN  IF GapBefore(l) THEN Append(copy, WindowNotice(l, history[1])) ELSE copy

\* _build_replay_events.  The generator below skips what the comprehension of
\* the code filters out of the copied history.
ReplayEvents(l) ==
    IF l = NoId \/ ~\E i \in 1 .. Len(history) : history[i] > l
    THEN <<>>
    ELSE LET copy == [i \in 1 .. Len(history) |-> EventItem(history[i])]
         IN  IF GapBefore(l) THEN <<WindowNotice(l, history[1])>> \o copy ELSE copy

\* Event ids some subscription has yielded: what a client can ask to resume from.
Seen == {item.id : item \in {i \in UNION {received[s] : s \in Subscribers} : i.kind = "event"}}

\* Replay and registration in one lock.
Subscribe(s, l) ==
    /\ phase[s] = "new"
    /\ replay' = [replay EXCEPT ![s] = ReplayEvents(l)]
    /\ subscribers' = subscribers \cup {s}
    /\ last' = [last EXCEPT ![s] = l]
    /\ phase' = [phase EXCEPT ![s] = "open"]
    /\ UNCHANGED <<nextId, history, queue, pubVars, received, due, lost>>

\* The next event of the replay, or one that the comprehension left out.
YieldReplay(s) ==
    /\ phase[s] = "open" /\ replay[s] # <<>>
    /\ LET item == Head(replay[s])
       IN  received' = IF item.kind = "window" \/ item.id > last[s]
                       THEN [received EXCEPT ![s] = @ \cup {item}]
                       ELSE received
    /\ replay' = [replay EXCEPT ![s] = Tail(@)]
    /\ UNCHANGED <<nextId, history, subscribers, queue, pubVars, phase, last, due, lost>>

\* subscriber_queue.get: only after the whole replay.
YieldLive_BeforeReplay(s) ==   \* fault: live events overtake the replay
    /\ phase[s] = "open"
    /\ queue[s] # <<>>
    /\ received' = [received EXCEPT ![s] = @ \cup {Head(queue[s])}]
    /\ queue' = [queue EXCEPT ![s] = Tail(@)]
    /\ UNCHANGED <<nextId, history, subscribers, pubVars, phase, last, replay, due, lost>>

YieldLive(s) ==
    /\ phase[s] = "open" /\ replay[s] = <<>>
    /\ queue[s] # <<>>
    /\ received' = [received EXCEPT ![s] = @ \cup {Head(queue[s])}]
    /\ queue' = [queue EXCEPT ![s] = Tail(@)]
    /\ UNCHANGED <<nextId, history, subscribers, pubVars, phase, last, replay, due, lost>>

\* The client went away: the finally clause of the generator.  A publisher
\* that has copied the list goes on filling the abandoned queue.
Unsubscribe(s) ==
    /\ phase[s] = "open"
    /\ subscribers' = subscribers \ {s}
    /\ phase' = [phase EXCEPT ![s] = "closed"]
    /\ UNCHANGED <<nextId, history, queue, pubVars, last, replay, received, due, lost>>

-----------------------------------------------------------------------------
Publish(p) ==
    \/ DrawId(p) \/ Record(p) \/ PublishReturns(p)
    \/ \E s \in Subscribers :
          \/ Enqueue(p, s) \/ EnqueueFull(p, s)
          \/ DrainOne(p, s) \/ DrainEnd(p, s)
          \/ PutNotice(p, s) \/ PutCurrent(p, s) \/ PutRaises(p, s)

Stream(s) ==
    \/ \E l \in {NoId} \cup Seen : Subscribe(s, l)
    \/ YieldReplay(s) \/ YieldLive(s)
    \/ Unsubscribe(s)

Next ==
    \/ \E p \in Publishers : Publish(p)
    \/ \E s \in Subscribers : Stream(s)

Spec == Init /\ [][Next]_vars

-----------------------------------------------------------------------------
(* Properties *)

EventId == 1 .. MaxEvents

Item == [kind : {"event", "lagging", "window"}, id : EventId, missed : SUBSET EventId]

\* Every variable stays in its range; in particular no queue grows past
\* QueueSize and no history past ReplaySize, whatever the publishers do.
TypeOK ==
    /\ nextId \in 1 .. (MaxEvents + 1)
    /\ history \in Seq(EventId) /\ Len(history) <= ReplaySize
    /\ subscribers \subseteq Subscribers
    /\ queue \in [Subscribers -> Seq(Item)]
    /\ \A s \in Subscribers : Len(queue[s]) <= QueueSize
    /\ pc \in [Publishers -> {"idle", "record", "fanout", "drain", "notice", "current"}]
    /\ event \in [Publishers -> 0 .. MaxEvents]
    /\ \A p \in Publishers : pc[p] # "idle" => event[p] # NoId
    /\ todo \in [Publishers -> SUBSET Subscribers]
    /\ target \in [Publishers -> SUBSET Subscribers]
    /\ drained \in [Publishers -> SUBSET EventId]
    /\ phase \in [Subscribers -> {"new", "open", "closed"}]
    /\ last \in [Subscribers -> 0 .. MaxEvents]
    /\ replay \in [Subscribers -> Seq(Item)]
    /\ received \in [Subscribers -> SUBSET Item]
    /\ due \in [Subscribers -> SUBSET EventId]
    /\ lost \in [Subscribers -> SUBSET EventId]

EventIds(items) == {item.id : item \in {i \in items : i.kind = "event"}}

Missed(items) == UNION {item.missed : item \in items}

Told(items) == UNION {Tells(item) : item \in items}

ToReplay(s) == {item \in Elements(replay[s]) : item.kind = "window" \/ item.id > last[s]}

\* The events publishers have still to put into the queue of s.
Owed(s) == {event[p] : p \in {q \in Publishers : s \in todo[q]}}

\* The events whose place in the queue of s a publisher is about to report lost.
InHand(s) == UNION {drained[p] : p \in {q \in Publishers : s \in target[q]}}

\* A subscription yields no event twice: whatever it has yielded, has still to
\* replay, has queued and is owed by a publisher are four disjoint sets, and
\* the queue holds no event twice.  publish() copies the subscribers in the
\* lock in which it records, subscribe() copies the history in the lock in
\* which it registers.
NeverTwice ==
    \A s \in Subscribers :
        /\ EventIds(ToReplay(s)) \cap EventIds(received[s]) = {}
        /\ EventIds(InQueue(s)) \cap (EventIds(received[s]) \cup EventIds(ToReplay(s))) = {}
        /\ Owed(s) \cap (EventIds(received[s]) \cup EventIds(ToReplay(s)) \cup EventIds(InQueue(s))) = {}
        /\ \A i, j \in 1 .. Len(queue[s]) :
              queue[s][i].kind = "event" /\ queue[s][i] = queue[s][j] => i = j

\* Every event recorded while s was registered reaches it, is on its way, or is
\* reported missed by a notice that reaches it or is about to be put.  Only a
\* queue.Full that leaves publish(), or a queue too short for a notice, loses
\* an event without one.
NoSilentLoss ==
    \A s \in Subscribers :
        due[s] \ lost[s] \subseteq
            Told(received[s] \cup InQueue(s)) \cup Owed(s) \cup InHand(s)

\* With one publisher and room for a notice publish() never raises queue.Full
\* and nothing is lost without a notice, however slow the readers are.
OnePublisherLosesNothing ==
    Cardinality(Publishers) = 1 /\ QueueSize > 1 => \A s \in Subscribers : lost[s] = {}

\* With one publisher the events of a subscription come in the order of their
\* ids, replay first: the browser discards an event whose id is not above the
\* last one it saw, so an event out of order would be an event lost.
OnePublisherInOrder ==
    Cardinality(Publishers) = 1 =>
        \A s \in Subscribers :
            /\ \A e \in EventIds(received[s]), f \in EventIds(ToReplay(s) \cup InQueue(s)) \cup Owed(s) : e < f
            /\ \A e \in EventIds(ToReplay(s)), f \in EventIds(InQueue(s)) \cup Owed(s) : e < f
            /\ \A e \in EventIds(InQueue(s)), f \in Owed(s) : e < f
            /\ \A i, j \in 1 .. Len(queue[s]) :
                  i < j /\ queue[s][i].kind = "event" /\ queue[s][j].kind = "event"
                      => queue[s][i].id < queue[s][j].id

Recorded == {e \in EventId : e < nextId /\ ~\E p \in Publishers : pc[p] = "record" /\ event[p] = e}

\* With one publisher a subscription that resumes after an id hears of every
\* later event: by replay, live, or from a notice.
OnePublisherResumesComplete ==
    Cardinality(Publishers) = 1 /\ QueueSize > 1 =>
        \A s \in Subscribers :
            phase[s] = "open" /\ last[s] # NoId =>
                {e \in Recorded : e > last[s]} \subseteq
                    Told(received[s] \cup ToReplay(s) \cup InQueue(s)) \cup Owed(s) \cup InHand(s)

\* With one publisher no notice reports an event missed that the subscription
\* gets, and replay_window_exceeded is sent only when events are missing.
OnePublisherNoticesAreTrue ==
    Cardinality(Publishers) = 1 =>
        \A s \in Subscribers :
            LET items == received[s] \cup ToReplay(s) \cup InQueue(s)
            IN  /\ Missed(items) \cap (EventIds(items) \cup Owed(s)) = {}
                /\ \A item \in items : item.kind = "window" => item.missed # {}

\* publish() draws, records and fills queue after queue while other publishers and
\* the readers go on between its steps; to each reader it is one step of FanOut.
\* Heard are the events recorded for s that it was sent or told it had missed: the
\* notice that opens a resumed stream is about events from before.
UnderWay(s) == Told(InQueue(s)) \cup Owed(s) \cup InHand(s)
Heard(s) == due[s] \cap Told({item \in received[s] : item.kind # "window"})

Promise == INSTANCE FanOut WITH
    Readers <- Subscribers,
    Events <- EventId,
    published <- Recorded,
    registered <- subscribers,
    owed <- [s \in Subscribers |-> UnderWay(s)],
    heard <- [s \in Subscribers |-> Heard(s)]

\* The steps of any number of publishers and readers make the hub a FanOut: what is
\* under way to a reader stays apart from what it heard of and from what it lost.
ImplementsFanOut == Promise!Spec
=============================================================================
