------------------------- MODULE DashboardStreamProofs -------------------------
(* Machine-checked theorems about DashboardStream.  The page's steps leave the  *)
(* hub alone or are those of a client that resumes from some id; a restart of   *)
(* the backend takes the hub back to a state in which its invariants hold.      *)
EXTENDS DashboardStream, LiveUpdateHubProofs

-----------------------------------------------------------------------------
(* The steps of the hub *)

\* The restart of the backend, as far as the hub knows.
LEMMA RestartFacts ==
    ASSUME Restart
    PROVE  /\ nextId' = 1 /\ history' = <<>> /\ subscribers' = {}
           /\ pc' = [p \in Publishers |-> "idle"] /\ event' = [p \in Publishers |-> NoId]
           /\ todo' = [p \in Publishers |-> {}] /\ target' = [p \in Publishers |-> {}]
           /\ drained' = [p \in Publishers |-> {}]
           /\ phase' = [s \in Subscribers |-> IF phase[s] = "open" THEN "closed" ELSE phase[s]]
           /\ last' = last
           /\ \A s \in Subscribers : /\ queue'[s] = <<>> /\ replay'[s] = <<>> /\ received'[s] = {}
                                     /\ due'[s] = {} /\ lost'[s] = {}
BY DEF Restart

\* Every step of the whole is one of the hub with some client, or a restart.
LEMMA HubStep ==
    ASSUME lastId \in 0 .. MaxEvents, [StreamNext]_allVars
    PROVE  [AnyNext]_vars \/ Restart
<1>1. ASSUME NEW p \in Publishers, PublishStep(p) PROVE AnyNext
  BY <1>1 DEF PublishStep, AnyNext
<1>2. ASSUME NEW s \in Subscribers, SendReplay(s) \/ SendLive(s) \/ EndStream(s) PROVE AnyNext
  BY <1>2 DEF SendReplay, SendLive, EndStream, AnyNext, AnyStream
<1>3. ASSUME NEW s \in Subscribers, SendKeepAlive(s) PROVE UNCHANGED vars
  BY <1>3 DEF SendKeepAlive
<1>4. CASE Connect
  <2>1. PICK s \in Subscribers : Subscribe(s, lastId)
    BY <1>4 DEF Connect
  <2> QED
    BY <2>1 DEF AnyNext, AnyStream
<1>5. CASE Dispatch \/ ConnectionFails \/ HeartbeatAges \/ RestartStream \/ Remount \/ UNCHANGED allVars
  BY <1>5 DEF Dispatch, ConnectionFails, HeartbeatAges, RestartStream, Remount, allVars
<1> QED
  BY <1>1, <1>2, <1>3, <1>4, <1>5 DEF StreamNext, Backend, Page

LEMMA TypeRestart == TypeOK /\ Restart => TypeOK'
<1> SUFFICES ASSUME TypeOK, Restart PROVE TypeOK'
  OBVIOUS
<1>1. /\ nextId' \in 1 .. (MaxEvents + 1) /\ history' \in Seq(EventId) /\ Len(history') <= ReplaySize
      /\ subscribers' \subseteq Subscribers
  BY SizesAssumption DEF Restart, EventId
<1>2. /\ pc' \in [Publishers -> {"idle", "record", "fanout", "drain", "notice", "current"}]
      /\ event' \in [Publishers -> 0 .. MaxEvents]
      /\ \A p \in Publishers : pc'[p] # "idle" => event'[p] # NoId
      /\ todo' \in [Publishers -> SUBSET Subscribers] /\ target' \in [Publishers -> SUBSET Subscribers]
      /\ drained' \in [Publishers -> SUBSET EventId]
  BY SizesAssumption DEF Restart, NoId
<1>3. /\ queue' \in [Subscribers -> Seq(Item)] /\ \A s \in Subscribers : Len(queue'[s]) <= QueueSize
      /\ replay' \in [Subscribers -> Seq(Item)]
  BY SizesAssumption DEF Restart
<1>4. /\ phase' \in [Subscribers -> {"new", "open", "closed"}] /\ last' \in [Subscribers -> 0 .. MaxEvents]
      /\ received' \in [Subscribers -> SUBSET Item]
      /\ due' \in [Subscribers -> SUBSET EventId] /\ lost' \in [Subscribers -> SUBSET EventId]
  BY DEF Restart, TypeOK
<1> QED
  BY <1>1, <1>2, <1>3, <1>4 DEF TypeOK

\* A restarted hub has made no promise yet.
LEMMA NoLossRestart == NoLossInv /\ Restart => NoLossInv'
<1> SUFFICES ASSUME NoLossInv, Restart PROVE NoLossInv'
  OBVIOUS
<1>1. TypeOK'
  BY TypeRestart DEF NoLossInv
<1>2. \A p \in Publishers : PublisherShape(p)'
  BY RestartFacts DEF PublisherShape
<1> QED
  BY <1>1, <1>2, RestartFacts DEF NoLossInv

LEMMA LosesNothingRestart == NoLossInv /\ Restart => LosesNothingInv'
<1> SUFFICES ASSUME NoLossInv, Restart PROVE LosesNothingInv'
  OBVIOUS
<1>1. RoomAfterDrain'
  BY RestartFacts DEF RoomAfterDrain
<1> QED
  BY <1>1, NoLossRestart, RestartFacts DEF LosesNothingInv, NoLossInv

\* What a reader of a restarted hub has: nothing.
LEMMA ReaderRestart ==
    ASSUME TypeOK, Restart, NEW s \in Subscribers
    PROVE  /\ ReaderInv(s)' /\ ReaderOrder(s)' /\ ResumedInv(s)' /\ NoticesTrue(s)'
           /\ \A e : ~Gets(s, e)'
<1>1. Len(<<>>) = 0
  OBVIOUS
<1>2. /\ \A e : /\ ~HasReceived(s, e)' /\ ~HasReplay(s, e)' /\ ~HasQueued(s, e)' /\ ~HasOwed(s, e)'
                /\ ~Holds(replay[s], e)'
  BY <1>1, RestartFacts DEF HasReceived, HasReplay, HasQueued, HasOwed, Holds
<1>3. NoRepeats(queue[s])' /\ NoRepeats(replay[s])' /\ InOrder(queue[s])' /\ InOrder(replay[s])'
  BY <1>1, RestartFacts DEF NoRepeats, InOrder
<1>4. NothingBefore(s)'
  BY RestartFacts DEF NothingBefore
<1>5. phase'[s] # "open"
  BY RestartFacts
<1>6. Held(s)' = {}
  BY <1>1, RestartFacts DEF Held, InQueue, Elements
<1>7. NoticesTrue(s)'
  BY <1>6, RestartFacts DEF NoticesTrue, Missing
<1> QED
  BY <1>2, <1>3, <1>4, <1>5, <1>7 DEF ReaderInv, OnePlace, ReaderOrder, Ahead, ResumedInv, Gets

LEMMA TwiceRestart == TwiceInv /\ Restart => TwiceInv'
<1> SUFFICES ASSUME TwiceInv, Restart PROVE TwiceInv'
  OBVIOUS
<1>1. IdsInv'
  BY RestartFacts DEF IdsInv
<1>2. \A s \in Subscribers : ReaderInv(s)'
  BY ReaderRestart DEF TwiceInv, NoLossInv
<1> QED
  BY <1>1, <1>2, NoLossRestart DEF TwiceInv

LEMMA OrderRestart == OrderInv /\ Restart => OrderInv'
<1> SUFFICES ASSUME OrderInv, Restart PROVE OrderInv'
  OBVIOUS
<1>1. LatestInv'
  BY RestartFacts DEF LatestInv
<1>2. \A s \in Subscribers : ReaderOrder(s)'
  BY ReaderRestart DEF OrderInv, TwiceInv, NoLossInv
<1> QED
  BY <1>1, <1>2, TwiceRestart DEF OrderInv

LEMMA ResumeRestart == ResumeInv /\ Restart => ResumeInv'
<1> SUFFICES ASSUME ResumeInv, Restart PROVE ResumeInv'
  OBVIOUS
<1>1. HistoryInv'
  BY RestartFacts DEF HistoryInv, Done, EventId
<1>2. \A s \in Subscribers : ResumedInv(s)'
  BY ReaderRestart DEF ResumeInv, OrderInv, TwiceInv, NoLossInv
<1> QED
  BY <1>1, <1>2, OrderRestart DEF ResumeInv

LEMMA NoticesRestart == NoticesInv /\ Restart => NoticesInv'
<1> SUFFICES ASSUME NoticesInv, Restart PROVE NoticesInv'
  OBVIOUS
<1>1. \A s \in Subscribers : NoticesTrue(s)'
  BY ReaderRestart DEF NoticesInv, OrderInv, TwiceInv, NoLossInv
<1> QED
  BY <1>1, OrderRestart DEF NoticesInv

-----------------------------------------------------------------------------
(* Types *)

LEMMA FrameTyped ==
    ASSUME NEW item \in Item, epoch \in 0 .. MaxRestarts
    PROVE  /\ Frame(item) \in FrameType
           /\ Frame(item).id = (IF item.kind = "event" THEN item.id ELSE NoId)
           /\ Frame(item).epoch = epoch
           /\ Frame(item).what = "window" <=> item.kind = "window"
<1>1. (IF item.kind = "event" THEN item.id ELSE NoId) \in 0 .. MaxEvents
  BY SizesAssumption DEF Item, EventId, NoId
<1>2. item.kind \in {"event", "lagging", "window"}
  BY DEF Item
<1>3. CASE item.kind # "event"
  BY <1>1, <1>2, <1>3 DEF Frame, FrameType
<1>4. CASE item.kind = "event" /\ item.id \in beats
  BY <1>1, <1>4 DEF Frame, FrameType
<1>5. CASE item.kind = "event" /\ item.id \notin beats
  BY <1>1, <1>5 DEF Frame, FrameType
<1> QED
  BY <1>3, <1>4, <1>5

LEMMA PlainTyped ==
    ASSUME epoch \in 0 .. MaxRestarts
    PROVE  /\ Plain("bootstrap") \in FrameType /\ Plain("heartbeat") \in FrameType
           /\ \A what : Plain(what).id = NoId /\ Plain(what).what = what
BY SizesAssumption DEF Plain, FrameType, NoId

\* What the frame of a dispatched item does to the page.
LEMMA DispatchFacts ==
    ASSUME StreamTypeOK, Dispatch
    PROVE  \E frame \in FrameType :
             /\ frame = Head(wire) /\ wire # <<>> /\ wire' = Tail(wire)
             /\ EventIdOf(frame) \in 0 .. MaxEvents
             /\ buffer' = EventIdOf(frame)
             /\ lastId' = IF Accepts(frame) /\ EventIdOf(frame) # NoId THEN EventIdOf(frame) ELSE lastId
             /\ applied' = IF Accepts(frame) /\ frame.id # NoId THEN applied \cup {Mark(frame)} ELSE applied
             /\ Mark(frame) = <<frame.epoch, frame.id>>
             /\ UNCHANGED <<vars, epoch, source, resets, remounting>> /\ source # {}
<1>1. wire \in Seq(FrameType) /\ wire # <<>> /\ buffer \in 0 .. MaxEvents
  BY DEF StreamTypeOK, Dispatch
<1>2. PICK frame \in FrameType : frame = Head(wire)
  BY <1>1
<1>3. EventIdOf(frame) \in 0 .. MaxEvents
  BY <1>1 DEF EventIdOf, FrameType
<1> QED
  BY <1>1, <1>2, <1>3 DEF Dispatch, Mark

LEMMA StreamTypeStep ==
    ASSUME StreamTypeOK, [StreamNext]_allVars
    PROVE  StreamTypeOK'
<1>1. TypeOK'
  BY HubStep, TypeStep, TypeRestart DEF StreamTypeOK
<1>2. /\ TypeOK /\ epoch \in 0 .. MaxRestarts /\ wire \in Seq(FrameType)
      /\ beats \subseteq EventId /\ source \subseteq Subscribers /\ \A s, t \in source : s = t
      /\ source = {} => wire = <<>>
      /\ lastId \in 0 .. MaxEvents /\ buffer \in 0 .. MaxEvents
  BY DEF StreamTypeOK
<1>3. ASSUME NEW p \in Publishers, PublishStep(p) PROVE StreamTypeOK'
  <2>1. beats' \subseteq EventId
    <3>1. CASE nextId' = nextId
      BY <1>2, <1>3, <3>1 DEF PublishStep
    <3>2. CASE nextId' # nextId
      <4>1. DrawId(p)
        BY <1>3, <3>2 DEF PublishStep, Publish, Record, PublishReturns, Enqueue, EnqueueFull, DrainOne,
                          DrainEnd, PutNotice, PutCurrent, PutRaises
      <4>2. nextId \in EventId
        BY <1>2, <4>1 DEF DrawId, TypeOK, EventId
      <4> QED
        BY <1>2, <1>3, <4>2 DEF PublishStep
    <3> QED
      BY <3>1, <3>2
  <2> QED
    BY <1>1, <1>3, <2>1 DEF PublishStep, StreamTypeOK, pageVars
<1>4. ASSUME NEW s \in Subscribers, SendReplay(s) \/ SendLive(s) \/ SendKeepAlive(s)
      PROVE  StreamTypeOK'
  <2>1. PICK frames \in Seq(FrameType) : Transmit(s, frames)
    <3>1. CASE SendReplay(s)
      <4>1. Head(replay[s]) \in Item
        BY <1>2, <3>1 DEF SendReplay, YieldReplay, TypeOK
      <4>2. <<Frame(Head(replay[s]))>> \in Seq(FrameType) /\ <<>> \in Seq(FrameType)
        BY <1>2, <4>1, FrameTyped
      <4> QED
        BY <3>1, <4>2 DEF SendReplay
    <3>2. CASE SendLive(s)
      <4>1. Head(queue[s]) \in Item
        BY <1>2, <3>2 DEF SendLive, YieldLive, TypeOK
      <4>2. <<Frame(Head(queue[s]))>> \in Seq(FrameType)
        BY <1>2, <4>1, FrameTyped
      <4> QED
        BY <3>2, <4>2 DEF SendLive
    <3>3. CASE SendKeepAlive(s)
      <4>1. <<Plain("heartbeat")>> \in Seq(FrameType)
        BY <1>2, PlainTyped
      <4> QED
        BY <3>3, <4>1 DEF SendKeepAlive
    <3> QED
      BY <1>4, <3>1, <3>2, <3>3
  <2>2. wire' \in Seq(FrameType) /\ (source = {} => wire' = <<>>)
    <3>1. CASE s \in source
      <4>1. wire' = wire \o frames
        BY <2>1, <3>1 DEF Transmit
      <4> QED
        BY <1>2, <2>1, <3>1, <4>1
    <3>2. CASE s \notin source
      BY <1>2, <2>1, <3>2 DEF Transmit
    <3> QED
      BY <3>1, <3>2
  <2>3. UNCHANGED <<epoch, beats, source, pageVars>>
    BY <1>4 DEF SendReplay, SendLive, SendKeepAlive
  <2> QED
    BY <1>1, <2>2, <2>3 DEF StreamTypeOK, pageVars
<1>5. ASSUME NEW s \in Subscribers, EndStream(s) PROVE StreamTypeOK'
  BY <1>1, <1>5 DEF EndStream, streamVars, pageVars, StreamTypeOK
<1>6. CASE Restart
  <2>1. epoch' \in 0 .. MaxRestarts
    BY <1>2, <1>6, StreamAssumption DEF Restart
  <2> QED
    BY <1>1, <1>6, <2>1 DEF Restart, pageVars, StreamTypeOK
<1>7. CASE Connect
  <2>1. PICK s \in Subscribers :
          source' = {s} /\ wire' = IF replay'[s] = <<>> THEN <<Plain("bootstrap")>> ELSE <<>>
    BY <1>7 DEF Connect
  <2>2. wire' \in Seq(FrameType)
    BY <1>2, <2>1, PlainTyped
  <2>3. \A t, u \in source' : t = u
    BY <2>1
  <2>4. buffer' \in 0 .. MaxEvents
    BY <1>7, SizesAssumption DEF Connect, NoId
  <2> QED
    BY <1>1, <1>7, <2>1, <2>2, <2>3, <2>4 DEF Connect, StreamTypeOK
<1>8. CASE Dispatch
  <2>1. PICK frame \in FrameType :
             /\ frame = Head(wire) /\ wire # <<>> /\ wire' = Tail(wire)
             /\ EventIdOf(frame) \in 0 .. MaxEvents
             /\ buffer' = EventIdOf(frame)
             /\ lastId' = IF Accepts(frame) /\ EventIdOf(frame) # NoId THEN EventIdOf(frame) ELSE lastId
             /\ applied' = IF Accepts(frame) /\ frame.id # NoId THEN applied \cup {Mark(frame)} ELSE applied
             /\ Mark(frame) = <<frame.epoch, frame.id>>
             /\ UNCHANGED <<vars, epoch, source, resets, remounting>> /\ source # {}
    BY <1>8, DispatchFacts
  <2>2. wire' \in Seq(FrameType) /\ buffer' \in 0 .. MaxEvents /\ lastId' \in 0 .. MaxEvents
    BY <1>2, <2>1
  <2>3. applied' \subseteq Event
    BY <2>1 DEF StreamTypeOK, FrameType, Event, EventId, NoId
  <2>4. heartbeat' \in {"never", "fresh", "stale"} /\ beats' = beats
    BY <1>8 DEF Dispatch, StreamTypeOK
  <2> QED
    BY <1>1, <2>1, <2>2, <2>3, <2>4 DEF StreamTypeOK
<1>9. CASE ConnectionFails \/ Remount
  <2>1. source' = {} /\ wire' = <<>> /\ UNCHANGED <<vars, epoch, beats, buffer, lastId, heartbeat, resets, applied>>
    BY <1>9 DEF ConnectionFails, Remount, pageVars
  <2>2. remounting' \in BOOLEAN
    BY <1>9 DEF ConnectionFails, Remount, pageVars, StreamTypeOK
  <2>3. wire' \in Seq(FrameType)
    BY <2>1
  <2> QED
    BY <1>1, <2>1, <2>2, <2>3 DEF StreamTypeOK
<1>10. CASE HeartbeatAges \/ RestartStream \/ UNCHANGED allVars
  <2>1. UNCHANGED <<vars, epoch, beats, source, wire, buffer, applied>>
    BY <1>10 DEF HeartbeatAges, RestartStream, allVars, streamVars, pageVars
  <2>2. /\ lastId' \in 0 .. MaxEvents /\ heartbeat' \in {"never", "fresh", "stale"}
        /\ remounting' \in BOOLEAN /\ resets' \in BOOLEAN
    <3>1. NoId \in 0 .. MaxEvents
      BY SizesAssumption DEF NoId
    <3>2. CASE HeartbeatAges
      BY <3>2 DEF HeartbeatAges, StreamTypeOK
    <3>3. CASE RestartStream
      BY <3>1, <3>3 DEF RestartStream, StreamTypeOK
    <3>4. CASE UNCHANGED allVars
      BY <3>4 DEF allVars, streamVars, pageVars, StreamTypeOK
    <3> QED
      BY <1>10, <3>2, <3>3, <3>4
  <2> QED
    BY <1>1, <2>1, <2>2 DEF StreamTypeOK
<1> QED
  BY <1>3, <1>4, <1>5, <1>6, <1>7, <1>8, <1>9, <1>10 DEF StreamNext, Backend, Page

LEMMA StreamTypeInit == StreamInit => StreamTypeOK
<1> SUFFICES ASSUME StreamInit PROVE StreamTypeOK
  OBVIOUS
<1>1. TypeOK
  BY TypeInit DEF StreamInit
<1>2. source \subseteq Subscribers /\ \A s, t \in source : s = t
  BY DEF StreamInit
<1>3. /\ epoch \in 0 .. MaxRestarts /\ buffer \in 0 .. MaxEvents /\ lastId \in 0 .. MaxEvents
      /\ wire \in Seq(FrameType)
  BY SizesAssumption, StreamAssumption DEF StreamInit, NoId
<1> QED
  BY <1>1, <1>2, <1>3 DEF StreamInit, StreamTypeOK

\* Hub, wire and page together keep to their ranges, across restarts of the backend:
\* there is one EventSource at most, and no frame outlives it.
THEOREM StreamTypeCorrect == StreamSpec => []StreamTypeOK
<1>1. StreamTypeOK /\ [StreamNext]_allVars => StreamTypeOK'
  BY StreamTypeStep
<1> QED
  BY StreamTypeInit, <1>1, PTL DEF StreamSpec

-----------------------------------------------------------------------------
(* What the hub promises, it promises across restarts and to any client *)

SingleInv ==
    /\ StreamTypeOK
    /\ ResumeInv /\ NoticesInv
    /\ QueueSize > 1 => LosesNothingInv

LEMMA SingleStep ==
    ASSUME SingleInv, NEW p \in Publishers, Publishers = {p}, [StreamNext]_allVars
    PROVE  SingleInv'
<1>1. StreamTypeOK' /\ NoLossInv /\ ([AnyNext]_vars \/ Restart)
  BY StreamTypeStep, HubStep DEF SingleInv, StreamTypeOK, ResumeInv, OrderInv, TwiceInv
<1>2. ResumeInv' /\ NoticesInv'
  BY <1>1, ResumeStep, ResumeRestart, NoticesStep, NoticesRestart DEF SingleInv
<1>3. QueueSize > 1 => LosesNothingInv'
  BY <1>1, LosesNothingStep, LosesNothingRestart DEF SingleInv
<1> QED
  BY <1>1, <1>2, <1>3 DEF SingleInv

LEMMA SingleInit ==
    ASSUME StreamInit, NEW p \in Publishers, Publishers = {p}
    PROVE  SingleInv
<1>1. Init
  BY DEF StreamInit
<1> QED
  BY <1>1, StreamTypeInit, ResumeInit, NoticesInit, LosesNothingInit DEF SingleInv

\* Events are neither lost silently nor yielded twice, whatever id the page resumes
\* from and however often the backend restarts.
THEOREM HubSafeInStream == StreamSpec => [](NoSilentLoss /\ NeverTwice)
<1>1. StreamInit => StreamTypeOK /\ TwiceInv
  BY StreamTypeInit, TwiceInit DEF StreamInit
<1>2. StreamTypeOK /\ TwiceInv /\ [StreamNext]_allVars => (StreamTypeOK /\ TwiceInv)'
  BY StreamTypeStep, HubStep, TwiceStep, TwiceRestart DEF StreamTypeOK
<1>3. TwiceInv => NoSilentLoss /\ NeverTwice
  BY NoLossImplies, TwiceImplies DEF TwiceInv
<1> QED
  BY <1>1, <1>2, <1>3, PTL DEF StreamSpec

\* With one publisher a connection of the page gets its events in order, all of those
\* after the id it resumed from, and true notices: also when that id is from before
\* a restart of the backend.
THEOREM OnePublisherInStream ==
    StreamSpec => [](/\ OnePublisherLosesNothing /\ OnePublisherInOrder
                     /\ OnePublisherResumesComplete /\ OnePublisherNoticesAreTrue)
<1> DEFINE Promises == /\ OnePublisherLosesNothing /\ OnePublisherInOrder
                       /\ OnePublisherResumesComplete /\ OnePublisherNoticesAreTrue
<1>1. CASE Cardinality(Publishers) = 1
  <2>1. PICK p \in Publishers : Publishers = {p}
    BY <1>1, SizesAssumption, FS_Singleton
  <2>2. StreamInit => SingleInv
    BY <2>1, SingleInit
  <2>3. SingleInv /\ [StreamNext]_allVars => SingleInv'
    BY <2>1, SingleStep
  <2>4. SingleInv => Promises
    <3> SUFFICES ASSUME SingleInv PROVE Promises
      OBVIOUS
    <3>1. OnePublisherLosesNothing
      BY DEF SingleInv, LosesNothingInv, OnePublisherLosesNothing
    <3>2. NoSilentLoss
      BY NoLossImplies DEF SingleInv, ResumeInv, OrderInv, TwiceInv
    <3>3. OnePublisherInOrder /\ OnePublisherResumesComplete
      BY <3>1, <3>2, OrderImplies, ResumeImplies DEF SingleInv, ResumeInv
    <3> QED
      BY <3>1, <3>3, NoticesImplies DEF SingleInv
  <2> QED
    BY <2>2, <2>3, <2>4, PTL DEF StreamSpec
<1>2. CASE Cardinality(Publishers) # 1
  <2>1. Promises
    BY <1>2 DEF OnePublisherLosesNothing, OnePublisherInOrder, OnePublisherResumesComplete,
                OnePublisherNoticesAreTrue
  <2> QED
    BY <2>1, PTL
<1> QED
  BY <1>1, <1>2

-----------------------------------------------------------------------------
(* The notice of an exhausted replay window comes first *)

\* publish() puts no such notice, and a replay has one at its head at most.
WindowFirst(s) ==
    /\ \A i \in 1 .. Len(queue[s]) : queue[s][i].kind # "window"
    /\ \A i \in 1 .. Len(replay[s]) : replay[s][i].kind = "window" => i = 1

\* So it is the first frame of its source, before any that sets an id.
FirstFrame ==
    /\ \A s \in source : replay[s] # <<>> /\ Head(replay[s]).kind = "window"
                            => wire = <<>> /\ buffer = NoId
    /\ \A i \in 1 .. Len(wire) :
          wire[i].what = "window" => i = 1 /\ buffer = NoId /\ wire[i].id = NoId

WindowInv == StreamTypeOK /\ (\A s \in Subscribers : WindowFirst(s)) /\ FirstFrame

LEMMA ReplayWindow ==
    ASSUME TypeOK, NEW l \in 0 .. MaxEvents
    PROVE  \A i \in 1 .. Len(ReplayEvents(l)) : ReplayEvents(l)[i].kind = "window" => i = 1
<1> DEFINE copy == [i \in 1 .. Len(history) |-> EventItem(history[i])]
           window == WindowNotice(l, history[1])
<1>1. Len(history) \in Nat /\ \A i \in 1 .. Len(history) : history[i] \in EventId
  BY DEF TypeOK
<1>2. /\ copy \in Seq(Item) /\ Len(copy) = Len(history)
      /\ \A i \in 1 .. Len(copy) : copy[i].kind = "event"
  BY <1>1, EventItemType
<1>3. CASE l = NoId \/ ~\E i \in 1 .. Len(history) : history[i] > l
  <2>1. ReplayEvents(l) = <<>> /\ Len(<<>>) = 0
    BY <1>3 DEF ReplayEvents
  <2> QED
    BY <2>1
<1>4. CASE ~(l = NoId \/ ~\E i \in 1 .. Len(history) : history[i] > l)
  <2>1. window \in Item
    <3>1. history[1] \in EventId
      BY <1>1, <1>4
    <3> QED
      BY <3>1, WindowNoticeType
  <2> DEFINE r == <<window>> \o copy
  <2>2. \A i \in 1 .. Len(r) : i = 1 \/ (i - 1 \in 1 .. Len(copy) /\ r[i] = copy[i - 1])
    <3> HIDE DEF copy, window
    <3> QED
      BY <1>2, <2>1, ItemBefore
  <2>3. ReplayEvents(l) = IF GapBefore(l) THEN r ELSE copy
    BY <1>4 DEF ReplayEvents
  <2> HIDE DEF r, copy, window
  <2>4. CASE GapBefore(l)
    BY <1>2, <2>2, <2>3, <2>4
  <2>5. CASE ~GapBefore(l)
    BY <1>2, <2>3, <2>5
  <2> QED
    BY <2>4, <2>5
<1> QED
  BY <1>3, <1>4

LEMMA WindowHubStep ==
    ASSUME TypeOK, NEW s \in Subscribers, WindowFirst(s), [AnyNext]_vars \/ Restart
    PROVE  WindowFirst(s)'
<1>1. queue[s] \in Seq(Item) /\ replay[s] \in Seq(Item)
  BY DEF TypeOK
<1>2. \A q \in Seq(Item), item \in Item :
         /\ Len(Append(q, item)) = Len(q) + 1 /\ Append(q, item)[Len(q) + 1] = item /\ Len(q) \in Nat
         /\ \A i \in 1 .. Len(q) : Append(q, item)[i] = q[i]
  OBVIOUS
<1>3. \A q \in Seq(Item) : q # <<>> =>
         /\ Len(Tail(q)) = Len(q) - 1 /\ Len(q) \in Nat \ {0}
         /\ \A i \in 1 .. Len(Tail(q)) : Tail(q)[i] = q[i + 1] /\ i + 1 \in 1 .. Len(q) /\ i + 1 # 1
  OBVIOUS
<1>4. ASSUME queue'[s] = queue[s] \/ (queue[s] # <<>> /\ queue'[s] = Tail(queue[s])),
             replay'[s] = replay[s] \/ (replay[s] # <<>> /\ replay'[s] = Tail(replay[s]))
      PROVE  WindowFirst(s)'
  <2> DEFINE Fits(q, r) == /\ \A i \in 1 .. Len(q) : q[i].kind # "window"
                           /\ \A i \in 1 .. Len(r) : r[i].kind = "window" => i = 1
  <2>0. Fits(queue[s], replay[s])
    BY DEF WindowFirst
  <2>1. ASSUME queue[s] # <<>> PROVE \A i \in 1 .. Len(Tail(queue[s])) : Tail(queue[s])[i].kind # "window"
    BY <1>1, <1>3, <2>0, <2>1
  <2>2. ASSUME replay[s] # <<>> PROVE \A i \in 1 .. Len(Tail(replay[s])) : Tail(replay[s])[i].kind # "window"
    BY <1>1, <1>3, <2>0, <2>2
  <2>3. Fits(queue'[s], replay'[s])
    BY <1>4, <2>0, <2>1, <2>2
  <2> QED
    BY <2>3 DEF WindowFirst
<1>5. ASSUME NEW item \in Item, item.kind # "window",
             queue'[s] = Append(queue[s], item), replay'[s] = replay[s]
      PROVE  WindowFirst(s)'
  <2>1. \A i \in 1 .. Len(queue'[s]) : queue'[s][i].kind # "window"
    BY <1>1, <1>2, <1>5 DEF WindowFirst
  <2> QED
    BY <1>5, <2>1 DEF WindowFirst
<1>6. ASSUME NEW p \in Publishers, Publish(p)
      PROVE  WindowFirst(s)'
  <2>1. replay' = replay
    BY <1>6 DEF Publish, DrawId, Record, PublishReturns, Enqueue, EnqueueFull, DrainOne, DrainEnd,
                PutNotice, PutCurrent, PutRaises, subVars
  <2>2. CASE DrawId(p) \/ Record(p) \/ PublishReturns(p)
    BY <1>4, <2>1, <2>2 DEF DrawId, Record, PublishReturns
  <2>3. ASSUME NEW t \in Subscribers, EnqueueFull(p, t) \/ DrainEnd(p, t) \/ PutRaises(p, t)
        PROVE  WindowFirst(s)'
    BY <1>4, <2>1, <2>3 DEF EnqueueFull, DrainEnd, PutRaises
  <2>4. ASSUME NEW t \in Subscribers, DrainOne(p, t)
        PROVE  WindowFirst(s)'
    <3>1. queue'[s] = queue[s] \/ (queue[s] # <<>> /\ queue'[s] = Tail(queue[s]))
      BY <2>4 DEF DrainOne, TypeOK
    <3> QED
      BY <1>4, <2>1, <3>1
  <2>5. ASSUME NEW t \in Subscribers, Enqueue(p, t) \/ PutCurrent(p, t) \/ PutNotice(p, t)
        PROVE  WindowFirst(s)'
    <3>1. event[p] \in EventId
      BY <2>5 DEF Enqueue, PutCurrent, PutNotice, TypeOK, EventId, NoId
    <3>2. PICK item \in Item : item.kind # "window" /\ Put(t, item)
      <4>1. CASE Enqueue(p, t) \/ PutCurrent(p, t)
        <5>1. EventItem(event[p]) \in Item /\ EventItem(event[p]).kind # "window"
          BY <3>1, EventItemType
        <5> QED
          BY <4>1, <5>1 DEF Enqueue, PutCurrent
      <4>2. CASE PutNotice(p, t)
        <5>1. drained[p] \in SUBSET EventId
          BY DEF TypeOK
        <5>2. LaggingNotice(event[p], drained[p]) \in Item
          BY <3>1, <5>1, LaggingNoticeType
        <5>3. LaggingNotice(event[p], drained[p]).kind # "window"
          BY DEF LaggingNotice
        <5> QED
          BY <4>2, <5>2, <5>3 DEF PutNotice
      <4> QED
        BY <2>5, <4>1, <4>2
    <3>3. CASE t = s
      <4>1. queue'[s] = Append(queue[s], item)
        BY <3>2, <3>3 DEF Put, TypeOK
      <4> QED
        BY <1>5, <2>1, <3>2, <4>1
    <3>4. CASE t # s
      <4>1. queue'[s] = queue[s]
        BY <3>2, <3>4 DEF Put, TypeOK
      <4> QED
        BY <1>4, <2>1, <4>1
    <3> QED
      BY <3>3, <3>4
  <2> QED
    BY <1>6, <2>2, <2>3, <2>4, <2>5 DEF Publish
<1>7. ASSUME NEW t \in Subscribers, AnyStream(t)
      PROVE  WindowFirst(s)'
  <2>1. ASSUME NEW l \in 0 .. MaxEvents, Subscribe(t, l)
        PROVE  WindowFirst(s)'
    <3>1. CASE t = s
      <4>1. queue' = queue /\ replay'[s] = ReplayEvents(l)
        BY <2>1, <3>1 DEF Subscribe, TypeOK
      <4>2. \A i \in 1 .. Len(replay'[s]) : replay'[s][i].kind = "window" => i = 1
        BY <4>1, ReplayWindow
      <4> QED
        BY <4>1, <4>2 DEF WindowFirst
    <3>2. CASE t # s
      <4>1. queue' = queue /\ replay'[s] = replay[s]
        BY <2>1, <3>2 DEF Subscribe, TypeOK
      <4> QED
        BY <1>4, <4>1
    <3> QED
      BY <3>1, <3>2
  <2>2. CASE YieldReplay(t)
    <3>1. queue' = queue /\ (replay'[s] = replay[s] \/ (replay[s] # <<>> /\ replay'[s] = Tail(replay[s])))
      BY <2>2 DEF YieldReplay, TypeOK
    <3> QED
      BY <1>4, <3>1
  <2>3. CASE YieldLive(t)
    <3>1. replay' = replay /\ (queue'[s] = queue[s] \/ (queue[s] # <<>> /\ queue'[s] = Tail(queue[s])))
      BY <2>3 DEF YieldLive, TypeOK
    <3> QED
      BY <1>4, <3>1
  <2>4. CASE Unsubscribe(t)
    BY <1>4, <2>4 DEF Unsubscribe
  <2> QED
    BY <1>7, <2>1, <2>2, <2>3, <2>4 DEF AnyStream
<1>8. CASE Restart
  <2>1. queue'[s] = <<>> /\ replay'[s] = <<>> /\ Len(<<>>) = 0
    BY <1>8, RestartFacts
  <2> QED
    BY <2>1 DEF WindowFirst
<1>9. CASE UNCHANGED vars
  BY <1>4, <1>9 DEF vars, subVars
<1> QED
  BY <1>6, <1>7, <1>8, <1>9 DEF AnyNext

\* There is one EventSource at most.
LEMMA OneSource ==
    ASSUME StreamTypeOK, NEW s \in Subscribers
    PROVE  source = {} \/ source = {s} \/ s \notin source
BY DEF StreamTypeOK

\* What a generator sends: nothing to an EventSource that is closed, else one frame
\* behind the others.
LEMMA SendFacts ==
    ASSUME StreamTypeOK, NEW s \in Subscribers, SendReplay(s) \/ SendLive(s) \/ SendKeepAlive(s)
    PROVE  /\ UNCHANGED <<epoch, beats, source, pageVars>>
           /\ \/ s \in source /\ \E frame \in FrameType :
                    /\ wire' = Append(wire, frame)
                    /\ \/ /\ YieldReplay(s)
                          /\ Head(replay[s]).kind = "window" \/ Head(replay[s]).id > last[s]
                          /\ frame = Frame(Head(replay[s])) /\ Head(replay[s]) \in Item
                       \/ /\ YieldLive(s)
                          /\ frame = Frame(Head(queue[s])) /\ Head(queue[s]) \in Item
                       \/ UNCHANGED vars /\ frame.id = NoId /\ frame.what = "heartbeat"
              \/ /\ wire' = wire
                 /\ \/ YieldReplay(s) /\ (s \in source => Head(replay[s]).kind # "window"
                                                             /\ ~(Head(replay[s]).id > last[s]))
                    \/ YieldLive(s) /\ s \notin source
<1>1. TypeOK /\ epoch \in 0 .. MaxRestarts /\ wire \in Seq(FrameType)
  BY DEF StreamTypeOK
<1>2. \A f \in FrameType : wire \o <<f>> = Append(wire, f)
  BY <1>1
<1>3. wire \o <<>> = wire
  BY <1>1
<1>4. CASE SendReplay(s)
  <2>1. Head(replay[s]) \in Item
    BY <1>1, <1>4 DEF SendReplay, YieldReplay, TypeOK
  <2>2. Frame(Head(replay[s])) \in FrameType
    BY <1>1, <2>1, FrameTyped
  <2> QED
    BY <1>2, <1>3, <1>4, <2>1, <2>2 DEF SendReplay, Transmit
<1>5. CASE SendLive(s)
  <2>1. Head(queue[s]) \in Item
    BY <1>1, <1>5 DEF SendLive, YieldLive, TypeOK
  <2>2. Frame(Head(queue[s])) \in FrameType
    BY <1>1, <2>1, FrameTyped
  <2> QED
    BY <1>2, <1>5, <2>1, <2>2 DEF SendLive, Transmit
<1>6. CASE SendKeepAlive(s)
  <2>1. /\ Plain("heartbeat") \in FrameType /\ Plain("heartbeat").id = NoId
        /\ Plain("heartbeat").what = "heartbeat"
    BY <1>1, PlainTyped
  <2>2. wire' = Append(wire, Plain("heartbeat"))
    BY <1>2, <1>6, <2>1 DEF SendKeepAlive, Transmit
  <2> QED
    BY <1>6, <2>1, <2>2 DEF SendKeepAlive
<1> QED
  BY <1>4, <1>5, <1>6

\* The places of a sequence after a step on it.
LEMMA Longer ==
    ASSUME NEW w \in Seq(FrameType), NEW f \in FrameType
    PROVE  /\ Append(w, f) \in Seq(FrameType)
           /\ \A i \in 1 .. Len(Append(w, f)) :
                 \/ i \in 1 .. Len(w) /\ Append(w, f)[i] = w[i]
                 \/ i = Len(w) + 1 /\ Append(w, f)[i] = f
OBVIOUS

LEMMA Shorter ==
    ASSUME NEW w \in Seq(FrameType), w # <<>>
    PROVE  /\ Head(w) = w[1] /\ 1 \in 1 .. Len(w) /\ Head(w) \in FrameType
           /\ \A i \in 1 .. Len(Tail(w)) :
                 i + 1 \in 1 .. Len(w) /\ i + 1 # 1 /\ Tail(w)[i] = w[i + 1]
OBVIOUS

\* The steps that leave hub, wire and ids of the page alone.
LEMMA PageIdle ==
    ASSUME HeartbeatAges \/ UNCHANGED allVars
    PROVE  UNCHANGED <<vars, epoch, source, wire, buffer, lastId, applied, remounting, resets>>
BY DEF HeartbeatAges, allVars, streamVars, pageVars

LEMMA FirstFrameStep ==
    ASSUME WindowInv, [StreamNext]_allVars
    PROVE  FirstFrame'
<1>1. /\ StreamTypeOK /\ TypeOK /\ FirstFrame /\ \A s \in Subscribers : WindowFirst(s)
      /\ wire \in Seq(FrameType) /\ source \subseteq Subscribers
  BY DEF WindowInv, StreamTypeOK
<1>2. ASSUME UNCHANGED <<source, wire, buffer>>, \A s \in source : replay'[s] = replay[s] \/ replay'[s] = <<>>
      PROVE  FirstFrame'
  BY <1>1, <1>2 DEF FirstFrame
<1>3. ASSUME NEW p \in Publishers, PublishStep(p) PROVE FirstFrame'
  <2>1. replay' = replay
    BY <1>3 DEF PublishStep, Publish, DrawId, Record, PublishReturns, Enqueue, EnqueueFull, DrainOne,
                DrainEnd, PutNotice, PutCurrent, PutRaises, subVars
  <2> QED
    BY <1>2, <1>3, <2>1 DEF PublishStep, pageVars
<1>4. ASSUME NEW s \in Subscribers, SendReplay(s) \/ SendLive(s) \/ SendKeepAlive(s)
      PROVE  FirstFrame'
  <2>1. UNCHANGED <<source, buffer>>
    BY <1>1, <1>4, SendFacts DEF pageVars
  \* After the head of a replay there is no such notice left in it.
  <2>2. ASSUME YieldReplay(s)
        PROVE  /\ replay'[s] # <<>> => Head(replay'[s]).kind # "window"
               /\ \A t \in Subscribers : t # s => replay'[t] = replay[t]
    <3>1. replay[s] \in Seq(Item) /\ replay[s] # <<>> /\ replay'[s] = Tail(replay[s])
      BY <1>1, <2>2 DEF YieldReplay, TypeOK
    <3>2. Tail(replay[s]) # <<>> => 2 \in 1 .. Len(replay[s]) /\ Head(Tail(replay[s])) = replay[s][2]
      BY <3>1
    <3>3. replay'[s] # <<>> => Head(replay'[s]).kind # "window"
      BY <1>1, <3>1, <3>2 DEF WindowFirst
    <3> QED
      BY <1>1, <2>2, <3>3 DEF YieldReplay, TypeOK
  <2>3. source = {} \/ source = {s} \/ s \notin source
    BY <1>1, OneSource
  <2>4. CASE wire' = wire /\ (YieldReplay(s) \/ YieldLive(s))
    <3>1. \A t \in source : replay'[t] = replay[t] \/ (replay'[t] # <<>> => Head(replay'[t]).kind # "window")
      BY <1>1, <2>2, <2>4 DEF YieldLive
    <3> QED
      BY <1>1, <2>1, <2>4, <3>1 DEF FirstFrame
  <2>5. ASSUME s \in source, NEW frame \in FrameType, wire' = Append(wire, frame),
               YieldReplay(s), frame = Frame(Head(replay[s])), Head(replay[s]) \in Item
        PROVE  FirstFrame'
    <3>1. frame.what = "window" <=> Head(replay[s]).kind = "window"
      BY <1>1, <2>5, FrameTyped DEF StreamTypeOK
    <3>2. frame.what = "window" => wire = <<>> /\ buffer = NoId /\ frame.id = NoId
      <4>1. replay[s] # <<>>
        BY <2>5 DEF YieldReplay
      <4>2. Head(replay[s]).kind = "window" => frame.id = NoId
        BY <1>1, <2>5, FrameTyped DEF StreamTypeOK
      <4> QED
        BY <1>1, <2>5, <3>1, <4>1, <4>2 DEF FirstFrame
    <3>3. \A i \in 1 .. Len(wire') : wire'[i].what = "window" => i = 1 /\ buffer' = NoId /\ wire'[i].id = NoId
      BY <1>1, <2>1, <2>5, <3>2, Longer DEF FirstFrame
    <3>4. \A t \in source' : replay'[t] # <<>> => Head(replay'[t]).kind # "window"
      BY <2>1, <2>2, <2>3, <2>5
    <3> QED
      BY <3>3, <3>4 DEF FirstFrame
  <2>6. ASSUME s \in source, NEW frame \in FrameType, wire' = Append(wire, frame),
               replay[s] = <<>>, replay' = replay, frame.what # "window"
        PROVE  FirstFrame'
    <3>1. \A i \in 1 .. Len(wire') : wire'[i].what = "window" => i = 1 /\ buffer' = NoId /\ wire'[i].id = NoId
      BY <1>1, <2>1, <2>6, Longer DEF FirstFrame
    <3>2. \A t \in source' : replay'[t] = <<>>
      BY <2>1, <2>3, <2>6
    <3> QED
      BY <3>1, <3>2 DEF FirstFrame
  <2>7. ASSUME YieldLive(s), Head(queue[s]) \in Item
        PROVE  replay[s] = <<>> /\ replay' = replay /\ Frame(Head(queue[s])).what # "window"
    <3>1. Head(queue[s]).kind # "window"
      <4>1. queue[s] \in Seq(Item) /\ queue[s] # <<>>
        BY <1>1, <2>7 DEF YieldLive, TypeOK
      <4>2. 1 \in 1 .. Len(queue[s]) /\ Head(queue[s]) = queue[s][1]
        BY <4>1
      <4> QED
        BY <1>1, <4>2 DEF WindowFirst
    <3> QED
      BY <1>1, <2>7, <3>1, FrameTyped DEF YieldLive, StreamTypeOK
  <2>8. CASE SendKeepAlive(s)
    <3>1. /\ Plain("heartbeat") \in FrameType /\ Plain("heartbeat").what # "window"
          /\ s \in source /\ replay[s] = <<>> /\ replay' = replay
      BY <1>1, <2>8, PlainTyped DEF StreamTypeOK, SendKeepAlive, vars, subVars
    <3>2. wire' = Append(wire, Plain("heartbeat"))
      BY <1>1, <2>8, <3>1 DEF SendKeepAlive, Transmit
    <3> QED
      BY <2>6, <3>1, <3>2
  <2>9. CASE SendReplay(s) \/ SendLive(s)
    <3>1. YieldReplay(s) \/ YieldLive(s)
      BY <2>9 DEF SendReplay, SendLive
    <3>2. \/ wire' = wire
          \/ s \in source /\ \E frame \in FrameType :
                /\ wire' = Append(wire, frame)
                /\ \/ YieldReplay(s) /\ frame = Frame(Head(replay[s])) /\ Head(replay[s]) \in Item
                   \/ YieldLive(s) /\ frame = Frame(Head(queue[s])) /\ Head(queue[s]) \in Item
                   \/ UNCHANGED vars
      BY <1>1, <1>4, SendFacts
    <3>3. ~UNCHANGED vars
      <4>1. ASSUME NEW q \in Seq(Item), q # <<>> PROVE Tail(q) # q
        <5>1. Len(Tail(q)) # Len(q)
          BY <4>1
        <5> QED
          BY <5>1
      <4> QED
        BY <1>1, <3>1, <4>1 DEF YieldReplay, YieldLive, vars, subVars, TypeOK
    <3> QED
      BY <2>4, <2>5, <2>6, <2>7, <3>1, <3>2, <3>3
  <2> QED
    BY <1>4, <2>8, <2>9
<1>5. ASSUME NEW s \in Subscribers, EndStream(s) PROVE FirstFrame'
  BY <1>2, <1>5 DEF EndStream, Unsubscribe, streamVars, pageVars
<1>6. CASE Restart
  <2>1. \A s \in source : replay'[s] = <<>>
    BY <1>1, <1>6, RestartFacts
  <2> QED
    BY <1>2, <1>6, <2>1 DEF Restart, pageVars
<1>7. CASE Connect
  <2>1. PICK s \in Subscribers :
          source' = {s} /\ wire' = IF replay'[s] = <<>> THEN <<Plain("bootstrap")>> ELSE <<>>
    BY <1>7 DEF Connect
  <2>2. buffer' = NoId
    BY <1>7 DEF Connect
  <2>3. Plain("bootstrap").what # "window"
    BY <1>1, PlainTyped DEF StreamTypeOK
  <2>4. \A i \in 1 .. Len(wire') : wire'[i].what # "window"
    <3>1. \A x : <<x>>[1] = x /\ Len(<<x>>) = 1
      OBVIOUS
    <3> QED
      BY <2>1, <2>3, <3>1
  <2> QED
    BY <2>1, <2>2, <2>4 DEF FirstFrame
<1>8. CASE Dispatch
  <2>1. wire # <<>> /\ wire' = Tail(wire) /\ replay' = replay /\ source' = source
    BY <1>8 DEF Dispatch, vars, subVars
  <2>2. \A i \in 1 .. Len(wire') : wire'[i].what # "window"
    BY <1>1, <2>1, Shorter DEF FirstFrame
  <2> QED
    BY <1>1, <2>1, <2>2 DEF FirstFrame
<1>9. CASE ConnectionFails \/ Remount
  <2>1. source' = {} /\ wire' = <<>> /\ Len(<<>>) = 0
    BY <1>9 DEF ConnectionFails, Remount
  <2> QED
    BY <2>1 DEF FirstFrame
<1>10. CASE HeartbeatAges \/ RestartStream \/ UNCHANGED allVars
  <2>1. UNCHANGED <<vars, source, wire, buffer>>
    BY <1>10 DEF HeartbeatAges, RestartStream, allVars, streamVars, pageVars
  <2> QED
    BY <1>2, <2>1 DEF vars, subVars
<1> QED
  BY <1>3, <1>4, <1>5, <1>6, <1>7, <1>8, <1>9, <1>10 DEF StreamNext, Backend, Page

\* The notice that a resumed stream begins with is always shown, for any number of
\* publishers, connections and restarts: it comes before any id to be ignored for.
THEOREM WindowNoticesAreShown == StreamSpec => WindowNoticesShown
<1>1. StreamInit => WindowInv
  <2> SUFFICES ASSUME StreamInit PROVE WindowInv
    OBVIOUS
  <2>1. Len(<<>>) = 0
    OBVIOUS
  <2> QED
    BY <2>1, StreamTypeInit DEF StreamInit, Init, WindowInv, WindowFirst, FirstFrame
<1>2. WindowInv /\ [StreamNext]_allVars => WindowInv'
  BY StreamTypeStep, HubStep, WindowHubStep, FirstFrameStep DEF WindowInv, StreamTypeOK
<1>3. ASSUME WindowInv, Dispatch, Head(wire).what = "window"
      PROVE  Accepts(Head(wire))
  <2>1. wire \in Seq(FrameType) /\ wire # <<>>
    BY <1>3 DEF WindowInv, StreamTypeOK, Dispatch
  <2>2. Head(wire) = wire[1] /\ 1 \in 1 .. Len(wire)
    BY <2>1, Shorter
  <2>3. Head(wire).id = NoId /\ buffer = NoId
    BY <1>3, <2>2 DEF WindowInv, FirstFrame
  <2> QED
    BY <2>3 DEF Accepts, EventIdOf
<1>4. WindowInv => [Dispatch /\ Head(wire).what = "window" => Accepts(Head(wire))]_allVars
  BY <1>3
<1> QED
  BY <1>1, <1>2, <1>4, PTL DEF StreamSpec, WindowNoticesShown

-----------------------------------------------------------------------------
(* What a connection has still to yield, from one step to the next *)

Coming(s, e) == HasReplay(s, e) \/ HasQueued(s, e) \/ HasOwed(s, e)

LEMMA DoneStep ==
    ASSUME TwiceInv, [AnyNext]_vars
    PROVE  \A e \in EventId : Done(e) => Done(e)'
<1>1. ASSUME NEW p \in Publishers, Publish(p) PROVE \A e \in EventId : Done(e) => Done(e)'
  BY <1>1, IdsPublish
<1>2. ASSUME UNCHANGED <<nextId, pc, event>> PROVE \A e \in EventId : Done(e) => Done(e)'
  BY <1>2 DEF Done
<1>3. ASSUME NEW s \in Subscribers, AnyStream(s) PROVE UNCHANGED <<nextId, pc, event>>
  BY <1>3 DEF AnyStream, Subscribe, YieldReplay, YieldLive, Unsubscribe, pubVars
<1>4. UNCHANGED vars => UNCHANGED <<nextId, pc, event>>
  BY DEF vars, pubVars
<1> QED
  BY <1>1, <1>2, <1>3, <1>4 DEF AnyNext

\* The steps of a single publisher bring s no event but the latest.
LEMMA ComingPublish ==
    ASSUME OrderInv, NEW p \in Publishers, Publishers = {p}, Publish(p), NEW s \in Subscribers
    PROVE  \A e \in EventId : Coming(s, e)' =>
              \/ Coming(s, e)
              \/ e \in due'[s] /\ \A d \in EventId : Done(d) => d < e
<1>1. TypeOK /\ LatestInv /\ PublisherShape(p)
  BY DEF OrderInv, TwiceInv, NoLossInv
<1>2. UNCHANGED <<last, replay>> /\ queue[s] \in Seq(Item)
  BY <1>1 DEF Publish, DrawId, Record, PublishReturns, Enqueue, EnqueueFull, DrainOne, DrainEnd,
              PutNotice, PutCurrent, PutRaises, subVars, TypeOK
<1>3. \A e \in EventId : HasReplay(s, e)' <=> HasReplay(s, e)
  BY <1>2 DEF HasReplay, Holds
<1>4. \A q \in Seq(Item), item \in Item, e \in EventId :
         Holds(Append(q, item), e) => Holds(q, e) \/ (item.kind = "event" /\ item.id = e)
  <2> SUFFICES ASSUME NEW q \in Seq(Item), NEW item \in Item, NEW e \in EventId,
                      Holds(Append(q, item), e), ~Holds(q, e)
               PROVE  item.kind = "event" /\ item.id = e
    OBVIOUS
  <2>1. PICK i \in 1 .. Len(Append(q, item)) : Append(q, item)[i].kind = "event" /\ Append(q, item)[i].id = e
    BY DEF Holds
  <2>2. (i \in 1 .. Len(q) /\ Append(q, item)[i] = q[i]) \/ Append(q, item)[i] = item
    OBVIOUS
  <2> QED
    BY <2>1, <2>2 DEF Holds
<1>5. \A q \in Seq(Item), e \in EventId : q # <<>> /\ Holds(Tail(q), e) => Holds(q, e)
  <2> SUFFICES ASSUME NEW q \in Seq(Item), NEW e \in EventId, q # <<>>, Holds(Tail(q), e)
               PROVE  Holds(q, e)
    OBVIOUS
  <2>1. PICK i \in 1 .. Len(Tail(q)) : Tail(q)[i].kind = "event" /\ Tail(q)[i].id = e
    BY DEF Holds
  <2>2. i + 1 \in 1 .. Len(q) /\ Tail(q)[i] = q[i + 1]
    OBVIOUS
  <2> QED
    BY <2>1, <2>2 DEF Holds
<1>6. ASSUME \A e \in EventId : Holds(queue'[s], e) => Holds(queue[s], e),
             s \in todo'[p] => s \in todo[p] /\ event'[p] = event[p]
      PROVE  \A e \in EventId : Coming(s, e)' => Coming(s, e)
  <2>1. \A e \in EventId : HasQueued(s, e)' => HasQueued(s, e)
    BY <1>6 DEF HasQueued, Holds
  <2>2. \A e \in EventId : HasOwed(s, e)' => HasOwed(s, e)
    BY <1>6 DEF HasOwed
  <2> QED
    BY <1>3, <2>1, <2>2 DEF Coming
<1>7. CASE DrawId(p)
  <2>1. s \notin todo'[p] /\ queue' = queue
    BY <1>1, <1>7 DEF DrawId, PublisherShape
  <2> QED
    BY <1>6, <2>1
<1>8. CASE Record(p)
  <2>1. queue' = queue /\ event' = event /\ pc[p] = "record" /\ event[p] = nextId - 1
    BY <1>1, <1>8 DEF Record, LatestInv
  <2>2. \A d \in EventId : Done(d) => d < event[p]
    <3>1. nextId \in Nat
      BY <1>1 DEF TypeOK
    <3> QED
      BY <2>1, <3>1 DEF Done, EventId
  <2>3. \A e \in EventId : /\ HasQueued(s, e)' => HasQueued(s, e)
                           /\ HasOwed(s, e)' => e = event[p] /\ s \in todo'[p]
    BY <2>1 DEF HasQueued, HasOwed, Holds
  <2>4. s \in todo'[p] => event[p] \in due'[s]
    BY <1>1, <1>8 DEF Record, TypeOK
  <2> QED
    BY <1>3, <2>2, <2>3, <2>4 DEF Coming
<1>9. CASE PublishReturns(p)
  BY <1>6, <1>9 DEF PublishReturns
<1>10. ASSUME NEW t \in Subscribers, EnqueueFull(p, t) \/ DrainEnd(p, t) \/ PutRaises(p, t)
       PROVE  \A e \in EventId : Coming(s, e)' => Coming(s, e)
  <2>1. UNCHANGED <<queue, event>>
    BY <1>10 DEF EnqueueFull, DrainEnd, PutRaises
  <2>2. s \in todo'[p] => s \in todo[p]
    BY <1>1, <1>10 DEF EnqueueFull, DrainEnd, PutRaises, TypeOK
  <2> QED
    BY <1>6, <2>1, <2>2
<1>11. ASSUME NEW t \in Subscribers, DrainOne(p, t)
       PROVE  \A e \in EventId : Coming(s, e)' => Coming(s, e)
  <2>1. UNCHANGED <<todo, event>>
    BY <1>11 DEF DrainOne
  <2>2. queue'[s] = queue[s] \/ (queue[s] # <<>> /\ queue'[s] = Tail(queue[s]))
    BY <1>1, <1>11 DEF DrainOne, TypeOK
  <2>3. \A e \in EventId : Holds(queue'[s], e) => Holds(queue[s], e)
    BY <1>2, <1>5, <2>2
  <2> QED
    BY <1>6, <2>1, <2>3
<1>12. ASSUME NEW t \in Subscribers, PutNotice(p, t)
       PROVE  \A e \in EventId : Coming(s, e)' => Coming(s, e)
  <2>1. UNCHANGED <<todo, event>>
    BY <1>12 DEF PutNotice
  <2>2. PICK notice \in Item : /\ notice.kind # "event"
                               /\ queue'[s] = queue[s] \/ queue'[s] = Append(queue[s], notice)
    <3>1. event[p] \in EventId /\ drained[p] \in SUBSET EventId
      BY <1>1, <1>12 DEF PutNotice, TypeOK, EventId, NoId
    <3>2. LaggingNotice(event[p], drained[p]) \in Item
      BY <3>1, LaggingNoticeType
    <3>3. LaggingNotice(event[p], drained[p]).kind # "event"
      BY DEF LaggingNotice
    <3>4. queue'[s] = queue[s] \/ queue'[s] = Append(queue[s], LaggingNotice(event[p], drained[p]))
      BY <1>1, <1>12 DEF PutNotice, Put, TypeOK
    <3> QED
      BY <3>2, <3>3, <3>4
  <2>3. \A e \in EventId : Holds(queue'[s], e) => Holds(queue[s], e)
    <3>1. CASE queue'[s] = queue[s]
      BY <3>1
    <3>2. CASE queue'[s] = Append(queue[s], notice)
      BY <1>2, <1>4, <2>2, <3>2
    <3> QED
      BY <2>2, <3>1, <3>2
  <2> QED
    BY <1>6, <2>1, <2>3
<1>13. ASSUME NEW t \in Subscribers, Enqueue(p, t) \/ PutCurrent(p, t)
       PROVE  \A e \in EventId : Coming(s, e)' => Coming(s, e)
  <2>1. event' = event /\ t \in todo[p] /\ todo' = [todo EXCEPT ![p] = @ \ {t}]
    BY <1>1, <1>13 DEF Enqueue, PutCurrent, PublisherShape
  <2>2. event[p] \in EventId
    BY <1>1, <1>13 DEF Enqueue, PutCurrent, TypeOK, EventId, NoId
  <2>3. s \in todo'[p] => s \in todo[p]
    BY <1>1, <2>1 DEF TypeOK
  <2>4. CASE t # s
    <3>1. queue'[s] = queue[s]
      BY <1>1, <1>13, <2>4 DEF Enqueue, PutCurrent, Put, TypeOK
    <3> QED
      BY <1>6, <2>1, <2>3, <3>1
  <2>5. CASE t = s
    <3>1. queue'[s] = Append(queue[s], EventItem(event[p]))
      BY <1>1, <1>13, <2>5 DEF Enqueue, PutCurrent, Put, TypeOK
    <3>2. \A e \in EventId : Holds(queue'[s], e) => Holds(queue[s], e) \/ e = event[p]
      BY <1>2, <1>4, <2>2, <3>1, EventItemType
    <3>3. HasOwed(s, event[p])
      BY <2>1, <2>5 DEF HasOwed
    <3>4. \A e \in EventId : /\ HasQueued(s, e)' => HasQueued(s, e) \/ HasOwed(s, e)
                             /\ HasOwed(s, e)' => HasOwed(s, e)
      <4>1. \A e \in EventId : HasQueued(s, e)' => Holds(queue'[s], e)
        BY DEF HasQueued, Holds
      <4>2. \A e \in EventId : e = event[p] => HasOwed(s, e)
        BY <2>1, <2>5 DEF HasOwed
      <4>3. \A e \in EventId : HasOwed(s, e)' => HasOwed(s, e)
        BY <2>1, <2>3 DEF HasOwed
      <4> QED
        BY <3>2, <4>1, <4>2, <4>3 DEF HasQueued
    <3> QED
      BY <1>3, <3>4 DEF Coming
  <2> QED
    BY <2>4, <2>5
<1> QED
  BY <1>6, <1>7, <1>8, <1>9, <1>10, <1>11, <1>12, <1>13 DEF Publish

\* Nor do the steps of a connection: what it yields was coming to it.
LEMMA ComingStream ==
    ASSUME OrderInv, NEW t \in Subscribers, AnyStream(t),
           NEW s \in Subscribers, phase[s] # "new"
    PROVE  /\ \A e \in EventId : Coming(s, e)' => Coming(s, e)
           /\ \A e \in EventId : HasReceived(s, e) => HasReceived(s, e)'
           /\ \A e \in EventId : HasReceived(s, e)' => HasReceived(s, e) \/ Coming(s, e)
<1>1. TypeOK /\ queue[s] \in Seq(Item) /\ replay[s] \in Seq(Item)
  BY DEF OrderInv, TwiceInv, NoLossInv, TypeOK
<1>2. UNCHANGED <<event, todo>>
  BY DEF AnyStream, Subscribe, YieldReplay, YieldLive, Unsubscribe, pubVars
<1>3. \A q \in Seq(Item), e \in EventId : q # <<>> /\ Holds(Tail(q), e) => Holds(q, e)
  <2> SUFFICES ASSUME NEW q \in Seq(Item), NEW e \in EventId, q # <<>>, Holds(Tail(q), e)
               PROVE  Holds(q, e)
    OBVIOUS
  <2>1. PICK i \in 1 .. Len(Tail(q)) : Tail(q)[i].kind = "event" /\ Tail(q)[i].id = e
    BY DEF Holds
  <2>2. i + 1 \in 1 .. Len(q) /\ Tail(q)[i] = q[i + 1]
    OBVIOUS
  <2> QED
    BY <2>1, <2>2 DEF Holds
<1>4. /\ last'[s] = last[s]
      /\ queue'[s] = queue[s] \/ (queue[s] # <<>> /\ queue'[s] = Tail(queue[s]))
      /\ replay'[s] = replay[s] \/ (replay[s] # <<>> /\ replay'[s] = Tail(replay[s]))
      /\ received[s] \subseteq received'[s]
  <2>1. CASE YieldReplay(t)
    BY <1>1, <2>1 DEF YieldReplay, TypeOK
  <2>2. CASE YieldLive(t)
    BY <1>1, <2>2 DEF YieldLive, TypeOK
  <2>3. CASE Unsubscribe(t)
    BY <1>1, <2>3 DEF Unsubscribe, TypeOK
  <2>4. ASSUME NEW l \in 0 .. MaxEvents, Subscribe(t, l)
        PROVE  UNCHANGED <<last[s], queue[s], replay[s], received[s]>>
    BY <1>1, <2>4 DEF Subscribe, TypeOK
  <2> QED
    BY <2>1, <2>2, <2>3, <2>4 DEF AnyStream
<1>5. \A e \in EventId : /\ Holds(queue'[s], e) => Holds(queue[s], e)
                         /\ Holds(replay'[s], e) => Holds(replay[s], e)
  BY <1>1, <1>3, <1>4
<1>6. \A e \in EventId : /\ HasReplay(s, e)' => HasReplay(s, e)
                         /\ HasQueued(s, e)' => HasQueued(s, e)
                         /\ HasOwed(s, e)' => HasOwed(s, e)
  <2>1. \A e \in EventId : /\ HasReplay(s, e)' => e > last'[s] /\ Holds(replay'[s], e)
                           /\ HasQueued(s, e)' => Holds(queue'[s], e)
    BY DEF HasReplay, HasQueued, Holds
  <2>2. \A e \in EventId : HasOwed(s, e)' => HasOwed(s, e)
    BY <1>2 DEF HasOwed
  <2> QED
    BY <1>4, <1>5, <2>1, <2>2 DEF HasReplay, HasQueued
<1>7. \A e \in EventId : HasReceived(s, e)' => HasReceived(s, e) \/ Coming(s, e)
  <2>1. ASSUME NEW q \in Seq(Item), q # <<>> PROVE 1 \in 1 .. Len(q) /\ Head(q) = q[1]
    BY <2>1
  <2>2. CASE received'[s] = received[s]
    BY <2>2 DEF HasReceived
  <2>3. CASE YieldReplay(t) /\ received'[s] # received[s]
    <3>1. /\ replay[s] # <<>> /\ received'[s] = received[s] \cup {Head(replay[s])}
          /\ Head(replay[s]).kind = "window" \/ Head(replay[s]).id > last[s]
      BY <1>1, <2>3 DEF YieldReplay, TypeOK
    <3> QED
      BY <1>1, <2>1, <3>1 DEF HasReceived, Coming, HasReplay, Holds
  <2>4. CASE YieldLive(t) /\ received'[s] # received[s]
    <3>1. queue[s] # <<>> /\ received'[s] = received[s] \cup {Head(queue[s])}
      BY <1>1, <2>4 DEF YieldLive, TypeOK
    <3> QED
      BY <1>1, <2>1, <3>1 DEF HasReceived, Coming, HasQueued, Holds
  <2>5. CASE Unsubscribe(t) \/ \E l \in 0 .. MaxEvents : Subscribe(t, l)
    BY <2>2, <2>5 DEF Unsubscribe, Subscribe
  <2> QED
    BY <2>2, <2>3, <2>4, <2>5 DEF AnyStream
<1> QED
  BY <1>4, <1>6, <1>7 DEF Coming, HasReceived

LEMMA ComingStep ==
    ASSUME OrderInv, NEW p \in Publishers, Publishers = {p}, [AnyNext]_vars,
           NEW s \in Subscribers, phase[s] # "new"
    PROVE  /\ \A e \in EventId : Coming(s, e)' =>
                 \/ Coming(s, e)
                 \/ e \in due'[s] /\ \A d \in EventId : Done(d) => d < e
           /\ \A e \in EventId : HasReceived(s, e) => HasReceived(s, e)'
           /\ \A e \in EventId : HasReceived(s, e)' => HasReceived(s, e) \/ Coming(s, e)
<1>1. CASE Publish(p)
  <2>1. received' = received
    BY <1>1 DEF Publish, DrawId, Record, PublishReturns, Enqueue, EnqueueFull, DrainOne, DrainEnd,
                PutNotice, PutCurrent, PutRaises, subVars
  <2>2. \A e \in EventId : HasReceived(s, e) <=> HasReceived(s, e)'
    BY <2>1 DEF HasReceived
  <2> QED
    BY <1>1, <2>2, ComingPublish
<1>2. ASSUME NEW t \in Subscribers, AnyStream(t)
      PROVE  /\ \A e \in EventId : Coming(s, e)' => Coming(s, e)
             /\ \A e \in EventId : HasReceived(s, e) => HasReceived(s, e)'
             /\ \A e \in EventId : HasReceived(s, e)' => HasReceived(s, e) \/ Coming(s, e)
  BY <1>2, ComingStream
<1>3. CASE UNCHANGED vars
  BY <1>3 DEF vars, pubVars, subVars, Coming, HasReceived, HasReplay, HasQueued, HasOwed, Holds
<1> QED
  BY <1>1, <1>2, <1>3 DEF AnyNext

-----------------------------------------------------------------------------
(* With one publisher the page takes no event twice *)

\* What the page took was recorded.
AppliedInv == \A a \in applied : a[1] <= epoch /\ (a[1] = epoch => Done(a[2]))

\* An id the page remembers is not below any event of this epoch that it took.
MarksInv ==
    \A a \in applied : a[1] = epoch =>
        (lastId # NoId => a[2] <= lastId) /\ (buffer # NoId => a[2] <= buffer)

\* The events on the wire are in order, and after all that the page took.
WireInv ==
    /\ \A i \in 1 .. Len(wire) : wire[i].id # NoId =>
          \A a \in applied : a[1] = wire[i].epoch => a[2] < wire[i].id
    /\ \A i, j \in 1 .. Len(wire) : i < j /\ wire[i].id # NoId /\ wire[j].id # NoId =>
          wire[i].epoch = wire[j].epoch /\ wire[i].id < wire[j].id

\* An EventSource whose connection is alive: what comes is after all that was taken.
Alive(s) ==
    /\ phase[s] = "open"
    /\ \A i \in 1 .. Len(wire) :
          wire[i].id # NoId => wire[i].epoch = epoch /\ HasReceived(s, wire[i].id)
    /\ \A a \in applied : a[1] = epoch => \A e \in EventId : Coming(s, e) => a[2] < e

\* One whose backend has restarted: all that was taken is from before.
Outlived(s) ==
    /\ phase[s] \notin {"new", "open"}
    /\ \A i \in 1 .. Len(wire) : wire[i].id # NoId => wire[i].epoch < epoch
    /\ \A a \in applied : a[1] < epoch

TakeInv ==
    /\ OrderInv /\ StreamTypeOK
    /\ AppliedInv /\ MarksInv /\ WireInv
    /\ \A s \in source : Alive(s) \/ Outlived(s)

TakePage == AppliedInv /\ MarksInv /\ WireInv /\ \A s \in source : Alive(s) \/ Outlived(s)

LEMMA TakeTypes ==
    ASSUME TakeInv
    PROVE  /\ TypeOK /\ OrderInv /\ TwiceInv /\ StreamTypeOK
           /\ epoch \in Nat /\ lastId \in Nat /\ buffer \in Nat /\ wire \in Seq(FrameType)
           /\ source \subseteq Subscribers
           /\ \A a \in applied : a[1] \in Nat /\ a[2] \in EventId /\ a[2] \in Nat /\ a = <<a[1], a[2]>>
           /\ \A i \in 1 .. Len(wire) : /\ wire[i].id \in Nat /\ wire[i].epoch \in Nat
                                        /\ wire[i].id # NoId => wire[i].id \in EventId
<1>1. /\ StreamTypeOK /\ OrderInv /\ TwiceInv /\ applied \subseteq Event
      /\ wire \in Seq(FrameType)
  BY DEF TakeInv, OrderInv, StreamTypeOK
<1>2. \A a \in Event : a[1] \in Nat /\ a[2] \in EventId /\ a[2] \in Nat /\ a = <<a[1], a[2]>>
  BY StreamAssumption DEF Event, EventId
<1>3. \A f \in FrameType : f.id \in Nat /\ f.epoch \in Nat /\ (f.id # NoId => f.id \in EventId)
  BY DEF FrameType, EventId, NoId
<1>4. \A i \in 1 .. Len(wire) : wire[i] \in FrameType
  BY <1>1
<1>5. epoch \in Nat /\ lastId \in Nat /\ buffer \in Nat /\ source \subseteq Subscribers /\ TypeOK
  BY <1>1, StreamAssumption DEF StreamTypeOK
<1> QED
  BY <1>1, <1>2, <1>3, <1>4, <1>5

\* A step of the hub that sends nothing to the EventSource.
LEMMA TakeAside ==
    ASSUME TakeInv, NEW p \in Publishers, Publishers = {p}, [AnyNext]_vars,
           UNCHANGED <<epoch, source, wire, buffer, applied>>, lastId' \in {lastId, NoId},
           \A s \in source : phase'[s] = phase[s]
    PROVE  TakePage'
<1>1. /\ OrderInv /\ TwiceInv /\ source \subseteq Subscribers
      /\ \A a \in applied : a[2] \in EventId
      /\ \A i \in 1 .. Len(wire) : wire[i].id # NoId => wire[i].id \in EventId
      /\ \A e \in EventId : Done(e) => Done(e)'
  BY TakeTypes, DoneStep
<1>2. AppliedInv' /\ MarksInv' /\ WireInv'
  <2>1. AppliedInv'
    BY <1>1 DEF TakeInv, AppliedInv
  <2>2. MarksInv'
    BY DEF TakeInv, MarksInv
  <2>3. WireInv'
    BY DEF TakeInv, WireInv
  <2> QED
    BY <2>1, <2>2, <2>3
<1>3. ASSUME NEW s \in source' PROVE Alive(s)' \/ Outlived(s)'
  <2>1. s \in source /\ s \in Subscribers /\ phase'[s] = phase[s]
    BY <1>1
  <2>2. CASE Alive(s)
    <3>1. /\ \A e \in EventId : Coming(s, e)' => Coming(s, e) \/ \A d \in EventId : Done(d) => d < e
          /\ \A e \in EventId : HasReceived(s, e) => HasReceived(s, e)'
      BY <1>1, <2>1, <2>2, ComingStep DEF Alive
    <3>2. \A a \in applied : a[1] = epoch => Done(a[2])
      BY DEF TakeInv, AppliedInv
    <3>3. \A a \in applied : a[1] = epoch => \A e \in EventId : Coming(s, e)' => a[2] < e
      BY <1>1, <2>2, <3>1, <3>2 DEF Alive
    <3>4. \A i \in 1 .. Len(wire) :
             wire[i].id # NoId => wire[i].epoch = epoch /\ HasReceived(s, wire[i].id)'
      BY <1>1, <2>2, <3>1 DEF Alive
    <3>5. phase'[s] = "open"
      BY <2>1, <2>2 DEF Alive
    <3> QED
      BY <3>3, <3>4, <3>5 DEF Alive
  <2>3. CASE Outlived(s)
    BY <2>1, <2>3 DEF Outlived
  <2> QED
    BY <2>1, <2>2, <2>3 DEF TakeInv
<1> QED
  BY <1>2, <1>3 DEF TakePage

\* A frame is sent: it comes after all that is on the wire.
LEMMA TakeSent ==
    ASSUME TakeInv, NEW p \in Publishers, Publishers = {p}, [AnyNext]_vars,
           UNCHANGED <<epoch, source, buffer, applied, lastId>>,
           NEW s \in Subscribers, s \in source, phase[s] = "open", phase'[s] = "open",
           NEW frame \in FrameType, wire' = Append(wire, frame),
           frame.id # NoId => frame.epoch = epoch /\ Coming(s, frame.id) /\ HasReceived(s, frame.id)'
    PROVE  TakePage'
<1>1. /\ OrderInv /\ TwiceInv /\ wire \in Seq(FrameType) /\ epoch \in Nat
      /\ \A a \in applied : a[1] \in Nat /\ a[2] \in EventId /\ a[2] \in Nat
      /\ \A i \in 1 .. Len(wire) : wire[i].id \in Nat /\ (wire[i].id # NoId => wire[i].id \in EventId)
      /\ \A e \in EventId : Done(e) => Done(e)'
      /\ frame.id # NoId => frame.id \in EventId
  BY TakeTypes, DoneStep DEF FrameType, EventId, NoId
<1>2. source' = {s} /\ Alive(s)
  BY OneSource, TakeTypes DEF TakeInv, Outlived
<1>3. /\ \A e \in EventId : Coming(s, e)' => Coming(s, e) \/ \A d \in EventId : Done(d) => d < e
      /\ \A e \in EventId : HasReceived(s, e) => HasReceived(s, e)'
  BY <1>1, ComingStep
<1>4. AppliedInv' /\ MarksInv'
  <2>1. AppliedInv'
    BY <1>1 DEF TakeInv, AppliedInv
  <2>2. MarksInv'
    BY DEF TakeInv, MarksInv
  <2> QED
    BY <2>1, <2>2
<1>5. \A d, e \in EventId : HasReceived(s, d) /\ Coming(s, e) => d < e
  BY DEF TakeInv, OrderInv, ReaderOrder, Ahead, Coming
<1>6. \A i \in 1 .. Len(wire') : \/ i \in 1 .. Len(wire) /\ wire'[i] = wire[i]
                                 \/ i = Len(wire) + 1 /\ wire'[i] = frame
  BY <1>1, Longer
<1>7. Len(wire) \in Nat /\ Len(wire') = Len(wire) + 1
  BY <1>1
<1>8. WireInv'
  <2>1. ASSUME NEW i \in 1 .. Len(wire'), wire'[i].id # NoId,
               NEW a \in applied, a[1] = wire'[i].epoch
        PROVE  a[2] < wire'[i].id
    <3>1. CASE i \in 1 .. Len(wire) /\ wire'[i] = wire[i]
      BY <2>1, <3>1 DEF TakeInv, WireInv
    <3>2. CASE wire'[i] = frame
      BY <1>1, <1>2, <2>1, <3>2 DEF Alive
    <3> QED
      BY <1>6, <3>1, <3>2
  <2>2. ASSUME NEW i \in 1 .. Len(wire'), NEW j \in 1 .. Len(wire'), i < j,
               wire'[i].id # NoId, wire'[j].id # NoId
        PROVE  wire'[i].epoch = wire'[j].epoch /\ wire'[i].id < wire'[j].id
    <3>1. i \in 1 .. Len(wire) /\ wire'[i] = wire[i]
      BY <1>6, <1>7, <2>2
    <3>2. CASE j \in 1 .. Len(wire) /\ wire'[j] = wire[j]
      BY <2>2, <3>1, <3>2 DEF TakeInv, WireInv
    <3>3. CASE wire'[j] = frame
      BY <1>1, <1>2, <1>5, <2>2, <3>1, <3>3 DEF Alive
    <3> QED
      BY <1>6, <3>2, <3>3
  <2> QED
    BY <2>1, <2>2 DEF WireInv
<1>9. Alive(s)'
  <2> DEFINE Got(e) == \E item \in received'[s] : item.kind = "event" /\ item.id = e
  <2>0. \A e \in EventId : HasReceived(s, e)' <=> Got(e)
    BY DEF HasReceived
  <2>1. \A i \in 1 .. Len(wire') : wire'[i].id # NoId => wire'[i].epoch = epoch /\ Got(wire'[i].id)
    <3>1. ASSUME NEW i \in 1 .. Len(wire), wire[i].id # NoId
          PROVE  wire[i].epoch = epoch /\ Got(wire[i].id)
      <4>1. PICK e \in EventId : e = wire[i].id /\ HasReceived(s, e) /\ wire[i].epoch = epoch
        BY <1>1, <1>2, <3>1 DEF Alive
      <4> QED
        BY <1>3, <2>0, <4>1
    <3>2. frame.id # NoId => frame.epoch = epoch /\ Got(frame.id)
      BY <1>1, <2>0
    <3> HIDE DEF Got
    <3>3. ASSUME NEW i \in 1 .. Len(wire'), wire'[i].id # NoId
          PROVE  wire'[i].epoch = epoch /\ Got(wire'[i].id)
      <4>1. CASE i \in 1 .. Len(wire) /\ wire'[i] = wire[i]
        BY <3>1, <3>3, <4>1 DEF Got
      <4>2. CASE wire'[i] = frame
        BY <3>2, <3>3, <4>2 DEF Got
      <4> QED
        BY <1>6, <4>1, <4>2
    <3> QED
      BY <3>3
  <2>2. \A a \in applied : a[1] = epoch => Done(a[2])
    BY DEF TakeInv, AppliedInv
  <2>3. \A a \in applied : a[1] = epoch => \A e \in EventId : Coming(s, e)' => a[2] < e
    BY <1>1, <1>2, <1>3, <2>2 DEF Alive
  <2> QED
    BY <2>1, <2>3 DEF Alive, HasReceived
<1> QED
  BY <1>2, <1>4, <1>8, <1>9 DEF TakePage

\* A new EventSource gets what comes after the id the page remembers.
LEMMA TakeConnect ==
    ASSUME TakeInv, Connect
    PROVE  TakePage'
<1>1. /\ TypeOK /\ StreamTypeOK /\ TwiceInv /\ lastId \in Nat
      /\ \A a \in applied : a[1] \in Nat /\ a[2] \in EventId /\ a[2] \in Nat
  BY TakeTypes
<1>2. PICK s \in Subscribers :
         /\ Subscribe(s, lastId) /\ source' = {s}
         /\ wire' = IF replay'[s] = <<>> THEN <<Plain("bootstrap")>> ELSE <<>>
  BY DEF Connect
<1>3. UNCHANGED <<epoch, lastId, applied>> /\ buffer' = NoId
  BY DEF Connect
<1>4. /\ UNCHANGED <<nextId, pc, event, todo, queue, received>> /\ phase[s] = "new"
      /\ phase'[s] = "open" /\ last'[s] = lastId /\ replay'[s] = ReplayEvents(lastId)
  BY <1>1, <1>2 DEF Subscribe, pubVars, TypeOK
<1>5. AppliedInv'
  BY <1>3, <1>4 DEF TakeInv, AppliedInv, Done
<1>6. MarksInv'
  BY <1>3 DEF TakeInv, MarksInv
<1>7. \A i \in 1 .. Len(wire') : wire'[i].id = NoId
  <2>1. \A x : <<x>>[1] = x /\ Len(<<x>>) = 1
    OBVIOUS
  <2>2. Plain("bootstrap").id = NoId
    BY <1>1, PlainTyped DEF StreamTypeOK
  <2> QED
    BY <1>2, <2>1, <2>2
<1>8. ASSUME NEW a \in applied, a[1] = epoch, NEW e \in EventId, Coming(s, e)'
      PROVE  a[2] < e
  <2>1. ~HasQueued(s, e)' /\ ~HasOwed(s, e)'
    <3>1. queue[s] = <<>> /\ \A q \in Publishers : s \notin todo[q]
      BY <1>4 DEF TakeInv, OrderInv, TwiceInv, ReaderInv, NothingBefore
    <3> QED
      BY <1>4, <3>1 DEF HasQueued, HasOwed, Holds
  <2>2. e > lastId /\ Holds(ReplayEvents(lastId), e)
    BY <1>4, <1>8, <2>1 DEF Coming, HasReplay, Holds
  <2>3. lastId # NoId
    <3>1. lastId = NoId => ReplayEvents(lastId) = <<>>
      BY DEF ReplayEvents
    <3>2. ~Holds(<<>>, e)
      BY DEF Holds
    <3> QED
      BY <2>2, <3>1, <3>2 DEF Holds
  <2>4. a[2] <= lastId
    BY <1>8, <2>3 DEF TakeInv, MarksInv
  <2> QED
    BY <1>1, <1>8, <2>2, <2>4 DEF EventId
<1>9. Alive(s)'
  BY <1>3, <1>4, <1>7, <1>8 DEF Alive
<1> QED
  BY <1>2, <1>5, <1>6, <1>7, <1>9 DEF TakePage, WireInv

\* The frame that the browser dispatches is the oldest on the wire.
LEMMA TakeDispatch ==
    ASSUME TakeInv, Dispatch
    PROVE  TakePage'
<1>1. /\ TypeOK /\ OrderInv /\ StreamTypeOK /\ wire \in Seq(FrameType) /\ source \subseteq Subscribers
      /\ epoch \in Nat /\ lastId \in Nat /\ buffer \in Nat
      /\ \A a \in applied : a[1] \in Nat /\ a[2] \in EventId /\ a[2] \in Nat
      /\ \A i \in 1 .. Len(wire) : wire[i].id \in Nat /\ wire[i].epoch \in Nat
  BY TakeTypes
<1>2. PICK frame \in FrameType :
         /\ frame = Head(wire) /\ wire # <<>> /\ wire' = Tail(wire)
         /\ EventIdOf(frame) \in 0 .. MaxEvents
         /\ buffer' = EventIdOf(frame)
         /\ lastId' = IF Accepts(frame) /\ EventIdOf(frame) # NoId THEN EventIdOf(frame) ELSE lastId
         /\ applied' = IF Accepts(frame) /\ frame.id # NoId THEN applied \cup {Mark(frame)} ELSE applied
         /\ Mark(frame) = <<frame.epoch, frame.id>>
         /\ UNCHANGED <<vars, epoch, source, resets, remounting>> /\ source # {}
  BY <1>1, DispatchFacts
<1>3. PICK s \in Subscribers : source = {s}
  BY <1>1, <1>2, OneSource
<1>4. /\ frame = wire[1] /\ 1 \in 1 .. Len(wire) /\ Len(wire) \in Nat
      /\ \A i \in 1 .. Len(wire') : /\ i + 1 \in 1 .. Len(wire) /\ 1 < i + 1
                                    /\ wire'[i] = wire[i + 1]
      /\ frame.id \in Nat /\ frame.epoch \in Nat
  <2>1. /\ frame = wire[1] /\ 1 \in 1 .. Len(wire)
        /\ \A i \in 1 .. Len(wire') : i + 1 \in 1 .. Len(wire) /\ wire'[i] = wire[i + 1]
    BY <1>1, <1>2, Shorter
  <2>2. \A i \in 1 .. Len(wire') : 1 < i + 1
    BY <1>1, <1>2
  <2> QED
    BY <1>1, <2>1, <2>2
<1>5. UNCHANGED <<nextId, pc, event, todo, queue, replay, received, last, phase>>
  BY <1>2 DEF vars, pubVars, subVars
<1>6. Alive(s) \/ Outlived(s)
  BY <1>3 DEF TakeInv
\* What a frame marks: an event after all that was taken, of this epoch or before.
<1>7. ASSUME frame.id # NoId
      PROVE  /\ EventIdOf(frame) = frame.id /\ frame.id \in EventId
             /\ \A a \in applied : a[1] = frame.epoch => a[2] < frame.id
             /\ frame.epoch <= epoch
             /\ frame.epoch = epoch => /\ Done(frame.id)
                                       /\ \A e \in EventId : Coming(s, e) => frame.id < e
             /\ frame.epoch # epoch => Outlived(s)
  <2>1. EventIdOf(frame) = frame.id /\ frame.id \in EventId
    BY <1>7 DEF EventIdOf, FrameType, EventId, NoId
  <2>2. \A a \in applied : a[1] = frame.epoch => a[2] < frame.id
    BY <1>4, <1>7 DEF TakeInv, WireInv
  <2>3. CASE Alive(s)
    <3>1. frame.epoch = epoch /\ HasReceived(s, frame.id)
      BY <1>4, <1>7, <2>3 DEF Alive
    <3>2. Done(frame.id) /\ \A e \in EventId : Coming(s, e) => frame.id < e
      BY <1>1, <2>1, <3>1 DEF OrderInv, TwiceInv, ReaderInv, OnePlace, ReaderOrder, Ahead, Coming
    <3> QED
      BY <1>1, <2>1, <2>2, <3>1, <3>2
  <2>4. CASE Outlived(s)
    <3>1. frame.epoch < epoch
      BY <1>4, <1>7, <2>4 DEF Outlived
    <3> QED
      BY <1>1, <1>4, <2>1, <2>2, <2>4, <3>1
  <2> QED
    BY <1>6, <2>3, <2>4
<1>8. ASSUME NEW a \in applied'
      PROVE  \/ a \in applied
             \/ frame.id # NoId /\ Accepts(frame) /\ a[1] = frame.epoch /\ a[2] = frame.id
  BY <1>2, <1>8
<1>9. AppliedInv'
  <2>1. \A e : Done(e)' <=> Done(e)
    BY <1>5 DEF Done
  <2>2. \A a \in applied' : a[1] <= epoch /\ (a[1] = epoch => Done(a[2]))
    BY <1>7, <1>8 DEF TakeInv, AppliedInv
  <2>3. \A a \in applied' : a[1] <= epoch' /\ (a[1] = epoch' => Done(a[2]))
    BY <1>2, <2>2
  <2> QED
    BY <1>5, <2>3 DEF AppliedInv, Done
<1>10. MarksInv'
  <2> SUFFICES ASSUME NEW a \in applied', a[1] = epoch
               PROVE  (lastId' # NoId => a[2] <= lastId') /\ (buffer' # NoId => a[2] <= buffer')
    BY <1>2 DEF MarksInv
  <2>1. CASE frame.id = NoId
    <3>1. a \in applied /\ EventIdOf(frame) = buffer
      BY <1>8, <2>1 DEF EventIdOf
    <3>2. (lastId # NoId => a[2] <= lastId) /\ (buffer # NoId => a[2] <= buffer)
      BY <3>1 DEF TakeInv, MarksInv
    <3> QED
      BY <1>2, <3>1, <3>2
  <2>2. CASE frame.id # NoId
    <3>1. a[2] <= frame.id
      <4>1. CASE a \in applied
        <5>1. frame.epoch = epoch
          BY <1>1, <1>7, <2>2, <4>1 DEF Outlived
        <5> QED
          BY <1>1, <1>4, <1>7, <2>2, <4>1, <5>1
      <4>2. CASE a[2] = frame.id
        BY <1>4, <4>2
      <4> QED
        BY <1>8, <4>1, <4>2
    <3>2. CASE Accepts(frame)
      BY <1>2, <1>7, <2>2, <3>1, <3>2
    <3>3. CASE ~Accepts(frame)
      <4>1. a \in applied
        BY <1>8, <3>3
      <4>2. lastId # NoId => a[2] <= lastId
        BY <4>1 DEF TakeInv, MarksInv
      <4> QED
        BY <1>2, <1>7, <2>2, <3>1, <3>3, <4>2
    <3> QED
      BY <3>2, <3>3
  <2> QED
    BY <2>1, <2>2
<1>11. WireInv'
  <2>1. ASSUME NEW i \in 1 .. Len(wire'), wire'[i].id # NoId, NEW a \in applied', a[1] = wire'[i].epoch
        PROVE  a[2] < wire'[i].id
    <3>1. i + 1 \in 1 .. Len(wire) /\ 1 < i + 1 /\ wire'[i] = wire[i + 1]
      BY <1>4
    <3>2. CASE a \in applied
      BY <2>1, <3>1, <3>2 DEF TakeInv, WireInv
    <3>3. CASE frame.id # NoId /\ a[2] = frame.id
      BY <1>4, <2>1, <3>1, <3>3 DEF TakeInv, WireInv
    <3> QED
      BY <1>8, <3>2, <3>3
  <2>2. ASSUME NEW i \in 1 .. Len(wire'), NEW j \in 1 .. Len(wire'), i < j,
               wire'[i].id # NoId, wire'[j].id # NoId
        PROVE  wire'[i].epoch = wire'[j].epoch /\ wire'[i].id < wire'[j].id
    <3>1. i + 1 < j + 1 /\ i + 1 \in 1 .. Len(wire) /\ j + 1 \in 1 .. Len(wire)
      BY <1>4, <2>2
    <3> QED
      BY <1>4, <2>2, <3>1 DEF TakeInv, WireInv
  <2> QED
    BY <2>1, <2>2 DEF WireInv
<1>12. CASE Alive(s)
  <2>1. \A e \in EventId : Coming(s, e)' <=> Coming(s, e)
    BY <1>5 DEF Coming, HasReplay, HasQueued, HasOwed, Holds
  <2>2. \A a \in applied' : a[1] = epoch => \A e \in EventId : Coming(s, e) => a[2] < e
    BY <1>7, <1>8, <1>12 DEF Alive
  <2>3. \A i \in 1 .. Len(wire') :
           wire'[i].id # NoId => wire'[i].epoch = epoch /\ \E item \in received[s] : item.kind = "event" /\ item.id = wire'[i].id
    BY <1>4, <1>12 DEF Alive, HasReceived
  <2>4. phase'[s] = "open"
    BY <1>5, <1>12 DEF Alive
  <2>5. Alive(s)'
    BY <1>2, <1>5, <2>1, <2>2, <2>3, <2>4 DEF Alive, HasReceived
  <2> QED
    BY <1>2, <1>3, <1>9, <1>10, <1>11, <2>5 DEF TakePage
<1>13. CASE Outlived(s)
  <2>1. \A a \in applied' : a[1] < epoch
    <3>1. frame.id # NoId => frame.epoch < epoch
      BY <1>4, <1>13 DEF Outlived
    <3> QED
      BY <1>8, <1>13, <3>1 DEF Outlived
  <2>2. \A i \in 1 .. Len(wire') : wire'[i].id # NoId => wire'[i].epoch < epoch
    BY <1>4, <1>13 DEF Outlived
  <2>3. Outlived(s)'
    BY <1>2, <1>5, <1>13, <2>1, <2>2 DEF Outlived
  <2> QED
    BY <1>2, <1>3, <1>9, <1>10, <1>11, <2>3 DEF TakePage
<1> QED
  BY <1>6, <1>12, <1>13

\* A restarted backend outlives every connection and every mark.
LEMMA TakeRestart ==
    ASSUME TakeInv, Restart
    PROVE  TakePage'
<1>1. /\ epoch \in Nat /\ source \subseteq Subscribers /\ phase \in [Subscribers -> {"new", "open", "closed"}]
      /\ \A a \in applied : a[1] \in Nat
      /\ \A i \in 1 .. Len(wire) : wire[i].epoch \in Nat
  BY TakeTypes DEF TypeOK
<1>2. UNCHANGED <<source, wire, buffer, lastId, applied>> /\ epoch' = epoch + 1
  BY DEF Restart, pageVars
<1>3. \A a \in applied : a[1] < epoch'
  BY <1>1, <1>2 DEF TakeInv, AppliedInv
<1>4. AppliedInv' /\ MarksInv'
  BY <1>1, <1>2, <1>3 DEF AppliedInv, MarksInv
<1>5. WireInv'
  BY <1>2 DEF TakeInv, WireInv
<1>6. ASSUME NEW s \in source PROVE Outlived(s)'
  <2>1. \A i \in 1 .. Len(wire) : wire[i].id # NoId => wire[i].epoch < epoch'
    BY <1>1, <1>2 DEF TakeInv, Alive, Outlived
  <2>2. phase[s] # "new"
    BY DEF TakeInv, Alive, Outlived
  <2>3. phase'[s] \notin {"new", "open"}
    BY <1>1, <2>2, RestartFacts
  <2> QED
    BY <1>2, <1>3, <2>1, <2>3 DEF Outlived
<1> QED
  BY <1>2, <1>4, <1>5, <1>6 DEF TakePage

\* A yield is a step of the hub: no stutter.
LEMMA YieldMoves ==
    ASSUME TypeOK, NEW s \in Subscribers, YieldReplay(s) \/ YieldLive(s)
    PROVE  ~UNCHANGED vars
<1>1. ASSUME NEW q \in Seq(Item), q # <<>> PROVE Tail(q) # q
  <2>1. Len(Tail(q)) # Len(q)
    BY <1>1
  <2> QED
    BY <2>1
<1> QED
  BY <1>1 DEF YieldReplay, YieldLive, vars, subVars, TypeOK

\* What a generator yields to its EventSource was coming, and is received now.
LEMMA YieldFacts ==
    ASSUME StreamTypeOK, NEW s \in Subscribers, NEW h,
           \/ YieldReplay(s) /\ h = Head(replay[s]) /\ (h.kind = "window" \/ h.id > last[s])
           \/ YieldLive(s) /\ h = Head(queue[s])
    PROVE  /\ h \in Item /\ phase[s] = "open" /\ phase' = phase
           /\ h.kind = "event" => Coming(s, h.id) /\ HasReceived(s, h.id)'
<1>1. /\ queue[s] \in Seq(Item) /\ replay[s] \in Seq(Item) /\ received \in [Subscribers -> SUBSET Item]
  BY DEF StreamTypeOK, TypeOK
<1>2. \A q \in Seq(Item) : q # <<>> => Head(q) \in Item /\ 1 \in 1 .. Len(q) /\ Head(q) = q[1]
  OBVIOUS
<1>3. CASE YieldReplay(s) /\ h = Head(replay[s]) /\ (h.kind = "window" \/ h.id > last[s])
  <2>1. /\ replay[s] # <<>> /\ phase[s] = "open" /\ phase' = phase
        /\ received'[s] = received[s] \cup {h}
    BY <1>1, <1>3 DEF YieldReplay
  <2>2. h.kind = "event" => HasReplay(s, h.id) /\ HasReceived(s, h.id)'
    BY <1>1, <1>2, <1>3, <2>1 DEF HasReplay, HasReceived, Holds
  <2> QED
    BY <1>1, <1>2, <1>3, <2>1, <2>2 DEF Coming
<1>4. CASE YieldLive(s) /\ h = Head(queue[s])
  <2>1. /\ queue[s] # <<>> /\ phase[s] = "open" /\ phase' = phase
        /\ received'[s] = received[s] \cup {h}
    BY <1>1, <1>4 DEF YieldLive
  <2>2. h.kind = "event" => HasQueued(s, h.id) /\ HasReceived(s, h.id)'
    BY <1>1, <1>2, <1>4, <2>1 DEF HasQueued, HasReceived, Holds
  <2> QED
    BY <1>1, <1>2, <1>4, <2>1, <2>2 DEF Coming
<1> QED
  BY <1>3, <1>4

LEMMA TakeSend ==
    ASSUME TakeInv, NEW p \in Publishers, Publishers = {p},
           NEW s \in Subscribers, SendReplay(s) \/ SendLive(s) \/ SendKeepAlive(s)
    PROVE  TakePage'
<1>1. StreamTypeOK /\ TypeOK /\ lastId \in 0 .. MaxEvents /\ source \subseteq Subscribers
  BY TakeTypes DEF StreamTypeOK
<1>2. [AnyNext]_vars
  <2>1. (SendReplay(s) => YieldReplay(s)) /\ (SendLive(s) => YieldLive(s)) /\ (SendKeepAlive(s) => UNCHANGED vars)
    BY DEF SendReplay, SendLive, SendKeepAlive
  <2> QED
    BY <2>1 DEF AnyNext, AnyStream
<1>3. UNCHANGED <<epoch, source, buffer, lastId, applied>>
  BY <1>1, SendFacts DEF pageVars
<1>4. CASE wire' = wire /\ (YieldReplay(s) \/ YieldLive(s))
  <2>1. phase' = phase
    BY <1>4 DEF YieldReplay, YieldLive
  <2> QED
    BY <1>2, <1>3, <1>4, <2>1, TakeAside
<1>5. ASSUME s \in source, NEW frame \in FrameType, wire' = Append(wire, frame),
             NEW h \in Item, frame = Frame(h),
             \/ YieldReplay(s) /\ h = Head(replay[s]) /\ (h.kind = "window" \/ h.id > last[s])
             \/ YieldLive(s) /\ h = Head(queue[s])
      PROVE  TakePage'
  <2>1. /\ phase[s] = "open" /\ phase' = phase
        /\ h.kind = "event" => Coming(s, h.id) /\ HasReceived(s, h.id)'
    BY <1>1, <1>5, YieldFacts
  <2>2. frame.id = (IF h.kind = "event" THEN h.id ELSE NoId) /\ frame.epoch = epoch
    BY <1>1, <1>5, FrameTyped DEF StreamTypeOK
  <2>3. frame.id # NoId => frame.epoch = epoch /\ Coming(s, frame.id) /\ HasReceived(s, frame.id)'
    BY <2>1, <2>2
  <2>4. phase'[s] = "open"
    BY <2>1
  <2> QED
    BY <1>2, <1>3, <1>5, <2>1, <2>3, <2>4, TakeSent
<1>6. ASSUME s \in source, NEW frame \in FrameType, wire' = Append(wire, frame), frame.id = NoId,
             UNCHANGED vars
      PROVE  TakePage'
  <2>1. phase' = phase
    BY <1>6 DEF vars, subVars
  <2>2. phase[s] = "open"
    BY <1>1, <1>6, YieldMoves DEF SendReplay, SendLive, SendKeepAlive
  <2> QED
    BY <1>2, <1>3, <1>6, <2>1, <2>2, TakeSent
<1> QED
  BY <1>1, <1>4, <1>5, <1>6, SendFacts

LEMMA TakeStep ==
    ASSUME TakeInv, NEW p \in Publishers, Publishers = {p}, [StreamNext]_allVars
    PROVE  TakeInv'
<1>1. /\ StreamTypeOK /\ TypeOK /\ OrderInv /\ lastId \in 0 .. MaxEvents /\ source \subseteq Subscribers
  BY TakeTypes DEF StreamTypeOK
<1>2. OrderInv' /\ StreamTypeOK'
  BY <1>1, StreamTypeStep, HubStep, OrderStep, OrderRestart
<1>3. ASSUME NEW q \in Publishers, PublishStep(q) PROVE TakePage'
  <2>1. [AnyNext]_vars /\ UNCHANGED <<epoch, source, wire, buffer, lastId, applied>>
    BY <1>3 DEF PublishStep, AnyNext, pageVars
  <2>2. phase' = phase
    BY <1>3 DEF PublishStep, Publish, DrawId, Record, PublishReturns, Enqueue, EnqueueFull, DrainOne,
                DrainEnd, PutNotice, PutCurrent, PutRaises, subVars
  <2> QED
    BY <2>1, <2>2, TakeAside
<1>4. ASSUME NEW s \in Subscribers, EndStream(s) PROVE TakePage'
  <2>1. [AnyNext]_vars /\ UNCHANGED <<epoch, source, wire, buffer, lastId, applied>> /\ s \notin source
    BY <1>4 DEF EndStream, AnyNext, AnyStream, streamVars, pageVars
  <2>2. \A t \in source : phase'[t] = phase[t]
    BY <1>1, <1>4, <2>1 DEF EndStream, Unsubscribe, TypeOK
  <2> QED
    BY <2>1, <2>2, TakeAside
<1>5. ASSUME ConnectionFails \/ Remount PROVE TakePage'
  <2>1. source' = {} /\ wire' = <<>> /\ UNCHANGED <<vars, epoch, buffer, lastId, applied>> /\ Len(<<>>) = 0
    BY <1>5 DEF ConnectionFails, Remount, pageVars
  <2>2. UNCHANGED <<nextId, pc, event>>
    BY <2>1 DEF vars, pubVars
  <2>3. AppliedInv'
    BY <2>1, <2>2 DEF TakeInv, AppliedInv, Done
  <2>4. MarksInv'
    BY <2>1 DEF TakeInv, MarksInv
  <2>5. WireInv'
    BY <2>1 DEF WireInv
  <2> QED
    BY <2>1, <2>3, <2>4, <2>5 DEF TakePage
<1>6. ASSUME HeartbeatAges \/ RestartStream \/ UNCHANGED allVars PROVE TakePage'
  <2>1. UNCHANGED <<vars, epoch, source, wire, buffer, applied>> /\ lastId' \in {lastId, NoId}
    BY <1>6 DEF HeartbeatAges, RestartStream, allVars, streamVars, pageVars
  <2>2. phase' = phase /\ [AnyNext]_vars
    BY <2>1 DEF vars, subVars
  <2> QED
    BY <2>1, <2>2, TakeAside
<1>7. ASSUME NEW s \in Subscribers, SendReplay(s) \/ SendLive(s) \/ SendKeepAlive(s) PROVE TakePage'
  BY <1>7, TakeSend
<1>8. Connect \/ Dispatch \/ Restart => TakePage'
  BY TakeConnect, TakeDispatch, TakeRestart
<1>9. TakePage'
  BY <1>3, <1>4, <1>5, <1>6, <1>7, <1>8 DEF StreamNext, Backend, Page
<1> QED
  BY <1>2, <1>9 DEF TakeInv, TakePage

\* With one publisher the page takes no event twice: for any number of connections
\* and restarts of the backend, whatever gets lost on the wire, and however often the
\* page resumes from its id or forgets it.
THEOREM NoEventIsTakenTwice == StreamSpec => TakenOnce
<1> DEFINE Once == Cardinality(Publishers) = 1 /\ Dispatch /\ Accepts(Head(wire)) /\ Head(wire).id # NoId
                      => Mark(Head(wire)) \notin applied
<1>1. CASE Cardinality(Publishers) = 1
  <2>1. PICK p \in Publishers : Publishers = {p}
    BY <1>1, SizesAssumption, FS_Singleton
  <2>2. StreamInit => TakeInv
    <3> SUFFICES ASSUME StreamInit PROVE TakeInv
      OBVIOUS
    <3>1. OrderInv /\ StreamTypeOK
      BY OrderInit, StreamTypeInit DEF StreamInit
    <3> QED
      BY <3>1 DEF StreamInit, TakeInv, AppliedInv, MarksInv, WireInv
  <2>3. TakeInv /\ [StreamNext]_allVars => TakeInv'
    BY <2>1, TakeStep
  <2>4. ASSUME TakeInv PROVE [Once]_allVars
    <3>1. ASSUME Dispatch, Head(wire).id # NoId PROVE Mark(Head(wire)) \notin applied
      <4>1. wire \in Seq(FrameType) /\ wire # <<>>
        BY <2>4, <3>1, TakeTypes DEF Dispatch
      <4>2. Head(wire) = wire[1] /\ 1 \in 1 .. Len(wire) /\ wire[1].id \in Nat
        BY <2>4, <4>1, Shorter, TakeTypes
      <4>3. ASSUME Mark(Head(wire)) \in applied PROVE FALSE
        <5>1. PICK a \in applied : a[1] = wire[1].epoch /\ a[2] = wire[1].id
          BY <4>2, <4>3 DEF Mark
        <5>2. a[2] < wire[1].id
          BY <2>4, <3>1, <4>2, <5>1 DEF TakeInv, WireInv
        <5> QED
          BY <4>2, <5>1, <5>2
      <4> QED
        BY <4>3
    <3> QED
      BY <3>1
  <2> QED
    BY <2>2, <2>3, <2>4, PTL DEF StreamSpec, TakenOnce
<1>2. CASE Cardinality(Publishers) # 1
  <2>1. [Once]_allVars
    BY <1>2
  <2> QED
    BY <2>1, PTL DEF TakenOnce
<1> QED
  BY <1>1, <1>2

-----------------------------------------------------------------------------
(* With one publisher a connection hears of what lies between two of its events *)

\* The events in a queue report nothing missed: only notices do.
PlainQueue(s) == \A i \in 1 .. Len(queue[s]) : queue[s][i].kind = "event" => queue[s][i].missed = {}

\* All that a connection without an id gets was recorded for it, and so was every
\* later event.
DueInv(s) ==
    /\ phase[s] = "new" => due[s] = {}
    /\ phase[s] = "open" =>
          /\ last[s] = NoId => /\ replay[s] = <<>>
                               /\ \A e \in EventId : HasReceived(s, e) \/ Coming(s, e) => e \in due[s]
          /\ \A d \in due[s], e \in EventId : Done(e) /\ d < e => e \in due[s]

\* e is in a notice for s, or about to be put into one.
Reported(s, e) ==
    \/ \E item \in received[s] \cup ToReplay(s) \cup InQueue(s) : e \in item.missed
    \/ \E p \in Publishers : s \in target[p] /\ e \in drained[p]

LEMMA PlainQueueStep ==
    ASSUME TypeOK, NEW s \in Subscribers, PlainQueue(s), [AnyNext]_vars
    PROVE  PlainQueue(s)'
<1>1. queue[s] \in Seq(Item)
  BY DEF TypeOK
<1>2. \A q \in Seq(Item), item \in Item :
         \A i \in 1 .. Len(Append(q, item)) :
            (i \in 1 .. Len(q) /\ Append(q, item)[i] = q[i]) \/ Append(q, item)[i] = item
  OBVIOUS
<1>3. \A q \in Seq(Item) : q # <<>> =>
         \A i \in 1 .. Len(Tail(q)) : Tail(q)[i] = q[i + 1] /\ i + 1 \in 1 .. Len(q)
  OBVIOUS
<1>4. CASE queue'[s] = queue[s]
  BY <1>4 DEF PlainQueue
<1>5. CASE queue[s] # <<>> /\ queue'[s] = Tail(queue[s])
  <2>1. \A i \in 1 .. Len(Tail(queue[s])) : Tail(queue[s])[i] = queue[s][i + 1] /\ i + 1 \in 1 .. Len(queue[s])
    BY <1>1, <1>3, <1>5
  <2> QED
    BY <1>5, <2>1 DEF PlainQueue
<1>6. ASSUME NEW item \in Item, item.kind = "event" => item.missed = {}, queue'[s] = Append(queue[s], item)
      PROVE  PlainQueue(s)'
  <2>1. \A i \in 1 .. Len(queue'[s]) : (i \in 1 .. Len(queue[s]) /\ queue'[s][i] = queue[s][i]) \/ queue'[s][i] = item
    BY <1>1, <1>2, <1>6
  <2> QED
    BY <1>6, <2>1 DEF PlainQueue
<1>7. ASSUME NEW p \in Publishers, Publish(p)
      PROVE  PlainQueue(s)'
  <2>1. CASE DrawId(p) \/ Record(p) \/ PublishReturns(p)
    BY <1>4, <2>1 DEF DrawId, Record, PublishReturns
  <2>2. ASSUME NEW t \in Subscribers, EnqueueFull(p, t) \/ DrainEnd(p, t) \/ PutRaises(p, t)
        PROVE  PlainQueue(s)'
    BY <1>4, <2>2 DEF EnqueueFull, DrainEnd, PutRaises
  <2>3. ASSUME NEW t \in Subscribers, DrainOne(p, t)
        PROVE  PlainQueue(s)'
    <3>1. queue'[s] = queue[s] \/ (queue[s] # <<>> /\ queue'[s] = Tail(queue[s]))
      BY <2>3 DEF DrainOne, TypeOK
    <3> QED
      BY <1>4, <1>5, <3>1
  <2>4. ASSUME NEW t \in Subscribers, Enqueue(p, t) \/ PutCurrent(p, t) \/ PutNotice(p, t)
        PROVE  PlainQueue(s)'
    <3>1. event[p] \in EventId /\ drained[p] \in SUBSET EventId
      BY <2>4 DEF Enqueue, PutCurrent, PutNotice, TypeOK, EventId, NoId
    <3>2. PICK item \in Item : (item.kind = "event" => item.missed = {}) /\ Put(t, item)
      <4>1. CASE Enqueue(p, t) \/ PutCurrent(p, t)
        <5>1. EventItem(event[p]) \in Item /\ EventItem(event[p]).missed = {}
          BY <3>1, EventItemType DEF EventItem
        <5> QED
          BY <4>1, <5>1 DEF Enqueue, PutCurrent
      <4>2. CASE PutNotice(p, t)
        <5>1. LaggingNotice(event[p], drained[p]) \in Item
          BY <3>1, LaggingNoticeType
        <5>2. LaggingNotice(event[p], drained[p]).kind # "event"
          BY DEF LaggingNotice
        <5> QED
          BY <4>2, <5>1, <5>2 DEF PutNotice
      <4> QED
        BY <2>4, <4>1, <4>2
    <3>3. queue'[s] = queue[s] \/ queue'[s] = Append(queue[s], item)
      BY <3>2 DEF Put, TypeOK
    <3> QED
      BY <1>4, <1>6, <3>2, <3>3
  <2> QED
    BY <1>7, <2>1, <2>2, <2>3, <2>4 DEF Publish
<1>8. ASSUME NEW t \in Subscribers, AnyStream(t)
      PROVE  PlainQueue(s)'
  <2>1. queue'[s] = queue[s] \/ (queue[s] # <<>> /\ queue'[s] = Tail(queue[s]))
    <3>1. CASE YieldLive(t)
      BY <3>1 DEF YieldLive, TypeOK
    <3>2. CASE ~YieldLive(t)
      BY <1>8, <3>2 DEF AnyStream, Subscribe, YieldReplay, Unsubscribe
    <3> QED
      BY <3>1, <3>2
  <2> QED
    BY <1>4, <1>5, <2>1
<1>9. CASE UNCHANGED vars
  BY <1>4, <1>9 DEF vars
<1> QED
  BY <1>7, <1>8, <1>9 DEF AnyNext

LEMMA DueStep ==
    ASSUME ResumeInv, NEW p \in Publishers, Publishers = {p}, [AnyNext]_vars,
           NEW s \in Subscribers, DueInv(s)
    PROVE  DueInv(s)'
<1>1. /\ TypeOK /\ OrderInv /\ TwiceInv /\ LatestInv /\ NothingBefore(s) /\ due \in [Subscribers -> SUBSET EventId]
      /\ phase[s] = "open" => s \in subscribers
  BY DEF ResumeInv, OrderInv, TwiceInv, NoLossInv, TypeOK, ReaderInv, ResumedInv
<1>2. phase[s] # "new" =>
         /\ \A e \in EventId : Coming(s, e)' => Coming(s, e) \/ e \in due'[s]
         /\ \A e \in EventId : HasReceived(s, e)' => HasReceived(s, e) \/ Coming(s, e)
  BY <1>1, ComingStep
<1>3. CASE Publish(p)
  <2>1. UNCHANGED <<phase, last, replay>>
    BY <1>3 DEF Publish, DrawId, Record, PublishReturns, Enqueue, EnqueueFull, DrainOne, DrainEnd,
                PutNotice, PutCurrent, PutRaises, subVars
  <2>2. CASE Record(p)
    <3>1. /\ due'[s] = IF s \in subscribers THEN due[s] \cup {event[p]} ELSE due[s]
          /\ pc[p] = "record" /\ event' = event /\ nextId' = nextId
      BY <1>1, <2>2 DEF Record, TypeOK
    <3>2. event[p] = nextId - 1 /\ nextId \in Nat
      BY <1>1, <3>1 DEF LatestInv, TypeOK
    <3>3. \A e \in EventId : Done(e)' => (Done(e) \/ e = event[p]) /\ e <= event[p]
      <4>1. \A e \in EventId : Done(e)' => e < nextId
        BY <3>1 DEF Done
      <4>2. \A e \in EventId : e < nextId /\ e # event[p] => Done(e)
        BY DEF Done
      <4> QED
        BY <3>2, <4>1, <4>2 DEF EventId
    <3>4. phase[s] = "new" => due'[s] = due[s]
      BY <1>1, <3>1 DEF NothingBefore
    <3>5. ASSUME phase[s] = "open", NEW d \in due'[s], NEW e \in EventId, Done(e)', d < e
          PROVE  e \in due'[s]
      <4>1. due'[s] = due[s] \cup {event[p]}
        BY <1>1, <3>1, <3>5
      <4>2. d # event[p]
        BY <3>2, <3>3, <3>5 DEF EventId
      <4>3. d \in due[s] /\ (Done(e) \/ e = event[p])
        BY <3>3, <3>5, <4>1, <4>2
      <4> QED
        BY <3>5, <4>1, <4>3 DEF DueInv
    <3>6. due[s] \subseteq due'[s]
      BY <3>1
    <3> QED
      BY <1>2, <2>1, <3>4, <3>5, <3>6 DEF DueInv
  <2>3. CASE ~Record(p)
    <3>1. due' = due
      BY <1>3, <2>3 DEF Publish, DrawId, PublishReturns, Enqueue, EnqueueFull, DrainOne, DrainEnd,
                        PutNotice, PutCurrent, PutRaises
    <3>2. \A e \in EventId : Done(e)' => Done(e)
      BY <1>1, <1>3, <2>3, RecordRecords
    <3> QED
      BY <1>2, <2>1, <3>1, <3>2 DEF DueInv
  <2> QED
    BY <2>2, <2>3
<1>4. ASSUME NEW t \in Subscribers, AnyStream(t)
      PROVE  DueInv(s)'
  <2>1. UNCHANGED <<nextId, pc, event, todo, due>>
    BY <1>4 DEF AnyStream, Subscribe, YieldReplay, YieldLive, Unsubscribe, pubVars
  <2>2. \A e \in EventId : Done(e)' <=> Done(e)
    BY <2>1 DEF Done
  <2>3. ASSUME NEW l \in 0 .. MaxEvents, Subscribe(t, l), t = s
        PROVE  DueInv(s)'
    <3>1. /\ phase[s] = "new" /\ phase'[s] = "open" /\ last'[s] = l /\ replay'[s] = ReplayEvents(l)
          /\ UNCHANGED <<queue, received>>
      BY <1>1, <2>3 DEF Subscribe, TypeOK
    <3>2. l = NoId => replay'[s] = <<>>
      BY <3>1 DEF ReplayEvents
    <3>3. received[s] = {} /\ queue[s] = <<>> /\ (\A q \in Publishers : s \notin todo[q]) /\ due[s] = {}
      BY <1>1, <3>1 DEF NothingBefore, DueInv
    <3>4. ASSUME l = NoId, NEW e \in EventId PROVE ~HasReceived(s, e)' /\ ~Coming(s, e)'
      BY <2>1, <3>1, <3>2, <3>3, <3>4 DEF HasReceived, Coming, HasReplay, HasQueued, HasOwed, Holds
    <3> QED
      BY <2>1, <3>1, <3>2, <3>3, <3>4 DEF DueInv
  <2>4. ASSUME phase'[s] \in {phase[s], "closed"}, last'[s] = last[s],
               replay[s] = <<>> => replay'[s] = <<>>
        PROVE  DueInv(s)'
    BY <1>2, <2>1, <2>2, <2>4 DEF DueInv
  <2>5. CASE YieldReplay(t) \/ YieldLive(t) \/ Unsubscribe(t)
    <3>1. phase'[s] \in {phase[s], "closed"} /\ last' = last
      BY <1>1, <2>5 DEF YieldReplay, YieldLive, Unsubscribe, TypeOK
    <3>2. replay[s] = <<>> => replay'[s] = <<>>
      BY <1>1, <2>5 DEF YieldReplay, YieldLive, Unsubscribe, TypeOK
    <3> QED
      BY <2>4, <3>1, <3>2
  <2>6. ASSUME NEW l \in 0 .. MaxEvents, Subscribe(t, l), t # s
        PROVE  DueInv(s)'
    <3>1. phase'[s] = phase[s] /\ last'[s] = last[s] /\ replay'[s] = replay[s]
      BY <1>1, <2>6 DEF Subscribe, TypeOK
    <3> QED
      BY <2>4, <3>1
  <2> QED
    BY <1>4, <2>3, <2>5, <2>6 DEF AnyStream
<1>5. CASE UNCHANGED vars
  <2>1. UNCHANGED <<phase, last, replay, due, nextId, pc, event>>
    BY <1>5 DEF vars, pubVars, subVars
  <2>2. \A e \in EventId : Done(e)' <=> Done(e)
    BY <2>1 DEF Done
  <2> QED
    BY <1>2, <2>1, <2>2 DEF DueInv
<1> QED
  BY <1>3, <1>4, <1>5 DEF AnyNext

\* What is reported stays reported, as long as no notice is dropped.
LEMMA ReportedPublish ==
    ASSUME LosesNothingInv, QueueSize > 1, NEW p \in Publishers, Publishers = {p}, Publish(p),
           NEW s \in Subscribers, PlainQueue(s), NEW e \in EventId, Reported(s, e)
    PROVE  Reported(s, e)'
<1>1. /\ TypeOK /\ PublisherShape(p) /\ RoomAfterDrain /\ queue[s] \in Seq(Item)
      /\ target \in [Publishers -> SUBSET Subscribers] /\ drained \in [Publishers -> SUBSET EventId]
  BY DEF LosesNothingInv, TypeOK
<1>2. UNCHANGED <<received, replay, last>>
  BY DEF Publish, DrawId, Record, PublishReturns, Enqueue, EnqueueFull, DrainOne, DrainEnd,
         PutNotice, PutCurrent, PutRaises, subVars
<1>3. ToReplay(s)' = ToReplay(s)
  BY <1>2 DEF ToReplay, Elements
<1>4. ASSUME InQueue(s) \subseteq InQueue(s)',
             s \in target[p] => s \in target'[p] /\ drained[p] \subseteq drained'[p]
      PROVE  Reported(s, e)'
  BY <1>2, <1>3, <1>4 DEF Reported
<1>5. queue'[s] = queue[s] => InQueue(s)' = InQueue(s)
  BY DEF InQueue, Elements
<1>6. \A item \in Item : queue'[s] = Append(queue[s], item) =>
         InQueue(s)' = InQueue(s) \cup {item}
  <2> SUFFICES ASSUME NEW item \in Item, queue'[s] = Append(queue[s], item)
               PROVE  InQueue(s)' = InQueue(s) \cup {item}
    OBVIOUS
  <2>1. Elements(Append(queue[s], item)) = Elements(queue[s]) \cup {item}
    BY <1>1, ElementsAppend
  <2> QED
    BY <2>1 DEF InQueue, Elements
<1>7. CASE DrawId(p) \/ Record(p) \/ PublishReturns(p)
  <2>1. UNCHANGED <<queue, target, drained>>
    BY <1>7 DEF DrawId, Record, PublishReturns
  <2> QED
    BY <1>4, <1>5, <2>1
<1>8. ASSUME NEW t \in Subscribers, EnqueueFull(p, t)
      PROVE  Reported(s, e)'
  <2>1. queue' = queue /\ target[p] = {}
    BY <1>1, <1>8 DEF EnqueueFull, PublisherShape
  <2> QED
    BY <1>4, <1>5, <2>1
<1>9. ASSUME NEW t \in Subscribers, DrainEnd(p, t)
      PROVE  Reported(s, e)'
  <2>1. UNCHANGED <<queue, target, drained>>
    BY <1>9 DEF DrainEnd
  <2> QED
    BY <1>4, <1>5, <2>1
<1>10. ASSUME NEW t \in Subscribers, PutRaises(p, t)
       PROVE  FALSE
  <2>1. t \in target[p] /\ ~Room(t) /\ pc[p] \in {"notice", "current"}
    BY <1>10 DEF PutRaises
  <2>2. Len(queue[t]) <= 1
    BY <1>1, <2>1 DEF RoomAfterDrain
  <2> QED
    BY <1>1, <2>1, <2>2, SizesAssumption DEF Room, TypeOK
<1>11. ASSUME NEW t \in Subscribers, Enqueue(p, t)
       PROVE  Reported(s, e)'
  <2>1. UNCHANGED <<target, drained>> /\ event[p] \in EventId
    BY <1>1, <1>11 DEF Enqueue, TypeOK, EventId, NoId
  <2>2. PICK item \in Item : queue'[s] = queue[s] \/ queue'[s] = Append(queue[s], item)
    <3>1. EventItem(event[p]) \in Item
      BY <2>1, EventItemType
    <3> QED
      BY <1>1, <1>11, <3>1 DEF Enqueue, Put, TypeOK
  <2> QED
    BY <1>4, <1>5, <1>6, <2>1, <2>2
<1>12. ASSUME NEW t \in Subscribers, PutCurrent(p, t)
       PROVE  Reported(s, e)'
  <2>1. event[p] \in EventId /\ t \in target[p] /\ pc[p] = "current"
    BY <1>1, <1>12 DEF PutCurrent, TypeOK, EventId, NoId
  <2>2. drained[p] = {}
    BY <1>1, <2>1 DEF RoomAfterDrain
  <2>3. PICK put \in Item : queue'[s] = queue[s] \/ queue'[s] = Append(queue[s], put)
    <3>1. EventItem(event[p]) \in Item
      BY <2>1, EventItemType
    <3> QED
      BY <1>1, <1>12, <3>1 DEF PutCurrent, Put, TypeOK
  <2>4. \E item \in received[s] \cup ToReplay(s) \cup InQueue(s) : e \in item.missed
    BY <2>2 DEF Reported
  <2> QED
    BY <1>2, <1>3, <1>5, <1>6, <2>3, <2>4 DEF Reported
<1>13. ASSUME NEW t \in Subscribers, DrainOne(p, t)
       PROVE  Reported(s, e)'
  <2>1. t \in target[p] /\ target' = target /\ queue[t] # <<>>
    BY <1>13 DEF DrainOne
  <2>2. CASE t # s
    <3>1. queue'[s] = queue[s] /\ s \notin target[p]
      BY <1>1, <1>13, <2>1, <2>2 DEF DrainOne, TypeOK, PublisherShape
    <3> QED
      BY <1>4, <1>5, <3>1
  <2>3. CASE t = s
    <3>1. /\ queue'[s] = Tail(queue[s])
          /\ drained'[p] = drained[p] \cup Tells(Head(queue[s]))
      BY <1>1, <1>13, <2>3 DEF DrainOne, AlsoMissed, TypeOK
    <3>2. Elements(queue[s]) = {Head(queue[s])} \cup Elements(Tail(queue[s]))
      BY <1>1, <2>1, <2>3, ElementsTail
    <3>3. InQueue(s) = {Head(queue[s])} \cup InQueue(s)'
      BY <3>1, <3>2 DEF InQueue, Elements
    <3>4. Head(queue[s]).missed \subseteq Tells(Head(queue[s]))
      <4>1. 1 \in 1 .. Len(queue[s]) /\ Head(queue[s]) = queue[s][1]
        BY <1>1, <2>1, <2>3
      <4> QED
        BY <4>1 DEF PlainQueue, Tells
    <3>5. CASE e \in drained[p] \/ e \in Head(queue[s]).missed
      <4>1. s \in target'[p] /\ e \in drained'[p]
        BY <2>1, <2>3, <3>1, <3>4, <3>5
      <4> QED
        BY <4>1 DEF Reported
    <3>6. CASE ~(e \in drained[p] \/ e \in Head(queue[s]).missed)
      <4>1. PICK item \in received[s] \cup ToReplay(s) \cup InQueue(s) : e \in item.missed
        BY <3>6 DEF Reported
      <4>2. item \in received'[s] \cup ToReplay(s)' \cup InQueue(s)'
        BY <1>2, <1>3, <3>3, <3>6, <4>1
      <4> QED
        BY <4>1, <4>2 DEF Reported
    <3> QED
      BY <3>5, <3>6
  <2> QED
    BY <2>2, <2>3
<1>14. ASSUME NEW t \in Subscribers, PutNotice(p, t)
       PROVE  Reported(s, e)'
  <2>1. /\ t \in target[p] /\ target' = target
        /\ event[p] \in EventId /\ drained[p] \in SUBSET EventId
    BY <1>1, <1>14 DEF PutNotice, TypeOK, EventId, NoId
  <2>2. CASE t # s
    <3>1. queue'[s] = queue[s] /\ s \notin target[p]
      BY <1>1, <1>14, <2>1, <2>2 DEF PutNotice, Put, TypeOK, PublisherShape
    <3> QED
      BY <1>4, <1>5, <3>1
  <2>3. CASE t = s
    <3>1. PICK notice \in Item : notice.missed = drained[p] /\ queue'[s] = Append(queue[s], notice)
      <4>1. LaggingNotice(event[p], drained[p]) \in Item
        BY <2>1, LaggingNoticeType
      <4>2. LaggingNotice(event[p], drained[p]).missed = drained[p]
        BY DEF LaggingNotice
      <4>3. queue'[s] = Append(queue[s], LaggingNotice(event[p], drained[p]))
        BY <1>1, <1>14, <2>3 DEF PutNotice, Put, TypeOK
      <4> QED
        BY <4>1, <4>2, <4>3
    <3>2. InQueue(s)' = InQueue(s) \cup {notice}
      BY <1>6, <3>1
    <3> QED
      BY <1>2, <1>3, <3>1, <3>2 DEF Reported
  <2> QED
    BY <2>2, <2>3
<1> QED
  BY <1>7, <1>8, <1>9, <1>10, <1>11, <1>12, <1>13, <1>14 DEF Publish

LEMMA ReportedStream ==
    ASSUME TwiceInv, NEW t \in Subscribers, AnyStream(t),
           NEW s \in Subscribers, NEW e \in EventId, Reported(s, e)
    PROVE  Reported(s, e)'
<1>1. /\ TypeOK /\ queue[s] \in Seq(Item) /\ replay[s] \in Seq(Item) /\ NothingBefore(s)
      /\ \A q \in Publishers : PublisherShape(q)
  BY DEF TwiceInv, NoLossInv, TypeOK, ReaderInv
<1>2. UNCHANGED <<target, drained, todo>>
  BY DEF AnyStream, Subscribe, YieldReplay, YieldLive, Unsubscribe, pubVars
<1>3. ASSUME received[s] \cup ToReplay(s) \cup InQueue(s)
                 \subseteq received'[s] \cup ToReplay(s)' \cup InQueue(s)'
      PROVE  Reported(s, e)'
  BY <1>2, <1>3 DEF Reported
<1>4. ASSUME UNCHANGED <<queue[s], replay[s], last[s], received[s]>>
      PROVE  Reported(s, e)'
  <2>1. ToReplay(s)' = ToReplay(s) /\ InQueue(s)' = InQueue(s)
    BY <1>4 DEF ToReplay, InQueue, Elements
  <2> QED
    BY <1>3, <1>4, <2>1
<1>5. CASE t # s
  <2>1. UNCHANGED <<queue[s], replay[s], last[s]>>
    BY <1>1, <1>5 DEF AnyStream, Subscribe, YieldReplay, YieldLive, Unsubscribe, TypeOK
  <2>2. received'[s] = received[s]
    BY <1>1, <1>5 DEF AnyStream, Subscribe, YieldReplay, YieldLive, Unsubscribe, TypeOK
  <2> QED
    BY <1>4, <2>1, <2>2
<1>6. ASSUME NEW l \in 0 .. MaxEvents, Subscribe(s, l)
      PROVE  FALSE
  <2>1. received[s] = {} /\ queue[s] = <<>> /\ replay[s] = <<>> /\ \A q \in Publishers : s \notin target[q]
    BY <1>1, <1>6 DEF Subscribe, NothingBefore, PublisherShape
  <2>2. InQueue(s) = {} /\ ToReplay(s) = {}
    <3>1. Elements(queue[s]) = {} /\ Elements(replay[s]) = {}
      BY <2>1 DEF Elements
    <3> QED
      BY <3>1 DEF InQueue, ToReplay
  <2> QED
    BY <2>1, <2>2 DEF Reported
<1>7. CASE YieldReplay(s)
  <2> DEFINE h == Head(replay[s])
  <2>1. /\ replay[s] # <<>> /\ replay'[s] = Tail(replay[s]) /\ UNCHANGED <<last, queue>>
        /\ received'[s] = IF h.kind = "window" \/ h.id > last[s] THEN received[s] \cup {h} ELSE received[s]
    BY <1>1, <1>7 DEF YieldReplay, TypeOK
  <2>2. Elements(replay[s]) = {h} \cup Elements(Tail(replay[s]))
    BY <1>1, <2>1, ElementsTail
  <2>3. InQueue(s)' = InQueue(s)
    BY <2>1 DEF InQueue
  <2>4. received[s] \cup ToReplay(s) \subseteq received'[s] \cup ToReplay(s)'
    BY <2>1, <2>2 DEF ToReplay
  <2> QED
    BY <1>3, <2>3, <2>4
<1>8. CASE YieldLive(s)
  <2>1. /\ queue[s] # <<>> /\ queue'[s] = Tail(queue[s]) /\ UNCHANGED <<last, replay>>
        /\ received'[s] = received[s] \cup {Head(queue[s])}
    BY <1>1, <1>8 DEF YieldLive, TypeOK
  <2>2. Elements(queue[s]) = {Head(queue[s])} \cup Elements(Tail(queue[s]))
    BY <1>1, <2>1, ElementsTail
  <2>3. ToReplay(s)' = ToReplay(s) /\ InQueue(s) = {Head(queue[s])} \cup InQueue(s)'
    BY <2>1, <2>2 DEF ToReplay, InQueue, Elements
  <2> QED
    BY <1>3, <2>1, <2>3
<1>9. CASE Unsubscribe(s)
  BY <1>4, <1>9 DEF Unsubscribe
<1> QED
  BY <1>5, <1>6, <1>7, <1>8, <1>9 DEF AnyStream

LEMMA ReportedStep ==
    ASSUME LosesNothingInv, TwiceInv, QueueSize > 1, NEW p \in Publishers, Publishers = {p}, [AnyNext]_vars,
           NEW s \in Subscribers, PlainQueue(s), NEW e \in EventId, Reported(s, e)
    PROVE  Reported(s, e)'
<1>1. CASE UNCHANGED vars
  BY <1>1 DEF vars, pubVars, subVars, Reported, ToReplay, InQueue, Elements
<1> QED
  BY <1>1, ReportedPublish, ReportedStream DEF AnyNext

\* A connection hears of every recorded event that is due to it or after its id.
LEMMA HearsOf ==
    ASSUME ResumeInv, LosesNothingInv, NEW s \in Subscribers, phase[s] = "open",
           NEW e \in EventId, Done(e), e \in due[s] \/ (last[s] # NoId /\ e > last[s])
    PROVE  HasReceived(s, e) \/ Coming(s, e) \/ Reported(s, e)
<1>1. e \in due[s] \/ HasTold(s, e)
  BY DEF ResumeInv, ResumedInv
<1>2. ASSUME NEW item \in received[s] \cup ToReplay(s) \cup InQueue(s), e \in Tells(item)
      PROVE  HasReceived(s, e) \/ Coming(s, e) \/ Reported(s, e)
  <2>1. CASE item.kind # "event"
    BY <1>2, <2>1 DEF Tells, Reported
  <2>2. CASE item.kind = "event"
    <3>1. item.id = e
      BY <1>2, <2>2 DEF Tells
    <3>2. CASE item \in received[s]
      BY <2>2, <3>1, <3>2 DEF HasReceived
    <3>3. CASE item \in ToReplay(s)
      <4>1. HasReplay(s, e)
        BY <2>2, <3>1, <3>3 DEF ToReplay, Elements, HasReplay, Holds
      <4> QED
        BY <4>1 DEF Coming
    <3>4. CASE item \in InQueue(s)
      <4>1. HasQueued(s, e)
        BY <2>2, <3>1, <3>4 DEF InQueue, Elements, HasQueued, Holds
      <4> QED
        BY <4>1 DEF Coming
    <3> QED
      BY <1>2, <3>2, <3>3, <3>4
  <2> QED
    BY <2>1, <2>2
<1>3. CASE HasTold(s, e)
  BY <1>2, <1>3 DEF HasTold
<1>4. CASE e \in due[s]
  <2>1. Accounted(s, e)
    BY <1>4 DEF ResumeInv, OrderInv, TwiceInv, NoLossInv, LosesNothingInv
  <2>2. CASE \E item \in received[s] \cup InQueue(s) : e \in Tells(item)
    BY <1>2, <2>2
  <2>3. CASE \E p \in Publishers : s \in todo[p] /\ e = event[p]
    BY <2>3 DEF Coming, HasOwed
  <2>4. CASE \E p \in Publishers : s \in target[p] /\ e \in drained[p]
    BY <2>4 DEF Reported
  <2> QED
    BY <2>1, <2>2, <2>3, <2>4 DEF Accounted
<1> QED
  BY <1>1, <1>3, <1>4

-----------------------------------------------------------------------------
(* With one publisher the page passes over no event silently *)

Took(e) == <<0, e>> \in applied

OnWire(e) == \E i \in 1 .. Len(wire) : wire[i].id = e

\* Between the first and the last event the page took, each was taken or reported.
NoGap ==
    \A first, e \in EventId :
        Took(first) /\ first <= e /\ e <= lastId => Took(e) \/ \E s \in Subscribers : Reported(s, e)

\* Before the first restart, what an EventSource was sent is taken or on the wire, and
\* one without an id was sent all that the page took.
Follows(s) ==
    /\ phase[s] = "open" /\ last[s] <= lastId
    /\ \A e \in EventId : HasReceived(s, e) => Took(e) \/ OnWire(e)
    /\ last[s] = NoId => \A a \in applied : HasReceived(s, a[2])

SkipPage ==
    /\ lastId = NoId => applied = {}
    /\ lastId # NoId => Took(lastId)
    /\ buffer <= lastId
    /\ NoGap
    /\ \A s \in source : Follows(s)

SkipInv ==
    /\ TakeInv /\ ResumeInv /\ LosesNothingInv
    /\ \A s \in Subscribers : DueInv(s) /\ PlainQueue(s)
    /\ epoch = 0 /\ ~resets => SkipPage

LEMMA NoGapStep ==
    ASSUME SkipInv, NoGap, NEW p \in Publishers, Publishers = {p}, QueueSize > 1, [AnyNext]_vars,
           UNCHANGED <<lastId, applied>>
    PROVE  NoGap'
<1>1. \A s \in Subscribers, e \in EventId : Reported(s, e) => Reported(s, e)'
  BY ReportedStep DEF SkipInv, TakeInv, OrderInv
<1> QED
  BY <1>1 DEF NoGap, Took

\* A step of the hub that sends nothing to the EventSource.
LEMMA SkipAside ==
    ASSUME SkipInv, SkipPage, NEW p \in Publishers, Publishers = {p}, QueueSize > 1, [AnyNext]_vars,
           UNCHANGED <<source, wire, buffer, lastId, applied>>,
           \A s \in source : phase'[s] = phase[s] /\ last'[s] = last[s] /\ received'[s] = received[s]
    PROVE  SkipPage'
<1>1. NoGap'
  BY NoGapStep DEF SkipPage
<1>2. ASSUME NEW s \in source PROVE Follows(s)'
  <2>1. \A e : HasReceived(s, e)' <=> HasReceived(s, e)
    BY DEF HasReceived
  <2>2. Follows(s)
    BY DEF SkipPage
  <2>3. \A a \in applied : HasReceived(s, a[2])' <=> HasReceived(s, a[2])
    BY DEF HasReceived
  <2>4. \A e \in EventId : HasReceived(s, e)' => Took(e)' \/ OnWire(e)'
    BY <2>1, <2>2 DEF Follows, Took, OnWire
  <2>5. last'[s] = NoId => \A a \in applied' : HasReceived(s, a[2])'
    BY <2>2, <2>3 DEF Follows
  <2> QED
    BY <2>2, <2>4, <2>5 DEF Follows
<1> QED
  BY <1>1, <1>2 DEF SkipPage, Took

\* A frame is sent: what the connection yielded is on the wire.
LEMMA SkipSent ==
    ASSUME SkipInv, SkipPage, NEW p \in Publishers, Publishers = {p}, QueueSize > 1, [AnyNext]_vars,
           UNCHANGED <<source, buffer, lastId, applied, phase, last>>,
           NEW s \in Subscribers, s \in source,
           NEW frame \in FrameType, wire' = Append(wire, frame),
           \A e \in EventId : HasReceived(s, e)' => HasReceived(s, e) \/ e = frame.id
    PROVE  SkipPage'
<1>1. NoGap'
  BY NoGapStep DEF SkipPage
<1>2. source' = {s} /\ Follows(s) /\ wire \in Seq(FrameType) /\ OrderInv
      /\ \A a \in applied : a[2] \in EventId
  BY OneSource, TakeTypes DEF SkipInv, SkipPage
<1>3. \A e \in EventId : HasReceived(s, e) => HasReceived(s, e)'
  BY <1>2, ComingStep DEF Follows
<1>4. Len(wire') = Len(wire) + 1 /\ Len(wire) \in Nat /\ wire'[Len(wire) + 1] = frame
      /\ \A i \in 1 .. Len(wire) : wire'[i] = wire[i]
  BY <1>2
<1>5. \A e \in EventId : OnWire(e) \/ e = frame.id => OnWire(e)'
  <2>1. \A i \in 1 .. Len(wire) : i \in 1 .. Len(wire')
    BY <1>4
  <2>2. Len(wire) + 1 \in 1 .. Len(wire')
    BY <1>4
  <2> QED
    BY <1>4, <2>1, <2>2 DEF OnWire
<1>6. \A e \in EventId : HasReceived(s, e)' => Took(e)' \/ OnWire(e)'
  BY <1>2, <1>5 DEF Follows, Took
<1>7. last'[s] = NoId => \A a \in applied' : HasReceived(s, a[2])'
  <2> SUFFICES ASSUME last[s] = NoId, NEW a \in applied, NEW e \in EventId, e = a[2]
               PROVE  HasReceived(s, e)'
    BY <1>2 DEF HasReceived
  <2> QED
    BY <1>2, <1>3 DEF Follows
<1>8. Follows(s)'
  BY <1>2, <1>6, <1>7 DEF Follows
<1> QED
  BY <1>1, <1>2, <1>8 DEF SkipPage, Took

\* A new EventSource has been sent nothing, and goes on from the id.
LEMMA SkipConnect ==
    ASSUME SkipInv, SkipPage, NEW p \in Publishers, Publishers = {p}, QueueSize > 1, Connect
    PROVE  SkipPage'
<1>1. /\ TypeOK /\ TwiceInv /\ lastId \in 0 .. MaxEvents /\ lastId \in Nat
  BY TakeTypes DEF SkipInv, StreamTypeOK
<1>2. PICK s \in Subscribers : Subscribe(s, lastId) /\ source' = {s}
  BY DEF Connect
<1>3. UNCHANGED <<lastId, applied>> /\ buffer' = NoId
  BY DEF Connect
<1>4. NoGap'
  <2>1. [AnyNext]_vars
    BY <1>1, <1>2 DEF AnyNext, AnyStream
  <2> QED
    BY <1>3, <2>1, NoGapStep DEF SkipPage
<1>5. phase'[s] = "open" /\ last'[s] = lastId /\ received'[s] = {}
  BY <1>1, <1>2 DEF Subscribe, TypeOK, TwiceInv, ReaderInv, NothingBefore
<1>6. Follows(s)'
  BY <1>1, <1>3, <1>5 DEF SkipPage, Follows, HasReceived
<1> QED
  BY <1>1, <1>2, <1>3, <1>4, <1>6 DEF SkipPage, Took, NoId

\* The event that the page takes next: none between it and the last one was passed over.
LEMMA SkipDispatch ==
    ASSUME SkipInv, SkipPage, epoch = 0, NEW p \in Publishers, Publishers = {p}, Dispatch
    PROVE  SkipPage'
<1>1. /\ TypeOK /\ OrderInv /\ StreamTypeOK /\ TakeInv /\ wire \in Seq(FrameType) /\ source \subseteq Subscribers
      /\ epoch \in Nat /\ lastId \in Nat /\ buffer \in Nat
      /\ \A a \in applied : a[1] \in Nat /\ a[2] \in EventId /\ a[2] \in Nat /\ a = <<a[1], a[2]>>
      /\ \A i \in 1 .. Len(wire) : wire[i].id \in Nat /\ wire[i].epoch \in Nat
  BY TakeTypes DEF SkipInv
<1>2. PICK frame \in FrameType :
         /\ frame = Head(wire) /\ wire # <<>> /\ wire' = Tail(wire)
         /\ EventIdOf(frame) \in 0 .. MaxEvents
         /\ buffer' = EventIdOf(frame)
         /\ lastId' = IF Accepts(frame) /\ EventIdOf(frame) # NoId THEN EventIdOf(frame) ELSE lastId
         /\ applied' = IF Accepts(frame) /\ frame.id # NoId THEN applied \cup {Mark(frame)} ELSE applied
         /\ Mark(frame) = <<frame.epoch, frame.id>>
         /\ UNCHANGED <<vars, epoch, source, resets, remounting>> /\ source # {}
  BY <1>1, DispatchFacts
<1>3. PICK s \in Subscribers : source = {s}
  BY <1>1, <1>2, OneSource
<1>4. /\ frame = wire[1] /\ 1 \in 1 .. Len(wire) /\ Len(wire) \in Nat /\ Len(wire') = Len(wire) - 1
      /\ \A i \in 1 .. Len(wire) : i # 1 => i - 1 \in 1 .. Len(wire') /\ wire'[i - 1] = wire[i] /\ 1 < i
  BY <1>1, <1>2
<1>5. Follows(s) /\ phase[s] = "open"
  BY <1>3 DEF SkipPage, Follows
<1>6. Alive(s)
  BY <1>3, <1>5 DEF SkipInv, TakeInv, Outlived
<1>7. UNCHANGED <<nextId, pc, event, todo, queue, replay, received, last, phase, target, drained>>
  BY <1>2 DEF vars, pubVars, subVars
<1>8. /\ \A e : HasReceived(s, e)' <=> HasReceived(s, e)
      /\ \A t \in Subscribers, e \in EventId : Reported(t, e)' <=> Reported(t, e)
  BY <1>7 DEF HasReceived, Reported, ToReplay, InQueue, Elements
<1>9. \A e \in EventId : OnWire(e) => e = frame.id \/ OnWire(e)'
  BY <1>4 DEF OnWire
\* A frame without an id shows something, and remembers nothing.
<1>10. CASE frame.id = NoId
  <2>1. EventIdOf(frame) = buffer
    BY <1>10 DEF EventIdOf
  <2>2. UNCHANGED <<lastId, buffer, applied>>
    BY <1>1, <1>2, <1>10, <2>1 DEF SkipPage, Accepts
  <2>3. NoGap'
    BY <1>8, <2>2 DEF SkipPage, NoGap, Took
  <2>4. \A e \in EventId : HasReceived(s, e)' => Took(e)' \/ OnWire(e)'
    <3>1. \A e \in EventId : e # frame.id
      BY <1>10 DEF EventId, NoId
    <3> QED
      BY <1>5, <1>8, <1>9, <2>2, <3>1 DEF Follows, Took
  <2>5. last'[s] = NoId => \A a \in applied' : HasReceived(s, a[2])'
    BY <1>5, <1>7, <2>2 DEF Follows, HasReceived
  <2>6. Follows(s)'
    BY <1>5, <1>7, <2>2, <2>4, <2>5 DEF Follows
  <2> QED
    BY <1>2, <1>3, <2>2, <2>3, <2>6 DEF SkipPage, Took
<1>11. ASSUME NEW k \in EventId, k = frame.id PROVE SkipPage'
  <2>1. k # NoId /\ k \in Nat /\ EventIdOf(frame) = k
    BY <1>11 DEF EventId, NoId, EventIdOf
  <2>2. frame.epoch = 0 /\ HasReceived(s, k)
    BY <1>4, <1>6, <1>11, <2>1 DEF Alive
  <2>3. \A a \in applied : a[1] = 0 => a[2] < k
    BY <1>1, <1>4, <1>11, <2>1, <2>2 DEF TakeInv, WireInv
  <2>4. lastId < k
    <3>1. CASE lastId = NoId
      BY <1>11, <3>1 DEF EventId, NoId
    <3>2. CASE lastId # NoId
      <4>1. Took(lastId)
        BY <3>2 DEF SkipPage
      <4>2. <<0, lastId>>[1] = 0 /\ <<0, lastId>>[2] = lastId
        OBVIOUS
      <4> QED
        BY <2>3, <4>1, <4>2 DEF Took
    <3> QED
      BY <3>1, <3>2
  <2>5. lastId' = k /\ buffer' = k /\ applied' = applied \cup {<<0, k>>}
    BY <1>2, <1>11, <2>1, <2>2, <2>4 DEF Accepts
  <2>6. Took(k)' /\ \A e : Took(e) => Took(e)'
    BY <2>5 DEF Took
  <2>7. \A e \in EventId : Took(e)' => Took(e) \/ e = k
    <3>1. \A e : <<0, e>> = <<0, k>> => e = k
      OBVIOUS
    <3> QED
      BY <2>5, <3>1 DEF Took
  <2>8. ASSUME NEW e \in EventId, lastId < e, e < k, lastId # NoId
        PROVE  Took(e) \/ Reported(s, e)
    <3>1. Done(e)
      <4>1. Done(k)
        BY <1>1, <2>2 DEF OrderInv, TwiceInv, ReaderInv, OnePlace
      <4>2. nextId \in Nat /\ (pc[p] = "record" => event[p] = nextId - 1)
        BY <1>1 DEF OrderInv, LatestInv, TypeOK
      <4> QED
        BY <2>1, <2>8, <4>1, <4>2 DEF Done, EventId
    <3>2. e \in due[s] \/ (last[s] # NoId /\ e > last[s])
      <4>1. CASE last[s] # NoId
        <5>1. last[s] <= lastId /\ last[s] \in Nat
          BY <1>1, <1>5 DEF Follows, TypeOK
        <5> QED
          BY <1>1, <2>8, <4>1, <5>1 DEF EventId
      <4>2. CASE last[s] = NoId
        <5>1. PICK d \in EventId : d = lastId /\ HasReceived(s, d)
          <6>1. PICK a \in applied : a[2] = lastId
            BY <2>8 DEF SkipPage, Took
          <6> QED
            BY <1>1, <1>5, <4>2, <6>1 DEF Follows
        <5>2. d \in due[s]
          BY <1>5, <4>2, <5>1 DEF SkipInv, DueInv
        <5> QED
          BY <1>5, <2>8, <3>1, <5>1, <5>2 DEF SkipInv, DueInv
      <4> QED
        BY <4>1, <4>2
    <3>3. HasReceived(s, e) \/ Coming(s, e) \/ Reported(s, e)
      BY <1>5, <3>1, <3>2, HearsOf DEF SkipInv
    <3>4. ~Coming(s, e)
      <4>1. Coming(s, e) => k < e
        BY <1>1, <2>2 DEF OrderInv, ReaderOrder, Ahead, Coming
      <4> QED
        BY <2>1, <2>8, <4>1 DEF EventId
    <3>5. ~OnWire(e)
      <4> SUFFICES ASSUME NEW i \in 1 .. Len(wire), wire[i].id = e PROVE FALSE
        BY DEF OnWire
      <4>1. i # 1 /\ 1 < i
        BY <1>4, <1>11, <2>1, <2>8 DEF EventId
      <4>2. wire[1].id = k /\ wire[1].id # NoId /\ wire[i].id # NoId
        BY <1>4, <1>11, <2>1 DEF EventId, NoId
      <4>3. k < e
        BY <1>1, <1>4, <4>1, <4>2 DEF TakeInv, WireInv
      <4> QED
        BY <2>1, <2>8, <4>3 DEF EventId
    <3> QED
      BY <1>5, <3>3, <3>4, <3>5 DEF Follows
  <2>9. NoGap'
    <3> SUFFICES ASSUME NEW first \in EventId, NEW e \in EventId, Took(first)', first <= e, e <= k
                 PROVE  Took(e)' \/ \E t \in Subscribers : Reported(t, e)'
      BY <2>5 DEF NoGap
    <3>1. CASE e = k
      BY <2>6, <3>1
    <3>2. CASE e # k
      <4>1. e < k /\ first # k /\ Took(first)
        BY <2>1, <2>7, <3>2 DEF EventId
      <4>2. lastId # NoId
        BY <4>1 DEF SkipPage, Took
      <4>3. CASE e <= lastId
        BY <1>8, <2>6, <4>1, <4>3 DEF SkipPage, NoGap
      <4>4. CASE lastId < e
        BY <1>8, <2>6, <2>8, <4>1, <4>2, <4>4
      <4> QED
        BY <1>1, <4>3, <4>4 DEF EventId
    <3> QED
      BY <3>1, <3>2
  <2>10. Follows(s)'
    <3>1. phase'[s] = "open" /\ last'[s] <= lastId'
      BY <1>1, <1>5, <1>7, <2>1, <2>4, <2>5 DEF Follows, TypeOK
    <3>2. \A e \in EventId : HasReceived(s, e)' => Took(e)' \/ OnWire(e)'
      BY <1>5, <1>8, <1>9, <1>11, <2>6 DEF Follows
    <3>3. ASSUME last'[s] = NoId, NEW a \in applied' PROVE HasReceived(s, a[2])'
      <4>1. CASE a \in applied
        BY <1>5, <1>7, <3>3, <4>1 DEF Follows, HasReceived
      <4>2. CASE a = <<0, k>>
        BY <1>7, <2>2, <4>2 DEF HasReceived
      <4> QED
        BY <2>5, <3>3, <4>1, <4>2
    <3> QED
      BY <3>1, <3>2, <3>3 DEF Follows
  <2> QED
    BY <1>2, <1>3, <2>1, <2>5, <2>6, <2>9, <2>10 DEF SkipPage, Took
<1> QED
  BY <1>10, <1>11 DEF FrameType, EventId, NoId

LEMMA SkipSend ==
    ASSUME SkipInv, SkipPage, NEW p \in Publishers, Publishers = {p}, QueueSize > 1,
           NEW s \in Subscribers, SendReplay(s) \/ SendLive(s) \/ SendKeepAlive(s)
    PROVE  SkipPage'
<1>1. StreamTypeOK /\ TypeOK /\ epoch \in 0 .. MaxRestarts /\ source \subseteq Subscribers
  BY TakeTypes DEF SkipInv, StreamTypeOK
<1>2. [AnyNext]_vars
  <2>1. (SendReplay(s) => YieldReplay(s)) /\ (SendLive(s) => YieldLive(s)) /\ (SendKeepAlive(s) => UNCHANGED vars)
    BY DEF SendReplay, SendLive, SendKeepAlive
  <2> QED
    BY <2>1 DEF AnyNext, AnyStream
<1>3. UNCHANGED <<source, buffer, lastId, applied, phase, last>>
  <2>1. UNCHANGED <<source, buffer, lastId, applied>>
    BY <1>1, SendFacts DEF pageVars
  <2>2. UNCHANGED <<phase, last>>
    BY DEF SendReplay, SendLive, SendKeepAlive, YieldReplay, YieldLive, vars, subVars
  <2> QED
    BY <2>1, <2>2
\* What is not sent was not yielded to the EventSource.
<1>4. CASE /\ wire' = wire
           /\ \/ YieldReplay(s) /\ (s \in source => Head(replay[s]).kind # "window"
                                                       /\ ~(Head(replay[s]).id > last[s]))
              \/ YieldLive(s) /\ s \notin source
  <2>1. \A t \in source : received'[t] = received[t]
    BY <1>1, <1>4 DEF YieldReplay, YieldLive, TypeOK
  <2> QED
    BY <1>2, <1>3, <1>4, <2>1, SkipAside
<1>5. ASSUME s \in source, NEW frame \in FrameType, wire' = Append(wire, frame),
             NEW h \in Item, frame = Frame(h),
             \/ YieldReplay(s) /\ h = Head(replay[s])
             \/ YieldLive(s) /\ h = Head(queue[s])
      PROVE  SkipPage'
  <2>1. received'[s] \subseteq received[s] \cup {h}
    BY <1>1, <1>5 DEF YieldReplay, YieldLive, TypeOK
  <2>2. h.kind = "event" => frame.id = h.id
    BY <1>1, <1>5, FrameTyped
  <2>3. \A e \in EventId : HasReceived(s, e)' => HasReceived(s, e) \/ e = frame.id
    BY <2>1, <2>2 DEF HasReceived
  <2> QED
    BY <1>2, <1>3, <1>5, <2>3, SkipSent
<1>6. ASSUME s \in source, NEW frame \in FrameType, wire' = Append(wire, frame), UNCHANGED vars
      PROVE  SkipPage'
  <2>1. \A e \in EventId : HasReceived(s, e)' => HasReceived(s, e)
    BY <1>6 DEF HasReceived, vars, subVars
  <2> QED
    BY <1>2, <1>3, <1>6, <2>1, SkipSent
<1> QED
  BY <1>1, <1>4, <1>5, <1>6, SendFacts

LEMMA SkipPageStep ==
    ASSUME SkipInv, NEW p \in Publishers, Publishers = {p}, QueueSize > 1, [StreamNext]_allVars,
           epoch' = 0, ~resets'
    PROVE  SkipPage'
<1>1. /\ StreamTypeOK /\ TypeOK /\ epoch \in Nat /\ source \subseteq Subscribers
  BY TakeTypes DEF SkipInv
<1>2. ~Restart /\ ~RestartStream
  <2>1. epoch + 1 # 0
    BY <1>1
  <2> QED
    BY <2>1 DEF Restart, RestartStream
<1>3. ASSUME epoch = 0, ~resets PROVE SkipPage
  BY <1>3 DEF SkipInv
<1>4. ASSUME NEW q \in Publishers, PublishStep(q) PROVE SkipPage'
  <2>1. [AnyNext]_vars /\ UNCHANGED <<epoch, resets, source, wire, buffer, lastId, applied>>
    BY <1>4 DEF PublishStep, AnyNext, pageVars
  <2>2. UNCHANGED <<phase, last, received>>
    BY <1>4 DEF PublishStep, Publish, DrawId, Record, PublishReturns, Enqueue, EnqueueFull, DrainOne,
                DrainEnd, PutNotice, PutCurrent, PutRaises, subVars
  <2> QED
    BY <1>3, <2>1, <2>2, SkipAside
<1>5. ASSUME NEW s \in Subscribers, EndStream(s) PROVE SkipPage'
  <2>1. /\ [AnyNext]_vars /\ UNCHANGED <<epoch, resets, source, wire, buffer, lastId, applied>>
        /\ s \notin source
    BY <1>5 DEF EndStream, AnyNext, AnyStream, streamVars, pageVars
  <2>2. \A t \in source : phase'[t] = phase[t] /\ last'[t] = last[t] /\ received'[t] = received[t]
    BY <1>1, <1>5, <2>1 DEF EndStream, Unsubscribe, TypeOK
  <2> QED
    BY <1>3, <2>1, <2>2, SkipAside
<1>6. ASSUME ConnectionFails \/ Remount PROVE SkipPage'
  <2>1. source' = {} /\ UNCHANGED <<vars, epoch, resets, buffer, lastId, applied>>
    BY <1>6 DEF ConnectionFails, Remount, pageVars
  <2>2. NoGap'
    BY <1>3, <2>1, NoGapStep DEF SkipPage
  <2> QED
    BY <1>3, <2>1, <2>2 DEF SkipPage, Took
<1>7. ASSUME HeartbeatAges \/ UNCHANGED allVars PROVE SkipPage'
  <2>1. UNCHANGED <<vars, epoch, resets, source, wire, buffer, lastId, applied>>
    BY <1>7, PageIdle
  <2>2. UNCHANGED <<phase, last, received>> /\ [AnyNext]_vars
    BY <2>1 DEF vars, subVars
  <2> QED
    BY <1>3, <2>1, <2>2, SkipAside
<1>8. ASSUME NEW s \in Subscribers, SendReplay(s) \/ SendLive(s) \/ SendKeepAlive(s) PROVE SkipPage'
  <2>1. UNCHANGED <<epoch, resets>>
    BY <1>8 DEF SendReplay, SendLive, SendKeepAlive, pageVars
  <2> QED
    BY <1>3, <1>8, <2>1, SkipSend
<1>9. ASSUME Connect \/ Dispatch PROVE SkipPage'
  <2>1. UNCHANGED <<epoch, resets>>
    BY <1>9 DEF Connect, Dispatch
  <2> QED
    BY <1>3, <1>9, <2>1, SkipConnect, SkipDispatch
<1> QED
  BY <1>2, <1>4, <1>5, <1>6, <1>7, <1>8, <1>9 DEF StreamNext, Backend, Page

\* What of the invariant is the hub's survives a restart of the backend.
LEMMA SkipHubStep ==
    ASSUME SkipInv, NEW p \in Publishers, Publishers = {p}, QueueSize > 1, [StreamNext]_allVars
    PROVE  /\ ResumeInv' /\ LosesNothingInv'
           /\ \A s \in Subscribers : DueInv(s)' /\ PlainQueue(s)'
<1>1. TypeOK /\ NoLossInv /\ ResumeInv /\ LosesNothingInv /\ lastId \in 0 .. MaxEvents
  BY TakeTypes DEF SkipInv, TwiceInv, StreamTypeOK
<1>2. CASE [AnyNext]_vars
  <2>1. ResumeInv' /\ LosesNothingInv'
    BY <1>1, <1>2, ResumeStep, LosesNothingStep
  <2>2. \A s \in Subscribers : DueInv(s)' /\ PlainQueue(s)'
    BY <1>1, <1>2, DueStep, PlainQueueStep DEF SkipInv
  <2> QED
    BY <2>1, <2>2
<1>3. CASE Restart
  <2>1. ResumeInv' /\ LosesNothingInv'
    BY <1>1, <1>3, ResumeRestart, LosesNothingRestart
  <2>2. ASSUME NEW s \in Subscribers PROVE DueInv(s)' /\ PlainQueue(s)'
    <3>1. phase'[s] # "open" /\ due'[s] = {} /\ queue'[s] = <<>> /\ Len(<<>>) = 0
      BY <1>3, RestartFacts
    <3> QED
      BY <3>1 DEF DueInv, PlainQueue
  <2> QED
    BY <2>1, <2>2
<1> QED
  BY <1>1, <1>2, <1>3, HubStep

\* With one publisher, as long as neither the backend restarts nor the page forgets its
\* id, every event between the first and the last that the page took was taken or is in
\* a notice of a connection: through any number of lost connections and resumptions,
\* replays, exhausted windows and overflows.
THEOREM NothingIsSkipped == StreamSpec => []NothingSkipped
<1>1. CASE Cardinality(Publishers) = 1 /\ QueueSize > 1
  <2>1. PICK p \in Publishers : Publishers = {p}
    BY <1>1, SizesAssumption, FS_Singleton
  <2>2. ASSUME StreamInit PROVE SkipInv
    <3>1. Init /\ StreamTypeOK
      BY <2>2, StreamTypeInit DEF StreamInit
    <3>2. ResumeInv /\ LosesNothingInv /\ OrderInv
      BY <2>1, <3>1, ResumeInit, LosesNothingInit, OrderInit
    <3>3. TakeInv
      BY <2>2, <3>1, <3>2 DEF StreamInit, TakeInv, AppliedInv, MarksInv, WireInv
    <3>4. ASSUME NEW s \in Subscribers PROVE DueInv(s) /\ PlainQueue(s)
      <4>1. phase[s] = "new" /\ due[s] = {} /\ queue[s] = <<>> /\ Len(<<>>) = 0
        BY <3>1 DEF Init
      <4> QED
        BY <4>1 DEF DueInv, PlainQueue
    <3>5. SkipPage
      BY <2>2 DEF StreamInit, SkipPage, NoGap, Took, NoId
    <3> QED
      BY <3>2, <3>3, <3>4, <3>5 DEF SkipInv
  <2>3. ASSUME SkipInv, [StreamNext]_allVars PROVE SkipInv'
    <3>1. TakeInv'
      BY <2>1, <2>3, TakeStep DEF SkipInv
    <3>2. ResumeInv' /\ LosesNothingInv' /\ \A s \in Subscribers : DueInv(s)' /\ PlainQueue(s)'
      BY <1>1, <2>1, <2>3, SkipHubStep
    <3>3. epoch' = 0 /\ ~resets' => SkipPage'
      BY <1>1, <2>1, <2>3, SkipPageStep
    <3> QED
      BY <3>1, <3>2, <3>3 DEF SkipInv
  <2>4. ASSUME SkipInv PROVE NothingSkipped
    <3>1. ASSUME NEW s \in Subscribers, NEW e \in EventId, Reported(s, e)
          PROVE  e \in Missed(received[s] \cup ToReplay(s) \cup InQueue(s)) \cup InHand(s)
      BY <3>1 DEF Reported, Missed, InHand
    <3> QED
      BY <2>4, <3>1 DEF SkipInv, SkipPage, NoGap, Took, NothingSkipped
  <2> QED
    BY <2>2, <2>3, <2>4, PTL DEF StreamSpec
<1>2. CASE ~(Cardinality(Publishers) = 1 /\ QueueSize > 1)
  <2>1. NothingSkipped
    BY <1>2 DEF NothingSkipped
  <2> QED
    BY <2>1, PTL
<1> QED
  BY <1>1, <1>2
=============================================================================
