---------------------------- MODULE DashboardStream ----------------------------
(***************************************************************************)
(* One dashboard page on the live stream: DashboardStreamContext.jsx and   *)
(* the browser's EventSource, composed with the hub of LiveUpdateHub.      *)
(*                                                                         *)
(* Each EventSource is a subscription of the hub.  The page reconnects     *)
(* with the id it remembered, ignores what is not newer than that id, and  *)
(* starts over without one when no heartbeat came for ten seconds.  The    *)
(* backend may restart: its ids begin again at 1.                          *)
(*                                                                         *)
(* An event is a heartbeat when a thread of Telemetry published it, else   *)
(* an action.                                                              *)
(***************************************************************************)
EXTENDS LiveUpdateHub

CONSTANTS
    Telemetry,   \* publishers whose events are heartbeats
    MaxRestarts, \* bound of the model: restarts of the backend
    MaxWire      \* frames a connection holds before a send blocks

ASSUME StreamAssumption ==
    Telemetry \subseteq Publishers /\ MaxRestarts \in Nat /\ MaxWire \in Nat \ {0}

VARIABLES
    epoch,       \* restarts of the backend so far (aux.)
    beats,       \* ids of this epoch that are heartbeats
    source,      \* {s}: the open EventSource, or {}
    wire,        \* frames sent to it and not dispatched
    buffer,      \* its lastEventId: the id of the last frame that had one
    lastId,      \* lastEventIdRef
    heartbeat,   \* lastHeartbeat: "never", "fresh" or "stale" (10 s ago)
    remounting,  \* restartStream was called; its effect has not run
    resets,      \* restartStream was ever called (aux.)
    applied      \* <<epoch, id>> of the events the page took (aux.)

pageVars == <<buffer, lastId, heartbeat, remounting, resets, applied>>
streamVars == <<epoch, beats, source, wire, pageVars>>
allVars == <<vars, streamVars>>

StreamInit ==
    /\ Init
    /\ epoch = 0
    /\ beats = {}
    /\ source = {} /\ wire = <<>>
    /\ buffer = NoId /\ lastId = NoId
    /\ heartbeat = "never"
    /\ remounting = FALSE /\ resets = FALSE
    /\ applied = {}

-----------------------------------------------------------------------------
(* The backend *)

\* The frame of a queued item (to_sse): a notice has no id.
Frame(item) ==
    [what |-> CASE item.kind # "event" -> item.kind
                [] item.kind = "event" /\ item.id \in beats -> "heartbeat"
                [] OTHER -> "action",
     id |-> IF item.kind = "event" THEN item.id ELSE NoId,
     epoch |-> epoch]

\* A frame outside the event sequence: a bootstrap snapshot, the keep-alive.
Plain(what) == [what |-> what, id |-> NoId, epoch |-> epoch]

\* A frame for an EventSource that was closed goes nowhere.
Transmit(s, frames) ==
    IF s \in source
    THEN Len(wire) < MaxWire /\ wire' = wire \o frames
    ELSE UNCHANGED wire

PublishStep(p) ==
    /\ Publish(p)
    /\ beats' = IF nextId' # nextId /\ p \in Telemetry THEN beats \cup {nextId} ELSE beats
    /\ UNCHANGED <<epoch, source, wire, pageVars>>

SendReplay(s) ==
    /\ YieldReplay(s)
    /\ LET item == Head(replay[s])
       IN  Transmit(s, IF item.kind = "window" \/ item.id > last[s] THEN <<Frame(item)>> ELSE <<>>)
    /\ UNCHANGED <<epoch, beats, source, pageVars>>

SendLive(s) ==
    /\ YieldLive(s)
    /\ Transmit(s, <<Frame(Head(queue[s]))>>)
    /\ UNCHANGED <<epoch, beats, source, pageVars>>

\* queue.get times out: a heartbeat without an id (one on the wire at a time).
SendKeepAlive(s) ==
    /\ phase[s] = "open" /\ s \in source
    /\ replay[s] = <<>> /\ queue[s] = <<>> /\ wire = <<>>
    /\ Transmit(s, <<Plain("heartbeat")>>)
    /\ UNCHANGED <<vars, epoch, beats, source, pageVars>>

\* The generator finds its client gone.
EndStream(s) ==
    /\ s \notin source
    /\ Unsubscribe(s)
    /\ UNCHANGED streamVars

\* The backend process ends and starts again: nothing of the hub survives, and
\* what is on the wire may still arrive.
Restart ==
    /\ epoch < MaxRestarts
    /\ epoch' = epoch + 1
    /\ beats' = {}
    /\ nextId' = 1
    /\ history' = <<>>
    /\ subscribers' = {}
    /\ queue' = [s \in Subscribers |-> <<>>]
    /\ pc' = [p \in Publishers |-> "idle"]
    /\ event' = [p \in Publishers |-> NoId]
    /\ todo' = [p \in Publishers |-> {}]
    /\ target' = [p \in Publishers |-> {}]
    /\ drained' = [p \in Publishers |-> {}]
    /\ phase' = [s \in Subscribers |-> IF phase[s] = "open" THEN "closed" ELSE phase[s]]
    /\ replay' = [s \in Subscribers |-> <<>>]
    /\ received' = [s \in Subscribers |-> {}]
    /\ due' = [s \in Subscribers |-> {}]
    /\ lost' = [s \in Subscribers |-> {}]
    /\ UNCHANGED <<last, source, wire, pageVars>>

-----------------------------------------------------------------------------
(* The page *)

\* connect: after the backoff of onerror, or when the effect runs.  Without a
\* replay the stream begins with the bootstrap snapshots.
Connect ==
    /\ source = {} /\ ~remounting
    /\ \E s \in Subscribers :
          /\ Subscribe(s, lastId)
          /\ source' = {s}
          /\ wire' = IF replay'[s] = <<>> THEN <<Plain("bootstrap")>> ELSE <<>>
    /\ buffer' = NoId
    /\ UNCHANGED <<epoch, beats, lastId, heartbeat, remounting, resets, applied>>

\* event.lastEventId as the listeners see it.
EventIdOf(frame) == IF frame.id = NoId THEN buffer ELSE frame.id

\* rememberEventId: Number(null) is 0, so a page without an id takes every frame.
Accepts(frame) == EventIdOf(frame) = NoId \/ EventIdOf(frame) > lastId

Mark(frame) == <<frame.epoch, frame.id>>

\* The browser dispatches a frame, and its listener runs.
Dispatch ==
    /\ source # {} /\ wire # <<>>
    /\ LET frame == Head(wire)
       IN  /\ buffer' = EventIdOf(frame)
           /\ lastId' = IF Accepts(frame) /\ EventIdOf(frame) # NoId THEN EventIdOf(frame) ELSE lastId
           /\ heartbeat' = IF Accepts(frame) /\ frame.what = "heartbeat" THEN "fresh" ELSE heartbeat
           /\ applied' = IF Accepts(frame) /\ frame.id # NoId THEN applied \cup {Mark(frame)} ELSE applied
    /\ wire' = Tail(wire)
    /\ UNCHANGED <<vars, epoch, beats, source, remounting, resets>>

ConnectionFails_KeepsWire ==   \* fault: the source is not closed
    /\ source # {}
    /\ source' = {}
    /\ UNCHANGED <<vars, epoch, beats, wire, pageVars>>

\* onerror: the connection failed, or the backend is gone.
ConnectionFails ==
    /\ source # {}
    /\ source' = {} /\ wire' = <<>>
    /\ UNCHANGED <<vars, epoch, beats, pageVars>>

\* Ten seconds without a heartbeat the page took.
HeartbeatAges ==
    /\ heartbeat = "fresh"
    /\ heartbeat' = "stale"
    /\ UNCHANGED <<vars, epoch, beats, source, wire, buffer, lastId, remounting, resets, applied>>

RestartStream_KeepsId ==   \* fault: the reconnection goes on with the old id
    /\ heartbeat = "stale" /\ ~remounting
    /\ remounting' = TRUE /\ resets' = TRUE
    /\ UNCHANGED <<vars, epoch, beats, source, wire, buffer, lastId, heartbeat, applied>>

\* The watchdog calls restartStream: the id is forgotten at once, the source
\* is replaced when React runs the effect.
RestartStream ==
    /\ heartbeat = "stale" /\ ~remounting
    /\ lastId' = NoId
    /\ remounting' = TRUE /\ resets' = TRUE
    /\ UNCHANGED <<vars, epoch, beats, source, wire, buffer, heartbeat, applied>>

Remount ==
    /\ remounting
    /\ remounting' = FALSE
    /\ source' = {} /\ wire' = <<>>
    /\ UNCHANGED <<vars, epoch, beats, buffer, lastId, heartbeat, resets, applied>>

-----------------------------------------------------------------------------
Backend ==
    \/ \E p \in Publishers : PublishStep(p)
    \/ \E s \in Subscribers : SendReplay(s) \/ SendLive(s) \/ SendKeepAlive(s) \/ EndStream(s)
    \/ Restart

Page ==
    \/ Connect \/ Dispatch \/ ConnectionFails
    \/ HeartbeatAges \/ RestartStream \/ Remount

StreamNext == Backend \/ Page

StreamSpec == StreamInit /\ [][StreamNext]_allVars

\* The page's timers fire and React runs its effects.  The watchdog looks every
\* 5 s, a keep-alive comes after 20 s of silence at the earliest: a page that
\* only keep-alives refresh still ages and is still caught, hence SF.
FairStreamSpec ==
    /\ StreamSpec
    /\ WF_allVars(HeartbeatAges) /\ SF_allVars(RestartStream) /\ WF_allVars(Remount)

-----------------------------------------------------------------------------
(* Properties *)

FrameType ==
    [what : {"heartbeat", "action", "lagging", "window", "bootstrap"},
     id : 0 .. MaxEvents, epoch : 0 .. MaxRestarts]

Event == (0 .. MaxRestarts) \X EventId

\* Every variable stays in its range.
StreamTypeOK ==
    /\ TypeOK
    /\ epoch \in 0 .. MaxRestarts
    /\ beats \subseteq EventId
    /\ source \subseteq Subscribers /\ \A s, t \in source : s = t
    /\ wire \in Seq(FrameType)
    /\ source = {} => wire = <<>>
    /\ buffer \in 0 .. MaxEvents /\ lastId \in 0 .. MaxEvents
    /\ heartbeat \in {"never", "fresh", "stale"}
    /\ remounting \in BOOLEAN /\ resets \in BOOLEAN
    /\ applied \subseteq Event

\* With one publisher the page takes no event twice, however often it
\* reconnects, resumes or starts over.
TakenOnce ==
    [][Cardinality(Publishers) = 1 /\ Dispatch /\ Accepts(Head(wire)) /\ Head(wire).id # NoId
          => Mark(Head(wire)) \notin applied]_allVars

\* With one publisher, as long as the backend does not restart and the page
\* does not start over, the page passes over an event only after an overflow or
\* an exhausted replay window that the hub noticed: every event between the
\* first and the last it took was taken, or is in a notice of some connection.
\* (That notice may still be to come, or be lost with its connection: the reader
\* can take an event while the publisher drains the ones before it.)
NothingSkipped ==
    Cardinality(Publishers) = 1 /\ QueueSize > 1 /\ epoch = 0 /\ ~resets =>
        \A first, e \in EventId :
            <<0, first>> \in applied /\ first <= e /\ e <= lastId
                => \/ <<0, e>> \in applied
                   \/ \E s \in Subscribers :
                         e \in Missed(received[s] \cup ToReplay(s) \cup InQueue(s)) \cup InHand(s)

\* The notice that a resumed stream begins with is always shown: it is the
\* first frame of its source, so it comes with no id to be ignored for.
WindowNoticesShown ==
    [][Dispatch /\ Head(wire).what = "window" => Accepts(Head(wire))]_allVars

\* A page that ignores everything because the backend restarted and its ids
\* began again does not stay so: the watchdog makes it start over.
RecoversFromRestart ==
    heartbeat # "never" /\ lastId >= nextId ~> lastId < nextId

\* The comment in DashboardStreamContext.jsx: "Keep list queries fresh when the
\* backend reports successful state changes."  An action that reaches the page
\* for the first time is acted on.
ActionsAreTaken ==
    [][Dispatch /\ Head(wire).what = "action" /\ Mark(Head(wire)) \notin applied
          => Accepts(Head(wire))]_allVars
=============================================================================
