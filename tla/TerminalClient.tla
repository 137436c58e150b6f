--------------------------- MODULE TerminalClient ---------------------------
(***************************************************************************)
(* The connection of one terminal tab (useTerminalSession.js): the         *)
(* websockets its hook creates, the refs their callbacks share, the retry  *)
(* timer and the state the tab shows. A socket lives on its own: its       *)
(* callbacks run after the hook has let go of it, and even after the tab   *)
(* was closed. React state set after the tab is gone is shown to nobody.   *)
(***************************************************************************)
EXTENDS Naturals, FiniteSets

CONSTANTS Sockets,     \* the WebSocket objects that can exist at once
          None         \* no socket

ASSUME SocketsAssumption == None \notin Sockets /\ IsFiniteSet(Sockets) /\ Cardinality(Sockets) > 1

VARIABLES life,      \* socket -> none, connecting, open, live (welcomed), closing
          refused,   \* sockets whose refusal arrived, closed next with 4401 or 4429
          hook,      \* refs and state of the hook
          mounted,   \* the tab exists
          strict,    \* a development build, which start.py serves: StrictMode runs each new effect twice
          unlocked,  \* what the page knows of the control session
          session,   \* whether the control session is valid at the backend
          presses,   \* reconnect clicks and changes of the access state
          cutShort   \* history: a socket was closed between its refusal and its close event
vars == <<life, refused, hook, mounted, strict, unlocked, session, presses, cutShort>>

Reasons == {"rate_limited", "session_limit", "unauthorized", "session_expired"}
States == Reasons \cup {"locked", "connecting", "connected", "gateway_down", "reconnecting", "idle"}
Alive == {s \in Sockets : life[s] # "none"}

\* Mutant: the flag is raised although no socket was closed.
CloseSocket_AlwaysIntentional(h) ==
  [h EXCEPT !.timer = FALSE, !.wsRef = None, !.connected = FALSE, !.intentional = TRUE]

\* Mutant: the closed socket stays in wsRef.
CloseSocket_KeepsRef(h) == [h EXCEPT !.timer = FALSE, !.connected = FALSE,
                                     !.intentional = @ \/ h.wsRef # None]

\* closeSocket: only a socket that has opened is in wsRef, so one that is
\* still connecting is not closed.
CloseSocket(h) == [h EXCEPT !.timer = FALSE, !.wsRef = None, !.connected = FALSE,
                            !.intentional = @ \/ h.wsRef # None]
Closing(h) == [s \in Sockets |-> IF s = h.wsRef THEN "closing" ELSE life[s]]

Show(h, state) == [h EXCEPT !.state = state]

\* connectWebSocket, called with the refs h: locked, a new socket, or a
\* constructor that throws.
Connect(h, sockets) ==
  \/ /\ ~unlocked'
     /\ hook' = Show(CloseSocket(h), "locked")
     /\ life' = [s \in Sockets |-> IF s = h.wsRef THEN "closing" ELSE sockets[s]]
  \/ /\ unlocked'
     /\ \E s \in Sockets : /\ sockets[s] = "none"
                           /\ life' = [sockets EXCEPT ![s] = "connecting"]
     /\ hook' = h
  \/ /\ unlocked'
     /\ hook' = Show([h EXCEPT !.connected = FALSE, !.timer = TRUE], "gateway_down")
     /\ life' = sockets

\* The first render: the effect connects at once. In StrictMode it is cleaned up
\* and run again, and the cleanup finds no socket in wsRef.
Mounts == IF strict THEN 2 ELSE 1
\* Bound: reconnect clicks and changes of the access state. SocketsBounded shows
\* that a connection is then never refused for want of an element of Sockets.
MaxPresses == Cardinality(Sockets) - Mounts

Init == /\ unlocked \in BOOLEAN /\ session \in BOOLEAN /\ strict \in BOOLEAN
        /\ life \in {l \in [Sockets -> {"none", "connecting"}] :
                       Cardinality({s \in Sockets : l[s] = "connecting"}) = IF unlocked THEN Mounts ELSE 0}
        /\ hook = [wsRef |-> None, timer |-> FALSE, intentional |-> FALSE, connected |-> FALSE,
                   was |-> FALSE, retry |-> FALSE, state |-> IF unlocked THEN "idle" ELSE "locked"]
        /\ refused = {} /\ mounted = TRUE /\ presses = 0 /\ cutShort = FALSE

Page == <<mounted, strict, unlocked, session, presses, cutShort>>
CutsShort == cutShort' = (cutShort \/ hook.wsRef \in refused)

\* websocket.onopen.
OnOpen(s) ==
  /\ life[s] = "connecting"
  /\ life' = [life EXCEPT ![s] = "open"]
  /\ hook' = Show([hook EXCEPT !.intentional = FALSE, !.retry = FALSE, !.wsRef = s], "connecting")
  /\ UNCHANGED <<refused, Page>>

\* handleMessage, "welcome": the gateway accepted the cookie of the session.
Welcome(s) ==
  /\ life[s] = "open" /\ s \notin refused /\ session
  /\ life' = [life EXCEPT ![s] = "live"]
  /\ hook' = Show([hook EXCEPT !.was = TRUE, !.connected = TRUE, !.retry = FALSE], "connected")
  /\ UNCHANGED <<refused, Page>>

\* handleMessage, "error" with a reason: the gateway closes the socket next.
Refuse(s, reason) ==
  /\ life[s] = "open" /\ s \notin refused
  /\ session => reason \in {"rate_limited", "session_limit"}
  /\ ~session => reason \in {"rate_limited", IF hook.was THEN "session_expired" ELSE "unauthorized"}
  /\ refused' = refused \cup {s}
  /\ hook' = Show([hook EXCEPT !.connected = FALSE, !.retry = @ \/ reason = "rate_limited"], reason)
  /\ UNCHANGED <<life, Page>>

\* Mutant: the flag is not taken down by the close it was meant for.
OnClose_KeepsFlag(h, coded) ==
  LET cleared == [h EXCEPT !.connected = FALSE, !.wsRef = None]
  IN  IF h.intentional \/ coded THEN cleared
      ELSE Show([cleared EXCEPT !.timer = TRUE], "gateway_down")

\* Mutant: only a tab that was connected before retries.
OnClose_RetriesIfConnected(h, coded) ==
  LET cleared == [h EXCEPT !.connected = FALSE, !.wsRef = None, !.intentional = FALSE]
  IN  IF h.intentional \/ coded THEN cleared
      ELSE Show([cleared EXCEPT !.timer = @ \/ h.was], "gateway_down")

\* websocket.onclose: it clears the refs whichever socket it belongs to, and
\* takes the intentional flag even if another socket's close raised it.
OnClose(h, coded) ==
  LET cleared == [h EXCEPT !.connected = FALSE, !.wsRef = None, !.intentional = FALSE]
  IN  IF h.intentional \/ coded THEN cleared
      ELSE Show([cleared EXCEPT !.timer = TRUE], "gateway_down")

CloseEvent(s, failed, coded) ==
  /\ life' = [life EXCEPT ![s] = "none"]
  /\ refused' = refused \ {s}
  \* onerror, where it fires, runs first
  /\ hook' = OnClose(IF failed THEN Show([hook EXCEPT !.connected = FALSE], "gateway_down") ELSE hook,
                     coded)
  /\ UNCHANGED Page

RefusalCloses(s) == life[s] = "open" /\ s \in refused /\ CloseEvent(s, FALSE, TRUE)
CloseCompletes(s) == life[s] = "closing" /\ CloseEvent(s, FALSE, s \in refused)
ConnectFails(s) == life[s] = "connecting" /\ CloseEvent(s, TRUE, FALSE)
ConnectionLost(s) == life[s] \in {"open", "live"} /\ \E failed \in BOOLEAN : CloseEvent(s, failed, FALSE)

\* Mutant: an interval instead of a timeout.
ReconnectTimer_Repeats ==
  /\ hook.timer /\ CutsShort
  /\ UNCHANGED <<refused, mounted, strict, unlocked, session, presses>>
  /\ Connect(Show(hook, "reconnecting"), life)

\* The timer of scheduleReconnect. It survives the tab when a callback sets it
\* after the cleanup ran.
ReconnectTimer ==
  /\ hook.timer /\ CutsShort
  /\ UNCHANGED <<refused, mounted, strict, unlocked, session, presses>>
  /\ Connect(Show([hook EXCEPT !.timer = FALSE], "reconnecting"), life)

\* The interval that ends the countdown of a rate limit.
RetryPasses ==
  /\ hook.retry /\ mounted
  /\ hook' = [hook EXCEPT !.retry = FALSE]
  /\ UNCHANGED <<life, refused, Page>>

\* The Reconnect button.
Reconnect ==
  /\ mounted /\ presses < MaxPresses /\ CutsShort
  /\ presses' = presses + 1
  /\ UNCHANGED <<refused, mounted, strict, unlocked, session>>
  /\ Connect(Show(CloseSocket(hook), "reconnecting"), Closing(hook))

\* The page learns another access state: the effect is cleaned up and run again.
AccessChanges(value) ==
  /\ mounted /\ unlocked # value /\ presses < MaxPresses /\ CutsShort
  /\ unlocked' = value /\ presses' = presses + 1
  /\ UNCHANGED <<refused, mounted, strict>>
  /\ Connect(CloseSocket(hook), Closing(hook))

\* Unlock and Lock of the access panel, each with the status it reads afterwards.
\* Unlocking a page that believes it is unlocked changes no state of React.
Unlock ==
  /\ session' = TRUE
  /\ \/ AccessChanges(TRUE)
     \/ unlocked /\ UNCHANGED <<life, refused, hook, mounted, strict, unlocked, presses, cutShort>>
Lock == session' = FALSE /\ AccessChanges(FALSE)

\* A refresh that only reads the status.
StatusRead == AccessChanges(session) /\ UNCHANGED session

\* The session expires, or the backend that held it restarts.
SessionEnds == session /\ session' = FALSE /\ UNCHANGED <<life, refused, hook, mounted, strict, unlocked, presses, cutShort>>

\* The tab is closed or another panel is opened: the cleanup of the effect.
Unmount ==
  /\ mounted /\ mounted' = FALSE /\ CutsShort
  /\ life' = Closing(hook)
  /\ hook' = CloseSocket(hook)
  /\ UNCHANGED <<refused, strict, unlocked, session, presses>>

Gateway == \E s \in Sockets :
  \/ OnOpen(s) \/ Welcome(s) \/ \E r \in Reasons : Refuse(s, r)
  \/ RefusalCloses(s) \/ CloseCompletes(s) \/ ConnectFails(s) \/ ConnectionLost(s)
User == Reconnect \/ Unlock \/ Lock \/ StatusRead \/ Unmount

Next == Gateway \/ User \/ ReconnectTimer \/ RetryPasses \/ SessionEnds
Spec == Init /\ [][Next]_vars

\* Timers fire; a connection attempt, an answer and a close each come to an end.
Fairness ==
  /\ WF_vars(ReconnectTimer) /\ WF_vars(RetryPasses)
  /\ \A s \in Sockets :
       /\ WF_vars(OnOpen(s) \/ ConnectFails(s))
       /\ WF_vars(Welcome(s) \/ \E r \in Reasons : Refuse(s, r))
       /\ WF_vars(RefusalCloses(s)) /\ WF_vars(CloseCompletes(s))
FairSpec == Spec /\ Fairness

-----------------------------------------------------------------------------
\* Ranges, and wsRef never names a socket that is closing or gone.
TypeOK ==
  /\ hook.wsRef # None => life[hook.wsRef] \in {"open", "live"}
  /\ life \in [Sockets -> {"none", "connecting", "open", "live", "closing"}]
  /\ refused \subseteq Alive
  /\ hook \in [wsRef : Sockets \cup {None}, timer : BOOLEAN, intentional : BOOLEAN,
               connected : BOOLEAN, was : BOOLEAN, retry : BOOLEAN, state : States]
  /\ mounted \in BOOLEAN /\ strict \in BOOLEAN /\ unlocked \in BOOLEAN /\ session \in BOOLEAN
  /\ presses \in 0..MaxPresses /\ cutShort \in BOOLEAN

\* A tab never sits there with nothing under way and no reason shown: while no
\* socket exists and no retry is due, it says that it is locked or why the
\* gateway refused it. The close handler shared by all sockets (onclose) could
\* lose the retry by taking the intentional flag of another socket.
RetryOrReason == mounted /\ ~cutShort /\ Alive = {} /\ ~hook.timer => hook.state \in Reasons \cup {"locked"}

\* Every raised intentional flag still has a close event to come that takes it
\* down: it cannot stay behind and swallow the retry of a later connection.
FlagHasOwner == hook.intentional => \E s \in Sockets : life[s] = "closing"

\* Each click or change of access adds at most one socket to those the gateway
\* counts; retries alone never open a further connection.
SocketsBounded == Cardinality(Alive) <= presses + Mounts

\* "Retrying automatically." (onclose, onerror): a tab that shows the gateway as
\* down tries again or shows something else, however the closes interleave.
GatewayDownRetries ==
  mounted /\ hook.state = "gateway_down" ~> ~mounted \/ cutShort \/ hook.state # "gateway_down"
=============================================================================
