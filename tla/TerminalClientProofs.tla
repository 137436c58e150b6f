------------------------ MODULE TerminalClientProofs ------------------------
(* Machine-checked theorems about TerminalClient.                          *)
EXTENDS TerminalClient, FiniteSetTheorems, TLAPS

Lives == {"none", "connecting", "open", "live", "closing"}
Hooks == [wsRef : Sockets \cup {None}, timer : BOOLEAN, intentional : BOOLEAN,
          connected : BOOLEAN, was : BOOLEAN, retry : BOOLEAN, state : States]

\* The sockets of a state of their lives that exist.
Used(l) == {s \in Sockets : l[s] # "none"}

-----------------------------------------------------------------------------
(* What the operators do to the refs and the sockets *)

\* States the rooms left for clicks as a number.
LEMMA Bounds == Cardinality(Sockets) \in Nat /\ Mounts \in 1..2 /\ MaxPresses \in Nat
BY SocketsAssumption, FS_CardinalityType DEF Mounts, MaxPresses

\* closeSocket takes the timer and the socket away, and raises the flag only for
\* a socket that it closes.
LEMMA CloseSocketFacts ==
    ASSUME NEW h \in Hooks
    PROVE  /\ CloseSocket(h) \in Hooks
           /\ CloseSocket(h).wsRef = None /\ ~CloseSocket(h).timer
           /\ CloseSocket(h).intentional => h.intentional \/ h.wsRef # None
BY DEF CloseSocket, Hooks

\* What a tab shows changes nothing else.
LEMMA ShowFacts ==
    ASSUME NEW h \in Hooks, NEW state \in States
    PROVE  /\ Show(h, state) \in Hooks
           /\ Show(h, state).wsRef = h.wsRef /\ Show(h, state).timer = h.timer
           /\ Show(h, state).intentional = h.intentional
BY DEF Show, Hooks

\* connectWebSocket without a retry scheduled: at most one socket more, and then
\* no retry is scheduled either.
LEMMA ConnectFacts ==
    ASSUME NEW h \in Hooks, NEW sockets \in [Sockets -> Lives], ~h.timer,
           h.wsRef # None => sockets[h.wsRef] \in {"open", "live"},
           Connect(h, sockets)
    PROVE  /\ hook' \in Hooks /\ life' \in [Sockets -> Lives]
           /\ hook'.wsRef # None => life'[hook'.wsRef] \in {"open", "live"}
           /\ hook'.intentional => h.intentional \/ \E s \in Sockets : life'[s] = "closing"
           /\ \A s \in Sockets : sockets[s] = "closing" => life'[s] = "closing"
           /\ Used(sockets) \subseteq Used(life')
           /\ \/ Used(life') = Used(sockets)
              \/ ~hook'.timer /\ \E s \in Sockets : Used(life') = Used(sockets) \cup {s}
<1> USE SocketsAssumption DEF Lives, Used
<1> DEFINE closed == CloseSocket(h)
<1>1. CASE hook' = Show(closed, "locked")
           /\ life' = [s \in Sockets |-> IF s = h.wsRef THEN "closing" ELSE sockets[s]]
  <2>1. closed \in Hooks /\ closed.wsRef = None /\ (closed.intentional => h.intentional \/ h.wsRef # None)
    BY CloseSocketFacts
  <2>2. hook' \in Hooks /\ hook'.wsRef = None /\ hook'.intentional = closed.intentional
    BY <1>1, <2>1, ShowFacts DEF States
  <2>3. h.wsRef \in Sockets \cup {None}
    BY DEF Hooks
  <2> HIDE DEF closed
  <2> QED
    BY <1>1, <2>1, <2>2, <2>3
<1>2. CASE hook' = h /\ \E s \in Sockets : sockets[s] = "none" /\ life' = [sockets EXCEPT ![s] = "connecting"]
  <2>1. PICK s \in Sockets : sockets[s] = "none" /\ life' = [sockets EXCEPT ![s] = "connecting"]
    BY <1>2
  <2>2. hook' = h /\ h.wsRef \in Sockets \cup {None}
    BY <1>2 DEF Hooks
  <2>3. Used(life') = Used(sockets) \cup {s}
    BY <2>1
  <2> QED
    BY <2>1, <2>2, <2>3
<1>3. CASE hook' = Show([h EXCEPT !.connected = FALSE, !.timer = TRUE], "gateway_down") /\ life' = sockets
  <2> DEFINE retrying == [h EXCEPT !.connected = FALSE, !.timer = TRUE]
  <2>1. retrying \in Hooks /\ retrying.wsRef = h.wsRef /\ retrying.intentional = h.intentional
    BY DEF Hooks
  <2>2. hook' \in Hooks /\ hook'.wsRef = h.wsRef /\ hook'.intentional = h.intentional
    BY <1>3, <2>1, ShowFacts DEF States
  <2> QED
    BY <1>3, <2>2
<1> QED
  BY <1>1, <1>2, <1>3 DEF Connect

-----------------------------------------------------------------------------
(* Type correctness *)

\* The parts of TypeOK, in the terms of this module.
LEMMA TypeParts ==
    TypeOK <=> /\ hook.wsRef # None => life[hook.wsRef] \in {"open", "live"}
               /\ life \in [Sockets -> Lives] /\ hook \in Hooks /\ refused \subseteq Used(life)
               /\ mounted \in BOOLEAN /\ strict \in BOOLEAN /\ unlocked \in BOOLEAN
               /\ session \in BOOLEAN /\ presses \in 0..MaxPresses /\ cutShort \in BOOLEAN
BY DEF TypeOK, Lives, Hooks, Used, Alive

LEMMA TypeInit == Init => TypeOK
<1> SUFFICES ASSUME Init PROVE TypeOK
  OBVIOUS
<1>1. hook \in Hooks /\ hook.wsRef = None
  BY DEF Init, Hooks, States
<1>2. life \in [Sockets -> Lives] /\ presses \in 0..MaxPresses
  BY Bounds DEF Init, Lives
<1> QED
  BY <1>1, <1>2, TypeParts DEF Init

\* closeSocket and what it does to the sockets, from a correct state.
LEMMA ClosingFacts ==
    ASSUME TypeOK
    PROVE  /\ Closing(hook) \in [Sockets -> Lives] /\ Used(Closing(hook)) = Used(life)
           /\ hook.wsRef # None => hook.wsRef \in Sockets /\ Closing(hook)[hook.wsRef] = "closing"
           /\ \A s \in Sockets : life[s] = "closing" => Closing(hook)[s] = "closing"
<1>1. hook.wsRef \in Sockets \cup {None} /\ life \in [Sockets -> Lives]
      /\ (hook.wsRef # None => life[hook.wsRef] \in {"open", "live"})
  BY TypeParts DEF Hooks
<1> QED
  BY <1>1, SocketsAssumption DEF Closing, Lives, Used

\* The callers of connectWebSocket: the timer of a retry, and the two that close the
\* socket first. Each leaves correct refs, and at most one socket more.
LEMMA ConnectSteps ==
    ASSUME TypeOK, ReconnectTimer \/ Reconnect \/ \E value \in BOOLEAN : AccessChanges(value)
    PROVE  /\ hook' \in Hooks /\ life' \in [Sockets -> Lives]
           /\ hook'.wsRef # None => life'[hook'.wsRef] \in {"open", "live"}
           /\ Used(life) \subseteq Used(life')
           /\ \/ Used(life') = Used(life)
              \/ ~hook'.timer /\ \E s \in Sockets : Used(life') = Used(life) \cup {s}
           /\ FlagHasOwner => FlagHasOwner'
<1> USE SocketsAssumption
<1> DEFINE fired == [hook EXCEPT !.timer = FALSE]
           again == Show(fired, "reconnecting")
           closed == CloseSocket(hook)
           anew == Show(closed, "reconnecting")
<1>0. hook \in Hooks /\ life \in [Sockets -> Lives]
      /\ (hook.wsRef # None => life[hook.wsRef] \in {"open", "live"})
  BY TypeParts
<1>1. CASE ReconnectTimer
  <2>1. fired \in Hooks /\ ~fired.timer /\ fired.wsRef = hook.wsRef
        /\ fired.intentional = hook.intentional
    BY <1>0 DEF Hooks
  <2>2. again \in Hooks /\ ~again.timer /\ again.wsRef = hook.wsRef
        /\ again.intentional = hook.intentional
    BY <2>1, ShowFacts DEF States
  <2>3. Connect(again, life)
    BY <1>1 DEF ReconnectTimer
  <2> HIDE DEF fired, again
  <2>4. PICK h \in Hooks, sockets \in [Sockets -> Lives] : h = again /\ sockets = life
    BY <1>0, <2>2
  <2>5. Connect(h, sockets)
    BY <2>3, <2>4 DEF Connect
  <2> QED
    BY <1>0, <2>2, <2>4, <2>5, ConnectFacts DEF FlagHasOwner
<1>2. ASSUME NEW h \in Hooks, h.wsRef = None, ~h.timer,
             h.intentional => hook.intentional \/ hook.wsRef # None,
             NEW sockets \in [Sockets -> Lives], sockets = Closing(hook), Connect(h, sockets)
      PROVE  /\ hook' \in Hooks /\ life' \in [Sockets -> Lives]
             /\ hook'.wsRef # None => life'[hook'.wsRef] \in {"open", "live"}
             /\ Used(life) \subseteq Used(life')
             /\ \/ Used(life') = Used(life)
                \/ ~hook'.timer /\ \E s \in Sockets : Used(life') = Used(life) \cup {s}
             /\ FlagHasOwner => FlagHasOwner'
  BY <1>0, <1>2, ConnectFacts, ClosingFacts DEF FlagHasOwner
<1>3. closed \in Hooks /\ closed.wsRef = None /\ ~closed.timer
      /\ (closed.intentional => hook.intentional \/ hook.wsRef # None)
  BY <1>0, CloseSocketFacts
<1>4. anew \in Hooks /\ anew.wsRef = None /\ ~anew.timer
      /\ (anew.intentional => hook.intentional \/ hook.wsRef # None)
  BY <1>3, ShowFacts DEF States
<1>5. CASE Reconnect
  <2>1. Connect(anew, Closing(hook))
    BY <1>5 DEF Reconnect
  <2> HIDE DEF closed, anew
  <2>2. PICK h \in Hooks, sockets \in [Sockets -> Lives] : h = anew /\ sockets = Closing(hook)
    BY <1>4, ClosingFacts
  <2>3. Connect(h, sockets)
    BY <2>1, <2>2 DEF Connect
  <2> QED
    BY <1>2, <1>4, <2>2, <2>3
<1>6. CASE \E value \in BOOLEAN : AccessChanges(value)
  <2>1. Connect(closed, Closing(hook))
    BY <1>6 DEF AccessChanges
  <2> HIDE DEF closed, anew
  <2>2. PICK h \in Hooks, sockets \in [Sockets -> Lives] : h = closed /\ sockets = Closing(hook)
    BY <1>3, ClosingFacts
  <2>3. Connect(h, sockets)
    BY <2>1, <2>2 DEF Connect
  <2> QED
    BY <1>2, <1>3, <2>2, <2>3
<1> QED
  BY <1>1, <1>5, <1>6

\* A close event: the refs are cleared, the socket is gone.
LEMMA CloseEventFacts ==
    ASSUME TypeOK, NEW s \in Sockets, life[s] # "none",
           NEW failed \in BOOLEAN, NEW coded \in BOOLEAN, CloseEvent(s, failed, coded)
    PROVE  /\ hook' \in Hooks /\ hook'.wsRef = None /\ ~hook'.intentional
           /\ life' \in [Sockets -> Lives] /\ Used(life') = Used(life) \ {s}
           /\ refused' \subseteq Used(life')
           /\ UNCHANGED Page
<1>1. hook \in Hooks /\ life \in [Sockets -> Lives] /\ refused \subseteq Used(life)
  BY TypeParts
<1>2. life' = [life EXCEPT ![s] = "none"] /\ refused' = refused \ {s} /\ UNCHANGED Page
  BY DEF CloseEvent
<1>3. ASSUME NEW h \in Hooks
      PROVE  OnClose(h, coded) \in Hooks /\ OnClose(h, coded).wsRef = None
             /\ ~OnClose(h, coded).intentional
  BY DEF OnClose, Show, Hooks, States
<1>4. PICK h \in Hooks : hook' = OnClose(h, coded)
  <2> DEFINE errored == [hook EXCEPT !.connected = FALSE]
  <2>1. errored \in Hooks
    BY <1>1 DEF Hooks
  <2>2. Show(errored, "gateway_down") \in Hooks
    BY <2>1, ShowFacts DEF States
  <2> QED
    BY <1>1, <2>2 DEF CloseEvent
<1> QED
  BY <1>1, <1>2, <1>3, <1>4 DEF Lives, Used

\* The events of a socket that is there, other than its end.
LEMMA SocketEvents ==
    ASSUME TypeOK, NEW s \in Sockets,
           OnOpen(s) \/ Welcome(s) \/ \E r \in Reasons : Refuse(s, r)
    PROVE  /\ TypeOK' /\ Used(life') = Used(life) /\ hook'.timer = hook.timer
           /\ UNCHANGED Page
           /\ FlagHasOwner => FlagHasOwner'
<1>0. /\ hook \in Hooks /\ life \in [Sockets -> Lives] /\ refused \subseteq Used(life)
      /\ hook.wsRef # None => life[hook.wsRef] \in {"open", "live"}
      /\ hook.wsRef \in Sockets \cup {None}
  BY TypeParts DEF Hooks
<1> USE SocketsAssumption DEF Lives, Used
<1>1. CASE OnOpen(s)
  <2> DEFINE opened == [hook EXCEPT !.intentional = FALSE, !.retry = FALSE, !.wsRef = s]
  <2>1. opened \in Hooks /\ opened.wsRef = s /\ ~opened.intentional /\ opened.timer = hook.timer
    BY <1>0 DEF Hooks
  <2>2. hook' \in Hooks /\ hook'.wsRef = s /\ ~hook'.intentional /\ hook'.timer = hook.timer
    BY <1>1, <2>1, ShowFacts DEF OnOpen, States
  <2>3. life[s] = "connecting" /\ life' = [life EXCEPT ![s] = "open"] /\ refused' = refused /\ UNCHANGED Page
    BY <1>1 DEF OnOpen
  <2>4. life' \in [Sockets -> Lives] /\ Used(life') = Used(life) /\ life'[s] = "open"
    BY <1>0, <2>3
  <2>5. TypeOK'
    BY <1>0, <2>2, <2>3, <2>4, TypeParts, Bounds DEF TypeOK, Page, Hooks, Alive, MaxPresses, Mounts
  <2> QED
    BY <2>2, <2>3, <2>4, <2>5 DEF FlagHasOwner
<1>2. CASE Welcome(s)
  <2> DEFINE opened == [hook EXCEPT !.was = TRUE, !.connected = TRUE, !.retry = FALSE]
  <2>1. opened \in Hooks /\ opened.wsRef = hook.wsRef /\ opened.intentional = hook.intentional
        /\ opened.timer = hook.timer
    BY <1>0 DEF Hooks
  <2>2. hook' \in Hooks /\ hook'.wsRef = hook.wsRef /\ hook'.intentional = hook.intentional
        /\ hook'.timer = hook.timer
    BY <1>2, <2>1, ShowFacts DEF Welcome, States
  <2>3. life[s] = "open" /\ life' = [life EXCEPT ![s] = "live"] /\ refused' = refused /\ UNCHANGED Page
    BY <1>2 DEF Welcome
  <2>4. life' \in [Sockets -> Lives] /\ Used(life') = Used(life)
        /\ \A u \in Sockets : life[u] \in {"closing", "live"} => life'[u] = life[u]
        /\ \A t \in Sockets : life[t] = "open" => life'[t] \in {"open", "live"}
    BY <1>0, <2>3
  <2>5. TypeOK'
    BY <1>0, <2>2, <2>3, <2>4, TypeParts, Bounds DEF TypeOK, Page, Hooks, Alive, MaxPresses, Mounts
  <2> QED
    BY <2>2, <2>3, <2>4, <2>5 DEF FlagHasOwner
<1>3. ASSUME NEW r \in Reasons, Refuse(s, r)
      PROVE  /\ TypeOK' /\ Used(life') = Used(life) /\ hook'.timer = hook.timer
             /\ UNCHANGED Page
             /\ FlagHasOwner => FlagHasOwner'
  <2> DEFINE told == [hook EXCEPT !.connected = FALSE, !.retry = @ \/ r = "rate_limited"]
  <2>1. told \in Hooks /\ told.wsRef = hook.wsRef /\ told.intentional = hook.intentional
        /\ told.timer = hook.timer
    BY <1>0 DEF Hooks
  <2>2. hook' \in Hooks /\ hook'.wsRef = hook.wsRef /\ hook'.intentional = hook.intentional
        /\ hook'.timer = hook.timer
    BY <1>3, <2>1, ShowFacts DEF Refuse, States
  <2>3. life[s] = "open" /\ life' = life /\ refused' = refused \cup {s} /\ UNCHANGED Page
    BY <1>3 DEF Refuse, Page
  <2>4. TypeOK'
    BY <1>0, <2>2, <2>3, TypeParts, Bounds DEF TypeOK, Page, Hooks, Alive, MaxPresses, Mounts
  <2> QED
    BY <2>2, <2>3, <2>4 DEF FlagHasOwner
<1> QED
  BY <1>1, <1>2, <1>3

-----------------------------------------------------------------------------
(* The invariant *)

\* A scheduled retry counts as the connection it will open.
Budget == Cardinality(Used(life)) + (IF hook.timer THEN 1 ELSE 0) <= presses + Mounts
IInv == TypeOK /\ FlagHasOwner /\ Budget

LEMMA UsedFinite == IsFiniteSet(Used(life)) /\ Cardinality(Used(life)) \in Nat
BY SocketsAssumption, FS_Subset, FS_CardinalityType DEF Used

LEMMA InvInit == Init => IInv
<1> SUFFICES ASSUME Init PROVE IInv
  OBVIOUS
<1>1. TypeOK /\ FlagHasOwner
  BY TypeInit DEF Init, FlagHasOwner
<1>2. Used(life) = {s \in Sockets : life[s] = "connecting"} /\ hook.timer = FALSE /\ presses = 0
  BY DEF Init, Used
<1>3. Cardinality(Used(life)) <= Mounts
  BY <1>2, Bounds DEF Init
<1> QED
  BY <1>1, <1>2, <1>3, Bounds, UsedFinite DEF IInv, Budget

\* The steps that connect again, within what the clicks allow.
LEMMA InvConnect ==
    ASSUME IInv, ReconnectTimer \/ Reconnect \/ \E value \in BOOLEAN : AccessChanges(value),
           session' \in BOOLEAN
    PROVE  IInv'
<1>1. /\ hook' \in Hooks /\ life' \in [Sockets -> Lives]
      /\ hook'.wsRef # None => life'[hook'.wsRef] \in {"open", "live"}
      /\ Used(life) \subseteq Used(life')
      /\ \/ Used(life') = Used(life)
         \/ ~hook'.timer /\ \E s \in Sockets : Used(life') = Used(life) \cup {s}
      /\ FlagHasOwner'
  BY ConnectSteps DEF IInv
<1>2. /\ UNCHANGED <<refused, mounted, strict>> /\ cutShort' \in BOOLEAN /\ unlocked' \in BOOLEAN
      /\ \/ presses' = presses /\ hook.timer
         \/ presses < MaxPresses /\ presses' = presses + 1
  BY DEF IInv, TypeOK, ReconnectTimer, Reconnect, AccessChanges, CutsShort
<1>3. Mounts' = Mounts /\ MaxPresses' = MaxPresses /\ presses' \in 0..MaxPresses
  BY <1>2, Bounds DEF Mounts, MaxPresses, IInv, TypeOK
<1>4. TypeOK'
  BY <1>1, <1>2, <1>3, TypeParts DEF IInv, TypeOK, Lives, Hooks, Used, Alive
<1>5. Cardinality(Used(life')) + (IF hook'.timer THEN 1 ELSE 0) <= Cardinality(Used(life)) + 1
  <2>1. CASE Used(life') = Used(life)
    BY <2>1, UsedFinite
  <2>2. ASSUME NEW s \in Sockets, ~hook'.timer, Used(life') = Used(life) \cup {s}
        PROVE  Cardinality(Used(life')) + (IF hook'.timer THEN 1 ELSE 0) <= Cardinality(Used(life)) + 1
    BY <2>2, UsedFinite, FS_AddElement
  <2> QED
    BY <1>1, <2>1, <2>2
<1>6. Cardinality(Used(life)) + 1 <= presses' + Mounts
  BY <1>2, Bounds, UsedFinite DEF IInv, Budget, TypeOK
<1>7. Cardinality(Used(life')) \in Nat
  BY SocketsAssumption, FS_Subset, FS_CardinalityType DEF Used
<1>8. Budget'
  BY <1>3, <1>5, <1>6, <1>7, Bounds, UsedFinite DEF Budget, IInv, TypeOK
<1> QED
  BY <1>1, <1>4, <1>8 DEF IInv

\* The end of a socket makes room for the retry that its close event schedules.
LEMMA InvClose ==
    ASSUME IInv, NEW s \in Sockets,
           RefusalCloses(s) \/ CloseCompletes(s) \/ ConnectFails(s) \/ ConnectionLost(s)
    PROVE  IInv'
<1>1. /\ life[s] # "none"
      /\ \E failed, coded \in BOOLEAN : CloseEvent(s, failed, coded)
  <2>1. CASE RefusalCloses(s)
    BY <2>1 DEF RefusalCloses
  <2>2. CASE CloseCompletes(s)
    <3>1. CASE s \in refused
      <4>1. CloseEvent(s, FALSE, TRUE)
        BY <2>2, <3>1 DEF CloseCompletes, CloseEvent, OnClose
      <4> QED
        BY <2>2, <4>1 DEF CloseCompletes
    <3>2. CASE s \notin refused
      <4>1. CloseEvent(s, FALSE, FALSE)
        BY <2>2, <3>2 DEF CloseCompletes, CloseEvent, OnClose
      <4> QED
        BY <2>2, <4>1 DEF CloseCompletes
    <3> QED
      BY <3>1, <3>2
  <2>3. CASE ConnectFails(s)
    BY <2>3 DEF ConnectFails
  <2>4. CASE ConnectionLost(s)
    BY <2>4 DEF ConnectionLost
  <2> QED
    BY <2>1, <2>2, <2>3, <2>4
<1>2. PICK failed \in BOOLEAN, coded \in BOOLEAN : CloseEvent(s, failed, coded)
  BY <1>1
<1>3. /\ hook' \in Hooks /\ hook'.wsRef = None /\ ~hook'.intentional
      /\ life' \in [Sockets -> Lives] /\ Used(life') = Used(life) \ {s}
      /\ refused' \subseteq Used(life') /\ UNCHANGED Page
  BY <1>1, <1>2, CloseEventFacts DEF IInv
<1>4. TypeOK' /\ FlagHasOwner'
  BY <1>3, TypeParts DEF IInv, TypeOK, FlagHasOwner, Lives, Hooks, Used, Alive, Page, MaxPresses, Mounts
<1>5. Cardinality(Used(life')) = Cardinality(Used(life)) - 1
  <2>1. s \in Used(life)
    BY <1>1 DEF Used
  <2> QED
    BY <1>3, <2>1, UsedFinite, FS_RemoveElement
<1>6. Budget'
  BY <1>3, <1>5, UsedFinite, Bounds DEF Budget, IInv, TypeOK, Page, Mounts
<1> QED
  BY <1>4, <1>6 DEF IInv

LEMMA InvNext == IInv /\ [Next]_vars => IInv'
<1> SUFFICES ASSUME IInv, [Next]_vars PROVE IInv'
  OBVIOUS
<1>0. TypeOK /\ FlagHasOwner /\ Budget
  BY DEF IInv
<1>1. CASE Gateway
  <2>1. PICK s \in Sockets :
          \/ OnOpen(s) \/ Welcome(s) \/ \E r \in Reasons : Refuse(s, r)
          \/ RefusalCloses(s) \/ CloseCompletes(s) \/ ConnectFails(s) \/ ConnectionLost(s)
    BY <1>1 DEF Gateway
  <2>2. CASE OnOpen(s) \/ Welcome(s) \/ \E r \in Reasons : Refuse(s, r)
    BY <1>0, <2>2, SocketEvents DEF IInv, Budget, Page, Mounts
  <2> QED
    BY <2>1, <2>2, InvClose
<1>2. CASE ReconnectTimer \/ Reconnect \/ Lock \/ StatusRead
  <2>1. session' \in BOOLEAN
    BY <1>0, <1>2 DEF ReconnectTimer, Reconnect, Lock, StatusRead, TypeOK
  <2>2. ReconnectTimer \/ Reconnect \/ \E value \in BOOLEAN : AccessChanges(value)
    BY <1>0, <1>2 DEF Lock, StatusRead, TypeOK
  <2> QED
    BY <2>1, <2>2, InvConnect
<1>3. CASE Unlock
  <2>1. CASE AccessChanges(TRUE)
    BY <1>3, <2>1, InvConnect DEF Unlock
  <2>2. CASE UNCHANGED <<life, refused, hook, mounted, strict, unlocked, presses, cutShort>>
    BY <1>0, <1>3, <2>2 DEF Unlock, IInv, TypeOK, FlagHasOwner, Budget, Used, Alive, Mounts, MaxPresses
  <2> QED
    BY <1>3, <2>1, <2>2 DEF Unlock
<1>4. CASE RetryPasses
  <2>1. hook' = [hook EXCEPT !.retry = FALSE] /\ UNCHANGED <<life, refused, Page>>
    BY <1>4 DEF RetryPasses
  <2>2. hook' \in Hooks /\ hook'.timer = hook.timer /\ hook'.wsRef = hook.wsRef
        /\ hook'.intentional = hook.intentional
    BY <1>0, <2>1, TypeParts DEF Hooks
  <2> QED
    BY <1>0, <2>1, <2>2, TypeParts DEF Page, IInv, TypeOK, Hooks, FlagHasOwner, Budget, Used, Alive, Mounts, MaxPresses
<1>5. CASE Unmount
  <2>1. /\ hook' = CloseSocket(hook) /\ life' = Closing(hook)
        /\ mounted' \in BOOLEAN /\ cutShort' \in BOOLEAN
        /\ UNCHANGED <<refused, strict, unlocked, session, presses>>
    BY <1>0, <1>5 DEF Unmount, CutsShort, TypeOK
  <2>2. hook' \in Hooks /\ hook'.wsRef = None /\ ~hook'.timer
        /\ (hook'.intentional => hook.intentional \/ hook.wsRef # None)
    BY <1>0, <2>1, CloseSocketFacts, TypeParts
  <2>3. life' \in [Sockets -> Lives] /\ Used(life') = Used(life) /\ FlagHasOwner'
    BY <1>0, <2>1, <2>2, ClosingFacts DEF FlagHasOwner
  <2>4. TypeOK'
    BY <1>0, <2>1, <2>2, <2>3, TypeParts DEF TypeOK, Lives, Hooks, Used, Alive, Mounts, MaxPresses
  <2>5. Budget'
    BY <1>0, <2>1, <2>2, <2>3, UsedFinite, Bounds DEF Budget, Mounts, TypeOK
  <2> QED
    BY <2>3, <2>4, <2>5 DEF IInv
<1>6. CASE SessionEnds
  BY <1>0, <1>6 DEF SessionEnds, IInv, TypeOK, FlagHasOwner, Budget, Used, Alive, Mounts, MaxPresses
<1>7. CASE UNCHANGED vars
  BY <1>0, <1>7 DEF vars, IInv, TypeOK, FlagHasOwner, Budget, Used, Alive, Mounts, MaxPresses
<1> QED
  BY <1>1, <1>2, <1>3, <1>4, <1>5, <1>6, <1>7 DEF Next, User

\* The refs of a tab always describe its sockets (closeSocket, onopen, onclose): a
\* socket in wsRef is open, for any number of sockets and clicks.
THEOREM TypeCorrect == Spec => []TypeOK
BY InvInit, InvNext, PTL DEF Spec, IInv

\* A raised intentional flag always has a close event to come that takes it down.
THEOREM FlagAlwaysHasOwner == Spec => []FlagHasOwner
BY InvInit, InvNext, PTL DEF Spec, IInv

\* However closes, refusals, retries and clicks interleave, a tab holds at most
\* one connection for its mount and one for each click or change of access.
THEOREM RetriesNeverMultiply == Spec => []SocketsBounded
<1>1. IInv => SocketsBounded
  <2> SUFFICES ASSUME IInv PROVE SocketsBounded
    OBVIOUS
  <2>1. Cardinality(Used(life)) <= presses + Mounts
    BY UsedFinite, Bounds DEF IInv, Budget, TypeOK
  <2>2. Used(life) = Alive
    BY DEF Used, Alive
  <2> QED
    BY <2>1, <2>2 DEF SocketsBounded
<1> QED
  BY <1>1, InvInit, InvNext, PTL DEF Spec

-----------------------------------------------------------------------------
(* No tab is left with nothing under way and no reason shown *)

Settled == Reasons \cup {"locked"}

\* Sockets whose close event schedules a retry unless it takes the flag.
Unrefused == {s \in Sockets : life[s] # "none" /\ s \notin refused}

\* While no retry is due and no reason is shown, enough sockets are left that one
\* of them closes without taking the flag.
RetryInv ==
    mounted /\ ~cutShort =>
        /\ \A s \in refused : life[s] = "open"
        /\ ~hook.timer /\ hook.state \notin Settled =>
              \E s \in Unrefused : hook.intentional => \E t \in Unrefused : t # s

LEMMA RetryInit == Init => RetryInv
<1> SUFFICES ASSUME Init PROVE RetryInv
  OBVIOUS
<1>1. /\ refused = {} /\ hook.intentional = FALSE
      /\ hook.state = IF unlocked THEN "idle" ELSE "locked"
      /\ unlocked => Cardinality({s \in Sockets : life[s] = "connecting"}) = Mounts
  BY DEF Init
<1>2. CASE unlocked
  <2>1. {s \in Sockets : life[s] = "connecting"} # {}
    BY <1>1, <1>2, Bounds, FS_EmptySet
  <2> QED
    BY <1>1, <2>1 DEF RetryInv, Unrefused
<1>3. CASE ~unlocked
  BY <1>1, <1>3 DEF RetryInv, Settled
<1> QED
  BY <1>2, <1>3

\* The end of a socket: it schedules a retry, takes the flag, or was refused.
LEMMA RetryClose ==
    ASSUME IInv, RetryInv, NEW s \in Sockets, NEW failed \in BOOLEAN, NEW coded \in BOOLEAN,
           CloseEvent(s, failed, coded),
           coded => s \in refused /\ ~failed,
           failed => life[s] # "closing"
    PROVE  RetryInv'
<1> SUFFICES ASSUME mounted, ~cutShort PROVE RetryInv'
  BY DEF CloseEvent, Page, RetryInv
<1>1. /\ life' = [life EXCEPT ![s] = "none"] /\ life \in [Sockets -> Lives]
      /\ refused' = refused \ {s} /\ refused \subseteq Sockets /\ UNCHANGED Page
  BY TypeParts DEF CloseEvent, IInv, TypeOK, Alive
<1>2. \A u \in Unrefused : u # s => u \in Unrefused'
  BY <1>1 DEF Unrefused
<1>3. \A u \in refused' : life'[u] = "open"
  BY <1>1 DEF RetryInv
<1> DEFINE before == IF failed THEN Show([hook EXCEPT !.connected = FALSE], "gateway_down") ELSE hook
<1>4. hook \in Hooks
  BY TypeParts DEF IInv
<1>5. /\ before \in Hooks /\ before.timer = hook.timer /\ before.intentional = hook.intentional
      /\ before.state = IF failed THEN "gateway_down" ELSE hook.state
  BY <1>4 DEF Show, Hooks, States
<1>6. hook' = OnClose(before, coded)
  BY DEF CloseEvent
<1> HIDE DEF before
<1>7. /\ hook'.intentional = FALSE
      /\ \/ hook'.timer = TRUE
         \/ /\ hook.intentional \/ coded
            /\ hook'.timer = hook.timer /\ hook'.state = before.state
  BY <1>5, <1>6 DEF OnClose, Show, Hooks
<1>8. CASE hook'.timer = TRUE
  BY <1>3, <1>7, <1>8 DEF RetryInv
<1>9. CASE hook'.timer # TRUE
  <2>1. (hook.intentional \/ coded) /\ ~hook.timer /\ hook'.state = before.state
    BY <1>4, <1>7, <1>9 DEF Hooks
  <2>2. CASE failed
    <3>1. hook.intentional
      BY <2>1, <2>2
    <3>2. PICK c \in Sockets : life[c] = "closing"
      BY <3>1 DEF IInv, FlagHasOwner
    <3>3. c \in Unrefused /\ c # s
      BY <2>2, <3>2 DEF RetryInv, Unrefused
    <3> QED
      BY <1>2, <1>3, <1>7, <3>3 DEF RetryInv
  <2>3. CASE ~failed /\ hook.state \notin Settled
    <3>1. PICK u \in Unrefused : hook.intentional => \E t \in Unrefused : t # u
      BY <2>1, <2>3 DEF RetryInv
    <3>2. \E v \in Unrefused : v # s
      <4>1. CASE hook.intentional
        BY <3>1, <4>1
      <4>2. CASE ~hook.intentional
        BY <2>1, <3>1, <4>2 DEF Unrefused
      <4> QED
        BY <4>1, <4>2
    <3> QED
      BY <1>2, <1>3, <1>7, <3>2 DEF RetryInv
  <2>4. CASE ~failed /\ hook.state \in Settled
    BY <1>3, <1>5, <2>1, <2>4 DEF RetryInv
  <2> QED
    BY <2>2, <2>3, <2>4
<1> QED
  BY <1>8, <1>9

\* What a new connection leaves: a reason, a socket besides the one that owns the
\* flag, or a retry.
LEMMA RetryConnect ==
    ASSUME NEW h \in Hooks, NEW sockets \in [Sockets -> Lives], Connect(h, sockets),
           UNCHANGED refused, refused \subseteq Sockets,
           \A s \in refused : sockets[s] = "open", h.wsRef \notin refused,
           h.intentional => \E c \in Sockets : sockets[c] = "closing"
    PROVE  RetryInv'
<1> USE SocketsAssumption DEF Lives
<1>1. CASE hook' = Show(CloseSocket(h), "locked")
           /\ life' = [s \in Sockets |-> IF s = h.wsRef THEN "closing" ELSE sockets[s]]
  <2>1. CloseSocket(h) \in Hooks
    BY CloseSocketFacts
  <2>2. hook'.state = "locked"
    BY <1>1, <2>1 DEF Show, Hooks
  <2>3. \A s \in refused' : life'[s] = "open"
    BY <1>1
  <2> QED
    BY <2>2, <2>3 DEF RetryInv, Settled
<1>2. ASSUME NEW s \in Sockets, sockets[s] = "none", life' = [sockets EXCEPT ![s] = "connecting"], hook' = h
      PROVE  RetryInv'
  <2>1. s \notin refused
    BY <1>2
  <2>2. \A u \in refused' : life'[u] = "open"
    BY <1>2, <2>1
  <2>3. s \in Unrefused'
    BY <1>2, <2>1 DEF Unrefused
  <2>4. hook'.intentional => \E t \in Unrefused' : t # s
    <3> SUFFICES ASSUME h.intentional PROVE \E t \in Unrefused' : t # s
      BY <1>2
    <3>1. PICK c \in Sockets : sockets[c] = "closing"
      OBVIOUS
    <3>2. c # s /\ c \notin refused /\ life'[c] = "closing"
      BY <1>2, <3>1
    <3> QED
      BY <3>2 DEF Unrefused
  <2> QED
    BY <2>2, <2>3, <2>4 DEF RetryInv
<1>3. CASE hook' = Show([h EXCEPT !.connected = FALSE, !.timer = TRUE], "gateway_down") /\ life' = sockets
  <2>1. hook'.timer = TRUE
    BY <1>3 DEF Show, Hooks
  <2> QED
    BY <1>3, <2>1 DEF RetryInv
<1> QED
  BY <1>1, <1>2, <1>3 DEF Connect

\* The steps that connect again.
LEMMA RetryConnects ==
    ASSUME IInv, RetryInv, ReconnectTimer \/ Reconnect \/ \E value \in BOOLEAN : AccessChanges(value)
    PROVE  RetryInv'
<1>1. /\ hook \in Hooks /\ life \in [Sockets -> Lives] /\ refused \subseteq Sockets
      /\ cutShort' = (cutShort \/ hook.wsRef \in refused) /\ UNCHANGED <<refused, mounted>>
  BY TypeParts DEF IInv, TypeOK, Alive, ReconnectTimer, Reconnect, AccessChanges, CutsShort
<1> SUFFICES ASSUME mounted, ~cutShort, hook.wsRef \notin refused PROVE RetryInv'
  BY <1>1 DEF RetryInv
<1>2. \A s \in refused : life[s] = "open"
  BY DEF RetryInv
<1>3. CASE ReconnectTimer
  <2> DEFINE h == Show([hook EXCEPT !.timer = FALSE], "reconnecting")
  <2>1. h \in Hooks /\ h.wsRef = hook.wsRef /\ h.intentional = hook.intentional
    BY <1>1 DEF Show, Hooks, States
  <2>2. Connect(h, life)
    BY <1>3 DEF ReconnectTimer
  <2> HIDE DEF h
  <2>3. h.intentional => \E c \in Sockets : life[c] = "closing"
    BY <2>1 DEF IInv, FlagHasOwner
  <2> QED
    BY <1>1, <1>2, <2>1, <2>2, <2>3, RetryConnect
<1>4. CASE Reconnect \/ \E value \in BOOLEAN : AccessChanges(value)
  <2>1. CloseSocket(hook) \in Hooks /\ CloseSocket(hook).wsRef = None
        /\ (CloseSocket(hook).intentional => hook.intentional \/ hook.wsRef # None)
    BY <1>1, CloseSocketFacts
  <2>2. PICK h \in Hooks : /\ Connect(h, Closing(hook)) /\ h.wsRef = None
                           /\ h.intentional => hook.intentional \/ hook.wsRef # None
    <3>1. CASE Reconnect
      BY <2>1, <3>1, ShowFacts DEF Reconnect, States
    <3>2. CASE \E value \in BOOLEAN : AccessChanges(value)
      BY <2>1, <3>2 DEF AccessChanges
    <3> QED
      BY <1>4, <3>1, <3>2
  <2>3. /\ Closing(hook) \in [Sockets -> Lives]
        /\ \A s \in Sockets : Closing(hook)[s] = IF s = hook.wsRef THEN "closing" ELSE life[s]
    BY <1>1 DEF Closing, Lives
  <2>4. \A s \in refused : Closing(hook)[s] = "open"
    BY <1>1, <1>2, <2>3
  <2>5. h.intentional => \E c \in Sockets : Closing(hook)[c] = "closing"
    BY <1>1, <2>2, <2>3 DEF IInv, FlagHasOwner, Hooks
  <2>6. h.wsRef \notin refused
    BY <1>1, <2>2, SocketsAssumption
  <2> QED
    BY <1>1, <2>2, <2>3, <2>4, <2>5, <2>6, RetryConnect
<1> QED
  BY <1>3, <1>4

LEMMA RetryNext == IInv /\ RetryInv /\ [Next]_vars => RetryInv'
<1> SUFFICES ASSUME IInv, RetryInv, [Next]_vars PROVE RetryInv'
  OBVIOUS
<1>0. /\ hook \in Hooks /\ life \in [Sockets -> Lives] /\ refused \subseteq Sockets
      /\ FlagHasOwner
  BY TypeParts DEF IInv, TypeOK, Alive
<1>1. ASSUME NEW s \in Sockets, OnOpen(s)
      PROVE  RetryInv'
  <2> SUFFICES ASSUME mounted, ~cutShort PROVE RetryInv'
    BY <1>1 DEF OnOpen, Page, RetryInv
  <2>1. /\ life[s] = "connecting" /\ life' = [life EXCEPT ![s] = "open"] /\ refused' = refused
        /\ hook'.intentional = FALSE
    BY <1>0, <1>1 DEF OnOpen, Show, Hooks
  <2>2. \A u \in refused : life[u] = "open" /\ u # s
    BY <2>1 DEF RetryInv
  <2>3. s \in Unrefused' /\ \A u \in refused' : life'[u] = "open"
    BY <1>0, <2>1, <2>2 DEF Unrefused, Lives
  <2> QED
    BY <2>1, <2>3 DEF RetryInv
<1>2. ASSUME NEW s \in Sockets, Welcome(s)
      PROVE  RetryInv'
  <2> SUFFICES ASSUME mounted, ~cutShort PROVE RetryInv'
    BY <1>2 DEF Welcome, Page, RetryInv
  <2>1. /\ life[s] = "open" /\ s \notin refused /\ life' = [life EXCEPT ![s] = "live"]
        /\ refused' = refused /\ hook'.intentional = hook.intentional
    BY <1>0, <1>2 DEF Welcome, Show, Hooks
  <2>2. s \in Unrefused' /\ (\A u \in Unrefused : u \in Unrefused') /\ \A u \in refused' : life'[u] = "open"
    BY <1>0, <2>1 DEF Unrefused, Lives, RetryInv
  <2>3. hook.intentional => \E c \in Unrefused' : c # s
    <3> SUFFICES ASSUME hook.intentional PROVE \E c \in Unrefused' : c # s
      OBVIOUS
    <3>1. PICK c \in Sockets : life[c] = "closing"
      BY <1>0 DEF FlagHasOwner
    <3>2. c \in Unrefused /\ c # s
      BY <2>1, <3>1 DEF Unrefused, RetryInv
    <3> QED
      BY <2>2, <3>2
  <2> QED
    BY <2>1, <2>2, <2>3 DEF RetryInv
<1>3. ASSUME NEW s \in Sockets, NEW r \in Reasons, Refuse(s, r)
      PROVE  RetryInv'
  <2>1. /\ life[s] = "open" /\ life' = life /\ refused' = refused \cup {s} /\ hook'.state = r
        /\ UNCHANGED Page
    BY <1>0, <1>3 DEF Refuse, Show, Hooks, Page
  <2> QED
    BY <2>1 DEF RetryInv, Settled, Page
<1>4. ASSUME NEW s \in Sockets,
             RefusalCloses(s) \/ CloseCompletes(s) \/ ConnectFails(s) \/ ConnectionLost(s)
      PROVE  RetryInv'
  <2>1. CASE RefusalCloses(s)
    BY <2>1, RetryClose DEF RefusalCloses
  <2>2. CASE CloseCompletes(s) /\ s \in refused
    <3>1. CloseEvent(s, FALSE, TRUE)
      BY <2>2 DEF CloseCompletes, CloseEvent, OnClose
    <3> QED
      BY <2>2, <3>1, RetryClose
  <2>3. CASE CloseCompletes(s) /\ s \notin refused
    <3>1. CloseEvent(s, FALSE, FALSE)
      BY <2>3 DEF CloseCompletes, CloseEvent, OnClose
    <3> QED
      BY <3>1, RetryClose
  <2>4. CASE ConnectFails(s)
    BY <2>4, RetryClose DEF ConnectFails
  <2>5. CASE ConnectionLost(s)
    <3>1. PICK failed \in BOOLEAN : CloseEvent(s, failed, FALSE)
      BY <2>5 DEF ConnectionLost
    <3>2. life[s] # "closing"
      BY <2>5 DEF ConnectionLost
    <3> QED
      BY <3>1, <3>2, RetryClose
  <2> QED
    BY <1>4, <2>1, <2>2, <2>3, <2>4, <2>5
<1>5. CASE ReconnectTimer \/ Reconnect \/ Lock \/ StatusRead
  <2>1. ReconnectTimer \/ Reconnect \/ \E value \in BOOLEAN : AccessChanges(value)
    BY <1>5 DEF Lock, StatusRead, IInv, TypeOK
  <2> QED
    BY <2>1, RetryConnects
<1>6. CASE UNCHANGED <<life, refused, hook, mounted, cutShort>>
  BY <1>6 DEF RetryInv, Unrefused
<1>7. CASE Unlock
  <2>1. CASE AccessChanges(TRUE)
    BY <2>1, RetryConnects
  <2>2. CASE UNCHANGED <<life, refused, hook, mounted, cutShort>>
    BY <1>6, <2>2
  <2> QED
    BY <1>7, <2>1, <2>2 DEF Unlock
<1>8. CASE RetryPasses
  <2>1. /\ UNCHANGED <<life, refused, mounted, cutShort>>
        /\ hook'.timer = hook.timer /\ hook'.state = hook.state /\ hook'.intentional = hook.intentional
    BY <1>0, <1>8 DEF RetryPasses, Page, Hooks
  <2> QED
    BY <2>1 DEF RetryInv, Unrefused
<1>9. CASE Unmount
  BY <1>9 DEF Unmount, RetryInv
<1>10. CASE SessionEnds \/ UNCHANGED vars
  BY <1>6, <1>10 DEF SessionEnds, vars
<1> QED
  BY <1>1, <1>2, <1>3, <1>4, <1>5, <1>7, <1>8, <1>9, <1>10 DEF Next, User, Gateway

\* A tab that has no socket and no retry to come says why, whichever sockets' close
\* events came in between (onclose), for any number of sockets and clicks.
THEOREM NeverStranded == Spec => []RetryOrReason
<1>1. RetryInv /\ TypeOK => RetryOrReason
  <2> SUFFICES ASSUME RetryInv, mounted, ~cutShort, Alive = {}, ~hook.timer
               PROVE  hook.state \in Settled
    BY DEF RetryOrReason, Settled
  <2>1. Unrefused = {}
    BY DEF Unrefused, Alive
  <2> QED
    BY <2>1 DEF RetryInv
<1> QED
  BY <1>1, InvInit, InvNext, RetryInit, RetryNext, PTL DEF Spec, IInv
=============================================================================
