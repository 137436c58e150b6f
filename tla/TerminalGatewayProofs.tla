------------------------ MODULE TerminalGatewayProofs ------------------------
(* Machine-checked theorems about TerminalGateway.                           *)
EXTENDS TerminalGateway, FiniteSetTheorems, TLAPS

-----------------------------------------------------------------------------
(* Type correctness and exclusive use of the loop *)

LEMMA TypeInit == Init => TypeOK
BY GatewayAssumption DEF Init, TypeOK, HandlerPlaces, ThreadPlaces

\* A signal changes a child only from one of its states to another.
LEMMA SignalType ==
    ASSUME TypeOK, NEW c \in Conns
    PROVE  Signal(c) \in [Conns -> {"none", "alive", "signalled", "dead"}]
BY DEF Signal, TypeOK

LEMMA TypeClient ==
    ASSUME TypeOK, NEW c \in Conns, Client(c)
    PROVE  TypeOK'
<1>1. CASE Open(c)
  BY <1>1 DEF Open, Goto, TypeOK, HandlerPlaces, threadVars
<1>2. CASE Send(c)
  <2>1. backlog[c] \in 0 .. MaxBacklog /\ sent[c] \in 0 .. MaxBacklog /\ backlog[c] <= sent[c]
    BY <1>2 DEF Send, TypeOK
  <2>2. backlog[c] + 1 \in 0 .. MaxBacklog /\ sent[c] + 1 \in 0 .. MaxBacklog
    BY <1>2, <2>1, GatewayAssumption DEF Send
  <2> QED
    BY <1>2, <2>1, <2>2 DEF Send, TypeOK, threadVars
<1>3. CASE Disconnect(c)
  BY <1>3 DEF Disconnect, TypeOK, handlerVars, threadVars
<1> QED
  BY <1>1, <1>2, <1>3 DEF Client

LEMMA TypeServe ==
    ASSUME TypeOK, NEW c \in Conns, Serve(c) \/ Refuse(c) \/ ChildEnds(c)
    PROVE  TypeOK'
<1> USE DEF Step, Goto, HandlerPlaces, threadVars, handlerVars, AfterSend
<1>1. CASE Refuse(c) \/ RejectAtLimit(c)
  BY <1>1, GatewayAssumption DEF Refuse, RejectAtLimit, TypeOK
<1>2. CASE CountSessions(c)
  BY <1>2, GatewayAssumption DEF CountSessions, Stale, TypeOK
<1>3. CASE HandlerDrops(c)
  BY <1>3, SignalType DEF HandlerDrops, Drop, TypeOK
<1>4. CASE CheckLimit(c)
  BY <1>4 DEF CheckLimit, TypeOK
<1>5. CASE Insert(c) \/ StartSession(c)
  BY <1>5, GatewayAssumption DEF Insert, StartSession, TypeOK
<1>6. CASE Welcome(c) \/ CommandSent(c) \/ Report(c)
  BY <1>6, GatewayAssumption DEF Welcome, CommandSent, Report, TypeOK
<1>7. CASE ReadMessage(c)
  <2>1. backlog[c] - 1 \in 0 .. MaxBacklog /\ backlog[c] - 1 <= sent[c]
    BY <1>7, GatewayAssumption DEF ReadMessage, TypeOK
  <2> QED
    BY <1>7, <2>1, GatewayAssumption DEF ReadMessage, TypeOK
<1>8. CASE Spawn(c) \/ SpawnFails(c) \/ Attach(c)
  BY <1>8, GatewayAssumption DEF Spawn, SpawnFails, Attach, TypeOK
<1>9. CASE CommandEnds(c) \/ CommandTimesOut(c) \/ ChildEnds(c)
  BY <1>9, GatewayAssumption DEF CommandEnds, CommandTimesOut, ChildEnds, TypeOK
<1>10. CASE LeaveLoop(c) \/ CloseSession(c)
  BY <1>10, GatewayAssumption DEF LeaveLoop, CloseSession, TypeOK
<1> QED
  BY <1>1, <1>2, <1>3, <1>4, <1>5, <1>6, <1>7, <1>8, <1>9, <1>10 DEF Serve

LEMMA TypeFlask ==
    ASSUME TypeOK, NEW t \in Threads, Flask(t)
    PROVE  TypeOK'
<1> USE DEF ThreadPlaces, threadVars, handlerVars
<1>1. CASE StatusScan(t)
  BY <1>1 DEF StatusScan, Stale, TypeOK
<1>2. CASE StatusDrops(t)
  BY <1>2, SignalType DEF StatusDrops, Drop, TypeOK
<1>3. CASE StatusReturns(t)
  BY <1>3 DEF StatusReturns, TypeOK
<1>4. ASSUME NEW c \in Conns, TerminateBegins(t, c)
      PROVE  TypeOK'
  BY <1>4 DEF TerminateBegins, TypeOK
<1>5. CASE TerminateMarks(t)
  BY <1>5 DEF TerminateMarks, TypeOK
<1>6. CASE TerminateSignals(t)
  <2>1. victim[t] \in attached => victim[t] \in Conns
    BY DEF TypeOK
  <2>2. child' \in [Conns -> {"none", "alive", "signalled", "dead"}]
    BY <1>6, <2>1, SignalType DEF TerminateSignals, TypeOK
  <2> QED
    BY <1>6, <2>2 DEF TerminateSignals, TypeOK
<1>7. CASE TerminatePops(t)
  BY <1>7 DEF TerminatePops, TypeOK
<1> QED
  BY <1>1, <1>2, <1>3, <1>4, <1>5, <1>6, <1>7 DEF Flask

LEMMA TypeStep ==
    ASSUME TypeOK, [Next]_vars
    PROVE  TypeOK'
<1>1. CASE Next
  BY <1>1, TypeClient, TypeServe, TypeFlask DEF Next
<1>2. CASE UNCHANGED vars
  BY <1>2 DEF vars, handlerVars, threadVars, TypeOK
<1> QED
  BY <1>1, <1>2

\* Every variable of the gateway stays in its range, and the handlers between
\* admission check and first await exclude one another.
THEOREM TypeCorrect == Spec => []TypeOK
BY TypeInit, TypeStep, PTL DEF Spec

-----------------------------------------------------------------------------
(* The session limit *)

\* The admission check is still true when the session is inserted: the handler
\* holds the loop, and every other thread only removes sessions.
LimitInv ==
    /\ SessionLimit
    /\ \A c \in Conns : pc[c] = "insert" => Cardinality(sessions) < MaxSessions

\* The registry is finite, and removing sessions never raises its size.
LEMMA Shrinks ==
    ASSUME TypeOK, NEW S, S \subseteq sessions
    PROVE  /\ Cardinality(S) \in Nat /\ Cardinality(sessions) \in Nat
           /\ Cardinality(S) <= Cardinality(sessions)
<1>1. IsFiniteSet(sessions)
  BY GatewayAssumption, FS_Subset DEF TypeOK
<1> QED
  BY <1>1, FS_Subset, FS_CardinalityType

\* A step that inserts no session and passes no admission check keeps LimitInv.
LEMMA LimitKept ==
    ASSUME TypeOK, LimitInv, sessions' \subseteq sessions,
           \A c \in Conns : pc'[c] = "insert" => pc[c] = "insert"
    PROVE  LimitInv'
<1>1. Cardinality(sessions') <= Cardinality(sessions)
  BY Shrinks
<1>2. Cardinality(sessions) \in Nat /\ Cardinality(sessions') \in Nat
  BY Shrinks
<1> QED
  BY <1>1, <1>2, GatewayAssumption DEF LimitInv, SessionLimit

LEMMA LimitStep ==
    ASSUME TypeOK, LimitInv, [Next]_vars
    PROVE  LimitInv'
<1>1. ASSUME NEW c \in Conns, CheckLimit(c)
      PROVE  LimitInv'
  <2>1. sessions' = sessions /\ Cardinality(sessions) \in Nat
    BY <1>1, Shrinks DEF CheckLimit
  <2>2. \A d \in Conns : pc'[d] = "insert" =>
            pc[d] = "insert" \/ Cardinality(sessions) < MaxSessions
    BY <1>1, <2>1, GatewayAssumption DEF CheckLimit, Goto, TypeOK
  <2> QED
    BY <2>1, <2>2 DEF LimitInv, SessionLimit
<1>2. ASSUME NEW c \in Conns, Insert(c)
      PROVE  LimitInv'
  <2>1. /\ Cardinality(sessions) < MaxSessions
        /\ sessions' = sessions \cup {c}
        /\ \A d \in Conns : pc'[d] # "insert"
    BY <1>2, GatewayAssumption DEF Insert, Goto, LimitInv, TypeOK
  <2>2. IsFiniteSet(sessions) /\ Cardinality(sessions) \in Nat
    BY GatewayAssumption, FS_Subset, FS_CardinalityType DEF TypeOK
  <2>3. Cardinality(sessions') <= Cardinality(sessions) + 1
    BY <2>1, <2>2, FS_AddElement
  <2>4. Cardinality(sessions') \in Nat
    BY <2>1, <2>2, FS_AddElement, FS_CardinalityType
  <2> QED
    BY <2>1, <2>2, <2>3, <2>4, GatewayAssumption DEF LimitInv, SessionLimit
<1>3. ASSUME NEW c \in Conns, Client(c) \/ Refuse(c) \/ ChildEnds(c)
      PROVE  LimitInv'
  <2>1. sessions' \subseteq sessions /\ \A d \in Conns : pc'[d] = "insert" => pc[d] = "insert"
    BY <1>3 DEF Client, Open, Send, Disconnect, Refuse, ChildEnds, Step, Goto, handlerVars, TypeOK
  <2> QED
    BY <2>1, LimitKept
<1>4. ASSUME NEW c \in Conns, Serve(c), ~CheckLimit(c), ~Insert(c)
      PROVE  LimitInv'
  <2>1. sessions' \subseteq sessions
    BY <1>4 DEF Serve, CountSessions, HandlerDrops, Drop, RejectAtLimit, StartSession, Welcome,
                ReadMessage, CommandSent, Spawn, SpawnFails, Attach, CommandEnds, CommandTimesOut,
                Report, LeaveLoop, CloseSession
  <2>2. \/ pc' = pc
        \/ \E to \in HandlerPlaces \ {"insert"} : pc' = [pc EXCEPT ![c] = to]
    BY <1>4 DEF Serve, CountSessions, HandlerDrops, Drop, RejectAtLimit, StartSession, Welcome,
                ReadMessage, CommandSent, Spawn, SpawnFails, Attach, CommandEnds, CommandTimesOut,
                Report, LeaveLoop, CloseSession, Step, Goto, handlerVars, HandlerPlaces
  <2> QED
    BY <2>1, <2>2, LimitKept DEF TypeOK
<1>5. ASSUME NEW t \in Threads, Flask(t)
      PROVE  LimitInv'
  <2>1. sessions' \subseteq sessions /\ pc' = pc
    BY <1>5 DEF Flask, StatusScan, StatusDrops, Drop, StatusReturns, TerminateBegins,
                TerminateMarks, TerminateSignals, TerminatePops, handlerVars
  <2> QED
    BY <2>1, LimitKept
<1>6. CASE UNCHANGED vars
  BY <1>6, LimitKept DEF vars, handlerVars
<1> QED
  BY <1>1, <1>2, <1>3, <1>4, <1>5, <1>6 DEF Next

\* The registry never holds more than max_sessions sessions: for every limit
\* and any number of connections, status requests and terminate requests.
THEOREM SessionLimitHolds == Spec => []SessionLimit
<1>1. Init => LimitInv
  BY GatewayAssumption, FS_EmptySet DEF Init, LimitInv, SessionLimit
<1>2. TypeOK /\ LimitInv /\ [Next]_vars => LimitInv'
  BY LimitStep
<1>3. LimitInv => SessionLimit
  BY DEF LimitInv
<1> QED
  BY <1>1, <1>2, <1>3, TypeCorrect, PTL DEF Spec

-----------------------------------------------------------------------------
(* Ghosts and orphans *)

LEMMA GhostStep ==
    ASSUME TypeOK, NoGhostSessions, [Next]_vars
    PROVE  NoGhostSessions'
<1> USE DEF NoGhostSessions, Registered, Step, Goto, handlerVars
<1>1. ASSUME NEW c \in Conns, Client(c) \/ Refuse(c) \/ ChildEnds(c)
      PROVE  NoGhostSessions'
  BY <1>1 DEF Client, Open, Send, Disconnect, Refuse, ChildEnds, TypeOK
<1>2. ASSUME NEW c \in Conns, Serve(c)
      PROVE  NoGhostSessions'
  <2>1. CASE CountSessions(c) \/ HandlerDrops(c) \/ CheckLimit(c) \/ RejectAtLimit(c)
    BY <1>2, <2>1 DEF CountSessions, HandlerDrops, Drop, CheckLimit, RejectAtLimit, TypeOK
  <2>2. CASE Insert(c) \/ StartSession(c) \/ Welcome(c) \/ ReadMessage(c) \/ CommandSent(c)
    BY <2>2 DEF Insert, StartSession, Welcome, ReadMessage, CommandSent, TypeOK
  <2>3. CASE Spawn(c) \/ SpawnFails(c) \/ Attach(c) \/ CommandEnds(c) \/ CommandTimesOut(c) \/ Report(c)
    BY <2>3 DEF Spawn, SpawnFails, Attach, CommandEnds, CommandTimesOut, Report, TypeOK
  <2>4. CASE LeaveLoop(c) \/ CloseSession(c)
    BY <2>4 DEF LeaveLoop, CloseSession, TypeOK
  <2> QED
    BY <1>2, <2>1, <2>2, <2>3, <2>4 DEF Serve
<1>3. ASSUME NEW t \in Threads, Flask(t)
      PROVE  NoGhostSessions'
  BY <1>3 DEF Flask, StatusScan, StatusDrops, Drop, StatusReturns, TerminateBegins,
              TerminateMarks, TerminateSignals, TerminatePops
<1>4. CASE UNCHANGED vars
  BY <1>4 DEF vars
<1> QED
  BY <1>1, <1>2, <1>3, <1>4 DEF Next

\* A session is registered only while its handler is between create_session
\* and the end of its finally clause, whoever removes it.
THEOREM NoGhostSessionsHolds == Spec => []NoGhostSessions
<1>1. Init => NoGhostSessions
  BY DEF Init, NoGhostSessions
<1> QED
  BY <1>1, GhostStep, TypeCorrect, PTL DEF Spec

LEMMA OrphanStep ==
    ASSUME TypeOK, NoOrphanChild, [Next]_vars
    PROVE  NoOrphanChild'
<1> USE DEF NoOrphanChild, Step, Goto, Signal, handlerVars
<1>1. ASSUME NEW c \in Conns, Client(c) \/ Refuse(c) \/ ChildEnds(c)
      PROVE  NoOrphanChild'
  BY <1>1 DEF Client, Open, Send, Disconnect, Refuse, ChildEnds, TypeOK
<1>2. ASSUME NEW c \in Conns, Serve(c)
      PROVE  NoOrphanChild'
  <2>1. CASE HandlerDrops(c)
    BY <2>1 DEF HandlerDrops, Drop, TypeOK
  <2>2. CASE CountSessions(c) \/ CheckLimit(c) \/ RejectAtLimit(c) \/ Insert(c) \/ StartSession(c)
    BY <2>2 DEF CountSessions, CheckLimit, RejectAtLimit, Insert, StartSession, TypeOK
  <2>3. CASE Welcome(c) \/ ReadMessage(c) \/ CommandSent(c) \/ SpawnFails(c)
    BY <2>3 DEF Welcome, ReadMessage, CommandSent, SpawnFails, TypeOK
  <2>4. CASE Spawn(c) \/ Attach(c)
    BY <2>4 DEF Spawn, Attach, TypeOK
  <2>5. CASE CommandEnds(c) \/ CommandTimesOut(c) \/ Report(c)
    BY <2>5 DEF CommandEnds, CommandTimesOut, Report, TypeOK
  <2>6. CASE LeaveLoop(c) \/ CloseSession(c)
    BY <2>6 DEF LeaveLoop, CloseSession, TypeOK
  <2> QED
    BY <1>2, <2>1, <2>2, <2>3, <2>4, <2>5, <2>6 DEF Serve
<1>3. ASSUME NEW t \in Threads, Flask(t)
      PROVE  NoOrphanChild'
  BY <1>3 DEF Flask, StatusScan, StatusDrops, Drop, StatusReturns, TerminateBegins,
              TerminateMarks, TerminateSignals, TerminatePops, TypeOK
<1>4. CASE UNCHANGED vars
  BY <1>4 DEF vars
<1> QED
  BY <1>1, <1>2, <1>3, <1>4 DEF Next

\* No handler ends, or goes on to its next message, while its child runs.
THEOREM NoOrphanChildHolds == Spec => []NoOrphanChild
<1>1. Init => NoOrphanChild
  BY DEF Init, NoOrphanChild
<1> QED
  BY <1>1, OrphanStep, TypeCorrect, PTL DEF Spec
=============================================================================
