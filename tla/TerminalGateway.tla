--------------------------- MODULE TerminalGateway ---------------------------
(***************************************************************************)
(* The terminal gateway's session registry and the lives of its            *)
(* connections: handle_websocket of services/terminal_gateway.py,          *)
(* TerminalSessionManager of terminal_session.py and the child process     *)
(* each session runs.                                                      *)
(*                                                                         *)
(* Handlers are coroutines of one asyncio loop: they interleave with each  *)
(* other at awaits only (variable loop), but with the threads that serve   *)
(* Flask requests (/api/health through get_status, DELETE                  *)
(* /api/terminal/sessions/<id>) anywhere.  Nothing locks the registry.     *)
(*                                                                         *)
(* A connection is its session: create_session draws a fresh uuid.  Every  *)
(* message of a client is a command that spawns a child; what a session    *)
(* does with its messages is the module TerminalSession.                   *)
(***************************************************************************)
EXTENDS Naturals, FiniteSets

CONSTANTS
    Conns,        \* websocket connections
    Threads,      \* Flask request threads
    MaxSessions,  \* max_sessions (20)
    MaxBacklog,   \* bound of the model: commands a client sends
    NoConn        \* no handler runs on the loop

ASSUME GatewayAssumption ==
    /\ MaxSessions \in Nat \ {0}
    /\ MaxBacklog \in Nat
    /\ IsFiniteSet(Conns)
    /\ NoConn \notin Conns
    /\ Conns \cap Threads = {}

VARIABLES
    ws,        \* websocket state: "new", "open" or "closed"
    pc,        \* where each handler is
    loop,      \* the handler between two awaits, or NoConn
    sessions,  \* the keys of TerminalSessionManager.sessions
    running,   \* the sessions whose is_running is set
    child,     \* the child process of the session: "none", "alive", "signalled", "dead"
    attached,  \* the sessions whose self.process is set
    backlog,   \* messages the handler has not read
    sent,      \* messages the client sent
    tpc,       \* what each Flask thread is doing
    stale,     \* stale_ids of the thread or handler that prunes
    victim     \* the session a Flask thread terminates

handlerVars == <<pc, loop, backlog>>
threadVars == <<tpc, victim>>
vars == <<ws, handlerVars, sessions, running, child, attached, sent, threadVars, stale>>

HandlerPlaces ==
    {"new", "handshake", "prune", "limit", "insert", "start", "welcome", "serving",
     "sending", "spawning", "spawned", "waiting", "reporting", "closing", "done"}

ThreadPlaces == {"idle", "prune", "mark", "signal", "pop"}

\* Handlers inside handle_websocket after create_session has put the session
\* into the registry.
Registered == {"start", "welcome", "serving", "sending", "spawning", "spawned",
               "waiting", "reporting", "closing"}

Init ==
    /\ ws = [c \in Conns |-> "new"]
    /\ pc = [c \in Conns |-> "new"]
    /\ loop = NoConn
    /\ sessions = {} /\ running = {} /\ attached = {}
    /\ child = [c \in Conns |-> "none"]
    /\ backlog = [c \in Conns |-> 0]
    /\ sent = [c \in Conns |-> 0]
    /\ tpc = [t \in Threads |-> "idle"]
    /\ victim = [t \in Threads |-> NoConn]
    /\ stale = [a \in Conns \cup Threads |-> {}]

-----------------------------------------------------------------------------
(* Shared steps *)

Goto(c, place) == pc' = [pc EXCEPT ![c] = place]

\* The loop resumes c from an await, and c reaches the next await (or its end).
Step(c, from, to) == pc[c] = from /\ loop = NoConn /\ Goto(c, to) /\ UNCHANGED loop

\* What send_message leaves of is_running: False once the socket is gone.
AfterSend(c) == IF ws[c] = "open" THEN running ELSE running \ {c}

\* Popen.terminate: a child that has ended ignores it.
Signal(c) == IF child[c] = "alive" THEN [child EXCEPT ![c] = "signalled"] ELSE child

\* The sessions _prune_stale_sessions takes for ghosts.
Stale == {c \in sessions : c \notin running \/ ws[c] = "closed"}

\* One iteration of _prune_stale_sessions' second loop by actor a.
Drop(a, c) ==
    /\ c \in stale[a]
    /\ stale' = [stale EXCEPT ![a] = @ \ {c}]
    /\ sessions' = sessions \ {c}
    /\ child' = IF c \in sessions /\ c \in attached THEN Signal(c) ELSE child

-----------------------------------------------------------------------------
(* The client *)

Open(c) ==
    /\ ws[c] = "new"
    /\ ws' = [ws EXCEPT ![c] = "open"]
    /\ Goto(c, "handshake")
    /\ UNCHANGED <<loop, backlog, sessions, running, child, attached, sent, threadVars, stale>>

Send(c) ==
    /\ ws[c] = "open" /\ sent[c] < MaxBacklog
    /\ sent' = [sent EXCEPT ![c] = @ + 1]
    /\ backlog' = [backlog EXCEPT ![c] = @ + 1]
    /\ UNCHANGED <<ws, pc, loop, sessions, running, child, attached, threadVars, stale>>

\* The page is reloaded, the network fails, or the tab closes the socket.
Disconnect(c) ==
    /\ ws[c] = "open"
    /\ ws' = [ws EXCEPT ![c] = "closed"]
    /\ UNCHANGED <<handlerVars, sessions, running, child, attached, sent, threadVars, stale>>

-----------------------------------------------------------------------------
(* handle_websocket *)

\* The rate limit or the authorization turns the client away, and the handler
\* closes the socket.
Refuse(c) ==
    /\ Step(c, "handshake", "done")
    /\ ws' = [ws EXCEPT ![c] = "closed"]
    /\ UNCHANGED <<backlog, sessions, running, child, attached, sent, threadVars, stale>>

\* Accepted: no await from here to the welcome message.  get_session_count
\* begins with _prune_stale_sessions.
CountSessions(c) ==
    /\ pc[c] = "handshake" /\ loop = NoConn
    /\ stale' = [stale EXCEPT ![c] = Stale]
    /\ loop' = c
    /\ Goto(c, "prune")
    /\ UNCHANGED <<ws, backlog, sessions, running, child, attached, sent, threadVars>>

HandlerDrops(c) ==
    /\ pc[c] = "prune"
    /\ \E s \in Conns : Drop(c, s)
    /\ UNCHANGED <<ws, handlerVars, running, attached, sent, threadVars>>

CheckLimit_LetsOneMore(c) ==   \* fault: > for >=
    /\ pc[c] = "prune" /\ stale[c] = {}
    /\ Goto(c, IF Cardinality(sessions) > MaxSessions THEN "limit" ELSE "insert")
    /\ UNCHANGED <<ws, loop, backlog, sessions, running, child, attached, sent, threadVars, stale>>

CheckLimit_Awaits(c) ==   \* fault: an await between the check and the insertion
    /\ pc[c] = "prune" /\ stale[c] = {}
    /\ Goto(c, IF Cardinality(sessions) >= MaxSessions THEN "limit" ELSE "insert")
    /\ loop' = NoConn
    /\ UNCHANGED <<ws, backlog, sessions, running, child, attached, sent, threadVars, stale>>

CheckLimit(c) ==
    /\ pc[c] = "prune" /\ stale[c] = {}
    /\ Goto(c, IF Cardinality(sessions) >= MaxSessions THEN "limit" ELSE "insert")
    /\ UNCHANGED <<ws, loop, backlog, sessions, running, child, attached, sent, threadVars, stale>>

RejectAtLimit(c) ==
    /\ pc[c] = "limit"
    /\ loop' = NoConn
    /\ ws' = [ws EXCEPT ![c] = "closed"]
    /\ Goto(c, "done")
    /\ UNCHANGED <<backlog, sessions, running, child, attached, sent, threadVars, stale>>

\* self.sessions[session_id] = session: is_running is still False.
Insert(c) ==
    /\ pc[c] = "insert"
    /\ sessions' = sessions \cup {c}
    /\ Goto(c, "start")
    /\ UNCHANGED <<ws, loop, backlog, running, child, attached, sent, threadVars, stale>>

\* start_session, up to its await.
StartSession(c) ==
    /\ pc[c] = "start"
    /\ running' = running \cup {c}
    /\ loop' = NoConn
    /\ Goto(c, "welcome")
    /\ UNCHANGED <<ws, backlog, sessions, child, attached, sent, threadVars, stale>>

\* The welcome was sent or could not be; "connected" is published either way.
Welcome(c) ==
    /\ Step(c, "welcome", "serving")
    /\ running' = AfterSend(c)
    /\ UNCHANGED <<ws, backlog, sessions, child, attached, sent, threadVars, stale>>

\* handle_message: a session that is no longer registered ignores its client.
ReadMessage(c) ==
    /\ Step(c, "serving", IF c \in sessions THEN "sending" ELSE "serving")
    /\ backlog[c] > 0
    /\ backlog' = [backlog EXCEPT ![c] = @ - 1]
    /\ UNCHANGED <<ws, sessions, running, child, attached, sent, threadVars, stale>>

\* command_sent has been sent; create_subprocess_exec begins.
CommandSent(c) ==
    /\ Step(c, "sending", "spawning")
    /\ running' = AfterSend(c)
    /\ UNCHANGED <<ws, backlog, sessions, child, attached, sent, threadVars, stale>>

\* The child exists before create_subprocess_exec returns to the handler.
Spawn(c) ==
    /\ Step(c, "spawning", "spawned")
    /\ child' = [child EXCEPT ![c] = "alive"]
    /\ UNCHANGED <<ws, backlog, sessions, running, attached, sent, threadVars, stale>>

\* No child is started (no such program): only an error is sent.
SpawnFails(c) ==
    /\ Step(c, "spawning", "serving")
    /\ running' = AfterSend(c)
    /\ UNCHANGED <<ws, backlog, sessions, child, attached, sent, threadVars, stale>>

\* self.process = process, and the wait for its end or the timeout.
Attach(c) ==
    /\ Step(c, "spawned", "waiting")
    /\ attached' = attached \cup {c}
    /\ UNCHANGED <<ws, backlog, sessions, running, child, sent, threadVars, stale>>

\* The child ends by itself, or of the signal it got.
ChildEnds(c) ==
    /\ child[c] \in {"alive", "signalled"}
    /\ child' = [child EXCEPT ![c] = "dead"]
    /\ UNCHANGED <<ws, handlerVars, sessions, running, attached, sent, threadVars, stale>>

\* communicate() returns: the finally clause detaches the process.
CommandEnds(c) ==
    /\ Step(c, "waiting", "reporting")
    /\ child[c] = "dead"
    /\ attached' = attached \ {c}
    /\ UNCHANGED <<ws, backlog, sessions, running, child, sent, threadVars, stale>>

CommandTimesOut_SignalOnly(c) ==   \* fault: no kill after an ignored terminate
    /\ Step(c, "waiting", "reporting")
    /\ child[c] # "dead"
    /\ child' = Signal(c)
    /\ attached' = attached \ {c}
    /\ UNCHANGED <<ws, backlog, sessions, running, sent, threadVars, stale>>

CommandTimesOut_TrustsSignal(c) ==   \* fault: no timeout for a child already signalled
    /\ Step(c, "waiting", "reporting")
    /\ child[c] = "alive"
    /\ child' = [child EXCEPT ![c] = "dead"]
    /\ attached' = attached \ {c}
    /\ UNCHANGED <<ws, backlog, sessions, running, sent, threadVars, stale>>

\* COMMAND_TIMEOUT_SECONDS have passed: _terminate_process ends with a kill
\* that no child survives.
CommandTimesOut(c) ==
    /\ Step(c, "waiting", "reporting")
    /\ child[c] # "dead"
    /\ child' = [child EXCEPT ![c] = "dead"]
    /\ attached' = attached \ {c}
    /\ UNCHANGED <<ws, backlog, sessions, running, sent, threadVars, stale>>

\* command_result has been sent, or could not be.
Report(c) ==
    /\ Step(c, "reporting", "serving")
    /\ running' = AfterSend(c)
    /\ UNCHANGED <<ws, backlog, sessions, child, attached, sent, threadVars, stale>>

\* The socket is closed and its messages are read: the finally clause.  A
\* session that is still registered is closed, which awaits a last send; the
\* handler reads no message while a command runs, so there is no process here.
LeaveLoop(c) ==
    /\ Step(c, "serving", IF c \in sessions THEN "closing" ELSE "done")
    /\ ws[c] = "closed" /\ backlog[c] = 0
    /\ running' = IF c \in sessions THEN running \ {c} ELSE running
    /\ UNCHANGED <<ws, backlog, sessions, child, attached, sent, threadVars, stale>>

CloseSession_KeepsEntry(c) ==   \* fault: the session is closed, not deleted
    /\ Step(c, "closing", "done")
    /\ UNCHANGED <<ws, backlog, sessions, running, child, attached, sent, threadVars, stale>>

\* del self.sessions[session_id], or the KeyError of a session pruned or
\* terminated during the await: the handler ends both ways.
CloseSession(c) ==
    /\ Step(c, "closing", "done")
    /\ sessions' = sessions \ {c}
    /\ UNCHANGED <<ws, backlog, running, child, attached, sent, threadVars, stale>>

-----------------------------------------------------------------------------
(* Flask threads *)

\* get_status: get_session_count from another thread.
StatusScan(t) ==
    /\ tpc[t] = "idle"
    /\ stale' = [stale EXCEPT ![t] = Stale]
    /\ tpc' = [tpc EXCEPT ![t] = "prune"]
    /\ UNCHANGED <<ws, handlerVars, sessions, running, child, attached, sent, victim>>

StatusDrops(t) ==
    /\ tpc[t] = "prune"
    /\ \E s \in Conns : Drop(t, s)
    /\ UNCHANGED <<ws, handlerVars, running, attached, sent, threadVars>>

StatusReturns(t) ==
    /\ tpc[t] = "prune" /\ stale[t] = {}
    /\ tpc' = [tpc EXCEPT ![t] = "idle"]
    /\ UNCHANGED <<ws, handlerVars, sessions, running, child, attached, sent, victim, stale>>

\* terminate_session: an unknown session is a 404 that changes nothing.
TerminateBegins(t, c) ==
    /\ tpc[t] = "idle" /\ c \in sessions
    /\ victim' = [victim EXCEPT ![t] = c]
    /\ tpc' = [tpc EXCEPT ![t] = "mark"]
    /\ UNCHANGED <<ws, handlerVars, sessions, running, child, attached, sent, stale>>

TerminateMarks(t) ==
    /\ tpc[t] = "mark"
    /\ running' = running \ {victim[t]}
    /\ tpc' = [tpc EXCEPT ![t] = "signal"]
    /\ UNCHANGED <<ws, handlerVars, sessions, child, attached, sent, victim, stale>>

TerminateSignals(t) ==
    /\ tpc[t] = "signal"
    /\ child' = IF victim[t] \in attached THEN Signal(victim[t]) ELSE child
    /\ tpc' = [tpc EXCEPT ![t] = "pop"]
    /\ UNCHANGED <<ws, handlerVars, sessions, running, attached, sent, victim, stale>>

\* The websocket of the victim stays open and its handler stays in its loop.
TerminatePops(t) ==
    /\ tpc[t] = "pop"
    /\ sessions' = sessions \ {victim[t]}
    /\ victim' = [victim EXCEPT ![t] = NoConn]
    /\ tpc' = [tpc EXCEPT ![t] = "idle"]
    /\ UNCHANGED <<ws, handlerVars, running, child, attached, sent, stale>>

-----------------------------------------------------------------------------
Client(c) == Open(c) \/ Send(c) \/ Disconnect(c)

\* What the loop does with connection c: every step but the refusal, which is
\* a choice of the rate limiter and the password.
Serve(c) ==
    \/ CountSessions(c) \/ HandlerDrops(c) \/ CheckLimit(c) \/ RejectAtLimit(c)
    \/ Insert(c) \/ StartSession(c) \/ Welcome(c)
    \/ ReadMessage(c) \/ CommandSent(c) \/ Spawn(c) \/ SpawnFails(c) \/ Attach(c)
    \/ CommandEnds(c) \/ CommandTimesOut(c) \/ Report(c)
    \/ LeaveLoop(c) \/ CloseSession(c)

Flask(t) ==
    \/ StatusScan(t) \/ StatusDrops(t) \/ StatusReturns(t)
    \/ \E c \in Conns : TerminateBegins(t, c)
    \/ TerminateMarks(t) \/ TerminateSignals(t) \/ TerminatePops(t)

Next ==
    \/ \E c \in Conns : Client(c) \/ Serve(c) \/ Refuse(c) \/ ChildEnds(c)
    \/ \E t \in Threads : Flask(t)

Spec == Init /\ [][Next]_vars

\* asyncio runs every ready coroutine and the command timeout fires; nothing
\* is assumed of clients, children or requests.
FairSpec == Spec /\ \A c \in Conns : SF_vars(Serve(c) \/ Refuse(c))

-----------------------------------------------------------------------------
(* Properties *)

\* Every variable stays in its range, and the loop is held exactly by the
\* handler that is between its admission check and its first await.
TypeOK ==
    /\ ws \in [Conns -> {"new", "open", "closed"}]
    /\ pc \in [Conns -> HandlerPlaces]
    /\ loop \in Conns \cup {NoConn}
    /\ \A c \in Conns : pc[c] \in {"prune", "limit", "insert", "start"} <=> loop = c
    /\ sessions \subseteq Conns /\ running \subseteq Conns /\ attached \subseteq Conns
    /\ child \in [Conns -> {"none", "alive", "signalled", "dead"}]
    /\ \A c \in Conns : ws[c] = "new" <=> pc[c] = "new"
    /\ backlog \in [Conns -> 0 .. MaxBacklog]
    /\ sent \in [Conns -> 0 .. MaxBacklog]
    /\ \A c \in Conns : backlog[c] <= sent[c]
    /\ tpc \in [Threads -> ThreadPlaces]
    /\ victim \in [Threads -> Conns \cup {NoConn}]
    /\ stale \in [Conns \cup Threads -> SUBSET Conns]

\* The registry never holds more than max_sessions sessions, although the check
\* and the insertion are two steps and other threads prune between them: no
\* await separates the two, and only the loop inserts.
SessionLimit == Cardinality(sessions) <= MaxSessions

\* No ghost: a session is registered only while the handler of its connection
\* is between create_session and the end of its finally clause, whichever of
\* handler, status request and terminate request removes it, and in any order.
NoGhostSessions == \A c \in sessions : pc[c] \in Registered

\* No handler leaves a child behind: a child runs only while its handler waits
\* for it, also when the session was pruned or terminated meanwhile.
NoOrphanChild ==
    \A c \in Conns : child[c] \in {"alive", "signalled"} => pc[c] \in {"spawned", "waiting"}

\* The handler of a connection that is gone ends, whatever its command does.
GoneHandlersEnd == \A c \in Conns : ws[c] = "closed" ~> pc[c] = "done"

\* Every child ends, also one that ignores the signals sent to it.
ChildrenEnd == \A c \in Conns : child[c] = "alive" ~> child[c] = "dead"

\* The docstring of _prune_stale_sessions: "Remove sessions whose WebSocket has
\* already disconnected."  A session nobody terminates is pruned only then.
PrunesOnlyDisconnected ==
    [][\A c \in sessions : (\E a \in Conns \cup Threads : Drop(a, c)) =>
          ws[c] = "closed" \/ \E t \in Threads : victim[t] = c]_vars
=============================================================================
