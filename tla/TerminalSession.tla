---------------------------- MODULE TerminalSession ----------------------------
(***************************************************************************)
(* The message protocol of one terminal tab: the hook useTerminalSession.js*)
(* on one side, on the other the loop of handle_websocket with             *)
(* handle_message of terminal_session.py and the executor of               *)
(* terminal_command_executor.py.                                           *)
(*                                                                         *)
(* Connections are the successive websockets of the tab, each with a       *)
(* session of its own; the prompt and the history of the tab outlive them. *)
(* Messages of one connection arrive in order.  The loop awaits the whole  *)
(* handling of a message before it reads the next, so one session does one *)
(* thing at a time; nothing else writes its confirmation state.  A session *)
(* can leave the manager's registry while its connection stays open: what  *)
(* arrives from then on is ignored.                                        *)
(*                                                                         *)
(* A command is typed once: equal lines are different commands here.       *)
(***************************************************************************)
EXTENDS Naturals, SequencesExt

CONSTANTS
    Commands,     \* the lines the user types
    Unknown,      \* those with policy.requires_confirmation
    Blocked,      \* those with policy.status "blocked"
    Connections,  \* bound of the model: connections of a patient user's tab
    MaxInbox,     \* bound of the model: messages sent and not yet handled
    NoCommand

ASSUME CommandsAssumption ==
    /\ Unknown \subseteq Commands /\ Blocked \subseteq Commands
    /\ Unknown \cap Blocked = {}
    /\ NoCommand \notin Commands
    /\ Connections \in Nat \ {0} /\ MaxInbox \in Nat \ {0}

Sessions == 1 .. Connections

VARIABLES
    patient,     \* the user types only into a quiet terminal
    conn,        \* the tab's latest connection
    up,          \* connected: the welcome came and the socket is open
    prompt,      \* confirmCommandPrompt
    history,     \* the commands of the hook's history
    registered,  \* TerminalSessionManager.sessions
    inbox,       \* messages on their way to each session
    outbox,      \* messages on their way from the tab's session
    pc,          \* what each session is doing
    current,     \* the command it executes
    process,     \* self.process: the command whose child runs
    pending,     \* pending_command
    confirming,  \* confirmation_pending
    accepted,    \* commands whose prompt the user accepted (aux.)
    ran,         \* commands whose execution began (aux.)
    answered     \* commands the backend prompted for, ran or refused (aux.)

clientVars == <<patient, conn, up, prompt, history, accepted>>
sessionVars == <<pc, current, process, pending, confirming, ran, answered>>
vars == <<clientVars, registered, inbox, outbox, sessionVars>>

Init ==
    /\ patient \in BOOLEAN
    /\ conn = 1 /\ up = TRUE
    /\ prompt = NoCommand
    /\ history = {}
    /\ registered = {1}
    /\ inbox = [k \in Sessions |-> <<>>]
    /\ outbox = <<>>
    /\ pc = [k \in Sessions |-> "reading"]
    /\ current = [k \in Sessions |-> NoCommand]
    /\ process = [k \in Sessions |-> NoCommand]
    /\ pending = [k \in Sessions |-> NoCommand]
    /\ confirming = [k \in Sessions |-> FALSE]
    /\ accepted = {} /\ ran = {} /\ answered = {}

-----------------------------------------------------------------------------
(* The tab *)

Message(kind, c) == [kind |-> kind, command |-> c]

\* wsRef.current.send, to the session of this connection.
Transmit(kind, c) ==
    /\ Len(inbox[conn]) < MaxInbox
    /\ inbox' = [inbox EXCEPT ![conn] = Append(@, Message(kind, c))]

\* Nothing is asked, on its way or being done: a user who waits for the answer to
\* each command types the next only then, or after waiting for one in vain.
Quiet == prompt = NoCommand /\ inbox[conn] = <<>> /\ outbox = <<>> /\ pc[conn] = "reading"

\* sendCommand: neither a shown prompt nor a running command stops it.
SendCommand(c) ==
    /\ up /\ c \notin history
    /\ patient => Quiet
    /\ Transmit("execute", c)
    /\ history' = history \cup {c}
    /\ UNCHANGED <<patient, conn, up, prompt, accepted, outbox, registered, sessionVars>>

\* confirmPendingCommand: the message does not name the command; without a
\* connection only the prompt goes.
AnswerPrompt(kind) ==
    /\ prompt # NoCommand
    /\ IF up THEN Transmit(kind, NoCommand) ELSE UNCHANGED inbox
    /\ accepted' = IF kind = "accept" THEN accepted \cup {prompt} ELSE accepted
    /\ prompt' = NoCommand
    /\ UNCHANGED <<patient, conn, up, history, outbox, registered, sessionVars>>

\* interruptCommand: Ctrl-C or the button.
InterruptCommand ==
    /\ up
    /\ Transmit("interrupt", NoCommand)
    /\ UNCHANGED <<clientVars, outbox, registered, sessionVars>>

\* handleMessage: but for the prompt, a message changes only the output and the
\* status shown beside an entry of the history, which nothing depends on.
Receive ==
    /\ up /\ outbox # <<>>
    /\ outbox' = Tail(outbox)
    /\ prompt' = IF Head(outbox).kind = "prompt" THEN Head(outbox).command ELSE prompt
    /\ UNCHANGED <<patient, conn, up, history, accepted, inbox, registered, sessionVars>>

\* The connection fails: what it carried may be lost, from some message on.
Drop ==
    /\ up
    /\ up' = FALSE
    /\ outbox' = <<>>
    /\ \E n \in 0 .. Len(inbox[conn]) : inbox' = [inbox EXCEPT ![conn] = SubSeq(@, 1, n)]
    /\ UNCHANGED <<patient, conn, prompt, history, accepted, registered, sessionVars>>

\* scheduleReconnect, connectWebSocket, up to the welcome.
Reconnect ==
    /\ ~up /\ patient /\ conn < Connections
    /\ conn' = conn + 1
    /\ up' = TRUE
    /\ registered' = registered \cup {conn'}
    /\ UNCHANGED <<patient, prompt, history, accepted, inbox, outbox, sessionVars>>

-----------------------------------------------------------------------------
(* Session k *)

\* send_message: lost unless k is the session of an open connection.
Reply(k, messages) == outbox' = IF up /\ k = conn THEN outbox \o messages ELSE outbox

\* The loop has the next message.
Takes(k) ==
    /\ pc[k] = "reading" /\ inbox[k] # <<>>
    /\ inbox' = [inbox EXCEPT ![k] = Tail(@)]

\* handle_message finds its session, and the message is of this kind.
Reads(k, kind) ==
    /\ k \in registered
    /\ Takes(k)
    /\ Head(inbox[k]).kind = kind

\* _execute_command_internal begins.
Execute(k, c) ==
    /\ pc' = [pc EXCEPT ![k] = "starting"]
    /\ current' = [current EXCEPT ![k] = c]
    /\ ran' = ran \cup {c}
    /\ Reply(k, <<Message("sent", c)>>)

Idle(k) == UNCHANGED <<pc, current, process, ran>>

\* handle_message without a session: the message is gone, and nobody is told.
IgnoreMessage(k) ==
    /\ k \notin registered
    /\ Takes(k)
    /\ UNCHANGED <<outbox, sessionVars, registered, clientVars>>

\* execute_command: blocked.
RefuseCommand(k) ==
    /\ Reads(k, "execute")
    /\ LET c == Head(inbox[k]).command
       IN  /\ c \in Blocked
           /\ Reply(k, <<Message("error", c), Message("result", c)>>)
           /\ answered' = answered \cup {c}
    /\ Idle(k)
    /\ UNCHANGED <<pending, confirming, registered, clientVars>>

\* execute_command: confirmation required.  A command that still waits for its
\* confirmation is forgotten.
AskConfirmation(k) ==
    /\ Reads(k, "execute")
    /\ LET c == Head(inbox[k]).command
       IN  /\ c \in Unknown
           /\ pending' = [pending EXCEPT ![k] = c]
           /\ Reply(k, <<Message("prompt", c)>>)
           /\ answered' = answered \cup {c}
    /\ confirming' = [confirming EXCEPT ![k] = TRUE]
    /\ Idle(k)
    /\ UNCHANGED <<registered, clientVars>>

\* execute_command: allowed.
RunCommand(k) ==
    /\ Reads(k, "execute")
    /\ LET c == Head(inbox[k]).command
       IN  c \notin Unknown \cup Blocked /\ Execute(k, c)
    /\ UNCHANGED <<process, pending, confirming, answered, registered, clientVars>>

\* confirm_pending_command(True).
RunConfirmed(k) ==
    /\ Reads(k, "accept")
    /\ confirming[k]
    /\ confirming' = [confirming EXCEPT ![k] = FALSE]
    /\ Execute(k, pending[k])
    /\ UNCHANGED <<process, pending, answered, registered, clientVars>>

\* confirm_pending_command(False).
CancelConfirmed_Runs(k) ==   \* fault: the answer is not looked at
    /\ Reads(k, "cancel")
    /\ confirming[k]
    /\ confirming' = [confirming EXCEPT ![k] = FALSE]
    /\ Execute(k, pending[k])
    /\ UNCHANGED <<process, pending, answered, registered, clientVars>>

CancelConfirmed(k) ==
    /\ Reads(k, "cancel")
    /\ confirming[k]
    /\ confirming' = [confirming EXCEPT ![k] = FALSE]
    /\ pending' = [pending EXCEPT ![k] = NoCommand]
    /\ Reply(k, <<Message("result", pending[k])>>)
    /\ Idle(k)
    /\ UNCHANGED <<answered, registered, clientVars>>

\* confirm_pending_command when nothing waits for one.
IgnoreAnswer(k) ==
    /\ Reads(k, "accept") \/ Reads(k, "cancel")
    /\ ~confirming[k]
    /\ Idle(k)
    /\ UNCHANGED <<outbox, pending, confirming, answered, registered, clientVars>>

\* interrupt_command: a signal for the child, if there is one.
HandleInterrupt(k) ==
    /\ Reads(k, "interrupt")
    /\ UNCHANGED <<outbox, pc, current, process, pending, confirming, ran, answered, registered, clientVars>>

\* create_subprocess_exec.
StartChild(k) ==
    /\ pc[k] = "starting"
    /\ pc' = [pc EXCEPT ![k] = "running"]
    /\ process' = [process EXCEPT ![k] = current[k]]
    /\ UNCHANGED <<current, pending, confirming, ran, answered, inbox, outbox, registered, clientVars>>

Finish_KeepsProcess(k) ==   \* fault: no finally clause around the wait
    /\ pc' = [pc EXCEPT ![k] = "reading"]
    /\ current' = [current EXCEPT ![k] = NoCommand]
    /\ pending' = IF pending[k] = current[k] THEN [pending EXCEPT ![k] = NoCommand] ELSE pending
    /\ answered' = answered \cup {current[k]}
    /\ UNCHANGED <<process, confirming, ran, inbox, registered, clientVars>>

\* The handling of the message ends; after a confirmation, and only then, the
\* pending command is the one that ran.
Finish(k) ==
    /\ pc' = [pc EXCEPT ![k] = "reading"]
    /\ process' = [process EXCEPT ![k] = NoCommand]
    /\ current' = [current EXCEPT ![k] = NoCommand]
    /\ pending' = IF pending[k] = current[k] THEN [pending EXCEPT ![k] = NoCommand] ELSE pending
    /\ answered' = answered \cup {current[k]}
    /\ UNCHANGED <<confirming, ran, inbox, registered, clientVars>>

\* A command without a child (cd, the builtins, a line that does not parse), or
\* one whose child exits.
Complete(k) ==
    /\ pc[k] \in {"starting", "running"}
    /\ Reply(k, <<Message("result", current[k])>>)
    /\ Finish(k)

\* The program does not exist: an error that names neither command nor reason,
\* and no command_result.
FailToStart(k) ==
    /\ pc[k] = "starting"
    /\ Finish(k)
    /\ UNCHANGED outbox

\* COMMAND_TIMEOUT_SECONDS.
TimeOut_NotConfirmed(k) ==   \* fault: a confirmed command is trusted to end
    /\ pc[k] = "running" /\ current[k] # pending[k]
    /\ Reply(k, <<Message("result", current[k])>>)
    /\ Finish(k)

TimeOut(k) ==
    /\ pc[k] = "running"
    /\ Reply(k, <<Message("result", current[k])>>)
    /\ Finish(k)

-----------------------------------------------------------------------------
(* The registry *)

\* terminate_session, or a status request that prunes the session before it has
\* started or once its connection is gone.  The websocket stays as it is; a
\* child is signalled, and may exit (Complete) or not.
Unregister(k) ==
    /\ k \in registered
    /\ registered' = registered \ {k}
    /\ UNCHANGED <<clientVars, inbox, outbox, sessionVars>>

-----------------------------------------------------------------------------
Tab ==
    \/ \E c \in Commands : SendCommand(c)
    \/ AnswerPrompt("accept") \/ AnswerPrompt("cancel")
    \/ InterruptCommand
    \/ Receive
    \/ Drop \/ Reconnect

Handle(k) ==
    \/ RefuseCommand(k) \/ AskConfirmation(k) \/ RunCommand(k)
    \/ RunConfirmed(k) \/ CancelConfirmed(k) \/ IgnoreAnswer(k)
    \/ HandleInterrupt(k) \/ IgnoreMessage(k)

Next ==
    \/ Tab
    \/ \E k \in Sessions : Handle(k) \/ StartChild(k) \/ Complete(k) \/ FailToStart(k) \/ TimeOut(k)
    \/ \E k \in Sessions : Unregister(k)

Spec == Init /\ [][Next]_vars

\* The loop reads on, a command starts or fails to, and the timeout fires.
\* Nothing is assumed of the user, the network or the children.
FairSpec ==
    /\ Spec
    /\ \A k \in Sessions :
          /\ WF_vars(Handle(k))
          /\ WF_vars(StartChild(k) \/ FailToStart(k))
          /\ WF_vars(TimeOut(k))

-----------------------------------------------------------------------------
(* Properties *)

ToSession == [kind : {"execute", "accept", "cancel", "interrupt"}, command : Commands \cup {NoCommand}]

ToTab == [kind : {"sent", "prompt", "result", "error"}, command : Commands]

\* Every variable stays in its range; a session is registered only once its
\* connection has been made; it has a child only while it runs
\* a command, and waits for a confirmation only of a command.
TypeOK ==
    /\ conn \in Sessions /\ up \in BOOLEAN
    /\ prompt \in Commands \cup {NoCommand}
    /\ history \subseteq Commands
    /\ registered \subseteq 1 .. conn
    /\ inbox \in [Sessions -> Seq(ToSession)]
    /\ outbox \in Seq(ToTab)
    /\ pc \in [Sessions -> {"reading", "starting", "running"}]
    /\ current \in [Sessions -> Commands \cup {NoCommand}]
    /\ process \in [Sessions -> Commands \cup {NoCommand}]
    /\ pending \in [Sessions -> Commands \cup {NoCommand}]
    /\ confirming \in [Sessions -> BOOLEAN]
    /\ accepted \subseteq Commands /\ ran \subseteq Commands
    /\ answered \subseteq Commands
    /\ \A k \in Sessions :
          /\ pc[k] # "reading" <=> current[k] # NoCommand
          /\ process[k] = IF pc[k] = "running" THEN current[k] ELSE NoCommand
          /\ confirming[k] => pending[k] # NoCommand

\* A command outside the allowlist runs only if the user accepted its own
\* prompt.  The confirm message names no command, so this rests on the user:
\* it holds for one who waits for each answer, across reconnections too.
ConfirmedOnly == patient => ran \cap Unknown \subseteq accepted

\* Every command that is sent is answered (prompt, result or error): no command,
\* however long it hangs, blocks its successors.  Two things release the backend
\* of the answer: the connection drops, or the session is terminated or pruned,
\* after which handle_message ignores the open connection without a word.
EveryCommandAnswered ==
    \A c \in Commands :
        up /\ Contains(inbox[conn], Message("execute", c))
            ~> c \in answered \/ ~up \/ conn \notin registered

\* The docstring of interrupt_command: "Send an interrupt signal to the running
\* command."  No command runs into its timeout with an interrupt sent and
\* undelivered.
InterruptReachesCommand ==
    [][\A k \in Sessions :
          TimeOut(k) => ~Contains(inbox[k], Message("interrupt", NoCommand))]_vars
=============================================================================
