# DevControl Dashboard in TLA+

TLA+ modules, TLC runs and TLAPS proofs for the DevControl Dashboard: a Flask
backend that publishes telemetry and action events over one SSE stream, runs
terminal commands over websockets and stops processes on request, and a React
page that follows the stream and talks to the terminal.

The project models the places where several actors meet: the in-process event
hub, the page that resumes its stream from it, the terminal gateway with its
registry and child processes, the protocol of one terminal tab and the sockets
and timers under it, the dialogs that stop processes, the process list, and the
shell of the page with its tabs, settings and copies in localStorage.
`PROJECT.json` lists components, runs, mutants, the line map, findings, hazards
and theorems; this file explains them.

## 1. The system

```
 telemetry thread --publish--+
 Flask request threads ------+--> LiveUpdateHub --queue--> SSE generator --> EventSource --> page
 terminal gateway loop ------+        (app.py stream_events)           DashboardStreamContext.jsx

 page --websocket--> handle_websocket --> TerminalSessionManager --> TerminalCommandExecutor --> child
 (useTerminalSession.js)                   ^ get_status / terminate_session (Flask threads)
```

Three kinds of concurrency matter. Flask serves each request on a thread of its
own; the terminal gateway is an asyncio loop on one more thread; telemetry is
another thread. The page is single-threaded, but its callbacks (socket events,
timers, React effects, answers to requests) run in any order, and the user goes
on between them.

### Inventory

| component | state | operations | what is hard | what makes it correct |
|---|---|---|---|---|
| Live update hub (`backend/services/live_update_hub.py`) | `_event_ids`, `_history`, `_subscribers`, one `queue.Queue` each | `publish`, `subscribe`, `unsubscribe` | id drawn outside the lock; queues filled and drained outside it; `queue.Full` can leave `publish` | no duplicate, no loss without a notice, order, bounds |
| SSE endpoint (`backend/app.py` `stream_events`) | the generator of a connection | replay, live loop, keep-alive, `finally` | subscription and generator have different lives | replay and live part join without gap or overlap |
| Dashboard stream client (`DashboardStreamContext.jsx`) | `lastEventIdRef`, `lastHeartbeat`, source, backoff | connect, listeners, `onerror`, watchdog, `restartStream` | resume, restart of the backend, remount, notices without an id | takes each event once, skips none silently, recovers |
| Gateway and registry (`terminal_gateway.py`, `TerminalSessionManager`) | `sessions`, `is_running`, `process` | admission, create, start, close, prune, terminate | no lock; Flask threads act between any two steps of a handler | limit, no ghost, no orphan child, everything ends |
| Session protocol (`terminal_session.py`, `terminal_command_executor.py`) | `pending_command`, `confirmation_pending`, `process` | execute, confirm, cancel, interrupt, timeout | one message at a time; confirmation names no command | unknown commands need their own confirmation; every command of a registered session is answered |
| Terminal hook (`useTerminalSession.js`) | `wsRef`, `intentionalCloseRef`, retry timer, prompt, history | connect, socket callbacks, send, confirm, interrupt, reconnect, cleanup | late events of an old socket, one close handler for all sockets, timers, StrictMode | no retry lost, none multiplied, a reason shown otherwise |
| Terminal tabs (`useTerminalTabs.js`, `WindowTerminal.jsx`) | tabs, active tab, rendered contents, limit flag, localStorage | add, close, select, restore | effects that write after a tab was closed | one tab shown, and the one stored; nothing left behind; the limit flag is not stale |
| Stopping processes and ports in the page (`ProcessManager.jsx`, `PortControl.jsx`, `ConfirmDialog.jsx`, `useActionMutations.js`) | pending target, its preview, mutations | request, preview answers, confirm, cancel, leave | answers out of order, awaits inside a run | what is sent was confirmed, with a preview on display, and once |
| Process list (`ProcessManager.jsx`, `processTree.js`) | list of the last refresh, filters, opened groups | refresh, filter, open a group | missing, own or circular parents; groups remembered by pid | every match reachable, every load counted once |
| App shell and settings (`App.jsx`, `SettingsContext.jsx`, `SettingsPanel.jsx`) | panel chosen and rendered, settings, localStorage | navigate, change, reset, import, clear, reload | exit animation, effects that choose a panel, late file readers | a reload opens what the settings ask for |
| Control access in the page (`useAuthStatus.js`, `ControlAccessPanel.jsx`) | what the page believes of its session | unlock, lock, status | belief and backend differ | the terminal connects when it may |
| Access control (`security.py`, routes in `app.py`) | failure lists, lockouts, buckets, session tokens | consume, register failure, clear, create / purge sessions | read-modify-write without a lock, time | limits per window, lockout ends, expiry |
| Process and port control (`process_control_policy.py`, `action_executor*.py`) | none of its own: the process table | preview, kill by pid, kill by port | the table changes between preview, check and kill | stops only what policy allows and reports what happened |
| PID registry and starter (`dashboard_pids.py`, `start.py`) | the PID file, child processes | register, verify, kill all, clean ports | two processes write one file; a pid is reused | owns only its own processes, forgets none alive |
| Telemetry (`telemetry_scheduler.py`, `telemetry_collection.py`, ...) | `_running`, `_last_emitted` | start, stop, one round per second | failures of collectors and of the error report | one thread, every event type keeps coming |
| Command classifier (`command_classifier.py`, `command_execution.py`) | none | `evaluate_command`, tokenising | precedence of many rules | verdicts consistent with each other |
| HTTP command execution (`action_executor_commands.py`) | none | one blocking subprocess | - | - |
| Runtime wiring (`service_runtime.py`) | references | construction | - | - |
| API client, schemas, query client | caches of the query library | requests | - | - |
| Encryption tools (`EncryptionTools.jsx`) | fields of one panel | encrypt, decrypt, hash, convert | a result that arrives after the field was edited | - |
| Port list, network and other presentational components | view state | - | - | - |
| Launcher (`tools/devcontrol`) | window, child process | start, stop | - | - |

## 2. Modules

| module | models | code behind it |
|---|---|---|
| `FanOut` | abstract: an event goes to those registered at that moment, and each hears of it once | - |
| `LiveUpdateHub` | hub and SSE generator; implements `FanOut` | `live_update_hub.py`, `app.py` `stream_events` |
| `DashboardStream` | page, EventSource, restart of the backend; EXTENDS `LiveUpdateHub` | `DashboardStreamContext.jsx` |
| `TerminalGateway` | handlers, registry, children, Flask threads | `terminal_gateway.py`, `terminal_session.py`, spawning and ending in `terminal_command_executor.py` |
| `TerminalSession` | commands of one tab: hook, message loop, executor | `useTerminalSession.js`, `terminal_command_executor.py`, `terminal_session.py` |
| `TerminalClient` | sockets, refs and timers of one tab | `useTerminalSession.js`, `useAuthStatus.js`, `ControlAccessPanel.jsx` |
| `ConfirmedStop` | abstract: a stop is sent once, for an order given in the dialog | - |
| `StopPanels` | dialogs, previews and runs of both panels; implements `ConfirmedStop` | `ProcessManager.jsx`, `PortControl.jsx`, `ConfirmDialog.jsx`, `useActionMutations.js`, the requests of `client.js` |
| `ProcessList` | filters, tree, groups and rows | `processTree.js`, `ProcessManager.jsx` |
| `TerminalTabs` | tabs and what they leave in localStorage | `useTerminalTabs.js`, `WindowTerminal.jsx` |
| `AppShell` | panels, settings, reloads; EXTENDS `TerminalTabs` and composes the two | `App.jsx`, `SettingsContext.jsx`, `SettingsPanel.jsx`, `DashboardNavigation.jsx` |
| `LiveUpdateHubProofs`, `DashboardStreamProofs`, `TerminalGatewayProofs`, `TerminalSessionProofs`, `TerminalClientProofs`, `StopPanelsProofs`, `ProcessListProofs`, `AppShellProofs` | theorems | - |
| `MC*` | symmetry and constraints for TLC | - |

The exact lines of every definition are in `map` of `PROJECT.json`.

Operators named `X_Something` before an operator `X` are faulty variants of it,
each a plausible bug; replacing `X` by the variant breaks a
property (`mutants` in `PROJECT.json`). Variables commented `(aux.)` record
what happened and guard nothing.

### FanOut and LiveUpdateHub

State follows the class: `nextId` is the next value of `_event_ids`, `history`
the ids in `_history`, `subscribers` and `queue` are `_subscribers`. Each
publisher has a place in `publish()` (`pc`), the id it drew (`event`), the
subscribers of its copy still to serve (`todo`) and, while it replaces a full
queue, whose (`target`).

The steps are cut exactly where another thread can act: `DrawId` (before the
lock), `Record` (the critical section: history and copy of the subscribers),
`Enqueue` / `EnqueueFull` per subscriber, each `get_nowait` of the drain
(`DrainOne`), its end (`DrainEnd`), the notice and the current event
(`PutNotice`, `PutCurrent`), and `PutRaises` for a `put_nowait` that finds the
queue filled again: the exception leaves `publish()`, so the subscribers not yet
served are skipped. `Subscribe` is one critical section: replay and
registration. The generator yields the replay first (`YieldReplay`), then the
queue (`YieldLive`); it can end anywhere (`Unsubscribe`).

Abstractions: an event is its id (payload, type and time change no step). The
subscribers of a copy are served in any order (the code uses insertion order).
The replay is the whole copied history and `YieldReplay` skips what the
comprehension filters, which avoids a recursive filter. A notice carries the
events it is about as an auxiliary set.

`FanOut` is the promise without queues, locks and overflows: a publication is one
moment, at which the event becomes owed to all who are registered; a reader hears
of what it is owed once, of the event itself or that it was missed; what an
exception in the middle of a publication costs the readers not yet served is
`Lose`. The refinement maps publishing to `Record`, what a reader is owed to the
publishers that have still to serve it, its queue and what is in hand for it
(`UnderWay`), what it heard to the live part of what it received (`Heard`), and
what it lost to `lost`. Every other step of the hub is a stutter, also the drain
that takes items out of a queue and turns them into a notice. `ImplementsFanOut`
differs from `NoSilentLoss` and `NeverTwice` in that it speaks of steps: it says
when an event becomes owed, that nothing heard or lost comes back, and that
only a publication, a delivery or an exception changes the accounts.

### DashboardStream

Extends the hub: each EventSource is a subscription. `Connect` subscribes with
`lastId` and starts with bootstrap snapshots unless there is a replay; frames
travel on `wire`; `Dispatch` is the browser's dispatch together with the
listener: `buffer` is the EventSource's own last id (frames without an id
inherit it), `Accepts` is `rememberEventId`. `ConnectionFails` is `onerror`;
`HeartbeatAges`, `RestartStream` and `Remount` are the watchdog and React's
effect; `Restart` replaces the backend: its hub is empty and its ids begin at 1.

Abstractions: payloads, caches, the action feed and the wording of notices; the
backoff (connecting is possible any time after a failure); the bootstrap is one
frame; a keep-alive is sent only on an idle wire.

### TerminalGateway

`pc` is the place of a handler between two awaits of `handle_websocket` or of
what it calls, `loop` names the handler that runs without having awaited (from
the admission check to `start_session`), `sessions` are the registry's keys,
`running` the sessions whose `is_running` is set, `child` and `attached` the
child process and `self.process`. `backlog` counts the unread messages.
Flask threads run `get_status` (`StatusScan`, `StatusDrops`, `StatusReturns`)
and `terminate_session` (`TerminateBegins` .. `TerminatePops`) step by step, at
any point of any handler: nothing locks the registry. The prune loop's two
passes are separate, so what it takes for stale may have changed when it drops
it.

Abstractions: refusals before admission (origin, rate limit, authentication) are
one choice, `Refuse`; each message is a command that spawns a child (the others
leave the registry alone); published events and messages' texts are left out,
and `publish()` is taken not to raise here.

### TerminalSession

The tab has a connection (`conn`, `up`), one prompt and the commands of its
history; each connection has a session on the backend with its `inbox`,
`pending` (`pending_command`), `confirming` and `process`. `Handle` is the loop
body of `handle_websocket` for one message: refuse, ask, run, run confirmed,
cancel, ignore, interrupt. While a command runs the session reads nothing, as
the loop awaits the handler. `Complete`, `FailToStart` and `TimeOut` end it.
`Drop` and `Reconnect` replace the connection; the prompt outlives it, the
session does not.

`registered` are the sessions that `handle_message` finds in the manager's
`sessions`. `Unregister` is a terminate request or a pruning status request (step
by step in `TerminalGateway`); it can come at any time and leaves the websocket
open, the loop reading and a running command running. From then on
`IgnoreMessage` takes every message and answers none.

`patient`, chosen once in `Init`, says whether the user types only into
a quiet terminal, having had an answer to the last command or waited for it in
vain, or at any time.

Abstractions: the status shown beside an entry of the history (queued, running,
blocked, ...) is display that nothing depends on; the verdict of the classifier is the constants `Unknown` and
`Blocked`; output is not modelled; a command is typed once; the hook's sockets
and timers are one step here and are the subject of `TerminalClient`.

### TerminalClient

`life` is what has become of each WebSocket object, `hook` the refs and the state
its callbacks share (`wsRef`, the retry timer, `intentionalCloseRef`,
`isConnected`, `wasConnectedRef`, the rate-limit countdown, `connectionState`).
One action per callback: `OnOpen`, `Welcome` and `Refuse` (two branches of
`handleMessage`), the ways to `onclose` (`RefusalCloses`, `CloseCompletes`,
`ConnectFails`, `ConnectionLost`), `ReconnectTimer`, `RetryPasses`; one per
choice of the user: `Reconnect`, `Unlock`, `Lock`, `Unmount`. `OnClose` is shared
by all sockets, as in the code: it clears `wsRef` and takes the intentional flag
whichever socket it belongs to. `Connect` is `connectWebSocket`: locked, a new
socket, or a constructor that throws. `unlocked` is what the page believes,
`session` what the backend knows; they part when the session expires.

`strict` is a development build: StrictMode runs the first effect twice, and its
cleanup finds no socket to close because only an opened one is in `wsRef`. `cutShort` records a
socket closed by the page between its refusal and its close event; the
properties that it weakens name it.

Abstractions: protection is enabled and the tab may connect (`shouldConnect`);
an element of `Sockets` is used again once its socket is gone.

### ConfirmedStop and StopPanels

`ConfirmedStop` is the promise: the dialog names a target; an order is given only
for the target it names at that moment; a stop is sent for an order, at most
once. `StopPanels` has what the components have: `pending` and `preview` of the
dialog, the previews under way (`request`), the runs of `confirmKill` with what
each awaits (`run`), and which mutation is the last, because `isPending` of
`useMutation` reports the last call only. `Confirm` sends at once in the process
panel and after a refresh in the port panel (`SendAfterLook`); `RunEnds` is the
`finally` block, which closes whatever dialog is open by then.

The refinement maps the dialog's target to `asked`, the targets of the runs to
`order` and the runs past their refresh to `sent`. It holds although the user
may cancel, ask for another target or leave between the awaits, because
`confirmKill` keeps the target in its closure.

Abstractions: the page is unlocked (a locked one refuses at once); a stop whose
target is already gone is a stop that fails; `isPending` changes with the call.

### ProcessList

A state is a list (`procs`: pid to parent), which processes pass the filters,
the kind of filter and the groups the user opened. `Included`, `Roots`,
`Children`, `Generation`, `Tree` and `Aggregate` are the passes of
`buildVisibleProcessTree` and `buildNode`, with the lineage that cuts circles;
`Rows` and `Displayed` are `flattenProcessTree` and `getDisplayedCpuPercent`.
`Prune` is the effect that forgets opened groups, part of every change of the
tree. `Refresh` replaces the whole list at once, by any other, and the effect runs
once: a pid may be another process's than before. A parent may be absent, the
process itself, or part of a circle.

Abstractions: order, names and memory (aggregated exactly as the load is); a
load is the bag of the processes it sums.

### TerminalTabs and AppShell

`TerminalTabs` has the list, the active tab, the tabs rendered so far, the state
each tab's session reports, the flag that hides the button for a new tab, and
what localStorage holds: the list, the choice and the keys of each tab. Output
is stored by an effect that runs some time after its render (`unsaved`), before
the next render at the latest (`Flush`). `CloseTab` removes the tab's keys
either before or after that effect; `raced` records the first order.

`AppShell` has the chosen panel and the one that is rendered, which differ while
an exit animation runs (`Swap`), the settings and their stored copies. Tabs
exist only while the terminal's panel is rendered. `Settle` is the render after a change of
the settings with the two effects that follow it (choose a panel, store it);
`ImportSettings` is a file reader that answers at any time, whatever is rendered
by then; `Reload` starts over from localStorage.

Abstractions: a handler and the effects of its render are one step (React runs
them before the next click), except the effect that stores output;
localStorage accepts every write; tab titles are positions; the settings that
choose no panel are one, `looks`; one file is read at a time.

## 3. Properties and runs

Deadlock is not checked (`CHECK_DEADLOCK FALSE`) in any run: events,
connections and commands are bounded in the models, and after the last one
nothing has to happen.

| run | question | bounds |
|---|---|---|
| `hub_rivals` | two publishers overflow the queue of a slow reader while readers come, go and resume: `TypeOK`, `NeverTwice`, `NoSilentLoss`, the refinement `ImplementsFanOut` | 2 publishers, 2 subscriptions, queue 2, history 2, 4 events; CONSTRAINT `FewTogether`: two readers are registered at once only while at most half of the events are drawn |
| `stream` | hub and page together, whose connections fail, resume, start over and see one restart: `StreamTypeOK`, `NothingSkipped`, `TakenOnce`, `WindowNoticesShown`, the four `OnePublisher...` invariants and `RecoversFromRestart` (liveness) | 1 publisher, 2 connections, queue 2, history 1, 3 events, 1 restart, 1 frame on the wire |
| `stream_actions_doc` | violated: `ActionsAreTaken` | 2 publishers, 1 connection, 2 events, 2 frames |
| `gateway` | connections compete, drop and run commands while a thread prunes and terminates: `TypeOK`, `SessionLimit`, `NoGhostSessions`, `NoOrphanChild`; `GoneHandlersEnd`, `ChildrenEnd` (liveness) | 2 connections, 1 thread, limit 1, 1 command each |
| `gateway_prune_doc` | violated: `PrunesOnlyDisconnected` | 2 connections, 1 thread, limit 2 |
| `session` | a patient user over two connections and a hasty one whose commands hang, while sessions are terminated and pruned: `TypeOK`, `ConfirmedOnly`; `EveryCommandAnswered` (liveness) | 4 commands (two unknown, one safe, one blocked), 2 connections, 1 message in flight |
| `session_interrupt_doc` | violated: `InterruptReachesCommand` | 2 commands, 1 connection, 2 messages in flight |
| `terminal_client` | sockets open, are refused, fail and close in any order: `TypeOK`, `RetryOrReason`, `FlagHasOwner`, `SocketsBounded`; `GatewayDownRetries` (liveness) | 3 sockets; clicks and changes of access are `MaxPresses`, the sockets beyond those of the first render |
| `stop_panels` | previews, refreshes and stops answer in any order: `TypeOK`, `NeverBlind`, the refinement `ImplementsConfirmedStop`; `DialogFrees` (liveness) | 2 targets, 4 clicks on Stop, 2 on Confirm |
| `stop_preview_doc` | violated: `PreviewedBeforeStop` | 2 targets, 2 clicks on Stop, 1 on Confirm |
| `process_list` | any list replaced by any other, under every filter and set of opened groups: `ListTypeOK`, `CountedOnce`, `MatchesReachable` | 3 pids |
| `app_shell` | panels, settings, files, reloads and tabs: `TypeOK`, `RememberedPanel`, `OneTabShown`, `LimitNotStale`, `NothingLeftBehind`, `OpensAsConfigured` | 4 tabs, 3 of them open at once, panels overview, commands and settings |

Why the bounds are enough for what the runs ask:

- `QueueSize = 2` is the smallest queue that can hold a notice and an event. A third
  event overflows it, and with a fourth a second publisher refills it while the
  first still drains, which is when `queue.Full` leaves `publish()`. A queue of one
  slot (no notice) is covered by the proofs, which hold for every size.
- `ReplaySize` 1 and 2 against 3 and 4 events: the history rolls over, and a
  reader can ask from inside, from the edge and from before the window.
- Two subscriptions are one that was cut off and one that resumes; subscriptions
  do not act on each other except through publishers, so `FewTogether` leaves out
  only states where two readers at once watch the later events. The theorems about
  the hub need no such bound.
- `MaxWire` bounds what a connection holds; a blocked send is what makes queues
  overflow. `MaxRestarts = 1`: a second restart meets the same page state.
- Two connections compete for one place while a thread races with both over one
  entry; the proofs cover every number. `MaxBacklog = 1`: a child lives through
  disconnect, prune, terminate and timeout with one command.
- `Connections = 2`: a prompt of the first connection answered on the second.
  `MaxInbox = 1` in `session`: the session takes a message before the next is
  sent, and answers pile up on the way back; 2 in `session_interrupt_doc`, for an
  interrupt behind a command. The proof covers every number.
- Three sockets: the closing one, the one that StrictMode left behind and the
  current one, which is what a late close has to be told apart from.
- Four requests and two runs: each run ends over a dialog of another target whose
  preview is under way, has answered, or has been replaced.
- Three pids: a group in a group, a group beside another root, circles of up to
  three and a process below a circle, and a refresh from each of these lists to
  each other (729 with what passes the filters). The theorems hold for lists of
  any length.
- Three open tabs of four: the active tab is first, last or between; the fourth is
  the one that comes after one is closed. One further panel beside `commands` and
  `settings` is the default; the shell treats all others alike.

### Fairness

- `TerminalGateway!FairSpec`: strong fairness of each handler's own step. The
  loop is held by other handlers between their steps, so a handler is enabled
  again and again rather than continuously; asyncio runs every ready coroutine,
  and the 30 s timeout of a command fires. Nothing is assumed of clients, of
  children (one may ignore every SIGTERM), or of Flask requests.
- `TerminalSession!FairSpec`: weak fairness of reading a message, of starting (or
  failing to start) a command and of its timeout. Nothing is assumed of the
  user, the network or the command's own end.
- `DashboardStream!FairStreamSpec`: weak fairness of the clock (`HeartbeatAges`)
  and of React's effect (`Remount`), strong fairness of the watchdog: it looks
  every 5 s for a heartbeat older than 10 s, while a keep-alive comes only after
  20 s of silence, so between two keep-alives it does find the age. Nothing is
  assumed of connections or of the telemetry thread.
- `TerminalClient!FairSpec`: weak fairness of the browser's timers and of what
  ends by itself: a connection attempt opens or fails, the gateway welcomes or
  refuses, a closing socket reports its end. Nothing is assumed of the user, of
  the session's validity, or of a connection being lost.
- `StopPanels!FairSpec`: weak fairness of answers: every request is answered or
  fails, as `fetch` does. Nothing is assumed of the user.
- `ProcessList` and `AppShell` have safety properties only and no fairness.

## 4. Proofs

Proved with TLAPS for every value of the constants. The assumptions on constants
are `SizesAssumption` (sizes positive, finitely many publishers),
`StreamAssumption` (the telemetry thread is a publisher, the wire holds at least
one frame), `GatewayAssumption` (limit positive, finitely many connections, disjoint names),
`CommandsAssumption`, `SocketsAssumption` (finitely many, at least two),
`StopAssumption`, `PidsAssumption` (finitely many), `TabsAssumption` and
`PanelsAssumption`; TLC evaluates each in a run. Every safety property that a
passing run checks, invariant, action property or refinement, is a theorem.

The hub:

- `LiveUpdateHubProofs!TypeCorrect`: `Spec => []TypeOK`. `TypeOK` is inductive as
  it stands; the lemmas about `EventItem`, `LaggingNotice`, `WindowNotice` and
  `ReplayEvents` give the ranges of what is queued. With it come the bounds on
  queues and history.
- `LiveUpdateHubProofs!NoSilentLossHolds`: the property itself is not inductive: a
  publisher that is draining must be serving a subscriber it still owes, and only
  such a one may hold drained events. The invariant `NoLossInv` adds this shape
  (`PublisherShape`) and writes the property as membership (`Accounted`), so that
  each action moves an event from one account (owed, queued, in hand, received) to
  another.
- `LiveUpdateHubProofs!OnePublisherLosesNothingHolds`: with one publisher and
  more than one slot `PutRaises` is never enabled. The invariant
  `RoomAfterDrain` says that after the drain only the publisher itself adds to
  the queue.
- `LiveUpdateHubProofs!NeverTwiceHolds`: `TwiceInv` adds that ids are drawn once and
  recorded once (`IdsInv`) and that an event is on its way to a reader in one
  place only: yielded, in the replay, in the queue, or owed (`OnePlace`), and in
  the first three only if it was recorded. Registration and recording exclude
  each other, so a new reader finds an event in the history or is owed it, never
  both. `NothingBefore` says that nothing is under way to a reader that has not
  subscribed yet.
- `LiveUpdateHubProofs!OnePublisherInOrderHolds`: `OrderInv` adds that the history is
  increasing and the publisher works on the latest id (`LatestInv`), and that the
  four places follow one another in order (`Ahead`), each in order itself.
- `LiveUpdateHubProofs!OnePublisherResumesCompleteHolds`: `ResumeInv` adds that the
  history ends with the latest events without a gap (`HistoryInv`) and that what
  was recorded before a reader registered was replayed to it or reported missed
  (`ResumedInv`); what is recorded later is `NoSilentLossHolds`.
- `LiveUpdateHubProofs!OnePublisherNoticesAreTrueHolds`: `NoticesInv` says of what notices
  report, and of what a draining publisher is about to report (`Missing`), that it
  was recorded and is in none of the four places. A drained event was in the queue
  only (`OnePlace`); a window notice ends where the increasing history begins.
- `LiveUpdateHubProofs!HubImplementsFanOut`: the refinement of `FanOut`. `FateInv` adds
  that the accounts of a reader are disjoint and are what was recorded for it
  (`Places`): queued, still owed by a publisher, in hand, heard and lost; that two
  items of a queue, and two publishers that drain the same queue, never tell of the
  same event; and that an event is recorded for nobody before it is drawn and
  registered for (`RecordedFor`). One lemma per action then shows the abstract step
  or stutter. `PutRaises` is the hard one: the items drained for one
  reader and the event for all those not yet served are lost in one step.

Hub and page together, where a connection is a subscription and a restart empties
the hub. Invariants of the hub are taken over by showing that `Connect` is
`Subscribe`, that the other steps of the page leave the hub alone or unsubscribe,
and that a restart leads to a state from which the hub starts again:

- `DashboardStreamProofs!StreamTypeCorrect`, `HubSafeInStream`, `OnePublisherInStream`:
  ranges, and that all of the hub's own theorems hold with the page and across
  restarts.
- `DashboardStreamProofs!WindowNoticesAreShown`: `WindowInv` says that the window notice
  is the first item of a replay, that nothing was received before it, and that a
  source from which it is still to come has a wire and a buffer without an id.
- `DashboardStreamProofs!NoEventIsTakenTwice`: `TakeInv` says that what the page took was
  recorded and is not above the id it remembers, if it remembers one (`AppliedInv`,
  `MarksInv`), that what is on the wire is in order and above all it took
  (`WireInv`), and that a source is either alive, and whatever is still to come from
  it is above all that was taken (`Alive`), or cut off by a restart, and all that
  is on the wire or was taken is from before (`Outlived`). A page that starts over
  forgets its id: then no replay is sent to it, and what comes is new.
- `DashboardStreamProofs!NothingIsSkipped`: `SkipInv` adds that the page follows its
  source (`Follows`): the source resumed from an id not above the remembered one, and
  what it was sent the page has taken, unless it is still on the wire. The next
  event the page takes is then the next that was due, or those
  between were reported: by `ResumeInv` before the registration, by
  `OrderInv` and the losslessness of a single publisher after it.

The terminal:

- `TerminalGatewayProofs!TypeCorrect`: ranges, and the loop is held exactly by the
  handler between its admission check and its first await.
- `TerminalGatewayProofs!SessionLimitHolds`: the invariant adds that a handler
  about to insert has seen room, which stays true because nobody else inserts
  while it holds the loop and all other actors only remove.
- `TerminalGatewayProofs!NoGhostSessionsHolds`: an entry exists only while its
  handler is between insertion and removal; the other actors only remove.
- `TerminalGatewayProofs!NoOrphanChildHolds`: follows the child through spawning,
  attaching and ending against signals from any thread.
- `TerminalSessionProofs!TypeCorrect` and `ConfirmedOnlyHolds`: the accept message
  names no command, so the invariant has to follow everything that can come
  between a prompt and its answer. `PatientInv`: a patient user has at most one
  command on its way and no acceptance together with it (`Waited`); an acceptance
  on its way to a session that waits is for the command that session has pending;
  a prompt on its way or on display is for that command, too (`AboutPending`).
- `TerminalClientProofs!TypeCorrect`, `FlagAlwaysHasOwner`, `RetriesNeverMultiply`:
  the invariant `IInv` counts a scheduled retry as a connection (`Budget`): the
  sockets and the retry together never exceed clicks and first connections, so a
  retry that fires only takes up its own place.
- `TerminalClientProofs!NeverStranded` (`RetryOrReason`): `RetryInv` says that while no
  retry is due and no reason is shown there is a socket that was not refused, and a
  second one while the intentional flag is up, so that one of them closes without
  taking the flag and schedules the retry.

The page:

- `StopPanelsProofs!TypeCorrect` and `DialogNeverBlind`: a dialog whose last preview has
  answered has a preview on display, because `RequestKill` clears it together
  with starting a request, and whatever else clears it closes the dialog.
- `StopPanelsProofs!StopImplementsConfirmedStop`: the initial states map to initial
  states and each step to a step of `ConfirmedStop` or a stutter, one lemma per
  action.
- `AppShellProofs!PanelIsRemembered`, `ReloadOpensAsConfigured`: the invariant adds the
  ranges of the settings and panels and that the stored settings are the present
  ones, or were cleared while these are the defaults.
- `AppShellProofs!LimitNeverStale`: adds the range of the states tabs report and that a
  raised flag has an active tab.
- `AppShellProofs!TypeCorrect`, `OneTabIsShown`, `NothingIsLeftBehind`: `ShellInv` puts the
  settings, the tabs and their coupling (tabs exist while the panel `commands` is
  shown) together. `TabInv` says that no list holds a tab twice, that only listed
  tabs have content or output to be stored, and that the stored list and choice
  are the present ones. The new active tab is in the new list, because
  removing the closed one from a list without repetitions takes out that tab only and
  keeps the others in their order (`NextTabs`).
- `ProcessListProofs!ListTypeCorrect`: only what has children is remembered as open. The
  open groups are pruned at every change of the tree; a click opens what is
  in the tree because every row is a node of it (`RowsClosed`).
- `ProcessListProofs!MatchesStayReachable`: follows from the types alone, for every list.
  As many steps as there are processes reach every ancestor (`IncludedClosed`:
  a step that adds none is the last to add any), lineages grow by one in each
  generation (`NoLastGeneration`), so the tree is closed under `Children`; each node
  is below a row that is its own or closed (`RowAbove`); and the included
  processes without a node have no root among them and no parent with a node, which
  makes them a circle (`NodeOrCircle`).
- `ProcessListProofs!EachIsCountedOnce`: no process has two nodes (`NodesAreUnique`),
  lineages are nested and of one line (`LineagesNest`), and the way down from a node
  to one below leads through exactly one child (`OneWayDown`). Hence the recursive
  sum of a node has a closed form, one for each process at or below it
  (`CountsAddUp`, and `OneSum`: there is no other solution), and of two rows on one
  line the upper one is open and shows itself only (`ShownByOneRow`).

The theorems of induction in the library take an operator as a parameter, which the
provers at hand cannot instantiate. The inductions over a bounded depth above are
therefore stated over sets: `LeastOf` (a set of naturals has a least member, from
the well-foundedness of finite sets), `UpTo` (a subset of an interval that holds 0
and the successors of its members is the interval), `Iterated` (a recursion over an
interval defines a function) and, on them, `DownTheTree` and `DownTheRows`.

Only model-checked:

- All liveness (TLAPS proves none): `GoneHandlersEnd`, `ChildrenEnd`,
  `EveryCommandAnswered`, `RecoversFromRestart`, `GatewayDownRetries`, `DialogFrees`.
- Nothing else of the passing runs. The violation runs are counterexamples, which
  need no proof.

## 5. Findings

Each is the counterexample of a violation run against a sentence of the
repository.

1. `gateway_prune_doc`: a status request (`/api/health`) between `create_session`
   and `start_session` prunes the session of a connected client, because
   `is_running` is still False. The connection stays open and every message on
   it is ignored (`IgnoreMessage` in `TerminalSession`).
2. `session_interrupt_doc`: an interrupt sent while a command runs is read when
   the command has ended, so it never reaches a running command.
3. `stream_actions_doc`: `publish()` draws the id before the lock, so an action can
   arrive after a heartbeat with a higher id; the page takes it for old news and
   does not refetch.
4. `stop_preview_doc`: an answer to a dry run is stored for whatever target the
   dialog has by then. Stop is chosen for one process and then for another; the
   late preview of the first replaces that of the second, and the second is
   stopped on a preview that was not its own.

Met while modelling, without a sentence of the repository to hold it against:

- Between reading a command and spawning its child, a session has no process: a
  terminate request in that window signals nothing and the command still starts
  (`NoOrphanChild` and `ChildrenEnd` say that it is still waited for and ends).
- A terminate request, or the prune of finding 1, takes a session from the registry
  but leaves its websocket open and its handler reading: the tab stays connected,
  and what it sends is ignored without an answer. `EveryCommandAnswered`
  therefore promises one only while the session is registered.
- A second command overwrites `pending_command` and the confirm message names no
  command: `ConfirmedOnly` holds for a user who types only into a quiet terminal
  (`patient`), and not otherwise.
- A lagging notice has no id, so the browser gives it the id of the event before
  it and `rememberEventId` ignores it in nearly every case. Only the notice that
  opens a resumed stream is always shown (`WindowNoticesShown`).
- A reader can take an event from a queue while a publisher drains the ones
  before it; if the connection then fails before the notice, the page resumes
  after that event and never hears of the drained ones. `NothingSkipped` is
  stated so that it says this.
- With two publishers ids can be out of order in the history, so a resumption can
  pass over an event silently; the properties named `OnePublisher...` and
  `TakenOnce` say what needs one publisher at a time.
- A program that cannot be spawned is answered with an error but no
  `command_result`: the entry in the tab's history stays running.
- "Unlock again to reconnect." does not help while the page still believes that
  it is unlocked: unlocking then changes no state of React, no effect runs, and
  the tab stays as it is until Reconnect is clicked.
- A socket that is still connecting is in no ref: the cleanup of StrictMode, of a
  closed tab or of a change of access leaves it alone, it opens later and becomes
  `wsRef`, or holds a place at the gateway that no tab uses (`SocketsBounded`
  bounds them).
- The close event of an old socket clears `wsRef` of the new one, so the
  state of a tab can say "connected" while it has no socket to send on. A refusal whose close is overtaken
  by the page's own close leaves the flag to swallow the wrong event;
  `RetryOrReason` and `GatewayDownRetries` except this order (`cutShort`).
- A run that ends closes whatever dialog is open, be it of another target. A
  preview that is denied or fails leaves a dialog both of whose buttons are
  disabled; `DialogFrees` says that no other dialog stays so.
- Processes whose parents lead round in a circle have no root and are not shown
  (`MatchesReachable` names the exception).
- Opened groups are remembered by pid: when a pid passes between two refreshes to
  another process that has children too, its group stays open. `ListTypeOK`
  says only that a pid without children is forgotten.
- The output of a closed tab can be written back by the effect that was due when
  it was closed, and nothing removes it again (`NothingLeftBehind` names the
  exception).

## 6. Not modelled

- Access control (`security.py` and its routes), process and port control
  (`process_control_policy.py`, `action_executor*.py`), the PID registry and the
  starter, and the loop of the telemetry scheduler keep state of their own and are
  planned below. Their verdicts appear as free choices: refusals of the
  gateway, answers of previews and stops, the validity of a control session,
  heartbeats.
- The command classifier and HTTP command execution are text and one blocking call;
  the classifier's verdicts are constants of `TerminalSession`.
- Encryption tools: the browser's cryptography around the fields of one panel.
- Payload parsing, masking and validation, query caches, collectors that read the
  operating system, runtime wiring, the port list, rendering, the desktop
  launcher: no state that several actors share.

Limits of the models: queue sizes and histories are far smaller than the code's
200 and 250 (the theorems hold for all); a websocket delivers in order and
reports its end eventually or never; the operating system's signals do not fail;
`queue.Full` raised by a publisher inside the gateway is not followed into the
handler.

## 7. Plan

Written so far, in this order: `LiveUpdateHub`, `TerminalGateway`,
`DashboardStream`, `TerminalSession`, `TerminalClient`, `StopPanels` with
`ConfirmedStop`, `ProcessList`, `TerminalTabs`, `AppShell`, `FanOut`, and the proof
modules.
Next, most important first:

1. `PidRegistry`: `dashboard_pids.py` with `start.py` and the backend as two
   processes; read-modify-write of the file, pid reuse, failed terminations.
2. `RateLimiter`: buckets, failures and lockouts with clock and threads; an
   abstract limiter (a set of admitted times) that the sequential code
   implements by refinement, and what concurrent requests can break.
3. `ProcessControl` under `StopPanels`: preview, check and stop against a changing
   process table.
4. `TelemetryScheduler` composed with the hub: failing collectors, a
   `queue.Full` in the error report.
5. Results of the encryption tools that arrive after their field was edited.

Proofs to come: consequences of `FanOut` stated on it alone (what is heard, owed
and lost stays disjoint and covers what was published since the registration);
that a page following one connection implements a reader of `FanOut`; the safety part
of the liveness properties, such as the bounded number of steps a
handler has left once its client is gone, as variants that never increase.

The runs are kept few, so new modules share them where they compose: the
scheduler joins the hub's run as a publisher, and process control can answer the
requests of `stop_panels`. A violation run gives way to a passing one of a new
module when its finding is settled in the code.
