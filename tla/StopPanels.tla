----------------------------- MODULE StopPanels -----------------------------
(***************************************************************************)
(* Stopping a process or a listener from its panel (ProcessManager.jsx,    *)
(* PortControl.jsx): the dry run requested with the dialog, the dialog's   *)
(* buttons, and the run of confirmKill with the awaits between which the   *)
(* user goes on. A preview that answers is stored whatever the dialog has  *)
(* become, and a run that ends clears whatever dialog is open.             *)
(***************************************************************************)
EXTENDS Naturals

CONSTANTS Targets,      \* the processes, or the listeners, with an enabled Stop button
          MaxRequests,  \* bound: clicks on Stop
          MaxRuns,      \* bound: clicks on Confirm
          None          \* nothing

ASSUME StopAssumption == None \notin Targets /\ MaxRequests \in Nat /\ MaxRuns \in Nat

VARIABLES panel,    \* "process" or "port": the panel that is mounted
          mounted,  \* FALSE once another panel was opened
          pending,  \* pendingProcess, pendingPort
          preview,  \* pendingPreview: whose answer it is, and whether it allows the stop
          request,  \* the n-th preview: the target asked for, None once answered
          asked,    \* number of previews requested
          run,      \* the n-th confirmKill: what it awaits, its target, the preview it was confirmed on
          started,  \* number of confirmKill runs
          lastKill  \* the run whose kill mutation was the last to start, or 0
vars == <<panel, mounted, pending, preview, request, asked, run, started, lastKill>>

RequestIds == 1..MaxRequests
Runs == 1..MaxRuns
NoPreview == [of |-> None, allowed |-> FALSE]
NoRun == [stage |-> "none", target |-> None, checked |-> FALSE]

Init == /\ panel \in {"process", "port"} /\ mounted = TRUE
        /\ pending = None /\ preview = NoPreview
        /\ request = [n \in RequestIds |-> None] /\ asked = 0
        /\ run = [n \in Runs |-> NoRun] /\ started = 0 /\ lastKill = 0

\* Mutant: a preview is waited for until one of the target in the dialog arrives.
PreviewPending_ForTarget == pending # None /\ preview.of # pending

\* useMutation reports the state of its last mutation only.
PreviewPending == asked > 0 /\ request[asked] # None
KillPending == lastKill > 0 /\ run[lastKill].stage = "kill"

\* The prop disabled of ConfirmDialog, which disables both of its buttons.
Disabled == PreviewPending \/ KillPending \/ (preview # NoPreview /\ ~preview.allowed)
Enabled == mounted /\ pending # None /\ ~Disabled

\* Mutant: the preview is dropped, the target stays.
CloseDialog_KeepsTarget == pending' = pending /\ preview' = NoPreview

\* setPendingProcess(null), setPendingPreview(null). After the panel is gone
\* React drops the update.
CloseDialog == pending' = None /\ preview' = NoPreview

\* requestKill, on an enabled Stop button (canStopProcess, canStopPort).
RequestKill(t) ==
  /\ mounted /\ ~KillPending /\ asked < MaxRequests
  /\ pending' = t /\ preview' = NoPreview
  /\ asked' = asked + 1
  /\ request' = [request EXCEPT ![asked + 1] = t]
  /\ UNCHANGED <<panel, mounted, run, started, lastKill>>

\* requestKill after its await: the answer, or a refusal made of the error.
PreviewAnswers(n, allowed) ==
  /\ request[n] # None
  /\ request' = [request EXCEPT ![n] = None]
  /\ preview' = IF mounted THEN [of |-> request[n], allowed |-> allowed] ELSE preview
  /\ UNCHANGED <<panel, mounted, pending, asked, run, started, lastKill>>

\* The Cancel button of the dialog.
Cancel == Enabled /\ CloseDialog /\ UNCHANGED <<panel, mounted, request, asked, run, started, lastKill>>

\* The Confirm button: confirmKill up to its first await. The process panel sends
\* the stop, the port panel first refreshes the list.
Confirm ==
  /\ Enabled /\ started < MaxRuns
  /\ started' = started + 1
  /\ run' = [run EXCEPT ![started + 1] = [stage |-> IF panel = "process" THEN "kill" ELSE "look",
                                          target |-> pending,
                                          checked |-> preview = [of |-> pending, allowed |-> TRUE]]]
  /\ lastKill' = IF panel = "process" THEN started + 1 ELSE lastKill
  /\ UNCHANGED <<panel, mounted, pending, preview, request, asked>>

\* Mutant: the target is read after the refresh, from the dialog as it is then.
SendAfterLook_Pending(n) ==
  /\ run[n].stage = "look"
  /\ run' = [run EXCEPT ![n].stage = "kill", ![n].target = pending]
  /\ lastKill' = n
  /\ UNCHANGED <<panel, mounted, pending, preview, request, asked, started>>

\* The port panel has the refreshed list: the entry with the port, pid and address
\* of the dialog when it was confirmed, or that entry itself, is stopped.
SendAfterLook(n) ==
  /\ run[n].stage = "look"
  /\ run' = [run EXCEPT ![n].stage = "kill"]
  /\ lastKill' = n
  /\ UNCHANGED <<panel, mounted, pending, preview, request, asked, started>>

\* The answer to the stop: on success the list is refreshed.
KillSucceeds(n) ==
  /\ run[n].stage = "kill"
  /\ run' = [run EXCEPT ![n].stage = "refresh"]
  /\ UNCHANGED <<panel, mounted, pending, preview, request, asked, started, lastKill>>

\* The finally block, after an error or after the refresh.
RunEnds(n) ==
  /\ run[n].stage \in {"kill", "refresh"}
  /\ run' = [run EXCEPT ![n].stage = "done"]
  /\ CloseDialog
  /\ UNCHANGED <<panel, mounted, request, asked, started, lastKill>>

\* Another panel is opened: the state of the dialog goes, the runs go on.
Leave == /\ mounted /\ mounted' = FALSE
         /\ CloseDialog
         /\ UNCHANGED <<panel, request, asked, run, started, lastKill>>

Backend == \/ \E n \in RequestIds, allowed \in BOOLEAN : PreviewAnswers(n, allowed)
           \/ \E n \in Runs : SendAfterLook(n) \/ KillSucceeds(n) \/ RunEnds(n)
User == Cancel \/ Confirm \/ Leave \/ \E t \in Targets : RequestKill(t)

Next == Backend \/ User
Spec == Init /\ [][Next]_vars

\* Every request is answered or fails.
Fairness ==
  /\ \A n \in RequestIds : WF_vars(\E allowed \in BOOLEAN : PreviewAnswers(n, allowed))
  /\ \A n \in Runs : WF_vars(SendAfterLook(n)) /\ WF_vars(KillSucceeds(n) \/ RunEnds(n))
FairSpec == Spec /\ Fairness

-----------------------------------------------------------------------------
\* Ranges; runs and requests are numbered without gaps.
TypeOK ==
  /\ panel \in {"process", "port"} /\ mounted \in BOOLEAN
  /\ pending \in Targets \cup {None}
  /\ preview \in [of : Targets \cup {None}, allowed : BOOLEAN]
  /\ asked \in 0..MaxRequests /\ started \in 0..MaxRuns /\ lastKill \in 0..started
  /\ request \in [RequestIds -> Targets \cup {None}]
  /\ run \in [Runs -> [stage : {"none", "look", "kill", "refresh", "done"},
                       target : Targets \cup {None}, checked : BOOLEAN]]
  /\ \A n \in RequestIds : n > asked => request[n] = None
  /\ \A n \in Runs : (n <= started <=> run[n].stage # "none") /\ (n <= started <=> run[n].target # None)

\* No dialog can be confirmed before an answer to a dry run is on display
\* (buildProcessPreviewDetails, buildPortPreviewDetails), although runs that end
\* and requests that start clear it at any time.
NeverBlind == mounted /\ pending # None /\ ~PreviewPending => preview.of # None

\* "process and port stop actions use dry-run preview before confirmation"
\* (README): what is stopped was allowed by a preview of that very target.
PreviewedBeforeStop == \A n \in Runs : run[n].stage # "none" => run[n].checked

\* Only a preview that forbids the stop leaves a dialog without usable buttons:
\* any other disabled dialog becomes usable or closes.
DialogFrees == mounted /\ pending # None /\ Disabled
                 ~> ~mounted \/ pending = None \/ ~Disabled \/ (preview # NoPreview /\ ~preview.allowed)

\* The panels implement ConfirmedStop: what is sent was ordered in the dialog for
\* the target it named, once per order, also when the dialog has moved on.
Abstract == INSTANCE ConfirmedStop WITH
  asked <- pending,
  Orders <- Runs,
  order <- [n \in Runs |-> run[n].target],
  sent <- {n \in Runs : run[n].stage \in {"kill", "refresh", "done"}}
ImplementsConfirmedStop == Abstract!Spec
=============================================================================
