-------------------------- MODULE StopPanelsProofs --------------------------
(* Machine-checked theorems about StopPanels.                              *)
EXTENDS StopPanels, TLAPS

-----------------------------------------------------------------------------
(* Type correctness *)

LEMMA TypeInit == Init => TypeOK
BY StopAssumption DEF Init, TypeOK, RequestIds, Runs, NoPreview, NoRun

LEMMA TypeNext == TypeOK /\ [Next]_vars => TypeOK'
<1> SUFFICES ASSUME TypeOK, [Next]_vars PROVE TypeOK'
  OBVIOUS
<1> USE StopAssumption DEF TypeOK, RequestIds, Runs, NoPreview
<1>1. ASSUME NEW t \in Targets, RequestKill(t) PROVE TypeOK'
  <2>1. asked + 1 \in 1..MaxRequests
    BY <1>1 DEF RequestKill
  <2> QED
    BY <1>1, <2>1 DEF RequestKill
<1>2. ASSUME NEW n \in RequestIds, NEW allowed \in BOOLEAN, PreviewAnswers(n, allowed) PROVE TypeOK'
  BY <1>2 DEF PreviewAnswers
<1>3. CASE Cancel
  BY <1>3 DEF Cancel, CloseDialog
<1>4. CASE Leave
  BY <1>4 DEF Leave, CloseDialog
<1>5. CASE Confirm
  <2>1. started + 1 \in Runs /\ pending # None
    BY <1>5 DEF Confirm, Enabled
  <2>2. run' = [run EXCEPT ![started + 1] = run'[started + 1]]
        /\ run'[started + 1] \in [stage : {"look", "kill"}, target : Targets, checked : BOOLEAN]
    BY <1>5, <2>1 DEF Confirm
  <2>3. /\ started' = started + 1 /\ lastKill' \in 0..started'
        /\ UNCHANGED <<panel, mounted, pending, preview, request, asked>>
    BY <1>5, <2>1 DEF Confirm
  <2> QED
    BY <2>1, <2>2, <2>3
<1>6. ASSUME NEW n \in Runs, SendAfterLook(n) PROVE TypeOK'
  <2>1. n <= started
    BY <1>6 DEF SendAfterLook
  <2>2. run' = [run EXCEPT ![n] = run'[n]]
        /\ run'[n] \in [stage : {"kill"}, target : Targets, checked : BOOLEAN]
    BY <1>6, <2>1 DEF SendAfterLook
  <2> QED
    BY <1>6, <2>1, <2>2 DEF SendAfterLook
<1>9. ASSUME NEW n \in Runs, KillSucceeds(n) PROVE TypeOK'
  <2>1. n <= started
    BY <1>9 DEF KillSucceeds
  <2>2. run' = [run EXCEPT ![n] = run'[n]]
        /\ run'[n] \in [stage : {"refresh"}, target : Targets, checked : BOOLEAN]
    BY <1>9, <2>1 DEF KillSucceeds
  <2> QED
    BY <1>9, <2>1, <2>2 DEF KillSucceeds
<1>7. ASSUME NEW n \in Runs, RunEnds(n) PROVE TypeOK'
  <2>1. n <= started
    BY <1>7 DEF RunEnds
  <2>2. run' = [run EXCEPT ![n] = run'[n]]
        /\ run'[n] \in [stage : {"done"}, target : Targets, checked : BOOLEAN]
    BY <1>7, <2>1 DEF RunEnds
  <2>3. /\ pending' = None /\ preview' = NoPreview
        /\ UNCHANGED <<panel, mounted, request, asked, started, lastKill>>
    BY <1>7 DEF RunEnds, CloseDialog
  <2> QED
    BY <2>1, <2>2, <2>3
<1>8. CASE UNCHANGED vars
  BY <1>8 DEF vars
<1> QED
  BY <1>1, <1>2, <1>3, <1>4, <1>5, <1>6, <1>7, <1>8, <1>9 DEF Next, Backend, User

\* The numbering of requests and runs and the ranges of the state of both panels
\* hold in every reachable state, for any set of targets and any bounds.
THEOREM TypeCorrect == Spec => []TypeOK
BY TypeInit, TypeNext, PTL DEF Spec

-----------------------------------------------------------------------------
(* A dialog on display cannot be confirmed before a preview arrived *)

LEMMA BlindInit == Init => NeverBlind
BY DEF Init, NeverBlind

\* One step per action that touches the dialog or a preview.
LEMMA BlindNext == TypeOK /\ NeverBlind /\ [Next]_vars => NeverBlind'
<1> SUFFICES ASSUME TypeOK, NeverBlind, [Next]_vars PROVE NeverBlind'
  OBVIOUS
<1> USE StopAssumption DEF NeverBlind, PreviewPending
<1>1. ASSUME NEW t \in Targets, RequestKill(t) PROVE NeverBlind'
  <2>1. asked' > 0 /\ request'[asked'] = t
    BY <1>1 DEF RequestKill, TypeOK, RequestIds
  <2> QED
    BY <2>1
<1>2. ASSUME NEW n \in RequestIds, NEW allowed \in BOOLEAN, PreviewAnswers(n, allowed) PROVE NeverBlind'
  BY <1>2 DEF PreviewAnswers, TypeOK, RequestIds
<1>3. CASE Cancel \/ Leave \/ \E n \in Runs : RunEnds(n)
  BY <1>3 DEF Cancel, Leave, RunEnds, CloseDialog
<1>4. CASE Confirm \/ \E n \in Runs : SendAfterLook(n) \/ KillSucceeds(n)
  BY <1>4 DEF Confirm, SendAfterLook, KillSucceeds
<1>5. CASE UNCHANGED vars
  BY <1>5 DEF vars
<1> QED
  BY <1>1, <1>2, <1>3, <1>4, <1>5 DEF Next, Backend, User

\* Whatever runs that end, requests that start and answers that come late do to
\* the dialog, it cannot be confirmed while it shows no preview at all.
THEOREM DialogNeverBlind == Spec => []NeverBlind
BY TypeInit, TypeNext, BlindInit, BlindNext, PTL DEF Spec

-----------------------------------------------------------------------------
(* The panels implement the abstract stop *)

LEMMA AbstractInit == Init => Abstract!Init
BY DEF Init, Abstract!Init, NoRun, Runs

\* One step per action; an action that sends or orders changes one run.
LEMMA AbstractNext == TypeOK /\ [Next]_vars => [Abstract!Next]_(Abstract!vars)
<1> SUFFICES ASSUME TypeOK, [Next]_vars PROVE [Abstract!Next]_(Abstract!vars)
  OBVIOUS
<1> DEFINE order == [n \in Runs |-> run[n].target]
           sent == {n \in Runs : run[n].stage \in {"kill", "refresh", "done"}}
<1> USE StopAssumption DEF Runs
<1>1. ASSUME NEW t \in Targets, RequestKill(t) PROVE Abstract!Ask(t)
  BY <1>1 DEF RequestKill, Abstract!Ask
<1>2. ASSUME NEW n \in RequestIds, NEW allowed \in BOOLEAN, PreviewAnswers(n, allowed)
      PROVE  UNCHANGED Abstract!vars
  BY <1>2 DEF PreviewAnswers, Abstract!vars
<1>3. ASSUME Cancel \/ Leave PROVE Abstract!Drop
  BY <1>3 DEF Cancel, Leave, CloseDialog, Abstract!Drop
<1>4. ASSUME Confirm PROVE Abstract!Next
  <2>0. started + 1 \in Runs
    BY <1>4 DEF Confirm, TypeOK
  <2> PICK o \in Runs : o = started + 1
    BY <2>0
  <2>1. pending # None /\ pending' = pending
    BY <1>4 DEF Confirm, Enabled, TypeOK
  <2>2. run[o].stage = "none" /\ run[o].target = None
    BY <2>1 DEF TypeOK
  <2>3. run' = [run EXCEPT ![o] = run'[o]] /\ run'[o].target = pending
        /\ run'[o].stage = IF panel = "process" THEN "kill" ELSE "look"
    BY <1>4, <2>1 DEF Confirm, TypeOK
  <2>4. order' = [order EXCEPT ![o] = pending]
    BY <2>1, <2>3 DEF TypeOK
  <2>5. sent' = IF panel = "process" THEN sent \cup {o} ELSE sent
    BY <2>1, <2>2, <2>3 DEF TypeOK
  <2>6. Abstract!Given(o)
    BY <2>1, <2>2, <2>4 DEF Abstract!Given
  <2>7. Abstract!Order(o) \/ Abstract!OrderAndSend(o)
    BY <2>1, <2>5, <2>6 DEF Abstract!Order, Abstract!OrderAndSend
  <2> QED
    BY <2>1, <2>7 DEF Abstract!Next
<1>5. ASSUME NEW n \in Runs, SendAfterLook(n) PROVE Abstract!Send(n)
  <2>1. order' = order /\ sent' = sent \cup {n} /\ pending' = pending
    BY <1>5 DEF SendAfterLook, TypeOK
  <2>2. order[n] # None /\ n \notin sent
    BY <1>5 DEF SendAfterLook, TypeOK
  <2> QED
    BY <2>1, <2>2 DEF Abstract!Send
<1>6. ASSUME NEW n \in Runs, KillSucceeds(n) PROVE UNCHANGED Abstract!vars
  <2>1. order' = order /\ sent' = sent /\ pending' = pending
    BY <1>6 DEF KillSucceeds, TypeOK
  <2> QED
    BY <2>1 DEF Abstract!vars
<1>7. ASSUME NEW n \in Runs, RunEnds(n) PROVE Abstract!Drop
  <2>1. order' = order /\ sent' = sent /\ pending' = None
    BY <1>7 DEF RunEnds, CloseDialog, TypeOK
  <2> QED
    BY <2>1 DEF Abstract!Drop
<1>8. CASE UNCHANGED vars
  BY <1>8 DEF vars, Abstract!vars
<1> QED
  BY <1>1, <1>2, <1>3, <1>4, <1>5, <1>6, <1>7, <1>8 DEF Next, Backend, User, Abstract!Next

\* Any number of processes or listeners, requests and confirmations: a stop is
\* sent at most once for an order, for the target the dialog named when it was given.
THEOREM StopImplementsConfirmedStop == Spec => ImplementsConfirmedStop
<1>1. Init => Abstract!Init
  BY AbstractInit
<1>2. TypeOK /\ [Next]_vars => [Abstract!Next]_(Abstract!vars)
  BY AbstractNext
<1> QED
  BY <1>1, <1>2, TypeCorrect, PTL DEF Spec, ImplementsConfirmedStop, Abstract!Spec
=============================================================================
