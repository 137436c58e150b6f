---------------------------- MODULE ConfirmedStop ----------------------------
(***************************************************************************)
(* What the process and port panels promise: a stop is sent only for an    *)
(* order, an order is given only in the dialog, for the target the dialog  *)
(* names at that moment, and it is sent at most once.                      *)
(***************************************************************************)
CONSTANTS Targets,  \* processes or listeners
          Orders,   \* identities of orders
          None

VARIABLES asked,    \* the target the dialog names, or None
          order,    \* order -> the target it was given for, or None
          sent      \* the orders whose stop was sent
vars == <<asked, order, sent>>

Init == asked = None /\ order = [o \in Orders |-> None] /\ sent = {}

Ask(t) == asked' = t /\ UNCHANGED <<order, sent>>
Drop == asked' = None /\ UNCHANGED <<order, sent>>

Given(o) == asked # None /\ order[o] = None /\ order' = [order EXCEPT ![o] = asked]
Order(o) == Given(o) /\ UNCHANGED <<asked, sent>>
OrderAndSend(o) == Given(o) /\ sent' = sent \cup {o} /\ UNCHANGED asked
Send(o) == order[o] # None /\ o \notin sent /\ sent' = sent \cup {o} /\ UNCHANGED <<asked, order>>

Next == \/ Drop \/ \E t \in Targets : Ask(t)
        \/ \E o \in Orders : Order(o) \/ OrderAndSend(o) \/ Send(o)
Spec == Init /\ [][Next]_vars
=============================================================================
