------------------------------- MODULE FanOut -------------------------------
(***************************************************************************)
(* What the hub promises its readers: an event is published at one moment, *)
(* to all who are registered at that moment. Each of them hears of it      *)
(* once, of the event itself or that it was missed, unless it is lost to   *)
(* it for good.                                                            *)
(***************************************************************************)
CONSTANTS Readers,  \* each registers once
          Events

VARIABLES published,   \* the events so far
          registered,  \* the readers an event goes to
          owed,        \* what each reader has still to hear of
          heard,       \* what it has heard of
          lost         \* what it will never hear of
vars == <<published, registered, owed, heard, lost>>

Init ==
  /\ published = {} /\ registered = {}
  /\ owed = [r \in Readers |-> {}]
  /\ heard = [r \in Readers |-> {}]
  /\ lost = [r \in Readers |-> {}]

Publish(e) ==
  /\ e \notin published
  /\ published' = published \cup {e}
  /\ owed' = [r \in Readers |-> IF r \in registered THEN owed[r] \cup {e} ELSE owed[r]]
  /\ UNCHANGED <<registered, heard, lost>>

Register(r) ==
  /\ r \notin registered /\ owed[r] = {} /\ heard[r] = {}
  /\ registered' = registered \cup {r}
  /\ UNCHANGED <<published, owed, heard, lost>>

\* What is on its way to a reader that leaves may still reach it, or not.
Leave(r) ==
  /\ registered' = registered \ {r}
  /\ UNCHANGED <<published, owed, heard, lost>>

\* Of one event, or in a notice of all that it missed.
Hear(r) ==
  /\ \E told \in SUBSET owed[r] :
        /\ owed' = [owed EXCEPT ![r] = @ \ told]
        /\ heard' = [heard EXCEPT ![r] = @ \cup told]
  /\ UNCHANGED <<published, registered, lost>>

\* An exception in the middle of a publication can cost several readers an event.
Lose ==
  /\ lost' \in [Readers -> SUBSET Events]
  /\ \A r \in Readers : lost[r] \subseteq lost'[r] /\ lost'[r] \ lost[r] \subseteq owed[r]
  /\ owed' = [r \in Readers |-> owed[r] \ (lost'[r] \ lost[r])]
  /\ UNCHANGED <<published, registered, heard>>

Next ==
  \/ \E e \in Events : Publish(e)
  \/ \E r \in Readers : Register(r) \/ Leave(r) \/ Hear(r)
  \/ Lose

Spec == Init /\ [][Next]_vars
=============================================================================
