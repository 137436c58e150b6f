--------------------------- MODULE MCLiveUpdateHub ---------------------------
(* TLC instances of LiveUpdateHub.                                           *)
EXTENDS LiveUpdateHub, TLC

\* Threads and subscriptions are interchangeable.
Symmetry == Permutations(Publishers) \cup Permutations(Subscribers)

\* Bound: two readers are subscribed at once only while half of the events are
\* drawn; with all of them a reader resumes after another has gone.
FewTogether == Cardinality(subscribers) > 1 => 2 * (nextId - 1) <= MaxEvents
=============================================================================
