---------------------------- MODULE ProcessList ----------------------------
(***************************************************************************)
(* The table of the process panel (ProcessManager.jsx, processTree.js):    *)
(* from the list of the last refresh, the filters and the groups the user  *)
(* opened to the rows and the load each of them shows. A list is a         *)
(* snapshot cut off at 500 entries: a parent may be missing, be the        *)
(* process itself, or close a cycle once its pid was given out again.      *)
(* Order, names and memory are left out; a load is what it is the sum of.  *)
(***************************************************************************)
EXTENDS Integers, FiniteSets, Functions

CONSTANTS Pids,
          None    \* no parent, parent_pid 0

ASSUME PidsAssumption == IsFiniteSet(Pids) /\ None \notin Pids

VARIABLES procs,    \* the list: pid -> its parent
          flagged,  \* the processes that pass the filters when one is set
          filter,   \* none; toggle (killable, dashboard-owned); search (text, status): expands all groups
          expanded  \* expandedProcessIds
vars == <<procs, flagged, filter, expanded>>

Depths == 0..Cardinality(Pids)
Listed == DOMAIN procs
HasParent(p) == procs[p] \in Listed \ {p}
Matches == IF filter = "none" THEN Listed ELSE flagged

-----------------------------------------------------------------------------
\* buildVisibleProcessTree. A match brings its ancestors with it.
Climb[n \in Depths] ==
  IF n = 0 THEN Matches ELSE Climb[n - 1] \cup {procs[p] : p \in {q \in Climb[n - 1] : HasParent(q)}}
Included == Climb[Cardinality(Pids)]

\* Mutant: only a process without a parent is a root.
Roots_WithoutParent == {p \in Included : procs[p] \in {None, p}}

Roots == {p \in Included : procs[p] \in {None, p} \/ procs[p] \notin Included}

\* buildNode: a node with its lineage, which cuts off what is its own ancestor.
Children(node) == {[pid |-> c, lineage |-> node.lineage \cup {c}] :
                     c \in {p \in Included : procs[p] = node.pid /\ p \notin node.lineage}}
Generation[n \in Depths] ==
  IF n = 0 THEN {[pid |-> r, lineage |-> {r}] : r \in Roots}
  ELSE UNION {Children(node) : node \in Generation[n - 1]}
Tree == UNION {Generation[n] : n \in Depths}

\* aggregateCpuPercent: how often the load of each process is in the sum.
Own(node) == [p \in Pids |-> IF p = node.pid THEN 1 ELSE 0]
Aggregate[node \in Tree] ==
  [p \in Pids |-> SumFunction([child \in Children(node) |-> Aggregate[child][p]]) + Own(node)[p]]

\* collectExpandableProcessIds.
Expandable == {node.pid : node \in {n \in Tree : Children(n) # {}}}

\* flattenProcessTree.
Open(node) == filter = "search" \/ node.pid \in expanded
Layer[n \in Depths] ==
  IF n = 0 THEN Generation[0] ELSE UNION {Children(node) : node \in {m \in Layer[n - 1] : Open(m)}}
Rows == UNION {Layer[n] : n \in Depths}

\* Mutant: a group shows its total whether it is open or not.
Displayed_Total(node) == Aggregate[node]

\* getDisplayedCpuPercent.
Displayed(node) == IF Children(node) # {} /\ ~Open(node) THEN Aggregate[node] ELSE Own(node)

-----------------------------------------------------------------------------
\* The panel is opened.
Init == procs = <<>> /\ flagged = {} /\ filter = "none" /\ expanded = {}

\* Mutant: the groups stay as they are when the tree changes.
Prune_Nothing == expanded' = expanded

\* The effect on processTree.
Prune == expanded' = expanded \cap Expandable'

\* A refresh replaces the whole list: processes may have come, gone, or changed
\* hands with their pid since the last one, and report whatever parents they like.
Refresh ==
  /\ \E listed \in SUBSET Pids : procs' \in [listed -> Pids \cup {None}]
  /\ flagged' \in SUBSET DOMAIN procs'
  /\ filter' = filter
  /\ Prune

\* The search field, the status filter and the two toggles.
SetFilter(f) == f # filter /\ filter' = f /\ UNCHANGED <<procs, flagged>> /\ Prune

\* toggleProcessGroup, on a row with children.
Toggle(node) ==
  /\ Children(node) # {}
  /\ expanded' = IF node.pid \in expanded THEN expanded \ {node.pid} ELSE expanded \cup {node.pid}
  /\ UNCHANGED <<procs, flagged, filter>>

\* Another panel was open in between.
Reopen == filter' = "none" /\ expanded' = {} /\ UNCHANGED <<procs, flagged>>

Next == \/ Refresh
        \/ \E f \in {"none", "toggle", "search"} : SetFilter(f)
        \/ \E node \in Rows : Toggle(node)
        \/ Reopen
Spec == Init /\ [][Next]_vars

-----------------------------------------------------------------------------
\* Ranges, and only what has children in the present tree is remembered as open
\* (the effect on processTree): a group that a refresh or a filter leaves without
\* children is closed when it has some again.  What is remembered is the pid: one
\* with children in two successive lists stays open whoever it belongs to.
ListTypeOK ==
  /\ Listed \subseteq Pids /\ \A p \in Listed : procs[p] \in Pids \cup {None}
  /\ flagged \subseteq Listed /\ filter \in {"none", "toggle", "search"}
  /\ expanded \subseteq Expandable

\* The rows, groups with their totals among them, count every process of the
\* tree exactly once, whichever groups are open and whatever parents are
\* reported (buildNode, flattenProcessTree, getDisplayedCpuPercent).
CountedOnce ==
  \A p \in Pids : SumFunction([row \in Rows |-> Displayed(row)[p]])
                    = IF \E node \in Tree : node.pid = p THEN 1 ELSE 0

\* The parents reported for p lead round in a circle.
InCircle(p) == \E circle \in SUBSET Listed :
                 p \in circle /\ \A c \in circle : HasParent(c) /\ procs[c] \in circle

\* Every process that passes the filters has a row, or is in a group that has
\* one; a search leaves none of them inside a closed group. Processes whose
\* parents lead round in a circle are the exception: they have no root and
\* are not shown (buildVisibleProcessTree).
MatchesReachable ==
  \A p \in Matches : \/ InCircle(p)
                     \/ \E row \in Rows : row.pid = p
                     \/ /\ filter # "search"
                        /\ \E row \in Rows, node \in Tree : node.pid = p /\ row.lineage \subseteq node.lineage
=============================================================================
