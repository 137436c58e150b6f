-------------------------- MODULE ProcessListProofs --------------------------
(* Machine-checked theorems about ProcessList: for lists of any length and     *)
(* whatever parents they report.                                               *)
EXTENDS ProcessList, FiniteSetTheorems, TLAPS

-----------------------------------------------------------------------------
(* Naturals, iterations and sums *)

LEMMA LeastOf ==
    ASSUME NEW T \in SUBSET Nat, T # {}
    PROVE  \E m \in T : \A k \in T : m <= k
<1> DEFINE Below == {0 .. t : t \in T}
<1>1. Below \subseteq FiniteSubsetsOf(Nat) /\ Below # {}
  <2>1. \A t \in T : IsFiniteSet(0 .. t) /\ 0 .. t \in SUBSET Nat
    BY FS_Interval
  <2> QED
    BY <2>1 DEF FiniteSubsetsOf
<1>2. PICK b \in Below : \A c \in Below : <<c, b>> \notin StrictSubsetOrdering(Nat)
  BY <1>1, FS_StrictSubsetOrderingWellFounded, WFMin
<1>3. PICK m \in T : b = 0 .. m
  OBVIOUS
<1>4. ASSUME NEW k \in T, k < m
      PROVE  FALSE
  <2>1. 0 .. k \in Below /\ 0 .. k \subseteq 0 .. m /\ 0 .. k # 0 .. m
    <3>1. m \in 0 .. m /\ m \notin 0 .. k
      BY <1>4
    <3> QED
      BY <3>1, <1>4
  <2>2. <<0 .. k, 0 .. m>> \in StrictSubsetOrdering(Nat)
    BY <2>1 DEF StrictSubsetOrdering
  <2> QED
    BY <1>2, <1>3, <2>1, <2>2
<1> QED
  BY <1>4

\* What holds at 0 and passes from each number of an interval to the next: the set
\* of the numbers where it holds is the whole interval.
LEMMA UpTo ==
    ASSUME NEW N \in Nat, NEW H \in SUBSET (0 .. N), 0 \in H,
           \A n \in 1 .. N : n - 1 \in H => n \in H
    PROVE  H = 0 .. N
<1> SUFFICES ASSUME NEW n \in 0 .. N, n \notin H
             PROVE  FALSE
  OBVIOUS
<1> DEFINE T == (0 .. N) \ H
<1>1. PICK m \in T : \A k \in T : m <= k
  <2>1. T \in SUBSET Nat /\ T # {}
    OBVIOUS
  <2> QED
    BY <2>1, LeastOf
<1>2. m \in 1 .. N /\ m - 1 \notin T
  BY <1>1
<1> QED
  BY <1>2

\* A recursion over an interval defines a function.
Iteration(f, m, D, a, G) ==
    f \in [0 .. m -> D] /\ f[0] = a /\ \A n \in 1 .. m : f[n] = G[f[n - 1]]

LEMMA Iterated ==
    ASSUME NEW N \in Nat, NEW D, NEW a, a \in D, NEW G, G \in [D -> D]
    PROVE  \E f : Iteration(f, N, D, a, G)
<1> DEFINE Is(m, f) == /\ f \in [0 .. m -> D] /\ f[0] = a
                       /\ \A n \in 1 .. m : f[n] = G[f[n - 1]]
           H == {m \in 0 .. N : \E f \in [0 .. m -> D] : Is(m, f)}
<1>1. 0 \in H
  <2>1. Is(0, [n \in 0 .. 0 |-> a]) /\ [n \in 0 .. 0 |-> a] \in [0 .. 0 -> D] /\ 0 \in 0 .. N
    OBVIOUS
  <2> HIDE DEF Is
  <2> QED
    BY <2>1
<1>2. ASSUME NEW m \in 1 .. N, m - 1 \in H
      PROVE  m \in H
  <2>1. PICK f \in [0 .. m - 1 -> D] : Is(m - 1, f)
    BY <1>2
  <2> DEFINE g == [n \in 0 .. m |-> IF n = m THEN G[f[m - 1]] ELSE f[n]]
  <2>2. m - 1 \in 0 .. m - 1 /\ G[f[m - 1]] \in D
    BY <2>1
  <2>3. g \in [0 .. m -> D] /\ g[0] = a /\ g[m] = G[f[m - 1]] /\ \A n \in 0 .. m - 1 : g[n] = f[n]
    BY <2>1, <2>2
  <2> HIDE DEF g
  <2>4. \A n \in 1 .. m : g[n] = G[g[n - 1]]
    <3> TAKE n \in 1 .. m
    <3>1. CASE n = m
      BY <2>2, <2>3, <3>1
    <3>2. CASE n # m
      <4>1. n \in 1 .. m - 1 /\ n - 1 \in 0 .. m - 1 /\ n \in 0 .. m - 1
        BY <3>2
      <4> QED
        BY <2>1, <2>3, <4>1
    <3> QED
      BY <3>1, <3>2
  <2> QED
    BY <2>3, <2>4
<1> HIDE DEF H
<1>3. H = 0 .. N
  <2>1. H \in SUBSET (0 .. N)
    BY DEF H
  <2> QED
    BY <1>1, <1>2, <2>1, UpTo
<1>4. PICK f \in [0 .. N -> D] : Is(N, f)
  <2>1. N \in H
    BY <1>3
  <2> HIDE DEF Is
  <2> QED
    BY <2>1 DEF H
<1> QED
  BY <1>4 DEF Iteration

\* A sum of zeros and at most one 1.
LEMMA SumOfOne ==
    ASSUME NEW S, IsFiniteSet(S), NEW f \in [S -> {0, 1}],
           \A x, y \in S : f[x] = 1 /\ f[y] = 1 => x = y
    PROVE  SumFunction(f) = IF \E x \in S : f[x] = 1 THEN 1 ELSE 0
<1> DEFINE choice(s) == CHOOSE x \in s : TRUE
           Sum(g) == [s \in SUBSET S |-> IF s = {} THEN 0 ELSE f[choice(s)] + g[s \ {choice(s)}]]
           one == [s \in SUBSET S |-> IF \E x \in s : f[x] = 1 THEN 1 ELSE 0]
           iter == CHOOSE g : g = Sum(g)
<1>1. \A s \in SUBSET S : s # {} => choice(s) \in s
  OBVIOUS
<1>2. one = Sum(one)
  <2> SUFFICES ASSUME NEW s \in SUBSET S, s # {}
               PROVE  one[s] = f[choice(s)] + one[s \ {choice(s)}]
    OBVIOUS
  <2>1. PICK x \in s : x = choice(s)
    BY <1>1
  <2>2. CASE f[x] = 1
    <3>1. \A y \in s \ {x} : f[y] # 1
      BY <2>2
    <3> QED
      BY <2>1, <2>2, <3>1
  <2>3. CASE f[x] = 0
    <3>1. (\E y \in s : f[y] = 1) <=> (\E y \in s \ {x} : f[y] = 1)
      BY <2>3
    <3>2. s \ {x} \in SUBSET S /\ one[s] = one[s \ {x}] /\ one[s] \in {0, 1}
      BY <3>1
    <3> QED
      BY <2>1, <2>3, <3>2
  <2> QED
    BY <2>2, <2>3
<1>3. iter = Sum(iter)
  BY <1>2
<1>4. SumFunction(f) = iter[S]
  BY DEF SumFunction, SumFunctionOnSet, FoldFunctionOnSet, MapThenFoldSet
<1>5. iter[S] = one[S]
  <2> HIDE DEF iter, one
  <2> DEFINE Differ == {s \in SUBSET S : iter[s] # one[s]}
  <2> SUFFICES ASSUME Differ # {} PROVE FALSE
    OBVIOUS
  <2>1. Differ \subseteq FiniteSubsetsOf(S)
    BY FS_FiniteSubsetsOfFinite
  <2>2. PICK s \in Differ : \A t \in Differ : <<t, s>> \notin StrictSubsetOrdering(S)
    BY <2>1, FS_StrictSubsetOrderingWellFounded, WFMin
  <2>3. s # {}
    BY <1>2, <1>3
  <2>4. s \ {choice(s)} \notin Differ
    <3>1. s \ {choice(s)} \subseteq s /\ s \ {choice(s)} # s
      BY <1>1, <2>3
    <3> QED
      BY <2>2, <3>1 DEF StrictSubsetOrdering
  <2>5. iter[s] = f[choice(s)] + iter[s \ {choice(s)}] /\ one[s] = f[choice(s)] + one[s \ {choice(s)}]
    BY <1>2, <1>3, <2>3
  <2> QED
    BY <2>4, <2>5
<1> QED
  BY <1>4, <1>5

-----------------------------------------------------------------------------
(* The included processes: closed under parents *)

\* ListTypeOK without the groups that are open.
Lists ==
    /\ Listed \subseteq Pids /\ \A p \in Listed : procs[p] \in Pids \cup {None}
    /\ flagged \subseteq Listed /\ filter \in {"none", "toggle", "search"}

N == Cardinality(Pids)

LEMMA DepthsAre == N \in Nat /\ Depths = 0 .. N
BY PidsAssumption, FS_CardinalityType DEF N, Depths

Higher(S) == S \cup {procs[p] : p \in {q \in S : HasParent(q)}}

LEMMA ClimbIs ==
    ASSUME Lists
    PROVE  /\ Climb \in [Depths -> SUBSET Listed]
           /\ Climb[0] = Matches
           /\ \A n \in 1 .. N : Climb[n] = Higher(Climb[n - 1])
<1> DEFINE D == SUBSET Listed
           G == [S \in D |-> Higher(S)]
<1>1. G \in [D -> D] /\ Matches \in D
  BY DEF Higher, HasParent, Matches, Lists
<1>2. PICK f : Iteration(f, N, D, Matches, G)
  <2> HIDE DEF D, G
  <2> QED
    BY <1>1, DepthsAre, Iterated
<1>3. \A n \in 1 .. N : n - 1 \in 0 .. N /\ f[n] = Higher(f[n - 1])
  <2>1. \A n \in 1 .. N : n - 1 \in 0 .. N /\ f[n - 1] \in D
    <3> HIDE DEF D, G
    <3> QED
      BY <1>2, DepthsAre DEF Iteration
  <2>2. \A S \in D : G[S] = Higher(S)
    <3> HIDE DEF D
    <3> QED
      OBVIOUS
  <2> HIDE DEF D, G
  <2> QED
    BY <1>2, <2>1, <2>2 DEF Iteration
<1>4. f = [n \in Depths |-> IF n = 0 THEN Matches ELSE Higher(f[n - 1])]
  <2>1. \A n \in 0 .. N : n # 0 => n \in 1 .. N
    BY DepthsAre
  <2> HIDE DEF D, G
  <2> QED
    BY <1>2, <1>3, <2>1, DepthsAre DEF Iteration
<1>5. Climb = [n \in Depths |-> IF n = 0 THEN Matches ELSE Higher(Climb[n - 1])]
  BY <1>4 DEF Climb, Higher
<1>6. Climb[0] = Matches /\ \A n \in 1 .. N : Climb[n] = Higher(Climb[n - 1])
  BY <1>5, DepthsAre
<1>7. Climb \in [Depths -> SUBSET Listed]
  <2> DEFINE H == {n \in 0 .. N : Climb[n] \in SUBSET Listed}
  <2>1. 0 \in H
    BY <1>1, <1>6, DepthsAre
  <2>2. \A n \in 1 .. N : n - 1 \in H => n \in H
    BY <1>6 DEF Higher, HasParent
  <2>3. H = 0 .. N
    <3>1. H \in SUBSET (0 .. N)
      OBVIOUS
    <3> HIDE DEF H
    <3> QED
      BY <2>1, <2>2, <3>1, DepthsAre, UpTo
  <2> QED
    BY <1>5, <2>3, DepthsAre
<1> QED
  BY <1>6, <1>7

\* As many steps as there are processes reach every ancestor: a step that adds none
\* is the last to add any, and each of the others adds one at least.
LEMMA IncludedClosed ==
    ASSUME Lists
    PROVE  /\ Included \subseteq Listed /\ Matches \subseteq Included
           /\ \A q \in Included : HasParent(q) => procs[q] \in Included
<1>1. /\ Climb \in [0 .. N -> SUBSET Listed] /\ Climb[0] = Matches /\ Included = Climb[N]
      /\ \A n \in 1 .. N : Climb[n] = Higher(Climb[n - 1])
      /\ N \in Nat
  BY ClimbIs, DepthsAre DEF Included, N
<1> HIDE DEF Climb, Included
<1>2. Matches \subseteq Included
  <2> DEFINE H == {n \in 0 .. N : Matches \subseteq Climb[n]}
  <2>1. 0 \in H /\ H \in SUBSET (0 .. N)
    BY <1>1
  <2>2. \A n \in 1 .. N : n - 1 \in H => n \in H
    BY <1>1 DEF Higher
  <2>3. H = 0 .. N
    <3> HIDE DEF H
    <3> QED
      BY <1>1, <2>1, <2>2, UpTo
  <2> QED
    BY <1>1, <2>3
<1>3. Higher(Included) = Included
  <2> SUFFICES ASSUME Higher(Included) # Included
               PROVE  FALSE
    OBVIOUS
  <2>1. \A n \in 0 .. N : Higher(Climb[n]) # Climb[n]
    <3> SUFFICES ASSUME NEW n \in 0 .. N, Higher(Climb[n]) = Climb[n]
                 PROVE  FALSE
      OBVIOUS
    <3> DEFINE H == {k \in 0 .. N - n : Climb[n + k] = Climb[n]}
    <3>1. 0 \in H /\ H \in SUBSET (0 .. N - n) /\ N - n \in Nat
      BY <1>1
    <3>2. \A k \in 1 .. N - n : k - 1 \in H => k \in H
      <4> SUFFICES ASSUME NEW k \in 1 .. N - n, Climb[n + (k - 1)] = Climb[n]
                   PROVE  Climb[n + k] = Climb[n]
        BY <1>1
      <4>1. n + k \in 1 .. N /\ (n + k) - 1 = n + (k - 1)
        BY <1>1
      <4> QED
        BY <1>1, <4>1
    <3>3. H = 0 .. N - n
      <4> HIDE DEF H
      <4> QED
        BY <3>1, <3>2, UpTo
    <3>4. Climb[N] = Climb[n]
      <4>1. N - n \in 0 .. N - n /\ n + (N - n) = N
        BY <1>1, <3>1
      <4>2. N - n \in H
        BY <3>3, <4>1
      <4> QED
        BY <4>1, <4>2
    <3> QED
      BY <1>1, <3>4
  <2>2. \A n \in 0 .. N : /\ Climb[n] \in SUBSET Pids /\ IsFiniteSet(Climb[n])
                          /\ Cardinality(Climb[n]) \in Nat /\ Cardinality(Climb[n]) <= N
    BY <1>1, PidsAssumption, FS_Subset, FS_CardinalityType DEF Lists, N
  <2> DEFINE H == {n \in 0 .. N : Cardinality(Climb[n]) >= n + 1}
  <2>3. 0 \in H
    <3>1. Climb[0] # {}
      BY <1>1, <2>1 DEF Higher
    <3>2. Cardinality(Climb[0]) # 0
      BY <1>1, <2>2, <3>1, FS_EmptySet
    <3> QED
      BY <1>1, <2>2, <3>2
  <2>4. ASSUME NEW n \in 1 .. N, n - 1 \in H
        PROVE  n \in H
    <3>1. n - 1 \in 0 .. N /\ n \in 0 .. N
      BY <1>1
    <3>2. Climb[n - 1] \subseteq Climb[n] /\ Climb[n] # Climb[n - 1]
      BY <1>1, <2>1, <3>1 DEF Higher
    <3>3. /\ Cardinality(Climb[n - 1]) <= Cardinality(Climb[n])
          /\ Cardinality(Climb[n]) # Cardinality(Climb[n - 1])
      BY <2>2, <3>1, <3>2, FS_Subset
    <3>4. Cardinality(Climb[n - 1]) \in Nat /\ Cardinality(Climb[n]) \in Nat
      BY <2>2, <3>1
    <3> QED
      BY <2>4, <3>1, <3>3, <3>4
  <2>5. H = 0 .. N
    <3>1. H \in SUBSET (0 .. N)
      OBVIOUS
    <3> HIDE DEF H
    <3> QED
      BY <1>1, <2>3, <2>4, <3>1, UpTo
  <2>6. Cardinality(Climb[N]) >= N + 1
    BY <1>1, <2>5
  <2> QED
    BY <1>1, <2>2, <2>6
<1> QED
  BY <1>1, <1>2, <1>3 DEF Higher

-----------------------------------------------------------------------------
(* The tree: its nodes and the rows among them, generation by generation *)

Node == [pid : Pids, lineage : SUBSET Pids]

Below(S) == UNION {Children(node) : node \in S}

First == {[pid |-> r, lineage |-> {r}] : r \in Roots}

LEMMA NodesBelow ==
    ASSUME Lists
    PROVE  /\ First \in SUBSET Node
           /\ \A node \in Node : Children(node) \in SUBSET Node
           /\ \A S \in SUBSET Node : Below(S) \in SUBSET Node
<1>1. Included \subseteq Pids
  BY IncludedClosed DEF Lists
<1>2. First \in SUBSET Node
  BY <1>1 DEF First, Roots, Node
<1>3. \A node \in Node : Children(node) \in SUBSET Node
  <2> HIDE DEF Included
  <2> QED
    BY <1>1 DEF Children, Node
<1>4. \A S \in SUBSET Node : Below(S) \in SUBSET Node
  <2> HIDE DEF Node, Children
  <2> QED
    BY <1>3 DEF Below
<1> QED
  BY <1>2, <1>3, <1>4

LEMMA GenerationIs ==
    ASSUME Lists
    PROVE  /\ Generation \in [0 .. N -> SUBSET Node]
           /\ Generation[0] = First
           /\ \A n \in 1 .. N : Generation[n] = Below(Generation[n - 1])
<1> DEFINE D == SUBSET Node
           G == [S \in D |-> Below(S)]
<1>1. G \in [D -> D] /\ First \in D
  BY NodesBelow
<1>2. PICK f : Iteration(f, N, D, First, G)
  <2> HIDE DEF D, G
  <2> QED
    BY <1>1, DepthsAre, Iterated
<1>3. \A n \in 1 .. N : n - 1 \in 0 .. N /\ f[n] = Below(f[n - 1])
  <2>1. \A n \in 1 .. N : n - 1 \in 0 .. N /\ f[n - 1] \in D
    <3> HIDE DEF D, G
    <3> QED
      BY <1>2, DepthsAre DEF Iteration
  <2>2. \A S \in D : G[S] = Below(S)
    <3> HIDE DEF D
    <3> QED
      OBVIOUS
  <2> HIDE DEF D, G
  <2> QED
    BY <1>2, <2>1, <2>2 DEF Iteration
<1>4. f = [n \in Depths |-> IF n = 0 THEN First ELSE Below(f[n - 1])]
  <2>1. \A n \in 0 .. N : n # 0 => n \in 1 .. N
    BY DepthsAre
  <2> HIDE DEF D, G
  <2> QED
    BY <1>2, <1>3, <2>1, DepthsAre DEF Iteration
<1>5. Generation = [n \in Depths |-> IF n = 0 THEN First ELSE Below(Generation[n - 1])]
  BY <1>4 DEF Generation, First, Below
<1>6. Generation[0] = First /\ \A n \in 1 .. N : Generation[n] = Below(Generation[n - 1])
  BY <1>5, DepthsAre
<1>7. Generation \in [0 .. N -> D]
  <2> DEFINE H == {n \in 0 .. N : Generation[n] \in D}
  <2>1. 0 \in H
    BY <1>1, <1>6, DepthsAre
  <2>2. \A n \in 1 .. N : n - 1 \in H => n \in H
    BY <1>6, NodesBelow
  <2>3. H = 0 .. N
    <3>1. H \in SUBSET (0 .. N)
      OBVIOUS
    <3> HIDE DEF H
    <3> QED
      BY <2>1, <2>2, <3>1, DepthsAre, UpTo
  <2> HIDE DEF D
  <2> QED
    BY <1>5, <2>3, DepthsAre
<1> QED
  BY <1>6, <1>7

OpenIn(S) == {node \in S : Open(node)}

LEMMA LayerIs ==
    ASSUME Lists
    PROVE  /\ Layer \in [0 .. N -> SUBSET Node]
           /\ Layer[0] = First
           /\ \A n \in 1 .. N : Layer[n] = Below(OpenIn(Layer[n - 1]))
<1> DEFINE D == SUBSET Node
           G == [S \in D |-> Below(OpenIn(S))]
<1>1. G \in [D -> D] /\ First \in D
  <2>1. \A S \in SUBSET Node : OpenIn(S) \in SUBSET Node
    BY DEF OpenIn
  <2> QED
    BY <2>1, NodesBelow
<1>2. PICK f : Iteration(f, N, D, First, G)
  <2> HIDE DEF D, G
  <2> QED
    BY <1>1, DepthsAre, Iterated
<1>3. \A n \in 1 .. N : n - 1 \in 0 .. N /\ f[n] = Below(OpenIn(f[n - 1]))
  <2>1. \A n \in 1 .. N : n - 1 \in 0 .. N /\ f[n - 1] \in D
    <3> HIDE DEF D, G
    <3> QED
      BY <1>2, DepthsAre DEF Iteration
  <2>2. \A S \in D : G[S] = Below(OpenIn(S))
    <3> HIDE DEF D
    <3> QED
      OBVIOUS
  <2> HIDE DEF D, G
  <2> QED
    BY <1>2, <2>1, <2>2 DEF Iteration
<1>4. f = [n \in Depths |-> IF n = 0 THEN Generation[0] ELSE Below(OpenIn(f[n - 1]))]
  <2>1. \A n \in 0 .. N : n # 0 => n \in 1 .. N
    BY DepthsAre
  <2>2. Generation[0] = First
    BY GenerationIs
  <2> HIDE DEF D, G, Generation
  <2> QED
    BY <1>2, <1>3, <2>1, <2>2, DepthsAre DEF Iteration
<1>5. Layer = [n \in Depths |-> IF n = 0 THEN Generation[0] ELSE Below(OpenIn(Layer[n - 1]))]
  BY <1>4 DEF Layer, Below, OpenIn
<1>6. Layer[0] = First /\ \A n \in 1 .. N : Layer[n] = Below(OpenIn(Layer[n - 1]))
  BY <1>5, GenerationIs, DepthsAre
<1>7. Layer \in [0 .. N -> D]
  <2> DEFINE H == {n \in 0 .. N : Layer[n] \in D}
  <2>1. 0 \in H
    BY <1>1, <1>6, DepthsAre
  <2>2. \A n \in 1 .. N : n - 1 \in H => n \in H
    <3>1. \A S \in SUBSET Node : OpenIn(S) \in SUBSET Node
      BY DEF OpenIn
    <3> QED
      BY <1>6, <3>1, NodesBelow
  <2>3. H = 0 .. N
    <3>1. H \in SUBSET (0 .. N)
      OBVIOUS
    <3> HIDE DEF H
    <3> QED
      BY <2>1, <2>2, <3>1, DepthsAre, UpTo
  <2> HIDE DEF D
  <2> QED
    BY <1>5, <2>3, DepthsAre
<1> QED
  BY <1>6, <1>7

LEMMA ChildrenAre ==
    ASSUME Lists, NEW m \in Node
    PROVE  \A c : c \in Children(m) <=> /\ c \in Node /\ c.pid \in Included /\ c.pid \notin m.lineage
                                        /\ procs[c.pid] = m.pid /\ c.lineage = m.lineage \cup {c.pid}
<1>1. Included \subseteq Pids
  BY IncludedClosed DEF Lists
<1> HIDE DEF Included
<1> QED
  BY <1>1 DEF Children, Node

LEMMA FirstAre ==
    ASSUME Lists
    PROVE  \A c : c \in First <=> c \in Node /\ c.pid \in Roots /\ c.lineage = {c.pid}
<1>1. Roots \subseteq Pids
  BY IncludedClosed DEF Lists, Roots
<1> HIDE DEF Roots
<1> QED
  BY <1>1 DEF First, Node

\* A lineage grows by one in each generation: the last one is empty.
LEMMA NoLastGeneration ==
    ASSUME Lists
    PROVE  Generation[N] = {}
<1> DEFINE H == {n \in 0 .. N : \A node \in Generation[n] : /\ IsFiniteSet(node.lineage)
                                                            /\ Cardinality(node.lineage) = n + 1}
<1>1. 0 \in H
  <2>1. ASSUME NEW node \in Generation[0]
        PROVE  IsFiniteSet(node.lineage) /\ Cardinality(node.lineage) = 1
    <3>1. node.lineage = {node.pid}
      BY GenerationIs, FirstAre
    <3> DEFINE p == node.pid
    <3>2. IsFiniteSet({p}) /\ Cardinality({p}) = 1
      <4> HIDE DEF p
      <4> QED
        BY FS_Singleton
    <3> QED
      BY <3>1, <3>2
  <2> QED
    BY <2>1, DepthsAre
<1>2. ASSUME NEW n \in 1 .. N, n - 1 \in H
      PROVE  n \in H
  <2> SUFFICES ASSUME NEW node \in Generation[n]
               PROVE  IsFiniteSet(node.lineage) /\ Cardinality(node.lineage) = n + 1
    BY DepthsAre
  <2>1. n - 1 \in 0 .. N /\ Generation[n - 1] \in SUBSET Node
    BY GenerationIs, DepthsAre
  <2>2. PICK m \in Generation[n - 1] : node \in Children(m)
    BY GenerationIs DEF Below
  <2>3. node.pid \notin m.lineage /\ node.lineage = m.lineage \cup {node.pid}
    BY <2>1, <2>2, ChildrenAre
  <2>4. IsFiniteSet(m.lineage) /\ Cardinality(m.lineage) = (n - 1) + 1
    BY <1>2, <2>2
  <2>5. /\ IsFiniteSet(m.lineage \cup {node.pid})
        /\ Cardinality(m.lineage \cup {node.pid}) = Cardinality(m.lineage) + 1
    BY <2>3, <2>4, FS_AddElement
  <2> QED
    BY <2>3, <2>4, <2>5, DepthsAre
<1>3. H = 0 .. N
  <2>1. H \in SUBSET (0 .. N)
    OBVIOUS
  <2> HIDE DEF H
  <2> QED
    BY <1>1, <1>2, <2>1, DepthsAre, UpTo
<1> SUFFICES ASSUME NEW node \in Generation[N]
             PROVE  FALSE
  OBVIOUS
<1>4. N \in H /\ node \in Node
  BY <1>3, GenerationIs, DepthsAre
<1>5. Cardinality(node.lineage) = N + 1 /\ node.lineage \subseteq Pids
  BY <1>4 DEF Node
<1>6. Cardinality(node.lineage) <= N
  BY <1>5, PidsAssumption, FS_Subset DEF N
<1> QED
  BY <1>5, <1>6, DepthsAre

LEMMA TreeClosed ==
    ASSUME Lists
    PROVE  /\ Tree \subseteq Node /\ First \subseteq Tree
           /\ \A m \in Tree : Children(m) \subseteq Tree
<1>1. /\ Generation \in [0 .. N -> SUBSET Node] /\ Generation[0] = First /\ Generation[N] = {}
      /\ \A n \in 1 .. N : Generation[n] = Below(Generation[n - 1])
      /\ N \in Nat /\ Tree = UNION {Generation[n] : n \in 0 .. N}
  BY GenerationIs, NoLastGeneration, DepthsAre DEF Tree
<1> HIDE DEF Generation, Tree, First
<1>2. ASSUME NEW m \in Tree
      PROVE  Children(m) \subseteq Tree
  <2>1. PICK n \in 0 .. N : m \in Generation[n]
    BY <1>1
  <2>2. n # N /\ n + 1 \in 1 .. N /\ n + 1 \in 0 .. N /\ (n + 1) - 1 = n
    BY <1>1, <2>1
  <2>3. Generation[n + 1] = Below(Generation[n])
    BY <1>1, <2>2
  <2>4. Children(m) \subseteq Below(Generation[n])
    BY <2>1 DEF Below
  <2> QED
    BY <1>1, <2>2, <2>3, <2>4
<1> QED
  BY <1>1, <1>2

\* What holds of the roots and passes from each node to its children.
LEMMA DownTheTree ==
    ASSUME Lists, NEW Good, Good \in SUBSET Tree, First \subseteq Good,
           \A m \in Good : Children(m) \subseteq Good
    PROVE  Good = Tree
<1> DEFINE H == {n \in 0 .. N : Generation[n] \subseteq Good}
<1>1. 0 \in H
  BY GenerationIs, DepthsAre
<1>2. \A n \in 1 .. N : n - 1 \in H => n \in H
  BY GenerationIs DEF Below
<1>3. H = 0 .. N
  <2>1. H \in SUBSET (0 .. N)
    OBVIOUS
  <2> HIDE DEF H
  <2> QED
    BY <1>1, <1>2, <2>1, DepthsAre, UpTo
<1> QED
  BY <1>3, DepthsAre DEF Tree

LEMMA RowsClosed ==
    ASSUME Lists
    PROVE  /\ Rows \subseteq Tree /\ First \subseteq Rows
           /\ \A m \in Rows : Open(m) => Children(m) \subseteq Rows
<1>1. /\ Layer \in [0 .. N -> SUBSET Node] /\ Layer[0] = First
      /\ \A n \in 1 .. N : Layer[n] = Below(OpenIn(Layer[n - 1]))
      /\ N \in Nat /\ Rows = UNION {Layer[n] : n \in 0 .. N}
  BY LayerIs, DepthsAre DEF Rows
<1>2. /\ Generation[0] = First /\ Generation[N] = {}
      /\ \A n \in 1 .. N : Generation[n] = Below(Generation[n - 1])
      /\ Tree = UNION {Generation[n] : n \in 0 .. N}
  BY GenerationIs, NoLastGeneration, DepthsAre DEF Tree
<1> HIDE DEF Generation, Layer, Tree, Rows, First
<1>3. \A n \in 0 .. N : Layer[n] \subseteq Generation[n]
  <2> DEFINE H == {n \in 0 .. N : Layer[n] \subseteq Generation[n]}
  <2>1. 0 \in H
    BY <1>1, <1>2
  <2>2. \A n \in 1 .. N : n - 1 \in H => n \in H
    BY <1>1, <1>2 DEF Below, OpenIn
  <2>3. H = 0 .. N
    <3>1. H \in SUBSET (0 .. N)
      OBVIOUS
    <3> HIDE DEF H
    <3> QED
      BY <1>1, <2>1, <2>2, <3>1, UpTo
  <2> QED
    BY <2>3
<1>4. ASSUME NEW m \in Rows, Open(m)
      PROVE  Children(m) \subseteq Rows
  <2>1. PICK n \in 0 .. N : m \in Layer[n]
    BY <1>1
  <2>2. n # N /\ n + 1 \in 1 .. N /\ n + 1 \in 0 .. N /\ (n + 1) - 1 = n
    BY <1>1, <1>2, <1>3, <2>1
  <2>3. Layer[n + 1] = Below(OpenIn(Layer[n]))
    BY <1>1, <2>2
  <2>4. Children(m) \subseteq Below(OpenIn(Layer[n]))
    BY <1>4, <2>1 DEF Below, OpenIn
  <2> QED
    BY <1>1, <2>2, <2>3, <2>4
<1> QED
  BY <1>1, <1>2, <1>3, <1>4

LEMMA DownTheRows ==
    ASSUME Lists, NEW Good, Good \in SUBSET Rows, First \subseteq Good,
           \A m \in Good : Open(m) => Children(m) \subseteq Good
    PROVE  Good = Rows
<1> DEFINE H == {n \in 0 .. N : Layer[n] \subseteq Good}
<1>1. 0 \in H
  BY LayerIs, DepthsAre
<1>2. \A n \in 1 .. N : n - 1 \in H => n \in H
  BY LayerIs DEF Below, OpenIn
<1>3. H = 0 .. N
  <2>1. H \in SUBSET (0 .. N)
    OBVIOUS
  <2> HIDE DEF H
  <2> QED
    BY <1>1, <1>2, <2>1, DepthsAre, UpTo
<1> QED
  BY <1>3, DepthsAre DEF Rows

-----------------------------------------------------------------------------
(* Lineages *)

\* A node has a root's lineage, or one more process than its parent's.
LEMMA NodesAre ==
    ASSUME Lists
    PROVE  \A d \in Tree : /\ d \in Node /\ d.pid \in d.lineage
                           /\ d \in First \/ \E m \in Tree : d \in Children(m)
<1> DEFINE Good == {d \in Tree : d \in First \/ \E m \in Tree : d \in Children(m)}
<1>1. Good \in SUBSET Tree /\ First \subseteq Good /\ \A m \in Good : Children(m) \subseteq Good
  BY TreeClosed
<1>2. Good = Tree
  <2> HIDE DEF Good
  <2> QED
    BY <1>1, DownTheTree
<1> SUFFICES ASSUME NEW d \in Tree
             PROVE  d.pid \in d.lineage
  BY <1>2, TreeClosed
<1>3. CASE d \in First
  BY <1>3, FirstAre
<1>4. CASE \E m \in Tree : d \in Children(m)
  <2>1. PICK m \in Tree : d \in Children(m)
    BY <1>4
  <2>2. m \in Node
    BY TreeClosed
  <2> QED
    BY <2>1, <2>2, ChildrenAre
<1> QED
  BY <1>2, <1>3, <1>4

\* No two nodes are the same process: a node's parent is the node of its parent.
LEMMA NodesAreUnique ==
    ASSUME Lists
    PROVE  \A a, b \in Tree : a.pid = b.pid => a = b
<1> DEFINE Good == {a \in Tree : \A b \in Tree : a.pid = b.pid => a = b}
<1>1. ASSUME NEW a \in First, NEW b \in Tree, a.pid = b.pid
      PROVE  a = b
  <2>1. b \in First
    <3> SUFFICES ASSUME NEW m \in Tree, b \in Children(m)
                 PROVE  FALSE
      BY NodesAre
    <3>1. m \in Node /\ m.pid \in m.lineage
      BY NodesAre
    <3>2. b.pid \in Included /\ b.pid \notin m.lineage /\ procs[b.pid] = m.pid
      BY <3>1, ChildrenAre
    <3>3. a.pid \in Roots
      BY FirstAre
    <3>4. m.pid \in Included
      <4>1. CASE m \in First
        BY <4>1, FirstAre DEF Roots
      <4>2. CASE \E e \in Tree : m \in Children(e)
        BY <4>2, NodesAre, ChildrenAre
      <4> QED
        BY <4>1, <4>2, NodesAre
    <3>5. m.pid # None
      BY <3>1, PidsAssumption DEF Node
    <3> HIDE DEF Included
    <3> QED
      BY <1>1, <3>1, <3>2, <3>3, <3>4, <3>5 DEF Roots
  <2>2. a \in Node /\ b \in Node /\ a.lineage = {a.pid} /\ b.lineage = {b.pid}
    BY <2>1, FirstAre
  <2> QED
    BY <1>1, <2>2 DEF Node
<1>2. ASSUME NEW m \in Good, NEW a \in Children(m), NEW b \in Tree, a.pid = b.pid
      PROVE  a = b
  <2>1. m \in Tree /\ a \in Tree /\ m \in Node
    BY TreeClosed
  <2>2. CASE b \in First
    BY <1>1, <1>2, <2>1, <2>2
  <2>3. CASE \E e \in Tree : b \in Children(e)
    <3>1. PICK e \in Tree : b \in Children(e)
      BY <2>3
    <3>2. e \in Node
      BY TreeClosed
    <3>3. a \in Node /\ procs[a.pid] = m.pid /\ a.lineage = m.lineage \cup {a.pid}
      BY <2>1, ChildrenAre
    <3>4. b \in Node /\ procs[b.pid] = e.pid /\ b.lineage = e.lineage \cup {b.pid}
      BY <3>1, <3>2, ChildrenAre
    <3>5. m = e
      BY <1>2, <3>3, <3>4
    <3> QED
      BY <1>2, <3>3, <3>4, <3>5 DEF Node
  <2> QED
    BY <2>2, <2>3, NodesAre
<1>3. Good = Tree
  <2>1. Good \in SUBSET Tree /\ First \subseteq Good /\ \A m \in Good : Children(m) \subseteq Good
    BY <1>1, <1>2, TreeClosed
  <2> HIDE DEF Good
  <2> QED
    BY <2>1, DownTheTree
<1> QED
  BY <1>3

\* The lineage of a node holds the lineages of the nodes of its processes, and only
\* those of one line.
LEMMA LineagesNest ==
    ASSUME Lists
    PROVE  \A d \in Tree :
             /\ \A x \in d.lineage : \E m \in Tree : m.pid = x
             /\ \A m \in Tree : m.pid \in d.lineage => m.lineage \subseteq d.lineage
             /\ \A m \in Tree : m.pid \in d.lineage /\ m # d => d.pid \notin m.lineage
             /\ \A m, k \in Tree : m.pid \in d.lineage /\ k.pid \in d.lineage
                                     => m.pid \in k.lineage \/ k.pid \in m.lineage
<1> DEFINE Nests(d) ==
             /\ \A x \in d.lineage : \E m \in Tree : m.pid = x
             /\ \A m \in Tree : m.pid \in d.lineage => m.lineage \subseteq d.lineage
             /\ \A m \in Tree : m.pid \in d.lineage /\ m # d => d.pid \notin m.lineage
             /\ \A m, k \in Tree : m.pid \in d.lineage /\ k.pid \in d.lineage
                                     => m.pid \in k.lineage \/ k.pid \in m.lineage
           Good == {d \in Tree : Nests(d)}
<1>1. ASSUME NEW d \in First
      PROVE  Nests(d)
  <2>1. d \in Tree /\ d.lineage = {d.pid}
    BY TreeClosed, FirstAre
  <2>2. \A m \in Tree : m.pid \in d.lineage => m = d
    BY <2>1, NodesAreUnique
  <2> QED
    BY <2>1, <2>2
<1>2. ASSUME NEW e \in Good, NEW d \in Children(e)
      PROVE  Nests(d)
  <2>1. d \in Tree /\ d.pid \notin e.lineage /\ d.lineage = e.lineage \cup {d.pid} /\ Nests(e)
    BY TreeClosed, ChildrenAre
  <2>2. \A m \in Tree : m.pid \in d.lineage => m = d \/ m.pid \in e.lineage
    BY <2>1, NodesAreUnique
  <2>3. \A m \in Tree : m.pid \in m.lineage
    BY NodesAre
  <2> HIDE DEF Tree, Children
  <2>4. \A x \in d.lineage : \E m \in Tree : m.pid = x
    BY <2>1
  <2>5. \A m \in Tree : m.pid \in d.lineage => m.lineage \subseteq d.lineage
    BY <2>1, <2>2
  <2>6. \A m \in Tree : m.pid \in d.lineage /\ m # d => d.pid \notin m.lineage
    BY <2>1, <2>2
  <2>7. \A m, k \in Tree : m.pid \in d.lineage /\ k.pid \in d.lineage
                             => m.pid \in k.lineage \/ k.pid \in m.lineage
    BY <2>1, <2>2, <2>3
  <2> QED
    BY <2>4, <2>5, <2>6, <2>7
<1>3. Good = Tree
  <2>1. Good \in SUBSET Tree /\ First \subseteq Good /\ \A m \in Good : Children(m) \subseteq Good
    <3> HIDE DEF Nests
    <3> QED
      BY <1>1, <1>2, TreeClosed
  <2> HIDE DEF Good
  <2> QED
    BY <2>1, DownTheTree
<1> QED
  BY <1>3

\* The way down from a node to one below it leads through exactly one child.
LEMMA OneWayDown ==
    ASSUME Lists
    PROVE  \A d, m \in Tree :
             /\ m.pid \in d.lineage /\ m # d => \E c \in Children(m) : c.pid \in d.lineage
             /\ \A c \in Children(m) : c.pid \in d.lineage => m.pid \in d.lineage /\ m # d
             /\ \A b, c \in Children(m) : b.pid \in d.lineage /\ c.pid \in d.lineage => b = c
<1>1. ASSUME NEW m \in Tree, NEW c \in Children(m)
      PROVE  /\ c \in Tree /\ m.pid \in c.lineage /\ c.pid \notin m.lineage
             /\ c.lineage = m.lineage \cup {c.pid}
  BY NodesAre, TreeClosed, ChildrenAre
<1> DEFINE Good == {d \in Tree : \A m \in Tree : m.pid \in d.lineage /\ m # d
                                  => \E c \in Children(m) : c.pid \in d.lineage}
<1>2. First \subseteq Good
  <2> SUFFICES ASSUME NEW d \in First, NEW m \in Tree, m.pid \in d.lineage
               PROVE  m = d
    BY TreeClosed
  <2> QED
    BY TreeClosed, FirstAre, NodesAreUnique
<1>3. ASSUME NEW e \in Good, NEW d \in Children(e)
      PROVE  d \in Good
  <2>1. d \in Tree /\ d.lineage = e.lineage \cup {d.pid} /\ e \in Tree /\ d.pid \in d.lineage
    BY <1>1, NodesAre
  <2> SUFFICES ASSUME NEW m \in Tree, m.pid \in d.lineage, m # d
               PROVE  \E c \in Children(m) : c.pid \in d.lineage
    BY <2>1
  <2>2. CASE m = e
    BY <1>3, <2>1, <2>2
  <2>3. CASE m # e
    <3>1. m.pid \in e.lineage
      BY <2>1, NodesAreUnique
    <3>2. PICK c \in Children(m) : c.pid \in e.lineage
      BY <1>3, <2>3, <3>1
    <3> QED
      BY <2>1, <3>2
  <2> QED
    BY <2>2, <2>3
<1>4. Good = Tree
  <2>1. Good \in SUBSET Tree /\ \A m \in Good : Children(m) \subseteq Good
    BY <1>3
  <2> HIDE DEF Good
  <2> QED
    BY <1>2, <2>1, DownTheTree
<1>5. ASSUME NEW d \in Tree, NEW m \in Tree, NEW c \in Children(m), c.pid \in d.lineage
      PROVE  m.pid \in d.lineage /\ m # d
  BY <1>1, <1>5, LineagesNest
<1>6. ASSUME NEW d \in Tree, NEW m \in Tree, NEW b \in Children(m), NEW c \in Children(m),
             b.pid \in d.lineage, c.pid \in d.lineage
      PROVE  b = c
  <2>1. b \in Tree /\ c \in Tree
    BY <1>1
  <2>2. b.pid \in c.lineage \/ c.pid \in b.lineage
    BY <1>6, <2>1, LineagesNest
  <2>3. b.pid = c.pid
    BY <1>1, <2>2
  <2> QED
    BY <2>1, <2>3, NodesAreUnique
<1> QED
  BY <1>4, <1>5, <1>6

-----------------------------------------------------------------------------
(* The types, and where the matches are *)

\* In every reachable state the list, the filters and the open groups keep their
\* ranges, and only processes that have children in the present tree are
\* remembered as open (the effect on processTree).
THEOREM ListTypeCorrect == Spec => []ListTypeOK
<1>1. Init => ListTypeOK
  <2> SUFFICES ASSUME Init
               PROVE  ListTypeOK
    OBVIOUS
  <2>1. Listed = {}
    BY DEF Init, Listed
  <2> QED
    BY <2>1 DEF Init, ListTypeOK
<1>2. ListTypeOK /\ [Next]_vars => ListTypeOK'
  <2> SUFFICES ASSUME ListTypeOK, [Next]_vars
               PROVE  ListTypeOK'
    OBVIOUS
  <2>1. Lists /\ expanded \subseteq Expandable
    BY DEF ListTypeOK, Lists
  <2>2. ASSUME UNCHANGED <<procs, flagged, filter>>
        PROVE  Expandable' = Expandable
    BY <2>2 DEF Expandable, Tree, Generation, Roots, Children, Included, Climb, HasParent,
                Matches, Listed, Depths
  <2>3. CASE Refresh
    <3>1. Lists'
      BY <2>1, <2>3 DEF Refresh, Lists, Listed
    <3>2. (expanded \subseteq Expandable)'
      BY <2>3 DEF Refresh, Prune
    <3> QED
      BY <3>1, <3>2 DEF ListTypeOK, Lists
  <2>4. ASSUME NEW f \in {"none", "toggle", "search"}, SetFilter(f)
        PROVE  ListTypeOK'
    <3>1. Lists'
      BY <2>1, <2>4 DEF SetFilter, Lists, Listed
    <3>2. (expanded \subseteq Expandable)'
      BY <2>4 DEF SetFilter, Prune
    <3> QED
      BY <3>1, <3>2 DEF ListTypeOK, Lists
  <2>5. ASSUME NEW node \in Rows, Toggle(node)
        PROVE  ListTypeOK'
    <3>1. Lists'
      BY <2>1, <2>5 DEF Toggle, Lists, Listed
    <3>2. node \in Tree /\ Children(node) # {}
      BY <2>1, <2>5, RowsClosed DEF Toggle
    <3>3. node.pid \in Expandable
      BY <3>2 DEF Expandable
    <3>4. Expandable' = Expandable
      BY <2>2, <2>5 DEF Toggle
    <3>5. (expanded \subseteq Expandable)'
      BY <2>1, <2>5, <3>3, <3>4 DEF Toggle
    <3> QED
      BY <3>1, <3>5 DEF ListTypeOK, Lists
  <2>6. CASE Reopen
    <3>1. Lists'
      BY <2>1, <2>6 DEF Reopen, Lists, Listed
    <3>2. (expanded \subseteq Expandable)'
      BY <2>6 DEF Reopen
    <3> QED
      BY <3>1, <3>2 DEF ListTypeOK, Lists
  <2>7. CASE UNCHANGED vars
    <3>1. Lists'
      BY <2>1, <2>7 DEF vars, Lists, Listed
    <3>2. Expandable' = Expandable
      BY <2>2, <2>7 DEF vars
    <3>3. (expanded \subseteq Expandable)'
      BY <2>1, <2>7, <3>2 DEF vars
    <3> QED
      BY <3>1, <3>3 DEF ListTypeOK, Lists
  <2> QED
    BY <2>3, <2>4, <2>5, <2>6, <2>7 DEF Next
<1> QED
  BY <1>1, <1>2, PTL DEF Spec

LEMMA TypedLists == ListTypeOK => Lists
BY DEF ListTypeOK, Lists

\* Above every node, or at it, there is a row: the node's own, or one that is closed.
LEMMA RowAbove ==
    ASSUME Lists
    PROVE  \A d \in Tree : \E row \in Rows : row.lineage \subseteq d.lineage /\ (row = d \/ ~Open(row))
<1> DEFINE Good == {d \in Tree : \E row \in Rows : /\ row.lineage \subseteq d.lineage
                                                   /\ row = d \/ ~Open(row)}
<1>1. First \subseteq Good
  BY TreeClosed, RowsClosed
<1>2. ASSUME NEW m \in Good, NEW d \in Children(m)
      PROVE  d \in Good
  <2>1. m \in Tree /\ d \in Tree /\ m.lineage \subseteq d.lineage
    BY TreeClosed, ChildrenAre
  <2>2. PICK row \in Rows : row.lineage \subseteq m.lineage /\ (row = m \/ ~Open(row))
    OBVIOUS
  <2>3. CASE row = m /\ Open(row)
    <3>1. d \in Rows
      BY <2>2, <2>3, RowsClosed
    <3> QED
      BY <2>1, <3>1
  <2>4. CASE ~Open(row)
    BY <2>1, <2>2, <2>4
  <2> QED
    BY <2>2, <2>3, <2>4
<1>3. Good = Tree
  <2>1. Good \in SUBSET Tree /\ \A m \in Good : Children(m) \subseteq Good
    BY <1>2
  <2> HIDE DEF Good
  <2> QED
    BY <1>1, <2>1, DownTheTree
<1> QED
  BY <1>3

\* The included processes without a node lead round in a circle: none of them is a
\* root, and the parent of none of them has a node.
LEMMA NodeOrCircle ==
    ASSUME Lists, NEW p \in Included, \A node \in Tree : node.pid # p
    PROVE  InCircle(p)
<1> DEFINE U == {q \in Included : \A node \in Tree : node.pid # q}
<1>1. U \in SUBSET Listed /\ p \in U
  BY IncludedClosed
<1>2. ASSUME NEW q \in U
      PROVE  HasParent(q) /\ procs[q] \in U
  <2>1. q \notin Roots
    <3> SUFFICES ASSUME q \in Roots
                 PROVE  \E node \in Tree : node.pid = q
      OBVIOUS
    <3>1. [pid |-> q, lineage |-> {q}] \in First
      BY DEF First
    <3> QED
      BY <3>1, TreeClosed
  <2>2. procs[q] \in Included /\ procs[q] # q /\ procs[q] \in Listed
    BY <2>1, IncludedClosed DEF Roots
  <2>3. ASSUME NEW m \in Tree, m.pid = procs[q]
        PROVE  FALSE
    <3>1. m \in Node
      BY TreeClosed
    <3>2. CASE q \in m.lineage
      BY <3>2, LineagesNest
    <3>3. CASE q \notin m.lineage
      <4>1. [pid |-> q, lineage |-> m.lineage \cup {q}] \in Children(m)
        BY <2>3, <3>3 DEF Children
      <4> QED
        BY <4>1, TreeClosed
    <3> QED
      BY <3>2, <3>3
  <2> QED
    BY <2>2, <2>3 DEF HasParent
<1> QED
  BY <1>1, <1>2 DEF InCircle

\* In every reachable state a process that passes the filters has a row or is in a
\* closed group that has one, unless its parents lead round in a circle
\* (buildVisibleProcessTree, flattenProcessTree).
THEOREM MatchesStayReachable == Spec => []MatchesReachable
<1>1. ListTypeOK => MatchesReachable
  <2> SUFFICES ASSUME Lists, NEW p \in Matches, ~InCircle(p)
               PROVE  \/ \E row \in Rows : row.pid = p
                      \/ /\ filter # "search"
                         /\ \E row \in Rows, node \in Tree : /\ node.pid = p
                                                             /\ row.lineage \subseteq node.lineage
    BY TypedLists DEF MatchesReachable
  <2>1. p \in Included
    BY IncludedClosed
  <2>2. PICK node \in Tree : node.pid = p
    BY <2>1, NodeOrCircle
  <2>3. PICK row \in Rows : row.lineage \subseteq node.lineage /\ (row = node \/ ~Open(row))
    BY RowAbove
  <2>4. CASE filter = "search"
    BY <2>2, <2>3, <2>4 DEF Open
  <2>5. CASE filter # "search"
    BY <2>2, <2>3, <2>5
  <2> QED
    BY <2>4, <2>5
<1> QED
  BY <1>1, ListTypeCorrect, PTL

-----------------------------------------------------------------------------
(* The sums *)

LEMMA TreeIsFinite ==
    ASSUME Lists, NEW S, S \subseteq Tree
    PROVE  IsFiniteSet(S)
<1> DEFINE f == [d \in Tree |-> d.pid]
<1>1. f \in Injection(Tree, Pids)
  <2>1. f \in [Tree -> Pids]
    BY TreeClosed DEF Node
  <2>2. \A a, b \in Tree : f[a] = f[b] => a = b
    BY NodesAreUnique
  <2> HIDE DEF f
  <2> QED
    BY <2>1, <2>2 DEF Injection, IsInjective
<1>2. IsFiniteSet(Tree)
  <2> HIDE DEF f
  <2> QED
    BY <1>1, PidsAssumption, FS_Injection
<1> QED
  BY <1>2, FS_Subset

\* What a node's sum counts: the processes of the nodes at and below it, once each.
Counted(d, p) == IF \E e \in Tree : e.pid = p /\ d.pid \in e.lineage THEN 1 ELSE 0

Counts == [d \in Tree |-> [p \in Pids |-> Counted(d, p)]]

AddsUp(A) == A = [d \in Tree |->
                    [p \in Pids |-> SumFunction([child \in Children(d) |-> A[child][p]]) + Own(d)[p]]]

LEMMA CountsAddUp ==
    ASSUME Lists
    PROVE  AddsUp(Counts)
<1> SUFFICES ASSUME NEW d \in Tree, NEW p \in Pids
             PROVE  Counts[d][p] = SumFunction([child \in Children(d) |-> Counts[child][p]]) + Own(d)[p]
  BY DEF AddsUp, Counts
<1> DEFINE f == [child \in Children(d) |-> Counts[child][p]]
<1>1. \A c \in Children(d) : c \in Tree /\ f[c] = Counted(c, p)
  BY TreeClosed DEF Counts
<1>2. f \in [Children(d) -> {0, 1}]
  <2>1. \A c \in Children(d) : Counted(c, p) \in {0, 1}
    BY DEF Counted
  <2>2. f = [child \in Children(d) |-> f[child]]
    OBVIOUS
  <2> HIDE DEF f
  <2> QED
    BY <1>1, <2>1, <2>2
<1>3. \A b, c \in Children(d) : f[b] = 1 /\ f[c] = 1 => b = c
  <2> SUFFICES ASSUME NEW b \in Children(d), NEW c \in Children(d), Counted(b, p) = 1, Counted(c, p) = 1
               PROVE  b = c
    BY <1>1
  <2>1. PICK e \in Tree : e.pid = p /\ b.pid \in e.lineage
    BY DEF Counted
  <2>2. PICK g \in Tree : g.pid = p /\ c.pid \in g.lineage
    BY DEF Counted
  <2>3. e = g
    BY <2>1, <2>2, NodesAreUnique
  <2> QED
    BY <2>1, <2>2, <2>3, OneWayDown
<1>4. SumFunction(f) = IF \E c \in Children(d) : f[c] = 1 THEN 1 ELSE 0
  <2> DEFINE S == Children(d)
  <2>1. IsFiniteSet(S)
    BY TreeClosed, TreeIsFinite
  <2>2. f \in [S -> {0, 1}] /\ \A b, c \in S : f[b] = 1 /\ f[c] = 1 => b = c
    BY <1>2, <1>3
  <2> HIDE DEF S, f
  <2>3. SumFunction(f) = IF \E c \in S : f[c] = 1 THEN 1 ELSE 0
    BY <2>1, <2>2, SumOfOne
  <2> QED
    BY <2>3 DEF S
<1>5. (\E c \in Children(d) : f[c] = 1) <=> \E e \in Tree : e.pid = p /\ d.pid \in e.lineage /\ d # e
  <2>1. ASSUME NEW c \in Children(d), Counted(c, p) = 1
        PROVE  \E e \in Tree : e.pid = p /\ d.pid \in e.lineage /\ d # e
    <3>1. PICK e \in Tree : e.pid = p /\ c.pid \in e.lineage
      BY <2>1 DEF Counted
    <3> QED
      BY <3>1, OneWayDown
  <2>2. ASSUME NEW e \in Tree, e.pid = p, d.pid \in e.lineage, d # e
        PROVE  \E c \in Children(d) : Counted(c, p) = 1
    <3>1. PICK c \in Children(d) : c.pid \in e.lineage
      BY <2>2, OneWayDown
    <3> QED
      BY <2>2, <3>1 DEF Counted
  <2> HIDE DEF f
  <2> QED
    BY <1>1, <2>1, <2>2
<1>6. (\E e \in Tree : e.pid = p /\ d.pid \in e.lineage /\ d # e) => d.pid # p
  BY NodesAreUnique
<1>7. (\E e \in Tree : e.pid = p /\ d.pid \in e.lineage)
        <=> \/ \E e \in Tree : e.pid = p /\ d.pid \in e.lineage /\ d # e
            \/ d.pid = p
  BY NodesAre
<1>8. Own(d)[p] = IF d.pid = p THEN 1 ELSE 0
  BY DEF Own
<1>9. Counts[d][p] = Counted(d, p)
  BY DEF Counts
<1> HIDE DEF f
<1> DEFINE X == \E e \in Tree : e.pid = p /\ d.pid \in e.lineage /\ d # e
           Y == \E e \in Tree : e.pid = p /\ d.pid \in e.lineage
<1>10. SumFunction(f) = IF X THEN 1 ELSE 0
  BY <1>4, <1>5
<1>11. Counted(d, p) = IF Y THEN 1 ELSE 0
  BY DEF Counted
<1>12. (X => d.pid # p) /\ (Y <=> X \/ d.pid = p)
  BY <1>6, <1>7
<1>13. Counts[d][p] = SumFunction(f) + Own(d)[p]
  <2> HIDE DEF X, Y
  <2> QED
    BY <1>8, <1>9, <1>10, <1>11, <1>12
<1> QED
  BY <1>13 DEF f

\* There is only one such sum: two agree on the last generation, which is empty, and
\* on a generation when they agree on the next.
LEMMA OneSum ==
    ASSUME Lists, NEW A, NEW B, AddsUp(A), AddsUp(B)
    PROVE  A = B
<1> DEFINE H == {k \in 0 .. N : \A d \in Generation[N - k] : A[d] = B[d]}
<1>1. 0 \in H
  BY NoLastGeneration, DepthsAre
<1>2. ASSUME NEW k \in 1 .. N, k - 1 \in H
      PROVE  k \in H
  <2> SUFFICES ASSUME NEW d \in Generation[N - k]
               PROVE  A[d] = B[d]
    BY DepthsAre
  <2>1. /\ N - k \in 0 .. N /\ N - (k - 1) \in 1 .. N /\ (N - (k - 1)) - 1 = N - k
        /\ \A c \in Generation[N - (k - 1)] : A[c] = B[c]
    BY <1>2, DepthsAre
  <2>2. d \in Tree
    BY <2>1, DepthsAre DEF Tree
  <2>3. \A c \in Children(d) : A[c] = B[c]
    <3>1. Generation[N - (k - 1)] = Below(Generation[N - k])
      BY <2>1, GenerationIs
    <3> QED
      BY <2>1, <3>1 DEF Below
  <2>4. ASSUME NEW p \in Pids
        PROVE  [child \in Children(d) |-> A[child][p]] = [child \in Children(d) |-> B[child][p]]
    BY <2>3
  <2>5. /\ A[d] = [p \in Pids |-> SumFunction([child \in Children(d) |-> A[child][p]]) + Own(d)[p]]
        /\ B[d] = [p \in Pids |-> SumFunction([child \in Children(d) |-> B[child][p]]) + Own(d)[p]]
    BY <2>2 DEF AddsUp
  <2>6. [p \in Pids |-> SumFunction([child \in Children(d) |-> A[child][p]]) + Own(d)[p]]
          = [p \in Pids |-> SumFunction([child \in Children(d) |-> B[child][p]]) + Own(d)[p]]
    BY <2>4
  <2> QED
    BY <2>5, <2>6
<1>3. H = 0 .. N
  <2>1. H \in SUBSET (0 .. N)
    OBVIOUS
  <2> HIDE DEF H
  <2> QED
    BY <1>1, <1>2, <2>1, DepthsAre, UpTo
<1>4. ASSUME NEW d \in Tree
      PROVE  A[d] = B[d]
  <2>1. PICK n \in 0 .. N : d \in Generation[n]
    BY DepthsAre DEF Tree
  <2>2. N - n \in 0 .. N /\ N - (N - n) = n
    BY DepthsAre
  <2> QED
    BY <1>3, <2>1, <2>2
<1>5. A = [d \in Tree |-> A[d]] /\ B = [d \in Tree |-> B[d]]
  BY DEF AddsUp
<1> QED
  BY <1>4, <1>5

LEMMA AggregateCounts ==
    ASSUME Lists
    PROVE  Aggregate = Counts
<1>1. AddsUp(Aggregate)
  BY CountsAddUp DEF AddsUp, Aggregate
<1> QED
  BY <1>1, CountsAddUp, OneSum

\* A row is shown only when every group above it is open.
LEMMA OpenAbove ==
    ASSUME Lists
    PROVE  \A row \in Rows, m \in Tree : m.pid \in row.lineage /\ m # row => Open(m)
<1> DEFINE Good == {row \in Rows : \A m \in Tree : m.pid \in row.lineage /\ m # row => Open(m)}
<1>1. ASSUME NEW row \in First
      PROVE  row \in Good
  <2>1. row \in Rows /\ row \in Tree /\ row.lineage = {row.pid}
    BY RowsClosed, TreeClosed, FirstAre
  <2>2. \A m \in Tree : m.pid \in row.lineage => m = row
    BY <2>1, NodesAreUnique
  <2> QED
    BY <2>1, <2>2
<1>2. ASSUME NEW e \in Good, Open(e), NEW row \in Children(e)
      PROVE  row \in Good
  <2>1. /\ row \in Rows /\ row \in Tree /\ e \in Tree
        /\ row.lineage = e.lineage \cup {row.pid}
    BY <1>2, RowsClosed, TreeClosed, ChildrenAre
  <2> SUFFICES ASSUME NEW m \in Tree, m.pid \in row.lineage, m # row
               PROVE  Open(m)
    BY <2>1
  <2>2. m.pid \in e.lineage
    BY <2>1, NodesAreUnique
  <2>3. CASE m = e
    BY <1>2, <2>3
  <2>4. CASE m # e
    BY <2>2, <2>4
  <2> QED
    BY <2>3, <2>4
<1>3. Good = Rows
  <2>1. Good \in SUBSET Rows /\ First \subseteq Good /\ \A m \in Good : Open(m) => Children(m) \subseteq Good
    BY <1>1, <1>2
  <2> HIDE DEF Good
  <2> QED
    BY <2>1, DownTheRows
<1> QED
  BY <1>3

\* What a row shows of a process: the row is the process's own, or a closed group
\* with the process in it.
LEMMA RowsShow ==
    ASSUME Lists, NEW row \in Rows, NEW p \in Pids
    PROVE  /\ Displayed(row)[p] \in {0, 1}
           /\ Displayed(row)[p] = 1 <=>
                IF Children(row) # {} /\ ~Open(row)
                THEN \E d \in Tree : d.pid = p /\ row.pid \in d.lineage
                ELSE row.pid = p
<1>1. row \in Tree
  BY RowsClosed
<1>2. CASE Children(row) # {} /\ ~Open(row)
  <2>1. Displayed(row) = Aggregate[row]
    BY <1>2 DEF Displayed
  <2>2. Aggregate[row] = [q \in Pids |-> Counted(row, q)]
    BY <1>1, AggregateCounts DEF Counts
  <2>3. Displayed(row)[p] = Counted(row, p)
    BY <2>1, <2>2
  <2> QED
    BY <1>2, <2>3 DEF Counted
<1>3. CASE ~(Children(row) # {} /\ ~Open(row))
  <2>1. Displayed(row) = Own(row)
    BY <1>3 DEF Displayed
  <2>2. Own(row)[p] = IF p = row.pid THEN 1 ELSE 0
    BY DEF Own
  <2>3. Displayed(row)[p] = IF p = row.pid THEN 1 ELSE 0
    BY <2>1, <2>2
  <2> HIDE DEF Displayed
  <2> QED
    BY <1>3, <2>3
<1> QED
  BY <1>2, <1>3

\* No two rows show the same process: of two rows on one line the upper one is open
\* and shows itself only.
LEMMA ShownByOneRow ==
    ASSUME Lists, NEW p \in Pids, NEW row \in Rows, NEW other \in Rows,
           Displayed(row)[p] = 1, Displayed(other)[p] = 1
    PROVE  row = other
<1>1. row \in Tree /\ other \in Tree
  BY RowsClosed
<1>2. ASSUME NEW r \in Rows, Displayed(r)[p] = 1
      PROVE  \E d \in Tree : d.pid = p /\ r.pid \in d.lineage
  <2>1. r \in Tree /\ r.pid \in r.lineage
    BY RowsClosed, NodesAre
  <2> QED
    BY <1>2, <2>1, RowsShow
<1>3. PICK d \in Tree : d.pid = p /\ row.pid \in d.lineage /\ other.pid \in d.lineage
  <2>1. PICK d \in Tree : d.pid = p /\ row.pid \in d.lineage
    BY <1>2
  <2>2. PICK e \in Tree : e.pid = p /\ other.pid \in e.lineage
    BY <1>2
  <2> QED
    BY <2>1, <2>2, NodesAreUnique
<1>4. ASSUME NEW upper \in Rows, NEW lower \in Rows, upper # lower, upper.pid \in lower.lineage,
             lower.pid \in d.lineage, Displayed(upper)[p] = 1
      PROVE  FALSE
  <2>1. upper \in Tree /\ lower \in Tree
    BY RowsClosed
  <2>2. Open(upper)
    BY <1>4, <2>1, OpenAbove
  <2>3. upper.pid = p
    BY <1>4, <2>2, RowsShow
  <2>4. upper = d
    BY <1>3, <2>1, <2>3, NodesAreUnique
  <2>5. lower.pid \notin upper.lineage
    BY <1>4, <2>1, LineagesNest
  <2> QED
    BY <1>4, <2>4, <2>5
<1>5. row.pid \in other.lineage \/ other.pid \in row.lineage
  BY <1>1, <1>3, LineagesNest
<1> QED
  BY <1>3, <1>4, <1>5

\* In every reachable state the rows, groups with their totals among them, count
\* every process of the tree exactly once (buildNode, getDisplayedCpuPercent).
THEOREM EachIsCountedOnce == Spec => []CountedOnce
<1>1. ListTypeOK => CountedOnce
  <2> SUFFICES ASSUME Lists, NEW p \in Pids
               PROVE  SumFunction([row \in Rows |-> Displayed(row)[p]])
                        = IF \E node \in Tree : node.pid = p THEN 1 ELSE 0
    BY TypedLists DEF CountedOnce
  <2> DEFINE S == Rows
             f == [row \in S |-> Displayed(row)[p]]
  <2>1. f \in [S -> {0, 1}] /\ \A r \in S : f[r] = Displayed(r)[p]
    BY RowsShow
  <2>2. \A r, o \in S : f[r] = 1 /\ f[o] = 1 => r = o
    BY <2>1, ShownByOneRow
  <2>3. IsFiniteSet(S)
    BY RowsClosed, TreeIsFinite
  <2>4. SumFunction(f) = IF \E r \in S : f[r] = 1 THEN 1 ELSE 0
    <3> HIDE DEF S, f
    <3> QED
      BY <2>1, <2>2, <2>3, SumOfOne
  <2>5. ASSUME NEW r \in Rows, Displayed(r)[p] = 1
        PROVE  \E node \in Tree : node.pid = p
    BY <2>5, RowsShow, RowsClosed
  <2>6. ASSUME NEW node \in Tree, node.pid = p
        PROVE  \E r \in Rows : Displayed(r)[p] = 1
    <3>1. PICK r \in Rows : r.lineage \subseteq node.lineage /\ (r = node \/ ~Open(r))
      BY RowAbove
    <3>2. r \in Tree /\ r.pid \in node.lineage
      BY <3>1, RowsClosed, NodesAre
    <3>3. Children(r) # {} \/ r = node
      BY <3>2, OneWayDown
    <3>4. Displayed(r)[p] = 1
      <4>1. CASE Children(r) # {} /\ ~Open(r)
        BY <2>6, <3>2, <4>1, RowsShow
      <4>2. CASE ~(Children(r) # {} /\ ~Open(r))
        <5>1. r.pid = p
          BY <2>6, <3>1, <3>3, <4>2
        <5> QED
          BY <4>2, <5>1, RowsShow
      <4> QED
        BY <4>1, <4>2
    <3> QED
      BY <3>4
  <2>7. (\E r \in S : f[r] = 1) <=> (\E node \in Tree : node.pid = p)
    <3> HIDE DEF f
    <3> QED
      BY <2>1, <2>5, <2>6
  <2>8. SumFunction(f) = IF \E node \in Tree : node.pid = p THEN 1 ELSE 0
    <3> HIDE DEF S, f
    <3> QED
      BY <2>4, <2>7
  <2> QED
    BY <2>8 DEF f, S
<1> QED
  BY <1>1, ListTypeCorrect, PTL
=============================================================================
