--------------------------- MODULE WorkflowProofs ----------------------------
(***************************************************************************)
(* What the workflow's checks, engine and gate promise for every graph     *)
(* that may be sent, every number of requests and of debug runs.           *)
(*                                                                         *)
(* First the graph: the topological sort refuses the graphs with a cycle,  *)
(* the searches find what a way leads to or from, and so the strict check  *)
(* accepts just the graphs it is meant to; what the lenient check leaves   *)
(* is settled, so that a second one leaves all of it.  Then the engine: of *)
(* all nodes it has begun, what comes before has been executed.            *)
(* Last the gate: as long as no client has left a run, no save has met the *)
(* end of one and no two publications have overlapped, it is lit only for  *)
(* a draft that has been run, and a publication writes just such a draft.  *)
(***************************************************************************)
EXTENDS Workflow, FiniteSetTheorems, SequenceTheorems, WellFoundedInduction,
        TLAPS

-----------------------------------------------------------------------------
(* Counting up, and the largest of finitely many sets.                     *)

\* What holds of zero and passes from each number to the next holds of all.
LEMMA CountedUp ==
    ASSUME NEW n \in Nat, NEW S, 0 \in S,
           \A k \in 1..n : k - 1 \in S => k \in S
    PROVE  \A k \in 0..n : k \in S
<1> SUFFICES ASSUME NEW x \in 0..n, x \notin S PROVE FALSE
  OBVIOUS
<1> DEFINE T == {0..k : k \in {y \in 0..n : y \notin S}}
<1>1. IsWellFoundedOn(StrictSubsetOrdering(0..n), SUBSET (0..n))
  <2>1. IsFiniteSet(0..n)
    BY FS_Interval
  <2>2. FiniteSubsetsOf(0..n) = SUBSET (0..n)
    BY <2>1, FS_FiniteSubsetsOfFinite
  <2> QED
    BY <2>2, FS_StrictSubsetOrderingWellFounded
<1>2. T \subseteq SUBSET (0..n) /\ T # {}
  OBVIOUS
<1>3. PICK A \in T : \A B \in T : <<B, A>> \notin StrictSubsetOrdering(0..n)
  <2> HIDE DEF T
  <2> QED
    BY <1>1, <1>2, WFMin
<1>4. PICK k \in 0..n : k \notin S /\ A = 0..k
  BY <1>3
<1>5. k \in 1..n /\ k - 1 \notin S
  BY <1>4
<1>6. 0..(k - 1) \in T
  BY <1>5
<1>7. 0..(k - 1) \subseteq 0..k /\ k \in 0..k /\ k \notin 0..(k - 1)
  BY <1>5
<1> HIDE DEF T
<1>8. <<0..(k - 1), A>> \in StrictSubsetOrdering(0..n)
  BY <1>4, <1>5, <1>7 DEF StrictSubsetOrdering
<1> QED
  BY <1>3, <1>6, <1>8

\* A step that is repeated n times, as a function of the number of times.
Iterates(h, F, b, n) == h[0] = b /\ \A k \in 1..n : h[k] = F[k][h[k - 1]]

\* So they can be done one after the other.
LEMMA Iterated ==
    ASSUME NEW A, NEW n \in Nat, NEW b \in A,
           NEW F \in [1..n -> [A -> A]]
    PROVE  \E h \in [0..n -> A] : Iterates(h, F, b, n)
<1> DEFINE Upto(m, h) == Iterates(h, F, b, m)
           S == {m \in 0..n : \E h \in [0..m -> A] : Upto(m, h)}
<1>1. 0 \in S
  <2>1. [k \in 0..0 |-> b] \in [0..0 -> A]
    OBVIOUS
  <2>2. Upto(0, [k \in 0..0 |-> b])
    BY DEF Iterates
  <2> HIDE DEF Upto
  <2>3. 0 \in 0..n /\ \E h \in [0..0 -> A] : Upto(0, h)
    BY <2>1, <2>2
  <2> QED
    BY <2>3
<1>2. ASSUME NEW m \in 1..n, m - 1 \in S PROVE m \in S
  <2>1. PICK h \in [0..(m - 1) -> A] : Upto(m - 1, h)
    BY <1>2
  <2> DEFINE e == F[m][h[m - 1]]
             f == [k \in 0..m |-> IF k = m THEN e ELSE h[k]]
  <2>2. m - 1 \in 0..(m - 1) /\ h[m - 1] \in A /\ e \in A
    OBVIOUS
  <2> HIDE DEF e
  <2>3. f \in [0..m -> A]
    BY <2>2
  <2>4. f[0] = b /\ f[m] = e /\ f[m - 1] = h[m - 1]
    BY <2>1 DEF Iterates
  <2>5. ASSUME NEW k \in 1..m PROVE f[k] = F[k][f[k - 1]]
    <3>1. CASE k = m
      BY <2>4, <3>1 DEF e
    <3>2. CASE k # m
      <4>1. k \in 1..(m - 1) /\ k - 1 \in 0..m /\ k - 1 # m /\ k \in 0..m
        BY <3>2
      <4>2. f[k] = h[k] /\ f[k - 1] = h[k - 1]
        BY <3>2, <4>1
      <4>3. h[k] = F[k][h[k - 1]]
        BY <2>1, <4>1 DEF Iterates
      <4> QED
        BY <4>2, <4>3
    <3> QED
      BY <3>1, <3>2
  <2> HIDE DEF f
  <2>6. Upto(m, f)
    BY <2>4, <2>5 DEF Iterates
  <2> HIDE DEF Upto
  <2>7. m \in 0..n /\ \E h2 \in [0..m -> A] : Upto(m, h2)
    BY <2>3, <2>6
  <2> QED
    BY <2>7
<1>3. n \in S
  <2> HIDE DEF S
  <2>1. \A k \in 0..n : k \in S
    BY <1>1, <1>2, CountedUp
  <2> QED
    BY <2>1
<1> QED
  BY <1>3

\* A family of subsets of a finite set has one that no other contains.
LEMMA Biggest ==
    ASSUME NEW S, IsFiniteSet(S), NEW T \in SUBSET SUBSET S, T # {}
    PROVE  \E A \in T : \A B \in T : A \subseteq B => B = A
<1> DEFINE R == {S \ A : A \in T}
<1>1. IsWellFoundedOn(StrictSubsetOrdering(S), SUBSET S)
  BY FS_StrictSubsetOrderingWellFounded, FS_FiniteSubsetsOfFinite
<1>2. R \subseteq SUBSET S /\ R # {}
  <2>1. PICK A \in T : TRUE
    OBVIOUS
  <2>2. S \ A \in R /\ \A x \in R : x \subseteq S
    OBVIOUS
  <2> HIDE DEF R
  <2> QED
    BY <2>2
<1>3. PICK C \in R : \A B \in R : <<B, C>> \notin StrictSubsetOrdering(S)
  <2> HIDE DEF R
  <2> QED
    BY <1>1, <1>2, WFMin
<1>4. PICK A \in T : C = S \ A
  BY <1>3
<1>5. ASSUME NEW B \in T, A \subseteq B, B # A PROVE FALSE
  <2>1. S \ B \in R
    OBVIOUS
  <2> HIDE DEF R
  <2>2. S \ B \subseteq S \ A /\ S \ B # S \ A
    BY <1>5
  <2>3. <<S \ B, S \ A>> \in StrictSubsetOrdering(S)
    BY <2>2 DEF StrictSubsetOrdering
  <2> QED
    BY <1>3, <1>4, <2>1, <2>3
<1> QED
  BY <1>5

-----------------------------------------------------------------------------
(* The order of a graph's nodes.                                           *)

TwoLists(g) == g.nodes \in Seq(Nodes(g)) /\ g.edges \in Seq(Edges(g))

\* The ends of edges are nodes.
Joins(g) == \A e \in Edges(g) : e.src \in Ids(g) /\ e.dst \in Ids(g)

\* Lists have finitely many items.
LEMMA ItemsFinite ==
    ASSUME NEW g, TwoLists(g)
    PROVE  /\ Len(g.nodes) \in Nat /\ DOMAIN g.nodes = 1..Len(g.nodes)
           /\ IsFiniteSet(Nodes(g)) /\ IsFiniteSet(Ids(g))
           /\ IsFiniteSet(DOMAIN g.nodes)
<1>1. Len(g.nodes) \in Nat /\ DOMAIN g.nodes = 1..Len(g.nodes)
  BY LenProperties DEF TwoLists
<1>2. IsFiniteSet(DOMAIN g.nodes)
  BY <1>1, FS_Interval
<1>3. g.nodes \in Surjection(DOMAIN g.nodes, Nodes(g))
  BY <1>1, LenProperties DEF Surjection, Nodes, ToSet, TwoLists
<1>4. IsFiniteSet(Nodes(g))
  BY <1>2, <1>3, FS_Surjection
<1> DEFINE f == [n \in Nodes(g) |-> n.id]
<1>5. f \in Surjection(Nodes(g), Ids(g))
  BY DEF Surjection, Ids
<1>6. IsFiniteSet(Ids(g))
  BY <1>4, <1>5, FS_Surjection
<1> QED
  BY <1>1, <1>2, <1>4, <1>6

\* The recursion of the topological sort, and what it says of a function.
Zero(g, done) == {i \in Ids(g) \ done : Prev1(g, i) \subseteq done}

Sorts(g, f) ==
    f = [done \in SUBSET Ids(g) |->
            IF Zero(g, done) = {} THEN done ELSE f[done \cup Zero(g, done)]]

\* A cycle is found by a sort: the one that the definition chooses.
LEMMA CyclicIs ==
    ASSUME NEW g
    PROVE  Cyclic(g) <=> (CHOOSE f : Sorts(g, f))[{}] # Ids(g)
  BY DEF Cyclic, Sorts, Zero

\* There is such a function: what every set that is closed under the sort's
\* step and holds the given nodes has in common.
Sorted(g, done) ==
    {i \in Ids(g) : \A S \in SUBSET Ids(g) :
        done \subseteq S /\ Zero(g, S) = {} => i \in S}

\* There is such a sort.
LEMMA SortExists ==
    ASSUME NEW g
    PROVE  \E f : Sorts(g, f)
<1> DEFINE f == [done \in SUBSET Ids(g) |-> Sorted(g, done)]
<1>1. ASSUME NEW done \in SUBSET Ids(g), Zero(g, done) = {}
      PROVE  Sorted(g, done) = done
  BY <1>1 DEF Sorted
<1>2. ASSUME NEW done \in SUBSET Ids(g)
      PROVE  Sorted(g, done) = Sorted(g, done \cup Zero(g, done))
  <2>1. ASSUME NEW S \in SUBSET Ids(g), done \subseteq S, Zero(g, S) = {}
        PROVE  done \cup Zero(g, done) \subseteq S
    BY <2>1 DEF Zero
  <2> QED
    BY <2>1 DEF Sorted
<1>3. \A done \in SUBSET Ids(g) : done \cup Zero(g, done) \in SUBSET Ids(g)
  BY DEF Zero
<1>4. f = [done \in SUBSET Ids(g) |->
             IF Zero(g, done) = {} THEN done ELSE f[done \cup Zero(g, done)]]
  BY <1>1, <1>2, <1>3
<1> HIDE DEF f
<1> QED
  BY <1>4 DEF Sorts

\* In a graph without a cycle every set of nodes has one that none of the
\* others comes directly before.
LEMMA FirstOne ==
    ASSUME NEW g, TwoLists(g), ~Cyclic(g),
           NEW X \in SUBSET Ids(g), X # {}
    PROVE  \E i \in X : Prev1(g, i) \cap X = {}
<1> SUFFICES ASSUME \A i \in X : Prev1(g, i) \cap X # {} PROVE FALSE
  OBVIOUS
<1>1. PICK f : Sorts(g, f) /\ f[{}] = Ids(g)
  <2>1. Sorts(g, CHOOSE f : Sorts(g, f))
    BY SortExists
  <2> QED
    BY <2>1, CyclicIs
<1> DEFINE T == {done \in SUBSET (Ids(g) \ X) : f[done] = Ids(g)}
<1>2. {} \in T /\ T \in SUBSET SUBSET Ids(g)
  BY <1>1
<1>3. PICK A \in T : \A B \in T : A \subseteq B => B = A
  <2> HIDE DEF T
  <2> QED
    BY <1>2, Biggest, ItemsFinite
<1>4. Zero(g, A) \cap X = {}
  BY <1>3 DEF Zero
<1>5. f[A] = IF Zero(g, A) = {} THEN A ELSE f[A \cup Zero(g, A)]
  BY <1>1, <1>3 DEF Sorts
<1>6. CASE Zero(g, A) = {}
  BY <1>3, <1>5, <1>6
<1>7. CASE Zero(g, A) # {}
  <2>1. A \cup Zero(g, A) \in T
    BY <1>3, <1>4, <1>5, <1>7 DEF Zero
  <2>2. A \cup Zero(g, A) # A
    BY <1>7 DEF Zero
  <2> HIDE DEF T
  <2> QED
    BY <1>3, <2>1, <2>2
<1> QED
  BY <1>6, <1>7

-----------------------------------------------------------------------------
(* Ways.                                                                   *)

\* An edge leaves the set.
Leaves(g, S) == \E i \in S : ~(Next1(g, i) \subseteq S)

\* A way in terms of the sets that an edge leaves.
LEMMA WayIs ==
    ASSUME NEW g, NEW m, NEW n
    PROVE  Way(g, m, n) <=> \A S \in SUBSET Ids(g) :
                                m \in S /\ ~Leaves(g, S) => n \in S
  BY DEF Way, Leaves

\* The two adjacency lists agree with the edges.
LEMMA NextPrev ==
    ASSUME NEW g, Joins(g)
    PROVE  /\ \A i, j : j \in Next1(g, i) <=> i \in Prev1(g, j)
           /\ \A i : /\ Next1(g, i) \subseteq Ids(g)
                     /\ Prev1(g, i) \subseteq Ids(g)
           /\ \A e \in Edges(g) : e.dst \in Next1(g, e.src)
           /\ \A i, j : j \in Next1(g, i) =>
                 \E e \in Edges(g) : e.src = i /\ e.dst = j
<1>1. \A i, j : j \in Next1(g, i)
                <=> \E e \in Edges(g) : e.src = i /\ e.dst = j
  BY DEF Next1
<1>2. \A i, j : i \in Prev1(g, j)
                <=> \E e \in Edges(g) : e.src = i /\ e.dst = j
  BY DEF Prev1
<1> QED
  BY <1>1, <1>2 DEF Joins

\* A way may be empty, may go on along an edge, and along another way.
LEMMA WaysJoin ==
    ASSUME NEW g, Joins(g)
    PROVE  /\ \A m : Way(g, m, m)
           /\ \A m, n, k : Way(g, m, n) /\ k \in Next1(g, n) => Way(g, m, k)
           /\ \A m, n, k : Way(g, m, n) /\ Way(g, n, k) => Way(g, m, k)
           /\ \A m, n \in Ids(g) : n \in Next1(g, m) => Way(g, m, n)
  BY DEF Way

\* So a way is what graph theory has it to be, a path along the edges.
Theory == INSTANCE Graphs

Graph(g) == [node |-> Ids(g), edge |-> {<<e.src, e.dst>> : e \in Edges(g)}]

\* A way is a path of graph theory, as the module Graphs has it.
LEMMA WaysArePaths ==
    ASSUME NEW g, Joins(g), NEW m \in Ids(g), NEW n \in Ids(g)
    PROVE  Way(g, m, n) <=> Theory!AreConnectedIn(m, n, Graph(g))
<1> DEFINE IsPath(p) ==
             /\ p \in Seq(Ids(g)) /\ p # <<>>
             /\ \A i \in 1..(Len(p) - 1) : p[i + 1] \in Next1(g, p[i])
<1>1. \A i, j : <<i, j>> \in Graph(g).edge <=> j \in Next1(g, i)
  <2>1. ASSUME NEW i, NEW j
        PROVE  <<i, j>> \in Graph(g).edge
                  <=> \E e \in Edges(g) : e.src = i /\ e.dst = j
    BY DEF Graph
  <2>2. \A i, j : (\E e \in Edges(g) : e.src = i /\ e.dst = j)
                   <=> j \in Next1(g, i)
    BY NextPrev
  <2> QED
    BY <2>1, <2>2
<1>2. \A p : p \in Theory!Path(Graph(g)) <=> IsPath(p)
  <2>1. Graph(g).node = Ids(g)
    BY DEF Graph
  <2> QED
    BY <1>1, <2>1 DEF Theory!Path
<1>3. ASSUME NEW p, IsPath(p), p[1] = m, p[Len(p)] = n PROVE Way(g, m, n)
  <2> SUFFICES ASSUME NEW S \in SUBSET Ids(g), m \in S, ~Leaves(g, S)
               PROVE  n \in S
    BY WayIs
  <2> DEFINE K == {k \in 0..(Len(p) - 1) : p[k + 1] \in S}
  <2>1. Len(p) \in Nat /\ Len(p) # 0
    BY <1>3
  <2>2. 0 \in K /\ Len(p) - 1 \in Nat
    BY <1>3, <2>1
  <2>3. ASSUME NEW k \in 1..(Len(p) - 1), k - 1 \in K PROVE k \in K
    <3>1. p[k] \in S
      BY <2>3
    <3>2. p[k + 1] \in Next1(g, p[k])
      BY <1>3
    <3> QED
      BY <3>1, <3>2 DEF Leaves
  <2>4. \A k \in 0..(Len(p) - 1) : k \in K
    <3> HIDE DEF K
    <3> QED
      BY <2>2, <2>3, CountedUp
  <2>5. Len(p) - 1 \in K
    BY <2>2, <2>4
  <2> QED
    BY <1>3, <2>1, <2>5
<1>4. ASSUME Way(g, m, n)
      PROVE  \E p : IsPath(p) /\ p[1] = m /\ p[Len(p)] = n
  <2> DEFINE S == {i \in Ids(g) :
                     \E p : IsPath(p) /\ p[1] = m /\ p[Len(p)] = i}
  <2>1. m \in S
    <3>1. <<m>> \in Seq(Ids(g)) /\ Len(<<m>>) = 1 /\ <<m>>[1] = m
      OBVIOUS
    <3>2. IsPath(<<m>>)
      BY <3>1
    <3> QED
      BY <3>1, <3>2
  <2>2. ASSUME NEW i \in S, NEW k \in Next1(g, i) PROVE k \in S
    <3>1. k \in Ids(g)
      BY NextPrev
    <3>2. PICK p : IsPath(p) /\ p[1] = m /\ p[Len(p)] = i
      OBVIOUS
    <3> DEFINE q == Append(p, k)
    <3>a. p \in Seq(Ids(g)) /\ Len(p) \in Nat /\ Len(p) # 0
      BY <3>2
    <3>b. /\ q \in Seq(Ids(g)) /\ Len(q) = Len(p) + 1
          /\ \A j \in 1..Len(p) : q[j] = p[j]
          /\ q[Len(p) + 1] = k
      BY <3>1, <3>a, AppendProperties
    <3> HIDE DEF q
    <3>3. /\ q \in Seq(Ids(g)) /\ q # <<>> /\ Len(q) = Len(p) + 1
          /\ Len(p) \in Nat /\ Len(p) >= 1
          /\ \A j \in 1..Len(p) : q[j] = p[j]
          /\ q[Len(q)] = k
      BY <3>a, <3>b
    <3>4. ASSUME NEW j \in 1..(Len(q) - 1) PROVE q[j + 1] \in Next1(g, q[j])
      <4>1. CASE j = Len(p)
        BY <2>2, <3>2, <3>3, <4>1
      <4>2. CASE j # Len(p)
        <5>1. j \in 1..(Len(p) - 1) /\ j \in 1..Len(p) /\ j + 1 \in 1..Len(p)
          BY <3>3, <4>2
        <5> QED
          BY <3>2, <3>3, <5>1
      <4> QED
        BY <4>1, <4>2
    <3>5. q[1] = m
      BY <3>2, <3>3
    <3> QED
      BY <3>1, <3>3, <3>4, <3>5
  <2>3. S \in SUBSET Ids(g) /\ ~Leaves(g, S)
    BY <2>2 DEF Leaves
  <2>4. n \in S
    <3> HIDE DEF S
    <3> QED
      BY <1>4, <2>1, <2>3, WayIs
  <2> QED
    BY <2>4
<1> QED
  BY <1>2, <1>3, <1>4 DEF Theory!AreConnectedIn

\* What can be reached from a node.
After(g, m) == {n \in Ids(g) : Way(g, m, n)}

\* No edge leaves what can be reached.
LEMMA AfterClosed ==
    ASSUME NEW g, Joins(g), NEW m
    PROVE  ~Leaves(g, After(g, m))
  BY WaysJoin, NextPrev DEF After, Leaves

\* Every way that is not empty ends with an edge,
LEMMA LastEdge ==
    ASSUME NEW g, Joins(g), NEW m \in Ids(g), NEW n \in Ids(g), m # n,
           Way(g, m, n)
    PROVE  \E j \in Ids(g) : Way(g, m, j) /\ n \in Next1(g, j)
<1> DEFINE S == {i \in Ids(g) :
                   \/ i = m
                   \/ \E j \in Ids(g) : Way(g, m, j) /\ i \in Next1(g, j)}
<1>1. \A i \in S : Way(g, m, i)
  BY WaysJoin
<1>2. ~Leaves(g, S)
  BY <1>1, NextPrev DEF Leaves
<1>3. m \in S /\ S \in SUBSET Ids(g)
  OBVIOUS
<1>4. n \in S
  <2> HIDE DEF S
  <2> QED
    BY <1>2, <1>3, WayIs
<1> QED
  BY <1>4

\* and begins with one.
LEMMA FirstEdge ==
    ASSUME NEW g, Joins(g), NEW m \in Ids(g), NEW n \in Ids(g), m # n,
           Way(g, m, n)
    PROVE  Next1(g, m) # {}
<1> SUFFICES ASSUME Next1(g, m) = {} PROVE FALSE
  OBVIOUS
<1>1. {m} \in SUBSET Ids(g) /\ ~Leaves(g, {m})
  BY DEF Leaves
<1> QED
  BY <1>1, WayIs

\* Kahn's algorithm refuses the graphs with a cycle.
LEMMA CyclicMeans ==
    ASSUME NEW g, TwoLists(g), Joins(g)
    PROVE  Cyclic(g) <=> ~Acyclic(g)
<1>1. ASSUME NEW e \in Edges(g), Way(g, e.dst, e.src), ~Cyclic(g)
      PROVE  FALSE
  <2> DEFINE X == {k \in Ids(g) : Way(g, e.dst, k) /\ Way(g, k, e.src)}
  <2>1. e.dst \in X /\ e.src \in X /\ X \in SUBSET Ids(g) /\ X # {}
    BY <1>1, WaysJoin DEF Joins
  <2>2. ASSUME NEW k \in X PROVE Prev1(g, k) \cap X # {}
    <3>1. CASE k = e.dst
      <4>1. e.src \in Prev1(g, k)
        BY <3>1, NextPrev
      <4> QED
        BY <2>1, <4>1
    <3>2. CASE k # e.dst
      <4>1. PICK j \in Ids(g) : Way(g, e.dst, j) /\ k \in Next1(g, j)
        BY <2>1, <3>2, LastEdge
      <4>2. Way(g, j, k) /\ Way(g, k, e.src)
        BY <4>1, WaysJoin
      <4>3. Way(g, j, e.src) /\ j \in Prev1(g, k)
        BY <4>1, <4>2, WaysJoin, NextPrev
      <4> QED
        BY <4>1, <4>3
    <3> QED
      BY <3>1, <3>2
  <2> HIDE DEF X
  <2> QED
    BY <1>1, <2>1, <2>2, FirstOne
<1>2. ASSUME Cyclic(g), Acyclic(g) PROVE FALSE
  <2>1. PICK f : Sorts(g, f) /\ f[{}] # Ids(g)
    <3>1. Sorts(g, CHOOSE f : Sorts(g, f))
      BY SortExists
    <3> QED
      BY <1>2, <3>1, CyclicIs
  <2> DEFINE T == {done \in SUBSET Ids(g) : f[done] # Ids(g)}
  <2>2. {} \in T /\ T \in SUBSET SUBSET Ids(g)
    BY <2>1
  <2>3. PICK A \in T : \A B \in T : A \subseteq B => B = A
    <3> HIDE DEF T
    <3> QED
      BY <2>2, Biggest, ItemsFinite
  <2>4. f[A] = IF Zero(g, A) = {} THEN A ELSE f[A \cup Zero(g, A)]
    BY <2>1, <2>3 DEF Sorts
  <2>5. Zero(g, A) = {} /\ A # Ids(g)
    <3>1. CASE Zero(g, A) # {}
      <4>1. A \cup Zero(g, A) \in T /\ A \cup Zero(g, A) # A
        BY <2>3, <2>4, <3>1 DEF Zero
      <4> HIDE DEF T
      <4> QED
        BY <2>3, <4>1
    <3> QED
      BY <2>3, <2>4, <3>1
  <2> DEFINE X == Ids(g) \ A
             R == {After(g, i) : i \in X}
  <2>6. ASSUME NEW i \in X PROVE \E p \in X : p \in Prev1(g, i)
    <3>1. ~(Prev1(g, i) \subseteq A)
      BY <2>5 DEF Zero
    <3>2. Prev1(g, i) \subseteq Ids(g)
      BY NextPrev
    <3> QED
      BY <3>1, <3>2
  <2>7. R \in SUBSET SUBSET Ids(g) /\ R # {}
    <3>1. X # {}
      BY <2>3, <2>5
    <3>2. \A i : After(g, i) \in SUBSET Ids(g)
      BY DEF After
    <3> QED
      BY <3>1, <3>2
  <2>8. PICK C \in R : \A B \in R : C \subseteq B => B = C
    <3> HIDE DEF R
    <3> QED
      BY <2>7, Biggest, ItemsFinite
  <2>9. PICK i \in X : C = After(g, i)
    BY <2>8
  <2>10. PICK p \in X : p \in Prev1(g, i)
    BY <2>6
  <2>11. i \in Next1(g, p)
    BY <2>10, NextPrev
  <2>12. Way(g, p, i)
    BY <2>11, WaysJoin
  <2>13. After(g, i) \subseteq After(g, p)
    BY <2>12, WaysJoin DEF After
  <2>14. After(g, p) = After(g, i)
    BY <2>8, <2>9, <2>13
  <2>15. Way(g, i, p)
    <3>1. p \in After(g, p)
      BY WaysJoin DEF After
    <3> QED
      BY <2>14, <3>1 DEF After
  <2>16. PICK e \in Edges(g) : e.src = p /\ e.dst = i
    BY <2>11, NextPrev
  <2> QED
    BY <1>2, <2>15, <2>16 DEF Acyclic
<1> QED
  BY <1>1, <1>2 DEF Acyclic

\* In a graph without a cycle every set of nodes has one that no edge leads
\* from to another of them.
LEMMA LastOne ==
    ASSUME NEW g, TwoLists(g), Joins(g), Acyclic(g),
           NEW X \in SUBSET Ids(g), X # {}
    PROVE  \E i \in X : Next1(g, i) \cap X = {}
<1> DEFINE Before(i) == {j \in Ids(g) : Way(g, j, i)}
           R == {Before(i) : i \in X}
<1>1. R \in SUBSET SUBSET Ids(g) /\ R # {}
  <2>1. \A i : Before(i) \in SUBSET Ids(g)
    OBVIOUS
  <2> QED
    BY <2>1
<1>2. PICK C \in R : \A B \in R : C \subseteq B => B = C
  <2> HIDE DEF R
  <2> QED
    BY <1>1, Biggest, ItemsFinite
<1>3. PICK i \in X : C = Before(i)
  BY <1>2
<1>4. ASSUME NEW k \in Next1(g, i), k \in X PROVE FALSE
  <2>1. Before(i) \subseteq Before(k)
    BY <1>4, WaysJoin
  <2>2. Before(k) = Before(i)
    <3>1. Before(k) \in R
      BY <1>4
    <3> HIDE DEF R, Before
    <3> QED
      BY <1>2, <1>3, <2>1, <3>1
  <2>3. k \in Before(k)
    BY <1>4, WaysJoin
  <2>4. Way(g, k, i)
    BY <2>2, <2>3
  <2>5. PICK e \in Edges(g) : e.src = i /\ e.dst = k
    BY <1>4, NextPrev
  <2> QED
    BY <2>4, <2>5 DEF Acyclic
<1> QED
  BY <1>4

-----------------------------------------------------------------------------
(* The two searches.                                                       *)

\* One step of a search, and the recursion that repeats it.
Grown(F, seen) == seen \cup UNION {F[i] : i \in seen}

Searches(V, F, f) ==
    f = [seen \in SUBSET V |->
            IF Grown(F, seen) = seen THEN seen ELSE f[Grown(F, seen)]]

\* What every set has that holds the given nodes and does not grow.
Hull(V, F, seen) ==
    {i \in V : \A S \in SUBSET V :
        seen \subseteq S /\ Grown(F, S) = S => i \in S}

\* There is such a search, for every step function.
LEMMA SearchExists ==
    ASSUME NEW V, NEW F \in [V -> SUBSET V]
    PROVE  \E f : Searches(V, F, f)
<1> DEFINE f == [seen \in SUBSET V |-> Hull(V, F, seen)]
<1>1. ASSUME NEW seen \in SUBSET V, Grown(F, seen) = seen
      PROVE  Hull(V, F, seen) = seen
  BY <1>1 DEF Hull
<1>2. ASSUME NEW seen \in SUBSET V
      PROVE  Hull(V, F, seen) = Hull(V, F, Grown(F, seen))
  <2>1. ASSUME NEW S \in SUBSET V, seen \subseteq S, Grown(F, S) = S
        PROVE  Grown(F, seen) \subseteq S
    BY <2>1 DEF Grown
  <2>2. seen \subseteq Grown(F, seen)
    BY DEF Grown
  <2> QED
    BY <2>1, <2>2 DEF Hull
<1>3. \A seen \in SUBSET V : Grown(F, seen) \in SUBSET V
  BY DEF Grown
<1>4. f = [seen \in SUBSET V |->
             IF Grown(F, seen) = seen THEN seen ELSE f[Grown(F, seen)]]
  BY <1>1, <1>2, <1>3
<1> HIDE DEF f
<1> QED
  BY <1>4 DEF Searches

\* A search of a finite graph finds just that.
LEMMA SearchFinds ==
    ASSUME NEW V, IsFiniteSet(V), NEW F \in [V -> SUBSET V], NEW f,
           Searches(V, F, f), NEW X \in SUBSET V
    PROVE  f[X] = Hull(V, F, X)
<1> DEFINE T == {seen \in SUBSET V :
                    X \subseteq seen /\ seen \subseteq Hull(V, F, X)
                    /\ f[seen] = f[X]}
<1>1. X \in T /\ T \in SUBSET SUBSET V
  BY DEF Hull
<1>2. PICK A \in T : \A B \in T : A \subseteq B => B = A
  <2> HIDE DEF T
  <2> QED
    BY <1>1, Biggest
<1>3. f[A] = IF Grown(F, A) = A THEN A ELSE f[Grown(F, A)]
  BY <1>2 DEF Searches
<1>4. A \subseteq Grown(F, A) /\ Grown(F, A) \in SUBSET V
  BY <1>2 DEF Grown
<1>5. Grown(F, A) \subseteq Hull(V, F, X)
  <2>1. ASSUME NEW S \in SUBSET V, X \subseteq S, Grown(F, S) = S
        PROVE  Grown(F, A) \subseteq S
    <3>1. A \subseteq S
      BY <1>2, <2>1 DEF Hull
    <3>2. Grown(F, A) \subseteq Grown(F, S)
      BY <3>1 DEF Grown
    <3> QED
      BY <2>1, <3>2
  <2> QED
    BY <1>4, <2>1 DEF Hull
<1>6. Grown(F, A) = A
  <2>1. CASE Grown(F, A) # A
    <3>1. Grown(F, A) \in T
      BY <1>2, <1>3, <1>4, <1>5, <2>1
    <3> HIDE DEF T
    <3> QED
      BY <1>2, <1>4, <3>1
  <2> QED
    BY <2>1
<1>7. /\ A \in SUBSET V /\ X \subseteq A /\ A \subseteq Hull(V, F, X)
      /\ f[A] = f[X]
  BY <1>2
<1>8. Hull(V, F, X) \subseteq A
  BY <1>6, <1>7 DEF Hull
<1>9. f[A] = A
  BY <1>3, <1>6
<1> QED
  BY <1>7, <1>8, <1>9

\* Backwards: the predecessors of a node are those from which a way leads.
LEMMA PredecessorsMean ==
    ASSUME NEW g, TwoLists(g), Joins(g), NEW i \in Ids(g)
    PROVE  Predecessors(g, i) = {j \in Ids(g) : Way(g, j, i)} \ {i}
<1> DEFINE F == [j \in Ids(g) |-> Prev1(g, j)]
<1>1. F \in [Ids(g) -> SUBSET Ids(g)]
  BY NextPrev
<1>2. \A seen \in SUBSET Ids(g) :
         /\ Grown(F, seen) = seen \cup UNION {Prev1(g, j) : j \in seen}
         /\ Grown(F, seen) \in SUBSET Ids(g)
  BY <1>1 DEF Grown
<1> DEFINE Back(f) ==
             f = [seen \in SUBSET Ids(g) |->
                    LET more == seen \cup UNION {Prev1(g, j) : j \in seen}
                    IN IF more = seen THEN seen ELSE f[more]]
<1>3. Predecessors(g, i) = (CHOOSE f : Back(f))[{i}] \ {i}
  BY DEF Predecessors
<1> HIDE DEF F
<1>4. \A f : Back(f) <=> Searches(Ids(g), F, f)
  BY <1>2 DEF Searches
<1> HIDE DEF Back
<1>5. PICK f : Searches(Ids(g), F, f)
                /\ Predecessors(g, i) = f[{i}] \ {i}
  <2>1. \E f : Back(f)
    BY <1>1, <1>4, SearchExists
  <2>2. Back(CHOOSE f : Back(f))
    BY <2>1
  <2> QED
    BY <1>3, <1>4, <2>2
<1>6. f[{i}] = Hull(Ids(g), F, {i})
  BY <1>1, <1>5, ItemsFinite, SearchFinds
<1>7. ASSUME NEW S \in SUBSET Ids(g)
      PROVE  Grown(F, S) = S <=> ~Leaves(g, Ids(g) \ S)
  <2>1. Grown(F, S) = S <=> \A j \in S : Prev1(g, j) \subseteq S
    BY <1>2
  <2> QED
    BY <2>1, NextPrev DEF Leaves
<1>8. ASSUME NEW j \in Ids(g)
      PROVE  j \in Hull(Ids(g), F, {i}) <=> Way(g, j, i)
  <2>1. ASSUME j \in Hull(Ids(g), F, {i}),
               NEW S \in SUBSET Ids(g), j \in S, ~Leaves(g, S), i \notin S
        PROVE  FALSE
    <3>1. Ids(g) \ (Ids(g) \ S) = S /\ Ids(g) \ S \in SUBSET Ids(g)
      OBVIOUS
    <3>2. Grown(F, Ids(g) \ S) = Ids(g) \ S
      BY <1>7, <2>1, <3>1
    <3> QED
      BY <2>1, <3>1, <3>2 DEF Hull
  <2>2. ASSUME Way(g, j, i), NEW S \in SUBSET Ids(g), i \in S,
               Grown(F, S) = S, j \notin S
        PROVE  FALSE
    <3>1. ~Leaves(g, Ids(g) \ S)
      BY <1>7, <2>2
    <3> QED
      BY <2>2, <3>1, WayIs
  <2> QED
    BY <2>1, <2>2, WayIs DEF Hull
<1>9. Hull(Ids(g), F, {i}) \subseteq Ids(g)
  BY DEF Hull
<1> QED
  BY <1>5, <1>6, <1>8, <1>9

\* Forwards: the breadth-first search counts what a way leads to.
LEMMA ConnectedMeans ==
    ASSUME NEW g, TwoLists(g), Joins(g), Sources(g) # {}
    PROVE  Connected(g) <=>
              Cardinality(After(g, (CHOOSE n \in Sources(g) : TRUE).id))
                  = Cardinality(Joined(g))
<1> DEFINE s == (CHOOSE n \in Sources(g) : TRUE).id
           F == [j \in Ids(g) |-> Next1(g, j)]
<1>0. s \in Ids(g)
  <2>1. (CHOOSE n \in Sources(g) : TRUE) \in Sources(g)
    OBVIOUS
  <2> QED
    BY <2>1 DEF Sources, Ids
<1>1. F \in [Ids(g) -> SUBSET Ids(g)]
  BY NextPrev
<1>2. \A seen \in SUBSET Ids(g) :
         /\ Grown(F, seen) = seen \cup UNION {Next1(g, j) : j \in seen}
         /\ Grown(F, seen) \in SUBSET Ids(g)
  BY <1>1 DEF Grown
<1> DEFINE Visit(f) ==
             f = [seen \in SUBSET Ids(g) |->
                    LET more == seen \cup UNION {Next1(g, i) : i \in seen}
                    IN IF more = seen THEN seen ELSE f[more]]
<1>3. Connected(g) <=> Cardinality((CHOOSE f : Visit(f))[{s}])
                         = Cardinality(Joined(g))
  BY DEF Connected
<1> HIDE DEF F, s
<1>4. \A f : Visit(f) <=> Searches(Ids(g), F, f)
  BY <1>2 DEF Searches
<1> HIDE DEF Visit
<1>5. PICK f : Searches(Ids(g), F, f) /\ f = CHOOSE h : Visit(h)
  <2>1. \E f : Visit(f)
    BY <1>1, <1>4, SearchExists
  <2>2. Visit(CHOOSE f : Visit(f))
    BY <2>1
  <2> QED
    BY <1>4, <2>2
<1>6. f[{s}] = Hull(Ids(g), F, {s})
  BY <1>0, <1>1, <1>5, ItemsFinite, SearchFinds
<1>7. ASSUME NEW S \in SUBSET Ids(g)
      PROVE  Grown(F, S) = S <=> ~Leaves(g, S)
  BY <1>2 DEF Leaves
<1>8. Hull(Ids(g), F, {s}) = After(g, s)
  BY <1>7, WayIs DEF Hull, After
<1> QED
  BY <1>3, <1>5, <1>6, <1>8 DEF s

\* A set that holds a node and all that comes directly before its own holds
\* the node's predecessors.
LEMMA PredecessorsWithin ==
    ASSUME NEW g, TwoLists(g), Joins(g), NEW C \in SUBSET Ids(g), NEW i \in C,
           \A j \in C : Prev1(g, j) \subseteq C
    PROVE  Predecessors(g, i) \subseteq C \ {i}
<1> SUFFICES ASSUME NEW j \in Predecessors(g, i), j \notin C PROVE FALSE
  BY PredecessorsMean
<1>1. j \in Ids(g) /\ Way(g, j, i)
  BY PredecessorsMean
<1>2. ~Leaves(g, Ids(g) \ C)
  BY NextPrev DEF Leaves
<1> QED
  BY <1>1, <1>2, WayIs

-----------------------------------------------------------------------------
(* What the strict check says of a graph.                                  *)

\* A set of at most one element.
LEMMA OneOnly ==
    ASSUME NEW S, IsFiniteSet(S), Cardinality(S) <= 1, NEW x \in S, NEW y \in S
    PROVE  x = y
<1>1. Cardinality(S) \in Nat /\ Cardinality(S) # 0
  BY FS_CardinalityType, FS_EmptySet
<1>2. Cardinality(S) = 1
  BY <1>1
<1>3. PICK z : S = {z}
  BY <1>2, FS_Singleton
<1> QED
  BY <1>3

\* Nodes and edges are the items of the lists; an id finds its node.
LEMMA NodesAre ==
    ASSUME NEW g, TwoLists(g)
    PROVE  /\ \A k \in DOMAIN g.nodes : g.nodes[k] \in Nodes(g)
           /\ \A n \in Nodes(g) : \E k \in DOMAIN g.nodes : g.nodes[k] = n
           /\ \A k \in DOMAIN g.edges : g.edges[k] \in Edges(g)
           /\ \A e \in Edges(g) : \E k \in DOMAIN g.edges : g.edges[k] = e
           /\ \A n \in Nodes(g) : n.id \in Ids(g)
           /\ \A i \in Ids(g) : NodeOf(g, i) \in Nodes(g)
                                /\ NodeOf(g, i).id = i
<1>1. \A i \in Ids(g) : \E n \in Nodes(g) : n.id = i
  BY DEF Ids
<1>2. \A i \in Ids(g) : NodeOf(g, i) \in Nodes(g) /\ NodeOf(g, i).id = i
  BY <1>1 DEF NodeOf
<1> QED
  BY <1>2 DEF Nodes, Edges, ToSet, Ids

\* The one bare node is the one node of its type.
LEMMA PoleIs ==
    ASSUME NEW g, TwoLists(g), NEW bare \in SUBSET Nodes(g), NEW t,
           OnePole(bare, t),
           Cardinality({i \in DOMAIN g.nodes : g.nodes[i].type = t}) <= 1
    PROVE  \E s \in Nodes(g) : /\ bare = {s}
                               /\ {n \in Nodes(g) : n.type = t} = {s}
<1>1. IsFiniteSet(bare)
  BY ItemsFinite, FS_Subset
<1>2. PICK s : bare = {s}
  BY <1>1, FS_Singleton DEF OnePole
<1>3. s \in Nodes(g) /\ s.type = t
  BY <1>2 DEF OnePole
<1> DEFINE P == {i \in DOMAIN g.nodes : g.nodes[i].type = t}
<1>4. IsFiniteSet(P)
  BY ItemsFinite, FS_Subset
<1>5. ASSUME NEW n \in Nodes(g), n.type = t PROVE n = s
  <2>1. PICK j \in P, k \in P : g.nodes[j] = n /\ g.nodes[k] = s
    BY <1>3, <1>5, NodesAre
  <2> HIDE DEF P
  <2>2. j = k
    BY <1>4, <2>1, OneOnly DEF P
  <2> QED
    BY <2>1, <2>2
<1> QED
  BY <1>2, <1>3, <1>5

\* What follows from the lists alone.
LEMMA ListsAre ==
    ASSUME NEW g, TwoLists(g), Lists(g)
    PROVE  /\ Joins(g)
           /\ \A m, n \in Nodes(g) : m.id = n.id => m = n
           /\ \A i, j \in DOMAIN g.nodes :
                 g.nodes[i].id = g.nodes[j].id => i = j
<1>1. Joins(g)
  BY DEF Lists, Joins, Fits, Ids
<1>2. \A i, j \in DOMAIN g.nodes : g.nodes[i].id = g.nodes[j].id => i = j
  BY DEF Lists, IsInjective
<1>3. ASSUME NEW m \in Nodes(g), NEW n \in Nodes(g), m.id = n.id PROVE m = n
  <2>1. PICK j \in DOMAIN g.nodes, k \in DOMAIN g.nodes :
           g.nodes[j] = m /\ g.nodes[k] = n
    BY NodesAre
  <2> QED
    BY <1>2, <1>3, <2>1
<1> QED
  BY <1>1, <1>2, <1>3

\* The lists of what is strictly valid are as they should be.
LEMMA StrictLists ==
    ASSUME NEW g, Strict(g)
    PROVE  Lists(g)
  BY DEF Strict, Lists, Distinct, IsInjective

\* Nodes have ids of their own, edges join nodes, and of all nodes just the
\* start node has no edge into it.
LEMMA StrictFacts ==
    ASSUME NEW g, TwoLists(g), Strict(g)
    PROVE  /\ Joins(g) /\ ~Cyclic(g) /\ RefsHold(g)
           /\ \A n \in Nodes(g) : n.type \in NodeTypes
           /\ \A m, n \in Nodes(g) : m.id = n.id => m = n
           /\ \A n \in Nodes(g) : n.type = "start" <=> Prev1(g, n.id) = {}
<1>1. /\ ~Cyclic(g) /\ RefsHold(g)
      /\ \A n \in Nodes(g) : n.type \in NodeTypes
      /\ Cardinality({i \in DOMAIN g.nodes : g.nodes[i].type = "start"}) <= 1
      /\ OnePole(Sources(g), "start") /\ Sources(g) \in SUBSET Nodes(g)
  BY DEF Strict, Sources
<1>2. Joins(g) /\ \A m, n \in Nodes(g) : m.id = n.id => m = n
  BY StrictLists, ListsAre
<1>3. PICK s \in Nodes(g) : /\ Sources(g) = {s}
                            /\ {n \in Nodes(g) : n.type = "start"} = {s}
  BY <1>1, PoleIs
<1> QED
  BY <1>1, <1>2, <1>3 DEF Sources

-----------------------------------------------------------------------------
(* The strict check is exact.                                              *)

\* What the strict check accepts is well-formed.
LEMMA StrictIsWellFormed ==
    ASSUME NEW g, TwoLists(g), Strict(g)
    PROVE  WellFormed(g)
<1>1. Lists(g) /\ Joins(g) /\ \A m, n \in Nodes(g) : m.id = n.id => m = n
  BY StrictLists, ListsAre
<1>2. /\ OnePole(Sources(g), "start") /\ OnePole(Sinks(g), "end")
      /\ Cardinality({i \in DOMAIN g.nodes : g.nodes[i].type = "start"}) <= 1
      /\ Cardinality({i \in DOMAIN g.nodes : g.nodes[i].type = "end"}) <= 1
      /\ Connected(g) /\ ~Cyclic(g) /\ RefsHold(g)
      /\ Len(g.nodes) <= MaxNodes
      /\ \A n \in Nodes(g) : n.type \in NodeTypes /\ n.ok
  BY DEF Strict
<1>3. PICK s \in Nodes(g) : /\ Sources(g) = {s}
                            /\ {n \in Nodes(g) : n.type = "start"} = {s}
  <2>1. Sources(g) \in SUBSET Nodes(g)
    BY DEF Sources
  <2> QED
    BY <1>2, <2>1, PoleIs
<1>4. PICK e \in Nodes(g) : /\ Sinks(g) = {e}
                            /\ {n \in Nodes(g) : n.type = "end"} = {e}
  <2>1. Sinks(g) \in SUBSET Nodes(g)
    BY DEF Sinks
  <2> QED
    BY <1>2, <2>1, PoleIs
<1>5. s # e /\ s.id # e.id /\ s.id \in Ids(g) /\ e.id \in Ids(g)
  <2>1. s.type = "start" /\ e.type = "end"
    BY <1>3, <1>4
  <2> QED
    BY <1>1, <2>1 DEF Ids
<1>6. Acyclic(g)
  BY <1>1, <1>2, CyclicMeans
<1>7. After(g, s.id) = Ids(g)
  <2>1. ASSUME NEW n \in Nodes(g) PROVE n.id \in Joined(g)
    <3>1. Next1(g, n.id) # {} \/ Prev1(g, n.id) # {}
      <4>1. n \notin Sources(g) \/ n \notin Sinks(g)
        BY <1>3, <1>4, <1>5
      <4> QED
        BY <4>1 DEF Sources, Sinks
    <3> QED
      BY <3>1 DEF Next1, Prev1, Joined
  <2>2. Ids(g) \subseteq Joined(g) /\ Joined(g) \subseteq Ids(g)
    BY <1>1, <2>1 DEF Ids, Joins, Joined
  <2>3. (CHOOSE n \in Sources(g) : TRUE) = s
    BY <1>3
  <2>4. Cardinality(After(g, s.id)) = Cardinality(Ids(g))
    <3>1. Sources(g) # {} /\ Joined(g) = Ids(g)
      BY <1>3, <2>2
    <3>2. Cardinality(After(g, (CHOOSE n \in Sources(g) : TRUE).id))
            = Cardinality(Joined(g))
      BY <1>1, <1>2, <3>1, ConnectedMeans
    <3> QED
      BY <2>3, <3>1, <3>2
  <2>5. After(g, s.id) \in SUBSET Ids(g)
    BY DEF After
  <2> QED
    BY <2>4, <2>5, ItemsFinite, FS_Subset
<1>8. ASSUME NEW i \in Ids(g) PROVE Way(g, i, e.id)
  <2>1. After(g, i) \in SUBSET Ids(g) /\ i \in After(g, i)
    BY <1>1, WaysJoin DEF After
  <2>2. PICK k \in After(g, i) : Next1(g, k) \cap After(g, i) = {}
    BY <1>1, <1>6, <2>1, LastOne
  <2>3. Next1(g, k) = {}
    BY <1>1, <2>2, AfterClosed DEF Leaves
  <2>4. PICK n \in Nodes(g) : n.id = k
    BY <2>1 DEF Ids
  <2>5. n \in Sinks(g)
    BY <2>3, <2>4 DEF Sinks
  <2> QED
    BY <1>4, <2>4, <2>5 DEF After
<1>9. ASSUME NEW n \in Nodes(g), n.type # "start", NEW r \in n.refs
      PROVE  \E m \in Nodes(g) : /\ m.id = r[1] /\ m.id # n.id
                                 /\ Way(g, m.id, n.id) /\ r[2] \in m.vars
  <2>1. r[1] \in Predecessors(g, n.id) /\ r[2] \in NodeOf(g, r[1]).vars
    BY <1>2, <1>9 DEF RefsHold
  <2>2. r[1] \in Ids(g) /\ Way(g, r[1], n.id) /\ r[1] # n.id
    BY <1>1, <2>1, PredecessorsMean, NodesAre
  <2>3. NodeOf(g, r[1]) \in Nodes(g) /\ NodeOf(g, r[1]).id = r[1]
    BY <2>2, NodesAre
  <2> QED
    BY <2>1, <2>2, <2>3
<1>10. /\ {n.id : n \in {x \in Nodes(g) : x.type = "start"}} = {s.id}
       /\ {n.id : n \in {x \in Nodes(g) : x.type = "end"}} = {e.id}
  BY <1>3, <1>4
<1>11. \A i \in Ids(g) : Way(g, s.id, i) /\ Way(g, i, e.id)
  BY <1>7, <1>8 DEF After
<1> QED
  BY <1>1, <1>2, <1>5, <1>6, <1>9, <1>10, <1>11 DEF WellFormed

\* What is well-formed is accepted.
LEMMA WellFormedIsStrict ==
    ASSUME NEW g, TwoLists(g), WellFormed(g)
    PROVE  Strict(g)
<1>1. /\ Lists(g) /\ Joins(g) /\ Acyclic(g)
      /\ \A m, n \in Nodes(g) : m.id = n.id => m = n
      /\ \A i, j \in DOMAIN g.nodes :
            g.nodes[i].id = g.nodes[j].id => i = j
  BY ListsAre DEF WellFormed
<1>2. PICK s \in Ids(g), e \in Ids(g) :
         /\ s # e
         /\ {n.id : n \in {x \in Nodes(g) : x.type = "start"}} = {s}
         /\ {n.id : n \in {x \in Nodes(g) : x.type = "end"}} = {e}
         /\ \A i \in Ids(g) : Way(g, s, i) /\ Way(g, i, e)
  BY DEF WellFormed
<1>3. PICK ns \in Nodes(g) : ns.id = s /\ ns.type = "start"
  BY <1>2
<1>4. PICK ne \in Nodes(g) : ne.id = e /\ ne.type = "end"
  BY <1>2
<1>5. \A n \in Nodes(g) : /\ n.type = "start" => n = ns
                          /\ n.type = "end" => n = ne
  BY <1>1, <1>2, <1>3, <1>4
<1>6. Next1(g, s) # {} /\ Edges(g) # {}
  <2>1. Next1(g, s) # {}
    BY <1>1, <1>2, FirstEdge
  <2> QED
    BY <1>1, <2>1, NextPrev
<1>7. g.nodes # <<>> /\ g.edges # <<>>
  BY <1>3, <1>6, EmptySeq DEF Nodes, Edges, ToSet
<1>8. ASSUME NEW t \in {"start", "end"}
      PROVE  Cardinality({i \in DOMAIN g.nodes : g.nodes[i].type = t}) <= 1
  <2> DEFINE P == {i \in DOMAIN g.nodes : g.nodes[i].type = t}
  <2>1. \A i, j \in P : i = j
    BY <1>1, <1>5, NodesAre
  <2>2. P = {} \/ \E i : P = {i}
    BY <2>1
  <2> SUFFICES Cardinality(P) <= 1
    OBVIOUS
  <2> HIDE DEF P
  <2>3. CASE P = {}
    <3>1. Cardinality(P) = 0
      BY <2>3, FS_EmptySet
    <3> QED
      BY <3>1
  <2>4. CASE \E i : P = {i}
    <3>1. Cardinality(P) = 1
      BY <2>4, FS_Singleton
    <3> QED
      BY <3>1
  <2> QED
    BY <2>2, <2>3, <2>4
<1>9. Sources(g) = {ns}
  <2>1. ASSUME NEW n \in Nodes(g), Prev1(g, n.id) = {} PROVE n = ns
    <3>1. n.id \in Ids(g) /\ Way(g, s, n.id)
      BY <1>2, NodesAre
    <3>2. n.id = s
      BY <1>1, <2>1, <3>1, LastEdge, NextPrev
    <3> QED
      BY <1>1, <1>3, <3>2
  <2>2. ASSUME NEW j \in Prev1(g, s) PROVE FALSE
    <3>1. j \in Ids(g) /\ s \in Next1(g, j)
      BY <1>1, NextPrev
    <3>2. PICK x \in Edges(g) : x.src = j /\ x.dst = s
      BY <1>1, <3>1, NextPrev
    <3> QED
      BY <1>1, <1>2, <3>1, <3>2 DEF Acyclic
  <2> QED
    BY <1>3, <2>1, <2>2 DEF Sources
<1>10. Sinks(g) = {ne}
  <2>1. ASSUME NEW n \in Nodes(g), Next1(g, n.id) = {} PROVE n = ne
    <3>1. n.id \in Ids(g) /\ Way(g, n.id, e)
      BY <1>2, NodesAre
    <3>2. n.id = e
      BY <1>1, <2>1, <3>1, FirstEdge
    <3> QED
      BY <1>1, <1>4, <3>2
  <2>2. ASSUME NEW j \in Next1(g, e) PROVE FALSE
    <3>1. j \in Ids(g)
      BY <1>1, NextPrev
    <3>2. PICK x \in Edges(g) : x.src = e /\ x.dst = j
      BY <1>1, <2>2, NextPrev
    <3> QED
      BY <1>1, <1>2, <3>1, <3>2 DEF Acyclic
  <2> QED
    BY <1>4, <2>1, <2>2 DEF Sinks
<1>11. OnePole(Sources(g), "start") /\ OnePole(Sinks(g), "end")
  BY <1>3, <1>4, <1>9, <1>10, FS_Singleton DEF OnePole
<1>12. Connected(g)
  <2>1. After(g, s) = Ids(g)
    BY <1>2 DEF After
  <2>2. ASSUME NEW i \in Ids(g) PROVE i \in Joined(g)
    <3>1. CASE i = s
      BY <1>6, <3>1 DEF Next1, Joined
    <3>2. CASE i # s
      <4>1. PICK j \in Ids(g) : i \in Next1(g, j)
        BY <1>1, <1>2, <3>2, LastEdge
      <4> QED
        BY <4>1 DEF Next1, Joined
    <3> QED
      BY <3>1, <3>2
  <2>3. Joined(g) = Ids(g)
    BY <1>1, <2>2 DEF Joins, Joined
  <2>4. (CHOOSE n \in Sources(g) : TRUE).id = s /\ Sources(g) # {}
    BY <1>3, <1>9
  <2> QED
    BY <1>1, <2>1, <2>3, <2>4, ConnectedMeans
<1>13. ~Cyclic(g)
  BY <1>1, CyclicMeans
<1>14. RefsHold(g)
  <2> SUFFICES ASSUME NEW n \in Nodes(g), n.type # "start", NEW r \in n.refs
               PROVE  /\ r[1] \in Predecessors(g, n.id)
                      /\ r[2] \in NodeOf(g, r[1]).vars
    BY DEF RefsHold
  <2>1. PICK m \in Nodes(g) : /\ m.id = r[1] /\ m.id # n.id
                              /\ Way(g, m.id, n.id) /\ r[2] \in m.vars
    BY DEF WellFormed
  <2>2. m.id \in Ids(g) /\ n.id \in Ids(g) /\ NodeOf(g, m.id) = m
    BY <1>1, NodesAre
  <2>3. m.id \in Predecessors(g, n.id)
    BY <1>1, <2>1, <2>2, PredecessorsMean
  <2> QED
    BY <2>1, <2>2, <2>3
<1>15. /\ Len(g.nodes) <= MaxNodes
       /\ \A n \in Nodes(g) : n.type \in NodeTypes /\ n.ok
  BY DEF WellFormed
<1>16. /\ Distinct([i \in DOMAIN g.nodes |-> g.nodes[i].id])
       /\ Distinct([i \in DOMAIN g.nodes |-> g.nodes[i].title])
       /\ Distinct([i \in DOMAIN g.edges |-> g.edges[i].id])
       /\ Distinct([i \in DOMAIN g.edges |->
                       <<g.edges[i].src, g.edges[i].dst>>])
       /\ \A x \in Edges(g) : Fits(Nodes(g), x)
  BY <1>1 DEF Lists, Distinct, IsInjective
<1> QED
  BY <1>7, <1>8, <1>11, <1>12, <1>13, <1>14, <1>15, <1>16 DEF Strict

\* For every graph of two lists, not only the drafts that can be stored, the
\* strict check (degrees, search, topological sort, predecessors) accepts it
\* exactly if graph theory does.
THEOREM StrictMeansWellFormed ==
    ASSUME NEW g, TwoLists(g)
    PROVE  Strict(g) <=> WellFormed(g)
  BY StrictIsWellFormed, WellFormedIsStrict

-----------------------------------------------------------------------------
(* What the lenient check leaves.                                          *)

\* A node as the service stores it: dumped by its class, which accepted it.
Stored(n) ==
    /\ "vars" \in DOMAIN n /\ AsClass(n) = n
    /\ n.type \in NodeTypes /\ n.ok /\ Allowed(n)
    /\ n.type = "start" => n.refs = {}

\* Nodes that do not clash, of which one at most is a start and one an end.
Apart(m, n) ==
    m.id # n.id /\ m.title # n.title /\ (IsPole(m) => m.type # n.type)

SettledNodes(nodes) ==
    /\ nodes \in Seq(ToSet(nodes))
    /\ \A k \in DOMAIN nodes : Stored(nodes[k])
    /\ \A j, k \in DOMAIN nodes : j # k => Apart(nodes[j], nodes[k])

SettledEdges(nodes, edges) ==
    /\ edges \in Seq(ToSet(edges))
    /\ \A k \in DOMAIN edges : Fits(ToSet(nodes), edges[k])
    /\ \A j, k \in DOMAIN edges : j # k =>
          /\ edges[j].id # edges[k].id
          /\ edges[j].src # edges[k].src \/ edges[j].dst # edges[k].dst

Settled(g) == SettledNodes(g.nodes) /\ SettledEdges(g.nodes, g.edges)

\* The nodes of what is sent.
Sendable(n) ==
    /\ n = Node(n.id, n.type, n.title, n.refs, n.vars, n.ok, n.mine)
    /\ n.type = "start" => n.refs = {}

\* What a class keeps of a node is as stored nodes are.
LEMMA DumpedIsStored ==
    ASSUME NEW n, Sendable(n), n.type \in NodeTypes, n.ok, Allowed(n),
           NEW m, m = AsClass(n)
    PROVE  /\ Stored(m) /\ m.id = n.id /\ m.title = n.title
           /\ m.type = n.type /\ (IsPole(m) <=> IsPole(n))
<1>1. /\ DOMAIN n = {"id", "type", "title", "refs", "vars", "ok", "mine"}
      /\ n = [x \in DOMAIN n |-> n[x]]
  BY DEF Sendable, Node
<1> DEFINE V(x) == CASE x.type = "start" -> StartNodeData(x)
                     [] x.type = "end" -> EndNodeData(x)
                     [] x.type = "llm" -> LLMNodeData(x)
                     [] x.type = "template" -> TemplateTransformNodeData(x)
                     [] x.type = "dataset" -> DatasetRetrievalNodeData(x)
                     [] x.type = "code" -> CodeNodeData(x)
                     [] x.type = "tool" -> ToolNodeData(x)
                     [] x.type = "http" -> HttpRequestNodeData(x)
<1>2. m = [n EXCEPT !.vars = V(n)] /\ AsClass(m) = [m EXCEPT !.vars = V(m)]
  BY DEF AsClass
<1>3. V(m) = m.vars
  <2>1. m.type = n.type /\ m.vars = V(n)
    BY <1>1, <1>2
  <2> QED
    BY <2>1 DEF NodeTypes, StartNodeData, EndNodeData, LLMNodeData,
                TemplateTransformNodeData, DatasetRetrievalNodeData,
                CodeNodeData, ToolNodeData, HttpRequestNodeData
<1> HIDE DEF V
<1>4. /\ m.id = n.id /\ m.title = n.title /\ m.type = n.type
      /\ m.ok = n.ok /\ m.mine = n.mine /\ m.refs = n.refs
      /\ m = [x \in DOMAIN n |-> m[x]] /\ DOMAIN m = DOMAIN n
  BY <1>1, <1>2
<1>5. AsClass(m) = m
  <2>1. DOMAIN m = DOMAIN n
    BY <1>2
  <2>2. m = [x \in DOMAIN m |-> m[x]] /\ m.vars = m["vars"]
    BY <1>4, <2>1
  <2>3. AsClass(m) = [m EXCEPT !.vars = m.vars]
    BY <1>2, <1>3
  <2> QED
    BY <2>2, <2>3
<1>6. "vars" \in DOMAIN m
  BY <1>1, <1>4
<1> QED
  BY <1>4, <1>5, <1>6 DEF Stored, Sendable, Allowed, IsPole

\* A sequence over a set is one over its own items.
LEMMA OwnItems ==
    ASSUME NEW S, NEW s \in Seq(S)
    PROVE  /\ s \in Seq(ToSet(s)) /\ ToSet(s) \subseteq S
           /\ Len(s) \in Nat /\ DOMAIN s = 1..Len(s)
<1>1. Len(s) \in Nat /\ DOMAIN s = 1..Len(s) /\ s \in [1..Len(s) -> S]
  BY LenProperties
<1>2. ToSet(s) \subseteq S /\ s \in [1..Len(s) -> ToSet(s)]
  BY <1>1 DEF ToSet
<1>3. s \in Seq(ToSet(s))
  BY <1>1, <1>2
<1> QED
  BY <1>1, <1>2, <1>3

\* The recursion through the sent nodes.
Nothing == [kept |-> <<>>, poles |-> {}]

Takes(g, f) ==
    f = [k \in 0..Len(g.nodes) |->
            IF k = 0 THEN Nothing ELSE TakeNode(f[k - 1], g.nodes[k])]

\* The nodes that are kept are what a loop over the list leaves.
LEMMA KeptNodesAre ==
    ASSUME NEW g
    PROVE  KeptNodes(g) = (CHOOSE f : Takes(g, f))[Len(g.nodes)].kept
  BY DEF KeptNodes, Takes, Nothing

\* There is such a loop.
LEMMA TakesExists ==
    ASSUME NEW g, g.nodes \in Seq(Nodes(g))
    PROVE  \E f : Takes(g, f)
<1> DEFINE n == Len(g.nodes)
           A == [kept : Seq({AsClass(x) : x \in Nodes(g)}),
                 poles : SUBSET {"start", "end"}]
           F == [k \in 1..n |-> [a \in A |-> TakeNode(a, g.nodes[k])]]
<1>1. n \in Nat /\ \A k \in 1..n : g.nodes[k] \in Nodes(g)
  BY LenProperties
<1>2. Nothing \in A
  BY EmptySeq DEF Nothing
<1>3. ASSUME NEW a \in A, NEW x \in Nodes(g) PROVE TakeNode(a, x) \in A
  <2>1. Append(a.kept, AsClass(x)) \in Seq({AsClass(y) : y \in Nodes(g)})
    BY <1>3, AppendProperties
  <2> QED
    BY <1>3, <2>1 DEF TakeNode, IsPole
<1>4. F \in [1..n -> [A -> A]]
  BY <1>1, <1>3
<1>5. \A k \in 1..n : \A a \in A : F[k][a] = TakeNode(a, g.nodes[k])
  OBVIOUS
<1> HIDE DEF n, A, F
<1>6. PICK h \in [0..n -> A] : Iterates(h, F, Nothing, n)
  BY <1>1, <1>2, <1>4, Iterated
<1>7. \A k \in 1..n : /\ k - 1 \in 0..n /\ k # 0
                     /\ h[k] = TakeNode(h[k - 1], g.nodes[k])
  BY <1>1, <1>5, <1>6 DEF Iterates
<1>8. h = [k \in 0..n |->
             IF k = 0 THEN Nothing ELSE TakeNode(h[k - 1], g.nodes[k])]
  BY <1>1, <1>6, <1>7 DEF Iterates
<1> QED
  BY <1>8 DEF Takes, n

\* It starts with nothing and takes the nodes one by one.
LEMMA Taken ==
    ASSUME NEW g, g.nodes \in Seq(Nodes(g)), NEW f, Takes(g, f)
    PROVE  /\ Len(g.nodes) \in Nat /\ f[0] = Nothing
           /\ \A k \in 1..Len(g.nodes) :
                 f[k] = TakeNode(f[k - 1], g.nodes[k])
<1>1. Len(g.nodes) \in Nat
  BY LenProperties
<1>2. /\ 0 \in 0..Len(g.nodes)
      /\ \A k \in 1..Len(g.nodes) : k \in 0..Len(g.nodes) /\ k # 0
  BY <1>1
<1>3. f[0] = Nothing
  BY <1>2 DEF Takes
<1>4. ASSUME NEW k \in 1..Len(g.nodes)
      PROVE  f[k] = TakeNode(f[k - 1], g.nodes[k])
  BY <1>2 DEF Takes
<1> QED
  BY <1>1, <1>3, <1>4

\* A list with one more item at its end.
Extends(s, old, m) ==
    /\ s \in Seq(ToSet(s)) /\ Len(s) = Len(old) + 1
    /\ DOMAIN s = (DOMAIN old) \cup {Len(old) + 1}
    /\ Len(old) + 1 \notin DOMAIN old
    /\ \A j \in DOMAIN old : s[j] = old[j]
    /\ s[Len(old) + 1] = m

\* Appending extends a list by one item at its end.
LEMMA Appended ==
    ASSUME NEW old, old \in Seq(ToSet(old)), NEW m, NEW s, s = Append(old, m)
    PROVE  Extends(s, old, m)
<1>1. /\ old \in Seq(ToSet(old) \cup {m})
      /\ Len(old) \in Nat /\ DOMAIN old = 1..Len(old)
  BY OwnItems, SeqMonotonic
<1>2. /\ s \in Seq(ToSet(old) \cup {m}) /\ Len(s) = Len(old) + 1
      /\ \A j \in 1..Len(old) : s[j] = old[j]
      /\ s[Len(old) + 1] = m
  BY <1>1, AppendProperties
<1>3. s \in Seq(ToSet(s)) /\ DOMAIN s = 1..Len(old) + 1
  BY <1>2, OwnItems
<1> QED
  BY <1>1, <1>2, <1>3 DEF Extends

\* Settled nodes stay settled when one that is apart from them comes.
LEMMA AnotherNode ==
    ASSUME NEW old, SettledNodes(old), NEW m, Stored(m),
           \A j \in DOMAIN old : Apart(old[j], m) /\ Apart(m, old[j]),
           NEW s, s = Append(old, m)
    PROVE  SettledNodes(s) /\ Extends(s, old, m)
<1>1. Extends(s, old, m)
  <2>1. old \in Seq(ToSet(old))
    BY DEF SettledNodes
  <2> QED
    BY <2>1, Appended
<1>2. \A j \in DOMAIN s : Stored(s[j])
  BY <1>1 DEF SettledNodes, Extends
<1>3. ASSUME NEW j \in DOMAIN s, NEW l \in DOMAIN s, j # l
      PROVE  Apart(s[j], s[l])
  <2>1. CASE j \in DOMAIN old /\ l \in DOMAIN old
    BY <1>1, <1>3, <2>1 DEF SettledNodes, Extends
  <2>2. CASE j = Len(old) + 1 /\ l \in DOMAIN old
    BY <1>1, <2>2 DEF Extends
  <2>3. CASE j \in DOMAIN old /\ l = Len(old) + 1
    BY <1>1, <2>3 DEF Extends
  <2> QED
    BY <1>1, <1>3, <2>1, <2>2, <2>3 DEF Extends
<1> QED
  BY <1>1, <1>2, <1>3 DEF SettledNodes, Extends

\* What is kept of the nodes is settled.
LEMMA KeptIsSettled ==
    ASSUME NEW g, g.nodes \in Seq(Nodes(g)), \A x \in Nodes(g) : Sendable(x)
    PROVE  SettledNodes(KeptNodes(g))
<1>1. PICK f : Takes(g, f) /\ KeptNodes(g) = f[Len(g.nodes)].kept
  <2>1. Takes(g, CHOOSE f : Takes(g, f))
    BY TakesExists
  <2> QED
    BY <2>1, KeptNodesAre
<1> DEFINE Good(acc) ==
              /\ SettledNodes(acc.kept)
              /\ \A j \in DOMAIN acc.kept :
                    IsPole(acc.kept[j]) => acc.kept[j].type \in acc.poles
           n == Len(g.nodes)
           S == {k \in 0..n : Good(f[k])}
<1>2. n \in Nat /\ f[0] = Nothing
  BY <1>1, Taken
<1>3. 0 \in S
  <2>1. <<>> \in Seq(ToSet(<<>>)) /\ DOMAIN <<>> = {} /\ 0 \in 0..n
    BY <1>2, EmptySeq
  <2>2. Good(Nothing)
    BY <2>1 DEF Nothing, SettledNodes
  <2> HIDE DEF Good
  <2> QED
    BY <1>2, <2>1, <2>2
<1>4. ASSUME NEW k \in 1..n, k - 1 \in S PROVE k \in S
  <2> SUFFICES ASSUME NEW acc, acc = f[k - 1], NEW x, x = g.nodes[k],
                      Good(acc)
               PROVE  Good(TakeNode(acc, x))
    <3>1. f[k] = TakeNode(f[k - 1], g.nodes[k]) /\ k \in 0..n
      BY <1>1, <1>2, <1>4, Taken
    <3> HIDE DEF Good
    <3> QED
      BY <1>4, <3>1
  <2>1. x \in Nodes(g) /\ Sendable(x)
    BY <1>2, LenProperties
  <2> DEFINE fit == x.type \in NodeTypes /\ x.ok
             second == IsPole(x) /\ x.type \in acc.poles
             wanted == fit /\ ~second /\ ~Clash(acc.kept, x) /\ Allowed(x)
             new == TakeNode(acc, x)
  <2>2. /\ new.kept = IF wanted THEN Append(acc.kept, AsClass(x))
                      ELSE acc.kept
        /\ acc.poles \subseteq new.poles
        /\ wanted /\ IsPole(x) => x.type \in new.poles
    BY DEF TakeNode
  <2>3. CASE ~wanted
    BY <2>2, <2>3
  <2>4. CASE wanted
    <3> SUFFICES ASSUME NEW m, m = AsClass(x) PROVE Good(new)
      OBVIOUS
    <3>1. /\ Stored(m) /\ m.id = x.id /\ m.title = x.title
          /\ m.type = x.type /\ (IsPole(m) <=> IsPole(x))
      BY <2>1, <2>4, DumpedIsStored
    <3> SUFFICES ASSUME NEW old, old = acc.kept,
                        NEW s, s = Append(old, m)
                 PROVE  Good(new)
      OBVIOUS
    <3>2. SettledNodes(old)
      OBVIOUS
    <3>3. \A j \in DOMAIN old : Apart(old[j], m) /\ Apart(m, old[j])
      <4> SUFFICES ASSUME NEW j \in DOMAIN old
                   PROVE  Apart(old[j], m) /\ Apart(m, old[j])
        OBVIOUS
      <4>1. old[j].id # x.id /\ old[j].title # x.title
        BY <2>4 DEF Clash
      <4>2. IsPole(x) => x.type \notin acc.poles
        BY <2>4
      <4>3. IsPole(old[j]) => old[j].type \in acc.poles
        OBVIOUS
      <4> QED
        BY <3>1, <4>1, <4>2, <4>3 DEF Apart, IsPole
    <3>4. SettledNodes(s) /\ Extends(s, old, m)
      BY <3>1, <3>2, <3>3, AnotherNode
    <3>5. new.kept = s
      BY <2>2, <2>4
    <3>6. \A j \in DOMAIN s : IsPole(s[j]) => s[j].type \in new.poles
      <4> SUFFICES ASSUME NEW j \in DOMAIN s, IsPole(s[j])
                   PROVE  s[j].type \in new.poles
        OBVIOUS
      <4>1. CASE j \in DOMAIN old
        BY <2>2, <3>4, <4>1 DEF Extends
      <4>2. CASE j = Len(old) + 1
        BY <2>2, <2>4, <3>1, <3>4, <4>2 DEF Extends
      <4> QED
        BY <3>4, <4>1, <4>2 DEF Extends
    <3> QED
      BY <3>4, <3>5, <3>6
  <2> QED
    BY <2>3, <2>4
<1>5. n \in S
  <2> HIDE DEF S
  <2>1. \A k \in 0..n : k \in S
    BY <1>2, <1>3, <1>4, CountedUp
  <2> QED
    BY <1>2, <2>1
<1> QED
  BY <1>1, <1>5

\* Nodes that are settled are all kept as they are.
LEMMA SettledNodesStay ==
    ASSUME NEW g, SettledNodes(g.nodes)
    PROVE  KeptNodes(g) = g.nodes
<1>1. /\ g.nodes \in Seq(Nodes(g)) /\ Len(g.nodes) \in Nat
      /\ DOMAIN g.nodes = 1..Len(g.nodes)
      /\ \A k \in DOMAIN g.nodes : g.nodes[k] \in Nodes(g)
  BY OwnItems DEF SettledNodes, Nodes, ToSet
<1>2. PICK f : Takes(g, f) /\ KeptNodes(g) = f[Len(g.nodes)].kept
  <2>1. Takes(g, CHOOSE f : Takes(g, f))
    BY <1>1, TakesExists
  <2> QED
    BY <2>1, KeptNodesAre
<1> DEFINE n == Len(g.nodes)
           Same(acc, k) ==
              /\ acc.kept \in Seq(Nodes(g)) /\ Len(acc.kept) = k
              /\ \A j \in 1..k : acc.kept[j] = g.nodes[j]
              /\ \A t \in acc.poles : \E j \in 1..k :
                    IsPole(g.nodes[j]) /\ g.nodes[j].type = t
           S == {k \in 0..n : Same(f[k], k)}
<1>3. 0 \in S
  <2>1. Same(Nothing, 0)
    BY EmptySeq DEF Nothing
  <2>2. f[0] = Nothing /\ 0 \in 0..n
    BY <1>1, <1>2, Taken
  <2> HIDE DEF Same
  <2> QED
    BY <2>1, <2>2
<1>4. ASSUME NEW k \in 1..n, k - 1 \in S PROVE k \in S
  <2> SUFFICES ASSUME NEW acc, acc = f[k - 1], NEW x, x = g.nodes[k],
                      Same(acc, k - 1)
               PROVE  Same(TakeNode(acc, x), k)
    <3>1. f[k] = TakeNode(f[k - 1], g.nodes[k]) /\ k \in 0..n
      BY <1>1, <1>2, <1>4, Taken
    <3> HIDE DEF Same
    <3> QED
      BY <1>4, <3>1
  <2>1. /\ k \in DOMAIN g.nodes /\ x \in Nodes(g) /\ Stored(x)
        /\ \A j \in 1..(k - 1) : Apart(g.nodes[j], x)
    <3>1. k \in DOMAIN g.nodes /\ \A j \in 1..(k - 1) :
                                    j \in DOMAIN g.nodes /\ j # k
      BY <1>1, <1>4
    <3>2. x \in Nodes(g)
      BY <1>1, <3>1
    <3> QED
      BY <3>1, <3>2 DEF SettledNodes
  <2>2. ~Clash(acc.kept, x)
    <3>1. DOMAIN acc.kept = 1..(k - 1)
      BY LenProperties
    <3> QED
      BY <2>1, <3>1 DEF Clash, Apart
  <2>3. ~(IsPole(x) /\ x.type \in acc.poles)
    BY <2>1 DEF Apart
  <2>4. /\ TakeNode(acc, x).kept = Append(acc.kept, x)
        /\ TakeNode(acc, x).poles = IF IsPole(x) THEN acc.poles \cup {x.type}
                                    ELSE acc.poles
    BY <2>1, <2>2, <2>3 DEF TakeNode, Stored
  <2>5. /\ Append(acc.kept, x) \in Seq(Nodes(g))
        /\ Len(Append(acc.kept, x)) = k
        /\ \A j \in 1..(k - 1) : Append(acc.kept, x)[j] = acc.kept[j]
        /\ Append(acc.kept, x)[k] = x
    BY <2>1, AppendProperties
  <2>6. \A j \in 1..k : Append(acc.kept, x)[j] = g.nodes[j]
    <3>1. \A j \in 1..k : j = k \/ j \in 1..(k - 1)
      OBVIOUS
    <3> QED
      BY <2>5, <3>1
  <2>7. ASSUME NEW t \in TakeNode(acc, x).poles
        PROVE  \E j \in 1..k : IsPole(g.nodes[j]) /\ g.nodes[j].type = t
    <3>1. CASE t \in acc.poles
      <4>1. PICK j \in 1..(k - 1) : IsPole(g.nodes[j]) /\ g.nodes[j].type = t
        BY <3>1
      <4> QED
        BY <4>1
    <3>2. CASE t \notin acc.poles
      <4>1. IsPole(x) /\ t = x.type
        BY <2>4, <2>7, <3>2
      <4> QED
        BY <4>1
    <3> QED
      BY <3>1, <3>2
  <2> QED
    BY <2>4, <2>5, <2>6, <2>7
<1>5. Same(f[n], n)
  <2> HIDE DEF S
  <2>1. \A k \in 0..n : k \in S
    BY <1>1, <1>3, <1>4, CountedUp
  <2> QED
    BY <1>1, <2>1 DEF S
<1> QED
  BY <1>1, <1>2, <1>5, SeqEqual

\* The same for edges: the recursion through them,
TakesEdges(nodes, edges, f) ==
    f = [k \in 0..Len(edges) |->
            IF k = 0 THEN <<>> ELSE TakeEdge(nodes, f[k - 1], edges[k])]

\* The same for the edges.
LEMMA KeptEdgesAre ==
    ASSUME NEW nodes, NEW edges
    PROVE  KeptEdges(nodes, edges)
              = (CHOOSE f : TakesEdges(nodes, edges, f))[Len(edges)]
  BY DEF KeptEdges, TakesEdges

\* There is a loop over the edges, too.
LEMMA TakesEdgesExists ==
    ASSUME NEW nodes, NEW edges, edges \in Seq(ToSet(edges))
    PROVE  \E f : TakesEdges(nodes, edges, f)
<1> DEFINE n == Len(edges)
           A == Seq(ToSet(edges))
           F == [k \in 1..n |-> [a \in A |-> TakeEdge(nodes, a, edges[k])]]
<1>1. n \in Nat /\ \A k \in 1..n : edges[k] \in ToSet(edges)
  BY LenProperties
<1>2. <<>> \in A
  BY EmptySeq
<1>3. ASSUME NEW a \in A, NEW x \in ToSet(edges)
      PROVE  TakeEdge(nodes, a, x) \in A
  <2>1. Append(a, x) \in A
    BY <1>3, AppendProperties
  <2> QED
    BY <1>3, <2>1 DEF TakeEdge
<1>4. F \in [1..n -> [A -> A]]
  BY <1>1, <1>3
<1>5. \A k \in 1..n : \A a \in A : F[k][a] = TakeEdge(nodes, a, edges[k])
  OBVIOUS
<1> HIDE DEF n, A, F
<1>6. PICK h \in [0..n -> A] : Iterates(h, F, <<>>, n)
  BY <1>1, <1>2, <1>4, Iterated
<1>7. \A k \in 1..n : /\ k - 1 \in 0..n /\ k # 0
                      /\ h[k] = TakeEdge(nodes, h[k - 1], edges[k])
  BY <1>1, <1>5, <1>6 DEF Iterates
<1>8. h = [k \in 0..n |->
             IF k = 0 THEN <<>> ELSE TakeEdge(nodes, h[k - 1], edges[k])]
  BY <1>1, <1>6, <1>7 DEF Iterates
<1> QED
  BY <1>8 DEF TakesEdges, n

\* It starts with nothing and takes the edges one by one.
LEMMA TakenEdges ==
    ASSUME NEW nodes, NEW edges, edges \in Seq(ToSet(edges)),
           NEW f, TakesEdges(nodes, edges, f)
    PROVE  /\ Len(edges) \in Nat /\ f[0] = <<>>
           /\ \A k \in 1..Len(edges) :
                 f[k] = TakeEdge(nodes, f[k - 1], edges[k])
<1>1. Len(edges) \in Nat
  BY LenProperties
<1>2. /\ 0 \in 0..Len(edges)
      /\ \A k \in 1..Len(edges) : k \in 0..Len(edges) /\ k # 0
  BY <1>1
<1>3. f[0] = <<>>
  BY <1>2 DEF TakesEdges
<1>4. ASSUME NEW k \in 1..Len(edges)
      PROVE  f[k] = TakeEdge(nodes, f[k - 1], edges[k])
  BY <1>2 DEF TakesEdges
<1> QED
  BY <1>1, <1>3, <1>4

\* what it leaves,
LEMMA KeptEdgesSettled ==
    ASSUME NEW nodes, NEW edges, edges \in Seq(ToSet(edges))
    PROVE  SettledEdges(nodes, KeptEdges(nodes, edges))
<1>1. PICK f : /\ TakesEdges(nodes, edges, f)
               /\ KeptEdges(nodes, edges) = f[Len(edges)]
  <2>1. TakesEdges(nodes, edges, CHOOSE f : TakesEdges(nodes, edges, f))
    BY TakesEdgesExists
  <2> QED
    BY <2>1, KeptEdgesAre
<1> DEFINE n == Len(edges)
           S == {k \in 0..n : SettledEdges(nodes, f[k])}
<1>2. n \in Nat /\ f[0] = <<>>
  BY <1>1, TakenEdges
<1>3. 0 \in S
  <2>1. <<>> \in Seq(ToSet(<<>>)) /\ DOMAIN <<>> = {} /\ 0 \in 0..n
    BY <1>2, EmptySeq
  <2>2. SettledEdges(nodes, <<>>)
    BY <2>1 DEF SettledEdges
  <2> QED
    BY <1>2, <2>1, <2>2
<1>4. ASSUME NEW k \in 1..n, k - 1 \in S PROVE k \in S
  <2> SUFFICES ASSUME NEW old, old = f[k - 1], NEW x, x = edges[k],
                      SettledEdges(nodes, old)
               PROVE  SettledEdges(nodes, TakeEdge(nodes, old, x))
    <3>1. f[k] = TakeEdge(nodes, f[k - 1], edges[k]) /\ k \in 0..n
      BY <1>1, <1>2, <1>4, TakenEdges
    <3> QED
      BY <1>4, <3>1
  <2>1. CASE TakeEdge(nodes, old, x) = old
    BY <2>1
  <2>2. CASE /\ Fits(ToSet(nodes), x)
             /\ \A i \in DOMAIN old : /\ old[i].id # x.id
                                      /\ \/ old[i].src # x.src
                                         \/ old[i].dst # x.dst
    <3> SUFFICES ASSUME NEW s, s = Append(old, x)
                 PROVE  SettledEdges(nodes, s)
      BY <2>2 DEF TakeEdge
    <3>1. Extends(s, old, x)
      BY Appended DEF SettledEdges
    <3>2. \A j \in DOMAIN s : Fits(ToSet(nodes), s[j])
      BY <2>2, <3>1 DEF SettledEdges, Extends
    <3>3. ASSUME NEW j \in DOMAIN s, NEW l \in DOMAIN s, j # l
          PROVE  /\ s[j].id # s[l].id
                 /\ s[j].src # s[l].src \/ s[j].dst # s[l].dst
      <4>1. CASE j \in DOMAIN old /\ l \in DOMAIN old
        BY <3>1, <3>3, <4>1 DEF SettledEdges, Extends
      <4>2. CASE j = Len(old) + 1 /\ l \in DOMAIN old
        BY <2>2, <3>1, <4>2 DEF Extends
      <4>3. CASE j \in DOMAIN old /\ l = Len(old) + 1
        BY <2>2, <3>1, <4>3 DEF Extends
      <4> QED
        BY <3>1, <3>3, <4>1, <4>2, <4>3 DEF Extends
    <3> QED
      BY <3>1, <3>2, <3>3 DEF SettledEdges, Extends
  <2> QED
    BY <2>1, <2>2 DEF TakeEdge
<1>5. n \in S
  <2> HIDE DEF S
  <2>1. \A k \in 0..n : k \in S
    BY <1>2, <1>3, <1>4, CountedUp
  <2> QED
    BY <1>2, <2>1
<1> QED
  BY <1>1, <1>5

\* and that it leaves settled ones alone.
LEMMA SettledEdgesStay ==
    ASSUME NEW nodes, NEW edges, SettledEdges(nodes, edges)
    PROVE  KeptEdges(nodes, edges) = edges
<1>1. /\ edges \in Seq(ToSet(edges)) /\ Len(edges) \in Nat
      /\ DOMAIN edges = 1..Len(edges)
      /\ \A k \in DOMAIN edges : edges[k] \in ToSet(edges)
  BY OwnItems DEF SettledEdges, ToSet
<1>2. PICK f : /\ TakesEdges(nodes, edges, f)
               /\ KeptEdges(nodes, edges) = f[Len(edges)]
  <2>1. TakesEdges(nodes, edges, CHOOSE f : TakesEdges(nodes, edges, f))
    BY <1>1, TakesEdgesExists
  <2> QED
    BY <2>1, KeptEdgesAre
<1> DEFINE n == Len(edges)
           Same(kept, k) ==
              /\ kept \in Seq(ToSet(edges)) /\ Len(kept) = k
              /\ \A j \in 1..k : kept[j] = edges[j]
           S == {k \in 0..n : Same(f[k], k)}
<1>3. 0 \in S
  <2>1. Same(<<>>, 0)
    BY EmptySeq
  <2>2. f[0] = <<>> /\ 0 \in 0..n
    BY <1>1, <1>2, TakenEdges
  <2> HIDE DEF Same
  <2> QED
    BY <2>1, <2>2
<1>4. ASSUME NEW k \in 1..n, k - 1 \in S PROVE k \in S
  <2> SUFFICES ASSUME NEW kept, kept = f[k - 1], NEW x, x = edges[k],
                      Same(kept, k - 1)
               PROVE  Same(TakeEdge(nodes, kept, x), k)
    <3>1. f[k] = TakeEdge(nodes, f[k - 1], edges[k]) /\ k \in 0..n
      BY <1>1, <1>2, <1>4, TakenEdges
    <3> HIDE DEF Same
    <3> QED
      BY <1>4, <3>1
  <2>1. /\ x \in ToSet(edges) /\ Fits(ToSet(nodes), x)
        /\ \A j \in 1..(k - 1) :
              /\ edges[j].id # x.id
              /\ edges[j].src # x.src \/ edges[j].dst # x.dst
    <3>1. k \in DOMAIN edges /\ \A j \in 1..(k - 1) :
                                  j \in DOMAIN edges /\ j # k
      BY <1>1, <1>4
    <3>2. x \in ToSet(edges)
      BY <1>1, <3>1
    <3> QED
      BY <3>1, <3>2 DEF SettledEdges
  <2>2. DOMAIN kept = 1..(k - 1)
    BY LenProperties
  <2>3. TakeEdge(nodes, kept, x) = Append(kept, x)
    BY <2>1, <2>2 DEF TakeEdge
  <2>4. /\ Append(kept, x) \in Seq(ToSet(edges))
        /\ Len(Append(kept, x)) = k
        /\ \A j \in 1..(k - 1) : Append(kept, x)[j] = kept[j]
        /\ Append(kept, x)[k] = x
    BY <2>1, AppendProperties
  <2>5. \A j \in 1..k : Append(kept, x)[j] = edges[j]
    <3>1. \A j \in 1..k : j = k \/ j \in 1..(k - 1)
      OBVIOUS
    <3> QED
      BY <2>4, <3>1
  <2> QED
    BY <2>3, <2>4, <2>5
<1>5. Same(f[n], n)
  <2> HIDE DEF S
  <2>1. \A k \in 0..n : k \in S
    BY <1>1, <1>3, <1>4, CountedUp
  <2> QED
    BY <1>1, <2>1 DEF S
<1> QED
  BY <1>1, <1>2, <1>5, SeqEqual

\* So a draft that is saved is settled, and loading it changes nothing.
LEMMA SavedIsSettled ==
    ASSUME NEW g, g.nodes \in Seq(Nodes(g)), g.edges \in Seq(Edges(g)),
           \A x \in Nodes(g) : Sendable(x)
    PROVE  Settled(Lenient(g))
  BY KeptIsSettled, KeptEdgesSettled DEF Lenient, Settled, Edges

\* The check leaves a settled draft as it is.
LEMMA SettledStays ==
    ASSUME NEW g, g = [nodes |-> g.nodes, edges |-> g.edges], Settled(g)
    PROVE  Lenient(g) = g
  BY SettledNodesStay, SettledEdgesStay DEF Lenient, Settled

\* A settled draft has two lists, of stored nodes.
LEMMA SettledLists ==
    ASSUME NEW g, Settled(g)
    PROVE  TwoLists(g) /\ \A n \in Nodes(g) : Stored(n)
  BY OwnItems DEF Settled, SettledNodes, SettledEdges, TwoLists, Nodes, Edges,
                  ToSet
-----------------------------------------------------------------------------
(* The invariant.                                                          *)

Draft(g) == g = [nodes |-> g.nodes, edges |-> g.edges] /\ Settled(g)

IsRow(row) ==
    /\ DOMAIN row = {"draft", "graph", "status", "passed"}
    /\ Draft(row.draft)
    /\ row.status \in {"gone", "draft", "published"}
    /\ row.passed \in {"yes", "no"}
    /\ row.status = "gone" => row = Gone

\* A request in progress: what it has seen of the row and what it will make
\* of that.
IsReq(r) ==
    /\ r.kind \in {"none", "save", "publish"}
    /\ r.kind # "none" =>
          /\ IsRow(r.view) /\ r.view # Gone
          /\ Draft(r.new.draft) /\ r.new.passed = "no"
    /\ r.kind = "save" =>
          r.new.graph = r.view.graph /\ r.new.status = r.view.status
    /\ r.kind = "publish" =>
          /\ r.view.passed = "yes" /\ r.new.draft = r.view.draft
          /\ \/ r.new.graph = r.view.graph /\ r.new.status = r.view.status
             \/ r.new.graph = r.view.draft /\ r.new.status = "published"

\* The nodes the engine has started or executed.
Begun(r) == r.seen \cup r.active \cup r.wrote

\* A run has only begun what all that comes before has been executed of, and
\* has begun the start node; so when no node is left to begin, none is left.
IsRun(r) ==
    /\ DOMAIN r = DOMAIN NoRun
    /\ r.pc \in {"idle", "refused", "running", "closing", "over", "lost"}
    /\ r.result \in {"none", "running", "succeeded", "failed"}
    /\ r.left \in {"yes", "no"} /\ Draft(r.graph)
    /\ r.hung \subseteq r.active /\ Begun(r) \subseteq Ids(r.graph)
    /\ r.pc # "running" => r.active = {}
    /\ r.pc \in {"running", "closing"} => Strict(r.graph)
    /\ r.pc = "running" =>
          /\ Start(r.graph) \subseteq Begun(r)
          /\ \A i \in Begun(r) : Prev1(r.graph, i) \subseteq r.seen
    /\ r.pc = "closing" /\ r.result = "succeeded" /\ r.left = "no" =>
          r.seen = Ids(r.graph)

Counters ==
    /\ used \in 0..MaxRuns /\ saves \in 0..Len(Sent)
    /\ \A d \in Runs : run[d].pc = "idle" => used <= d - 1
    /\ doubt \subseteq {"left", "edited", "raced"}

\* As long as nothing came in between, the gate is lit for a draft that has
\* been run, and will be put out by a save in progress; the one publication
\* in progress has seen such a draft, and an unpublished row as it still is.
Gate ==
    /\ wf.passed = "yes" => wf.draft \in tested
    /\ wf.status = "published" => wf.graph \in tested
    /\ \A q \in Reqs :
          req[q].kind = "save" /\ wf.passed = "yes" =>
              req[q].view.passed = "yes"
    /\ \A q \in Reqs : req[q].kind = "publish" =>
          /\ req[q].view.draft \in tested
          /\ req[q].view.status = "draft" =>
                wf = Gone \/ (/\ wf.status = "draft"
                              /\ wf.graph = req[q].view.graph)
    /\ \A p, q \in Reqs :
          req[p].kind = "publish" /\ req[q].kind = "publish" => p = q

IInv ==
    /\ IsRow(wf)
    /\ DOMAIN req = Reqs /\ \A q \in Reqs : IsReq(req[q])
    /\ DOMAIN run = Runs /\ \A d \in Runs : IsRun(run[d])
    /\ \A g \in tested : Strict(g)
    /\ Counters
    /\ doubt = {} => Gate

\* The draft of a new workflow is settled.
LEMMA NothingSettled == Draft(NoGraph)
<1> DEFINE none == <<>>
<1>1. none \in Seq(ToSet(none)) /\ DOMAIN none = {}
  BY EmptySeq DEF ToSet
<1>2. SettledNodes(none) /\ SettledEdges(none, none)
  BY <1>1 DEF SettledNodes, SettledEdges
<1> QED
  BY <1>2 DEF Draft, Settled, NoGraph

\* The row that is not there is one.
LEMMA GoneIsRow == IsRow(Gone)
  BY NothingSettled DEF IsRow, Gone, Row

\* A run that is not on satisfies it.
LEMMA NoRunIsRun ==
    ASSUME NEW pc \in {"idle", "refused", "over", "lost"},
           NEW r, r = [NoRun EXCEPT !.pc = pc]
    PROVE  IsRun(r) /\ r.pc = pc
<1>1. /\ DOMAIN r = DOMAIN NoRun /\ r.pc = pc /\ r.graph = NoGraph
      /\ r.active = {} /\ r.wrote = {} /\ r.seen = {} /\ r.hung = {}
      /\ r.result = "none" /\ r.left = "no"
  BY DEF NoRun
<1>2. Begun(r) = {}
  BY <1>1 DEF Begun
<1> HIDE DEF NoRun
<1> QED
  BY <1>1, <1>2, NothingSettled DEF IsRun

-----------------------------------------------------------------------------
(* The engine.                                                             *)

\* A run that begins has begun its start nodes, which nothing comes before.
LEMMA RunBegins ==
    ASSUME NEW g, Draft(g), Strict(g), NEW p,
           NEW r, r = [NoRun EXCEPT !.pc = "running", !.graph = g,
                                    !.active = Start(g),
                                    !.result = "running", !.passed = p]
    PROVE  IsRun(r)
<1>1. /\ DOMAIN r = DOMAIN NoRun /\ r.pc = "running" /\ r.graph = g
      /\ r.active = Start(g) /\ r.wrote = {} /\ r.seen = {} /\ r.hung = {}
      /\ r.result = "running" /\ r.left = "no"
  BY DEF NoRun
<1>2. Begun(r) = Start(g)
  BY <1>1 DEF Begun
<1>3. TwoLists(g)
  BY SettledLists DEF Draft
<1>4. Start(g) \subseteq Ids(g)
  BY DEF Start, Ids
<1>5. \A i \in Start(g) : Prev1(g, i) = {}
  BY <1>3, StrictFacts DEF Start
<1> QED
  BY <1>1, <1>2, <1>4, <1>5 DEF IsRun

\* When no node is left to begin, every node has been executed: of the others
\* one would have nothing but executed nodes before it.
LEMMA NoneReady ==
    ASSUME NEW g, TwoLists(g), Strict(g), NEW seen \in SUBSET Ids(g),
           Start(g) \subseteq seen, Ready(g, seen) = {}
    PROVE  seen = Ids(g)
<1> SUFFICES ASSUME Ids(g) \ seen # {} PROVE FALSE
  OBVIOUS
<1>1. Joins(g) /\ ~Cyclic(g)
  BY StrictFacts
<1>2. PICK i \in Ids(g) \ seen : Prev1(g, i) \cap (Ids(g) \ seen) = {}
  BY <1>1, FirstOne
<1>3. Prev1(g, i) \subseteq Ids(g)
  BY <1>1 DEF Joins, Prev1
<1>4. Prev1(g, i) # {}
  <2>1. PICK n \in Nodes(g) : n.id = i
    BY DEF Ids
  <2>2. n.type # "start"
    BY <2>1 DEF Start
  <2> QED
    BY <2>1, <2>2, StrictFacts
<1> QED
  BY <1>2, <1>3, <1>4 DEF Ready

\* A node ends.
LEMMA RunAdvances ==
    ASSUME NEW s, IsRun(s), s.pc = "running", NEW i \in s.active \ s.hung,
           NEW w, w = [s EXCEPT !.active = @ \ {i}, !.wrote = @ \cup {i}],
           NEW r, r = Advance(w)
    PROVE  IsRun(r)
<1>1. /\ DOMAIN s = DOMAIN NoRun /\ Draft(s.graph) /\ Strict(s.graph)
      /\ s.hung \subseteq s.active /\ Begun(s) \subseteq Ids(s.graph)
      /\ Start(s.graph) \subseteq Begun(s)
      /\ \A j \in Begun(s) : Prev1(s.graph, j) \subseteq s.seen
      /\ s.result \in {"none", "running", "succeeded", "failed"}
      /\ s.left \in {"yes", "no"}
  BY DEF IsRun
<1>2. /\ DOMAIN w = DOMAIN NoRun /\ w.pc = "running" /\ w.graph = s.graph
      /\ w.active = s.active \ {i} /\ w.wrote = s.wrote \cup {i}
      /\ w.seen = s.seen /\ w.hung = s.hung /\ w.result = s.result
      /\ w.left = s.left
  BY <1>1 DEF NoRun
<1>3. Begun(w) = Begun(s)
  BY <1>2 DEF Begun
<1>4. CASE w.active # {}
  <2>1. r = w
    BY <1>4 DEF Advance
  <2> QED
    BY <1>1, <1>2, <1>3, <2>1 DEF IsRun
<1>5. CASE w.active = {}
  <2> DEFINE seen == w.seen \cup w.wrote
             next == Ready(w.graph, seen)
  <2>1. r = [w EXCEPT !.seen = seen, !.wrote = {}, !.active = next,
                      !.pc = IF next = {} THEN "closing" ELSE "running",
                      !.result = IF next = {} THEN "succeeded" ELSE "running"]
    BY <1>5 DEF Advance
  <2> HIDE DEF seen, next
  <2>2. /\ DOMAIN r = DOMAIN NoRun /\ r.graph = s.graph /\ r.seen = seen
        /\ r.wrote = {} /\ r.active = next /\ r.hung = s.hung
        /\ r.pc = IF next = {} THEN "closing" ELSE "running"
        /\ r.result = IF next = {} THEN "succeeded" ELSE "running"
        /\ r.left = s.left
    BY <1>2, <2>1 DEF NoRun
  <2>3. seen = Begun(s)
    BY <1>2, <1>5 DEF seen, Begun
  <2>4. s.hung = {}
    BY <1>1, <1>2, <1>5
  <2>5. /\ next \subseteq Ids(s.graph)
        /\ \A j \in next : Prev1(s.graph, j) \subseteq seen
    BY <1>2 DEF next, Ready
  <2>6. Begun(r) = seen \cup next
    BY <2>2 DEF Begun
  <2>7. s.seen \subseteq seen
    BY <2>3 DEF Begun
  <2>8. next = {} => seen = Ids(s.graph)
    <3>1. TwoLists(s.graph)
      BY <1>1, SettledLists DEF Draft
    <3> QED
      BY <1>1, <1>2, <2>3, <3>1, NoneReady DEF next
  <2>9. CASE next = {}
    BY <1>1, <2>2, <2>3, <2>4, <2>5, <2>6, <2>7, <2>8, <2>9 DEF IsRun
  <2>10. CASE next # {}
    <3>1. \A j \in Begun(r) : Prev1(s.graph, j) \subseteq r.seen
      BY <1>1, <2>2, <2>3, <2>5, <2>6, <2>7
    <3>2. Start(s.graph) \subseteq Begun(r) /\ Begun(r) \subseteq Ids(s.graph)
      BY <1>1, <2>3, <2>5, <2>6
    <3> QED
      BY <1>1, <2>2, <2>4, <2>10, <3>1, <3>2 DEF IsRun
  <2> QED
    BY <2>9, <2>10
<1> QED
  BY <1>4, <1>5

\* An error, or the client's leaving, ends it.
LEMMA RunFails ==
    ASSUME NEW s, IsRun(s), s.pc = "running", NEW r, r = Fail(s)
    PROVE  IsRun(r)
<1>1. /\ DOMAIN r = DOMAIN NoRun /\ r.graph = s.graph /\ r.seen = s.seen
      /\ r.wrote = s.wrote /\ r.active = {} /\ r.hung = {}
      /\ r.pc = "closing" /\ r.result = "failed" /\ r.left = s.left
  BY DEF Fail, IsRun, NoRun
<1>2. Begun(r) \subseteq Begun(s)
  BY <1>1 DEF Begun
<1> QED
  BY <1>1, <1>2 DEF IsRun

\* The client leaves: no claim is made of what has been executed.
LEMMA RunIsLeft ==
    ASSUME NEW s, IsRun(s), s.pc = "running",
           NEW r, r = [s EXCEPT !.pc = "closing", !.active = {}, !.hung = {},
                                !.result = "succeeded", !.left = "yes"]
    PROVE  IsRun(r)
<1>1. /\ DOMAIN r = DOMAIN NoRun /\ r.graph = s.graph /\ r.seen = s.seen
      /\ r.wrote = s.wrote /\ r.active = {} /\ r.hung = {}
      /\ r.pc = "closing" /\ r.result = "succeeded" /\ r.left = "yes"
  BY DEF IsRun, NoRun
<1>2. Begun(r) \subseteq Begun(s)
  BY <1>1 DEF Begun
<1> QED
  BY <1>1, <1>2 DEF IsRun
-----------------------------------------------------------------------------
(* Requests.                                                               *)

\* A commit writes the columns that the request has changed.
Merged(row, r, m) ==
    /\ IsRow(m)
    /\ m.draft = IF r.new.draft # r.view.draft
                 THEN r.new.draft ELSE row.draft
    /\ m.graph = IF r.new.graph # r.view.graph
                 THEN r.new.graph ELSE row.graph
    /\ m.status = IF r.new.status # r.view.status
                  THEN r.new.status ELSE row.status
    /\ m.passed = IF r.view.passed = "yes" THEN "no" ELSE row.passed

\* What a commit leaves is a row again.
LEMMA RowsMerge ==
    ASSUME NEW row, IsRow(row), row # Gone, NEW r, IsReq(r), r.kind # "none",
           NEW m, m = Flush(row, r.view, r.new)
    PROVE  Merged(row, r, m)
<1>1. DOMAIN m = {"draft", "graph", "status", "passed"}
  BY DEF IsRow, Flush
<1>2. /\ m.draft = IF r.new.draft # r.view.draft
                   THEN r.new.draft ELSE row.draft
      /\ m.graph = IF r.new.graph # r.view.graph
                   THEN r.new.graph ELSE row.graph
      /\ m.status = IF r.new.status # r.view.status
                    THEN r.new.status ELSE row.status
      /\ m.passed = IF r.new.passed # r.view.passed
                    THEN r.new.passed ELSE row.passed
  BY DEF IsRow, Flush
<1>3. r.new.passed = "no" /\ r.view.passed \in {"yes", "no"}
  BY DEF IsReq, IsRow
<1>4. m.passed = IF r.view.passed = "yes" THEN "no" ELSE row.passed
  BY <1>2, <1>3
<1>5. m.status \in {"draft", "published"}
  BY <1>2 DEF IsReq, IsRow
<1>6. Draft(m.draft) /\ m.passed \in {"yes", "no"}
  BY <1>2, <1>4 DEF IsReq, IsRow
<1> QED
  BY <1>1, <1>2, <1>4, <1>5, <1>6 DEF IsRow, Merged

\* Of the row the end of a run changes the gate at most, after a success.
LitOnly(row, r, m) ==
    /\ IsRow(m) /\ m.draft = row.draft /\ m.graph = row.graph
    /\ m.status = row.status /\ (row = Gone => m = Gone)
    /\ m.passed = "yes" => row.passed = "yes" \/ r.result = "succeeded"

\* Lighting the gate leaves a row that differs in nothing else.
LEMMA GateIsLit ==
    ASSUME NEW row, IsRow(row), NEW r, NEW m, m = Light(row, r)
    PROVE  LitOnly(row, r, m)
<1>1. row # Gone => row.status # "gone"
  BY DEF IsRow
<1>2. Gone.status = "gone"
  BY DEF Gone, Row
<1>3. CASE row # Gone /\ r.result = "succeeded" /\ r.passed = "no"
  <2>1. m = [row EXCEPT !.passed = "yes"]
    BY <1>3 DEF Light
  <2>2. /\ DOMAIN m = DOMAIN row /\ m.draft = row.draft /\ m.graph = row.graph
        /\ m.status = row.status /\ m.passed = "yes"
    BY <2>1 DEF IsRow
  <2> QED
    BY <1>1, <1>2, <1>3, <2>2 DEF IsRow, LitOnly
<1>4. CASE ~(row # Gone /\ r.result = "succeeded" /\ r.passed = "no")
  BY <1>4 DEF Light, LitOnly
<1> QED
  BY <1>3, <1>4

\* What a save makes of the row.
LEMMA SaveIsReq ==
    ASSUME NEW row, IsRow(row), row # Gone, NEW g, Draft(g),
           NEW r, r = [kind |-> "save", view |-> row,
                       new |-> [row EXCEPT !.draft = g, !.passed = "no"]]
    PROVE  IsReq(r)
<1>1. /\ r.kind = "save" /\ r.view = row /\ r.new.draft = g
      /\ r.new.graph = row.graph /\ r.new.status = row.status
      /\ r.new.passed = "no"
  BY DEF IsRow
<1> QED
  BY <1>1 DEF IsReq

\* What a publication makes of it.
LEMMA PublishIsReq ==
    ASSUME NEW row, IsRow(row), row # Gone, row.passed = "yes",
           NEW r, r = [kind |-> "publish", view |-> row,
                       new |-> IF Strict(row.draft)
                               THEN [row EXCEPT !.graph = row.draft,
                                                !.passed = "no",
                                                !.status = "published"]
                               ELSE [row EXCEPT !.passed = "no"]]
    PROVE  IsReq(r)
<1>1. /\ r.kind = "publish" /\ r.view = row /\ r.new.passed = "no"
      /\ r.new.draft = row.draft
      /\ \/ r.new.graph = row.graph /\ r.new.status = row.status
         \/ r.new.graph = row.draft /\ r.new.status = "published"
  BY DEF IsRow
<1> QED
  BY <1>1 DEF IsReq, IsRow

\* No request is in progress.
LEMMA NoReqIsReq == IsReq(NoReq) /\ NoReq.kind = "none"
  BY DEF NoReq, IsReq

-----------------------------------------------------------------------------
(* The invariant holds.                                                    *)

\* A workflow that is not there yet, without requests and runs.
THEOREM InitIInv == Init => IInv
<1> SUFFICES ASSUME Init PROVE IInv
  OBVIOUS
<1>1. IsRow(wf)
  BY GoneIsRow DEF Init
<1>2. DOMAIN req = Reqs /\ \A q \in Reqs : IsReq(req[q])
  BY NoReqIsReq DEF Init
<1>3. DOMAIN run = Runs /\ \A d \in Runs : IsRun(run[d])
  <2>1. IsRun(NoRun)
    <3>1. NoRun = [NoRun EXCEPT !.pc = "idle"]
      BY DEF NoRun
    <3> QED
      BY <3>1, NoRunIsRun
  <2> QED
    BY <2>1 DEF Init
<1>4. Counters
  <2>1. Len(Sent) \in Nat /\ MaxRuns \in Nat
    BY SentAssumption, LimitAssumption, LenProperties
  <2>2. used = 0 /\ saves = 0 /\ doubt = {}
    BY DEF Init
  <2>3. \A d \in Runs : d \in Nat /\ d >= 1
    BY <2>1 DEF Runs
  <2> QED
    BY <2>1, <2>2, <2>3 DEF Counters
<1>5. Gate
  <2>1. wf.passed = "no" /\ wf.status = "gone"
    BY DEF Init, Gone, Row
  <2>2. \A q \in Reqs : req[q].kind = "none"
    BY NoReqIsReq DEF Init
  <2> QED
    BY <2>1, <2>2 DEF Gate
<1> QED
  BY <1>1, <1>2, <1>3, <1>4, <1>5 DEF IInv, Init

\* A step of one run, which nothing but the run takes part in.
LEMMA RunChanges ==
    ASSUME IInv, NEW d \in Runs, NEW r, IsRun(r), r.pc # "idle",
           run' = [run EXCEPT ![d] = r],
           UNCHANGED <<wf, req, used, saves, tested, doubt>>
    PROVE  IInv'
<1>1. /\ DOMAIN run' = Runs
      /\ \A x \in Runs : run'[x] = IF x = d THEN r ELSE run[x]
  BY DEF IInv
<1>2. \A x \in Runs : IsRun(run'[x])
  BY <1>1 DEF IInv
<1>3. Counters'
  BY <1>1 DEF IInv, Counters
<1>4. (doubt = {} => Gate)'
  BY DEF IInv, Gate
<1> QED
  BY <1>1, <1>2, <1>3, <1>4 DEF IInv

\* A node ends; its own commit may have renewed the view of the row.
LEMMA NodeEndsKeeps ==
    ASSUME IInv, NEW d \in Runs, NEW i, NodeEnds(d, i)
    PROVE  IInv'
<1>1. /\ IsRun(run[d]) /\ run[d].pc = "running"
      /\ i \in run[d].active \ run[d].hung
  BY DEF IInv, NodeEnds
<1>2. PICK r : r = Advance(Wrote(d, i))
  OBVIOUS
<1>3. IsRun(r)
  BY <1>1, <1>2, RunAdvances DEF Wrote
<1>4. r.pc # "idle"
  <2>1. Wrote(d, i).pc = "running" /\ DOMAIN Wrote(d, i) = DOMAIN run[d]
    BY <1>1 DEF Wrote, IsRun, NoRun
  <2>2. Advance(Wrote(d, i)).pc \in {"running", "closing"}
    <3> DEFINE w == Wrote(d, i)
    <3>1. "pc" \in DOMAIN w /\ w.pc = "running"
      BY <1>1, <2>1 DEF IsRun, NoRun
    <3> HIDE DEF w
    <3>2. Advance(w).pc \in {"running", "closing"}
      BY <3>1 DEF Advance
    <3> QED
      BY <3>2 DEF w
  <2> QED
    BY <1>2, <2>2
<1>5. UNCHANGED <<wf, req, used, saves, tested, doubt>>
  BY DEF NodeEnds
<1>6. CASE run' = [run EXCEPT ![d] = r]
  BY <1>3, <1>4, <1>5, <1>6, RunChanges
<1>7. CASE run' = [run EXCEPT ![d] = [r EXCEPT !.passed = wf.passed]]
  <2>1. PICK s : s = [r EXCEPT !.passed = wf.passed]
    OBVIOUS
  <2>2. /\ DOMAIN s = DOMAIN r /\ s.pc = r.pc /\ s.graph = r.graph
        /\ s.active = r.active /\ s.wrote = r.wrote /\ s.seen = r.seen
        /\ s.hung = r.hung /\ s.result = r.result /\ s.left = r.left
    BY <2>1
  <2>3. Begun(s) = Begun(r)
    BY <2>2 DEF Begun
  <2>4. IsRun(s)
    BY <1>3, <2>2, <2>3 DEF IsRun
  <2> QED
    BY <1>4, <1>5, <1>7, <2>1, <2>2, <2>4, RunChanges
<1> QED
  BY <1>2, <1>6, <1>7 DEF NodeEnds

\* An error ends the run, and so does the limit of the code.
LEMMA NodeFailsKeeps ==
    ASSUME IInv, NEW d \in Runs, NEW i,
           NodeFails(d, i) \/ CodeTimesOut(d, i)
    PROVE  IInv'
<1>1. /\ IsRun(run[d]) /\ run[d].pc = "running"
      /\ run' = [run EXCEPT ![d] = Fail(run[d])]
      /\ UNCHANGED <<wf, req, used, saves, tested, doubt>>
  BY DEF IInv, NodeFails, CodeTimesOut
<1>2. IsRun(Fail(run[d]))
  BY <1>1, RunFails
<1>3. Fail(run[d]).pc = "closing"
  BY <1>1 DEF Fail, IsRun, NoRun
<1> QED
  BY <1>1, <1>2, <1>3, RunChanges

\* Code that hangs stays active.
LEMMA CodeHangsKeeps ==
    ASSUME IInv, NEW d \in Runs, NEW i, CodeHangs(d, i)
    PROVE  IInv'
<1>1. /\ IsRun(run[d]) /\ run[d].pc = "running" /\ i \in run[d].active
      /\ UNCHANGED <<wf, req, used, saves, tested, doubt>>
  BY DEF IInv, CodeHangs
<1>2. PICK r : r = [run[d] EXCEPT !.hung = @ \cup {i}]
  OBVIOUS
<1>3. run' = [run EXCEPT ![d] = r]
  BY <1>2 DEF CodeHangs
<1>4. PICK s : s = run[d]
  OBVIOUS
<1>5. /\ DOMAIN r = DOMAIN s /\ r.pc = s.pc /\ r.graph = s.graph
      /\ r.active = s.active /\ r.wrote = s.wrote /\ r.seen = s.seen
      /\ r.hung = s.hung \cup {i} /\ r.result = s.result /\ r.left = s.left
  BY <1>1, <1>2, <1>4 DEF IsRun, NoRun
<1>6. Begun(r) = Begun(s)
  BY <1>5 DEF Begun
<1>7. IsRun(r)
  BY <1>1, <1>4, <1>5, <1>6 DEF IsRun
<1> QED
  BY <1>1, <1>3, <1>4, <1>5, <1>7, RunChanges

\* The client leaves.
LEMMA ClientLeavesKeeps ==
    ASSUME IInv, NEW d \in Runs, ClientLeaves(d)
    PROVE  IInv'
<1>1. /\ IsRun(run[d]) /\ run[d].pc = "running"
      /\ UNCHANGED <<wf, req, used, saves, tested, doubt>>
  BY DEF IInv, ClientLeaves
<1>2. PICK r : r = [run[d] EXCEPT !.pc = "closing", !.active = {}, !.hung = {},
                                  !.result = "succeeded", !.left = "yes"]
  OBVIOUS
<1>3. run' = [run EXCEPT ![d] = r]
  BY <1>2 DEF ClientLeaves
<1>4. IsRun(r)
  BY <1>1, <1>2, RunIsLeft
<1>5. r.pc = "closing"
  BY <1>1, <1>2 DEF IsRun, NoRun
<1> QED
  BY <1>1, <1>3, <1>4, <1>5, RunChanges

\* A run that is lost claims nothing.
LEMMA DebugIsLostKeeps ==
    ASSUME IInv, NEW d \in Runs, DebugIsLost(d)
    PROVE  IInv'
<1>1. PICK r : r = [NoRun EXCEPT !.pc = "lost"]
  OBVIOUS
<1>2. IsRun(r) /\ r.pc = "lost"
  BY <1>1, NoRunIsRun
<1>3. /\ run' = [run EXCEPT ![d] = r]
      /\ UNCHANGED <<wf, req, used, saves, tested, doubt>>
  BY <1>1 DEF DebugIsLost
<1> QED
  BY <1>2, <1>3, RunChanges

\* The counter is at most the number of runs that have been asked for.
LEMMA DebugStartsKeeps ==
    ASSUME IInv, NEW d \in Runs, NEW counted \in BOOLEAN,
           DebugStarts(d, counted)
    PROVE  IInv'
<1>1. PICK ok \in BOOLEAN :
          /\ ok => Strict(wf.draft)
          /\ run' = [run EXCEPT ![d] =
               IF ok
               THEN [NoRun EXCEPT !.pc = "running", !.graph = wf.draft,
                                  !.active = Start(wf.draft),
                                  !.result = "running", !.passed = wf.passed]
               ELSE [NoRun EXCEPT !.pc = "refused"]]
  BY DEF DebugStarts
<1>2. PICK r : r = IF ok
               THEN [NoRun EXCEPT !.pc = "running", !.graph = wf.draft,
                                  !.active = Start(wf.draft),
                                  !.result = "running", !.passed = wf.passed]
               ELSE [NoRun EXCEPT !.pc = "refused"]
  OBVIOUS
<1>3. IsRun(r) /\ r.pc # "idle"
  <2>1. CASE ok
    <3>1. r.pc = "running"
      BY <1>2, <2>1 DEF NoRun
    <3>2. Draft(wf.draft) /\ Strict(wf.draft)
      BY <1>1, <2>1 DEF IInv, IsRow
    <3> QED
      BY <1>2, <2>1, <3>1, <3>2, RunBegins
  <2>2. CASE ~ok
    <3>1. r = [NoRun EXCEPT !.pc = "refused"]
      BY <1>2, <2>2
    <3> QED
      BY <3>1, NoRunIsRun
  <2> QED
    BY <2>1, <2>2
<1>4. /\ DOMAIN run' = Runs
      /\ \A x \in Runs : run'[x] = IF x = d THEN r ELSE run[x]
  BY <1>1, <1>2 DEF IInv
<1>5. \A x \in Runs : IsRun(run'[x])
  BY <1>3, <1>4 DEF IInv
<1>6. Counters'
  <2>1. MaxRuns \in Nat /\ \A x \in Runs : x \in Nat /\ x <= MaxRuns
    BY LimitAssumption DEF Runs
  <2>2. /\ used \in 0..MaxRuns /\ used <= d - 1
        /\ used' = used + 1 \/ used' = used
    BY DEF DebugStarts, IInv, Counters
  <2>3. ASSUME NEW x \in Runs, run'[x].pc = "idle" PROVE used' <= x - 1
    <3>1. x # d /\ run[x].pc = "idle"
      BY <1>3, <1>4, <2>3
    <3>2. ~(x \in 1..d - 1)
      BY <3>1 DEF DebugStarts
    <3>3. x > d
      BY <2>1, <3>1, <3>2 DEF Runs
    <3> QED
      BY <2>1, <2>2, <3>3
  <2>4. used' \in 0..MaxRuns
    BY <2>1, <2>2
  <2> QED
    BY <2>3, <2>4 DEF IInv, Counters, DebugStarts
<1>7. (doubt = {} => Gate)'
  BY DEF IInv, Gate, DebugStarts
<1> QED
  BY <1>4, <1>5, <1>6, <1>7 DEF IInv, DebugStarts

\* The gate is lit for a draft that has been run, unless the client has left
\* or a save is in progress or has committed since.
LEMMA DebugEndsKeeps ==
    ASSUME IInv, NEW d \in Runs, DebugEnds(d)
    PROVE  IInv'
<1>1. PICK r : r = [NoRun EXCEPT !.pc = "over"]
  OBVIOUS
<1>2. IsRun(r) /\ r.pc = "over"
  BY <1>1, NoRunIsRun
<1>3. PICK s : s = run[d]
  OBVIOUS
<1>4. IsRun(s) /\ s.pc = "closing"
  BY <1>3 DEF IInv, DebugEnds
<1>5. /\ wf' = Light(wf, s) /\ run' = [run EXCEPT ![d] = r]
      /\ tested' = IF s.result = "succeeded" /\ s.left = "no"
                   THEN tested \cup {s.graph} ELSE tested
      /\ UNCHANGED <<req, used, saves>>
  BY <1>1, <1>3 DEF DebugEnds
<1>6. doubt \subseteq doubt' /\ doubt' \subseteq doubt \cup {"left", "edited"}
  BY DEF DebugEnds
<1>7. doubt' = {} =>
          /\ s.left # "yes" /\ wf.draft = s.graph
          /\ \A q \in Reqs : req[q].kind # "save"
  BY <1>3 DEF DebugEnds
<1>8. /\ IsRow(wf') /\ wf'.draft = wf.draft /\ wf'.graph = wf.graph
      /\ wf'.status = wf.status /\ (wf = Gone => wf' = Gone)
      /\ wf'.passed = "yes" => wf.passed = "yes" \/ s.result = "succeeded"
  <2>1. IsRow(wf)
    BY DEF IInv
  <2>2. PICK m : m = wf'
    OBVIOUS
  <2>3. m = Light(wf, s)
    BY <1>5, <2>2
  <2>4. LitOnly(wf, s, m)
    BY <2>1, <2>3, GateIsLit
  <2> QED
    BY <2>2, <2>4 DEF LitOnly
<1>9. /\ DOMAIN run' = Runs
      /\ \A x \in Runs : run'[x] = IF x = d THEN r ELSE run[x]
  BY <1>5 DEF IInv
<1>10. \A x \in Runs : IsRun(run'[x])
  BY <1>2, <1>9 DEF IInv
<1>11. Counters'
  BY <1>2, <1>5, <1>6, <1>9 DEF IInv, Counters
<1>12. \A g \in tested' : Strict(g)
  BY <1>4, <1>5 DEF IInv, IsRun
<1>13. (doubt = {} => Gate)'
  <2> SUFFICES ASSUME doubt' = {} PROVE Gate'
    OBVIOUS
  <2>1. Gate /\ tested \subseteq tested'
    BY <1>5, <1>6 DEF IInv
  <2>2. wf'.passed = "yes" => wf'.draft \in tested'
    <3>1. s.left = "no" /\ s.result = "succeeded" => s.graph \in tested'
      BY <1>5
    <3>2. CASE s.left = "no"
      BY <1>7, <1>8, <2>1, <3>1, <3>2 DEF Gate
    <3>3. CASE s.left = "yes"
      BY <1>7, <3>3
    <3> QED
      BY <1>4, <3>2, <3>3 DEF IsRun
  <2>3. wf'.status = "published" => wf'.graph \in tested'
    BY <1>8, <2>1 DEF Gate
  <2>4. ASSUME NEW q \in Reqs, req[q].kind = "publish"
        PROVE  /\ req[q].view.draft \in tested'
               /\ req[q].view.status = "draft" =>
                     wf' = Gone \/ (/\ wf'.status = "draft"
                                    /\ wf'.graph = req[q].view.graph)
    BY <1>8, <2>1, <2>4 DEF Gate
  <2> QED
    BY <1>5, <1>7, <2>1, <2>2, <2>3, <2>4 DEF Gate
<1> QED
  BY <1>5, <1>8, <1>9, <1>10, <1>11, <1>12, <1>13 DEF IInv

\* A request begins: nothing but the requests and the doubt about them change.
LEMMA BeginKeeps ==
    ASSUME IInv, NEW q \in Reqs, NEW r, IsReq(r),
           req' = [req EXCEPT ![q] = r], saves' \in 0..Len(Sent),
           doubt \subseteq doubt', doubt' \subseteq doubt \cup {"raced"},
           UNCHANGED <<wf, run, used, tested>>,
           (doubt = {} => Gate)'
    PROVE  IInv'
<1>1. /\ DOMAIN req' = Reqs
      /\ \A p \in Reqs : req'[p] = IF p = q THEN r ELSE req[p]
  BY DEF IInv
<1>2. \A p \in Reqs : IsReq(req'[p])
  BY <1>1 DEF IInv
<1>3. Counters'
  BY DEF IInv, Counters
<1> QED
  BY <1>1, <1>2, <1>3 DEF IInv

\* A save begins: what it will store is settled.
LEMMA SaveKeeps ==
    ASSUME IInv, NEW q \in Reqs, saves < Len(Sent),
           NEW g \in Sent[saves + 1], Save(q, g)
    PROVE  IInv'
<1>1. PICK r : r = [kind |-> "save", view |-> wf,
                    new |-> [wf EXCEPT !.draft = Lenient(g), !.passed = "no"]]
  OBVIOUS
<1>2. /\ req' = [req EXCEPT ![q] = r] /\ saves' = saves + 1 /\ wf # Gone
      /\ UNCHANGED <<wf, run, used, tested, doubt>>
  BY <1>1 DEF Save, Begin
<1>3. saves \in Nat /\ saves + 1 \in DOMAIN Sent /\ saves' \in 0..Len(Sent)
  <2>1. Len(Sent) \in Nat /\ DOMAIN Sent = 1..Len(Sent)
    BY SentAssumption, LenProperties
  <2>2. saves \in 0..Len(Sent)
    BY DEF IInv, Counters
  <2> QED
    BY <1>2, <2>1, <2>2
<1>4. Draft(Lenient(g))
  <2>1. /\ g.nodes \in Seq(Nodes(g)) /\ g.edges \in Seq(Edges(g))
        /\ \A n \in Nodes(g) : Sendable(n)
    BY <1>3, SentAssumption DEF Sendable
  <2>2. Settled(Lenient(g))
    BY <2>1, SavedIsSettled
  <2> QED
    BY <2>2 DEF Draft, Lenient
<1>5. IsReq(r)
  <2>1. IsRow(wf)
    BY DEF IInv
  <2> QED
    BY <1>1, <1>2, <1>4, <2>1, SaveIsReq
<1>6. (doubt = {} => Gate)'
  <2> SUFFICES ASSUME doubt = {} PROVE Gate'
    BY <1>2
  <2>1. Gate
    BY DEF IInv
  <2>2. \A p \in Reqs : req'[p] = IF p = q THEN r ELSE req[p]
    BY <1>2 DEF IInv
  <2>3. r.kind = "save" /\ r.view = wf
    BY <1>1
  <2> QED
    BY <1>2, <2>1, <2>2, <2>3 DEF Gate
<1> QED
  BY <1>2, <1>3, <1>5, <1>6, BeginKeeps

\* A publication begins, with a draft that has been run.
LEMMA PublishKeeps ==
    ASSUME IInv, NEW q \in Reqs, Publish(q)
    PROVE  IInv'
<1>1. PICK r : r = [kind |-> "publish", view |-> wf,
                    new |-> IF Strict(wf.draft)
                            THEN [wf EXCEPT !.graph = wf.draft,
                                            !.passed = "no",
                                            !.status = "published"]
                            ELSE [wf EXCEPT !.passed = "no"]]
  OBVIOUS
<1>2. /\ req' = [req EXCEPT ![q] = r] /\ wf.passed = "yes" /\ wf # Gone
      /\ UNCHANGED <<wf, run, used, saves, tested>>
  BY <1>1 DEF Publish, Begin
<1>3. /\ doubt \subseteq doubt' /\ doubt' \subseteq doubt \cup {"raced"}
      /\ doubt' = {} => \A p \in Reqs : req[p].kind # "publish"
  BY DEF Publish
<1>4. IsReq(r)
  <2>1. IsRow(wf)
    BY DEF IInv
  <2> QED
    BY <1>1, <1>2, <2>1, PublishIsReq
<1>5. (doubt = {} => Gate)'
  <2> SUFFICES ASSUME doubt' = {} PROVE Gate'
    OBVIOUS
  <2>1. Gate
    BY <1>3 DEF IInv
  <2>2. \A p \in Reqs : req'[p] = IF p = q THEN r ELSE req[p]
    BY <1>2 DEF IInv
  <2>3. r.kind = "publish" /\ r.view = wf
    BY <1>1
  <2>4. \A p \in Reqs : req'[p].kind = "publish" => p = q
    BY <1>3, <2>2
  <2> QED
    BY <1>2, <2>1, <2>2, <2>3, <2>4 DEF Gate
<1>6. saves' \in 0..Len(Sent)
  BY <1>2 DEF IInv, Counters
<1> QED
  BY <1>2, <1>3, <1>4, <1>5, <1>6, BeginKeeps

\* The row changes, and at most a request ends.
LEMMA RowChanges ==
    ASSUME IInv, IsRow(wf'), DOMAIN req' = Reqs,
           \A p \in Reqs : IsReq(req'[p]),
           UNCHANGED <<run, used, saves, tested, doubt>>,
           doubt = {} => Gate'
    PROVE  IInv'
<1>1. Counters'
  BY DEF IInv, Counters
<1> QED
  BY <1>1 DEF IInv

\* What a commit leaves of a row: a save puts the gate out if it was lit, and
\* a publication shows what has been run.
LEMMA CommitKeepsGate ==
    ASSUME IInv, Gate, wf # Gone, NEW q \in Reqs, req[q].kind # "none",
           NEW m, Merged(wf, req[q], m)
    PROVE  /\ m.passed = "no"
           /\ m.status = "published" => m.graph \in tested
           /\ req[q].kind = "save" =>
                 m.status = wf.status /\ m.graph = wf.graph
<1>1. PICK r : r = req[q]
  OBVIOUS
<1>2. IsReq(r) /\ IsRow(wf)
  BY <1>1 DEF IInv
<1>3. IsRow(r.view) /\ r.view.passed \in {"yes", "no"}
  BY <1>1, <1>2 DEF IsReq, IsRow
<1>4. Merged(wf, r, m)
  BY <1>1
<1>5. CASE r.kind = "save"
  <2>1. m.status = wf.status /\ m.graph = wf.graph
    BY <1>2, <1>4, <1>5 DEF Merged, IsReq
  <2>2. wf.passed = "yes" => r.view.passed = "yes"
    BY <1>1, <1>5 DEF Gate
  <2>3. m.passed = "no"
    BY <1>2, <1>4, <2>2 DEF Merged, IsRow
  <2>4. wf.status = "published" => wf.graph \in tested
    BY DEF Gate
  <2> QED
    BY <1>1, <2>1, <2>3, <2>4
<1>6. CASE r.kind = "publish"
  <2>1. m.passed = "no"
    BY <1>2, <1>4, <1>6 DEF Merged, IsReq
  <2>2. /\ r.view.draft \in tested
        /\ r.view.status = "draft" =>
              wf.status = "draft" /\ wf.graph = r.view.graph
        /\ wf.status = "published" => wf.graph \in tested
    BY <1>1, <1>6 DEF Gate
  <2>3. CASE r.new.graph = r.view.graph /\ r.new.status = r.view.status
    <3>1. m.graph = wf.graph /\ m.status = wf.status
      BY <1>4, <2>3 DEF Merged
    <3> QED
      BY <1>1, <1>6, <2>1, <2>2, <3>1
  <2>4. CASE r.new.graph = r.view.draft /\ r.new.status = "published"
    <3>1. CASE r.view.draft # r.view.graph
      <4>1. m.graph = r.view.draft
        BY <1>4, <2>4, <3>1 DEF Merged
      <4> QED
        BY <1>1, <1>6, <2>1, <2>2, <4>1
    <3>2. CASE r.view.draft = r.view.graph
      <4>1. m.graph = wf.graph
        BY <1>4, <2>4, <3>2 DEF Merged
      <4>2. CASE r.view.status = "draft"
        BY <1>1, <1>6, <2>1, <2>2, <3>2, <4>1, <4>2
      <4>3. CASE r.view.status = "published"
        <5>1. m.status = wf.status
          BY <1>4, <2>4, <4>3 DEF Merged
        <5> QED
          BY <1>1, <1>6, <2>1, <2>2, <4>1, <5>1
      <4>4. r.view.status # "gone"
        BY <1>2, <1>3, <1>6 DEF IsReq, IsRow
      <4> QED
        BY <1>3, <4>2, <4>3, <4>4 DEF IsRow
    <3> QED
      BY <3>1, <3>2
  <2> QED
    BY <1>2, <1>6, <2>3, <2>4 DEF IsReq
<1> QED
  BY <1>1, <1>2, <1>5, <1>6 DEF IsReq

\* A request commits, on whatever has become of the row.
LEMMA CommitKeeps ==
    ASSUME IInv, NEW q \in Reqs, Commit(q)
    PROVE  IInv'
<1>1. /\ req' = [req EXCEPT ![q] = NoReq] /\ req[q].kind # "none"
      /\ wf' = IF wf = Gone THEN Gone ELSE Flush(wf, req[q].view, req[q].new)
      /\ UNCHANGED <<run, used, saves, tested, doubt>>
  BY DEF Commit
<1>2. /\ DOMAIN req' = Reqs
      /\ \A p \in Reqs : req'[p] = IF p = q THEN NoReq ELSE req[p]
  BY <1>1 DEF IInv
<1>3. \A p \in Reqs : IsReq(req'[p])
  BY <1>2, NoReqIsReq DEF IInv
<1>4. \A p \in Reqs : req'[p].kind # "none" => p # q /\ req'[p] = req[p]
  BY <1>2, NoReqIsReq
<1>5. IsRow(wf) /\ IsReq(req[q])
  BY DEF IInv
<1>6. CASE wf = Gone
  <2>1. IsRow(wf') /\ wf' = Gone /\ wf'.passed = "no" /\ wf'.status = "gone"
    BY <1>1, <1>6, GoneIsRow DEF Gone, Row
  <2>2. doubt = {} => Gate'
    <3> SUFFICES ASSUME doubt = {} PROVE Gate'
      OBVIOUS
    <3>1. Gate
      BY DEF IInv
    <3> QED
      BY <1>1, <1>4, <2>1, <3>1 DEF Gate
  <2> QED
    BY <1>1, <1>2, <1>3, <2>1, <2>2, RowChanges
<1>7. CASE wf # Gone
  <2>1. PICK m : m = Flush(wf, req[q].view, req[q].new)
    OBVIOUS
  <2>2. wf' = m /\ Merged(wf, req[q], m)
    BY <1>1, <1>5, <1>7, <2>1, RowsMerge
  <2>3. IsRow(wf')
    BY <2>2 DEF Merged
  <2>4. doubt = {} => Gate'
    <3> SUFFICES ASSUME doubt = {} PROVE Gate'
      OBVIOUS
    <3>1. Gate
      BY DEF IInv
    <3>2. /\ m.passed = "no"
          /\ m.status = "published" => m.graph \in tested
          /\ req[q].kind = "save" =>
                m.status = wf.status /\ m.graph = wf.graph
      BY <1>1, <1>7, <2>2, <3>1, CommitKeepsGate
    <3>3. ASSUME NEW p \in Reqs, req'[p].kind = "publish"
          PROVE  /\ req'[p].view.draft \in tested
                 /\ req'[p].view.status = "draft" =>
                       wf'.status = "draft" /\ wf'.graph = req'[p].view.graph
      <4>1. p # q /\ req'[p] = req[p] /\ req[p].kind = "publish"
        BY <1>4, <3>3
      <4>2. req[q].kind = "save"
        BY <1>1, <1>5, <3>1, <4>1 DEF Gate, IsReq
      <4> QED
        BY <1>7, <2>2, <3>1, <3>2, <4>1, <4>2 DEF Gate
    <3>4. \A p, x \in Reqs :
             req'[p].kind = "publish" /\ req'[x].kind = "publish" => p = x
      BY <1>4, <3>1 DEF Gate
    <3> QED
      BY <1>1, <2>2, <3>2, <3>3, <3>4 DEF Gate
  <2> QED
    BY <1>1, <1>2, <1>3, <2>3, <2>4, RowChanges
<1> QED
  BY <1>6, <1>7

\* Withdrawn; publications in progress have seen it published.
LEMMA CancelKeeps == ASSUME IInv, Cancel PROVE IInv'
<1>1. /\ wf.status = "published"
      /\ wf' = [wf EXCEPT !.graph = NoGraph, !.status = "draft",
                          !.passed = "no"]
      /\ UNCHANGED <<req, run, used, saves, tested, doubt>>
  BY DEF Cancel
<1>2. /\ DOMAIN wf' = {"draft", "graph", "status", "passed"}
      /\ wf'.draft = wf.draft /\ wf'.status = "draft" /\ wf'.passed = "no"
  BY <1>1 DEF IInv, IsRow
<1>3. IsRow(wf')
  BY <1>2 DEF IInv, IsRow
<1>4. doubt = {} => Gate'
  <2> SUFFICES ASSUME doubt = {} PROVE Gate'
    OBVIOUS
  <2>1. Gate
    BY DEF IInv
  <2>2. wf # Gone
    BY <1>1 DEF Gone, Row
  <2>3. \A q \in Reqs : req[q].kind = "publish" =>
            /\ req[q].view.draft \in tested /\ req[q].view.status # "draft"
    BY <1>1, <2>1, <2>2 DEF Gate
  <2> QED
    BY <1>1, <1>2, <2>1, <2>3 DEF Gate
<1> QED
  BY <1>1, <1>3, <1>4, RowChanges DEF IInv

\* Deleted.
LEMMA DeleteKeeps == ASSUME IInv, Delete PROVE IInv'
<1>1. /\ wf' = Gone /\ wf'.passed = "no" /\ wf'.status = "gone"
      /\ UNCHANGED <<req, run, used, saves, tested, doubt>>
  BY DEF Delete, Gone, Row
<1>2. doubt = {} => Gate'
  <2> SUFFICES ASSUME doubt = {} PROVE Gate'
    OBVIOUS
  <2>1. Gate
    BY DEF IInv
  <2> QED
    BY <1>1, <2>1 DEF Gate
<1> QED
  BY <1>1, <1>2, GoneIsRow, RowChanges DEF IInv

\* Created, with an empty draft.
LEMMA CreateKeeps == ASSUME IInv, Create PROVE IInv'
<1>1. /\ wf' = Row(NoGraph, NoGraph, "draft", "no")
      /\ req = [q \in Reqs |-> NoReq]
      /\ UNCHANGED <<req, run, used, saves, tested, doubt>>
  BY DEF Create
<1>2. /\ DOMAIN wf' = {"draft", "graph", "status", "passed"}
      /\ wf'.draft = NoGraph /\ wf'.status = "draft" /\ wf'.passed = "no"
  BY <1>1 DEF Row
<1>3. IsRow(wf')
  BY <1>2, NothingSettled DEF IsRow
<1>4. \A q \in Reqs : req'[q].kind = "none"
  BY <1>1, NoReqIsReq
<1>5. Gate'
  BY <1>2, <1>4 DEF Gate
<1> QED
  BY <1>1, <1>3, <1>5, RowChanges DEF IInv

\* Every action keeps it.
THEOREM StepIInv == IInv /\ [Next]_vars => IInv'
<1> SUFFICES ASSUME IInv, [Next]_vars PROVE IInv'
  OBVIOUS
<1>1. CASE Create
  BY <1>1, CreateKeeps
<1>2. CASE Cancel
  BY <1>2, CancelKeeps
<1>3. CASE Delete
  BY <1>3, DeleteKeeps
<1>4. ASSUME NEW q \in Reqs, Request(q) PROVE IInv'
  <2>1. CASE saves < Len(Sent) /\ \E g \in Sent[saves + 1] : Save(q, g)
    BY <2>1, SaveKeeps
  <2>2. CASE Publish(q)
    BY <2>2, PublishKeeps
  <2>3. CASE Commit(q)
    BY <2>3, CommitKeeps
  <2> QED
    BY <1>4, <2>1, <2>2, <2>3 DEF Request
<1>5. ASSUME NEW d \in Runs, RunStep(d) PROVE IInv'
  <2>1. ASSUME NEW i \in run[d].active, NodeEnds(d, i) PROVE IInv'
    BY <2>1, NodeEndsKeeps
  <2>2. ASSUME NEW i \in run[d].active, NodeFails(d, i) \/ CodeTimesOut(d, i)
        PROVE  IInv'
    BY <2>2, NodeFailsKeeps
  <2>3. CASE DebugEnds(d)
    BY <2>3, DebugEndsKeeps
  <2> QED
    BY <1>5, <2>1, <2>2, <2>3 DEF RunStep
<1>6. ASSUME NEW d \in Runs, NEW counted \in BOOLEAN, DebugStarts(d, counted)
      PROVE  IInv'
  BY <1>6, DebugStartsKeeps
<1>7. ASSUME NEW d \in Runs, NEW i \in run[d].active, CodeHangs(d, i)
      PROVE  IInv'
  BY <1>7, CodeHangsKeeps
<1>8. ASSUME NEW d \in Runs, ClientLeaves(d) PROVE IInv'
  BY <1>8, ClientLeavesKeeps
<1>9. ASSUME NEW d \in Runs, DebugIsLost(d) PROVE IInv'
  BY <1>9, DebugIsLostKeeps
<1>10. CASE UNCHANGED vars
  BY <1>10 DEF vars, IInv, Counters, Gate
<1> QED
  BY <1>1, <1>2, <1>3, <1>4, <1>5, <1>6, <1>7, <1>8, <1>9, <1>10 DEF Next

\* So the invariant holds in every state.
THEOREM InvariantHolds == Spec => []IInv
  BY InitIInv, StepIInv, PTL DEF Spec
-----------------------------------------------------------------------------
(* What follows.                                                           *)

\* The editor's load leaves a stored draft as it is, runs stay within their
\* graphs, and the counter of the debug limit within their number.
THEOREM TypeCorrect == Spec => []TypeOK
<1>1. IInv => TypeOK
  <2> SUFFICES ASSUME IInv PROVE TypeOK
    OBVIOUS
  <2>1. GetDraft = wf.draft
    BY SettledStays DEF IInv, IsRow, Draft, GetDraft
  <2>2. /\ wf.status \in {"gone", "draft", "published"}
        /\ wf.passed \in {"yes", "no"}
    BY DEF IInv, IsRow
  <2>3. \A q \in Reqs : req[q].kind \in {"none", "save", "publish"}
    BY DEF IInv, IsReq
  <2>4. ASSUME NEW d \in Runs
        PROVE  /\ run[d].pc \in {"idle", "refused", "running", "closing",
                                 "over", "lost"}
               /\ run[d].result \in {"none", "running", "succeeded", "failed"}
               /\ run[d].hung \subseteq run[d].active
               /\ run[d].active \cup run[d].wrote \cup run[d].seen
                     \subseteq Ids(run[d].graph)
    <3>1. IsRun(run[d])
      BY DEF IInv
    <3> QED
      BY <3>1 DEF IsRun, Begun
  <2>5. /\ used \in 0..MaxRuns /\ saves \in 0..Len(Sent)
        /\ doubt \subseteq {"left", "edited", "raced"}
    BY DEF IInv, Counters
  <2> QED
    BY <2>1, <2>2, <2>3, <2>4, <2>5 DEF TypeOK
<1> QED
  BY <1>1, InvariantHolds, PTL

\* The strict check accepts a stored draft exactly if it is acyclic, has its
\* nodes on ways from its start to its end, and reads declared variables of
\* earlier nodes: degrees, search, topological sort and predecessors together
\* miss nothing and refuse nothing else.
THEOREM StrictCheckIsExact == Spec => []StrictIsExact
<1>1. IInv => StrictIsExact
  BY SettledLists, StrictMeansWellFormed
     DEF IInv, IsRow, Draft, StrictIsExact
<1> QED
  BY <1>1, InvariantHolds, PTL

\* A run that ends by itself without an error has executed every node: as
\* nodes are left, one of them would have nothing but executed ones before it.
THEOREM EveryNodeRuns == Spec => []RunsAreWhole
<1>1. IInv => RunsAreWhole
  BY DEF IInv, IsRun, RunsAreWhole
<1> QED
  BY <1>1, InvariantHolds, PTL

\* What a class declares is what its node writes, except that a name which is
\* not declared is never there to be referred to.
LEMMA DeclaredIsWritten ==
    ASSUME NEW n, Stored(n)
    PROVE  n.vars \subseteq Writes(n)
<1>1. n.type \in NodeTypes /\ AsClass(n) = n /\ "vars" \in DOMAIN n
  BY DEF Stored
<1>2. n.vars = AsClass(n).vars
  BY <1>1
<1>3. CASE n.type \in {"start", "code"}
  BY <1>3 DEF Writes, StartWrites, CodeWrites
<1>4. CASE n.type = "end"
  BY <1>1, <1>2, <1>4 DEF AsClass, EndNodeData
<1>5. CASE n.type = "llm"
  <2>1. n.vars = {"output"}
    BY <1>1, <1>2, <1>5 DEF AsClass, LLMNodeData
  <2> QED
    BY <1>5, <2>1 DEF Writes, LLMWrites, FirstOf
<1>6. CASE n.type = "template"
  <2>1. n.vars = {"output"}
    BY <1>1, <1>2, <1>6 DEF AsClass, TemplateTransformNodeData
  <2> QED
    BY <1>6, <2>1 DEF Writes, TemplateWrites
<1>7. CASE n.type = "dataset"
  <2>1. n.vars = {"combine_documents"}
    BY <1>1, <1>2, <1>7 DEF AsClass, DatasetRetrievalNodeData
  <2> QED
    BY <1>7, <2>1 DEF Writes, DatasetWrites, FirstOf
<1>8. CASE n.type = "tool"
  <2>1. n.vars = {"text"}
    BY <1>1, <1>2, <1>8 DEF AsClass, ToolNodeData
  <2> QED
    BY <1>8, <2>1 DEF Writes, ToolWrites, FirstOf
<1>9. CASE n.type = "http"
  <2>1. n.vars = {"status_code", "text"}
    BY <1>1, <1>2, <1>9 DEF AsClass, HttpRequestNodeData
  <2> QED
    BY <1>9, <2>1 DEF Writes, HttpWrites
<1> QED
  BY <1>1, <1>3, <1>4, <1>5, <1>6, <1>7, <1>8, <1>9 DEF NodeTypes

\* What an active node refers to has been written: its predecessors have been
\* executed, and they write what their classes declare.
THEOREM ReferencesAreBound == Spec => []RefsAreBound
<1>1. ASSUME NEW r, IsRun(r), NEW i \in r.active,
             NEW ref \in NodeOf(r.graph, i).refs
      PROVE  Found(r, ref)
  <2>1. /\ r.pc = "running" /\ Draft(r.graph) /\ Strict(r.graph)
        /\ Begun(r) \subseteq Ids(r.graph)
        /\ \A j \in Begun(r) : Prev1(r.graph, j) \subseteq r.seen
    BY <1>1 DEF IsRun
  <2>2. PICK g : g = r.graph
    OBVIOUS
  <2>3. TwoLists(g) /\ \A n \in Nodes(g) : Stored(n)
    BY <2>1, <2>2, SettledLists DEF Draft
  <2>4. Joins(g) /\ RefsHold(g)
    BY <2>1, <2>2, <2>3, StrictFacts
  <2>5. i \in Ids(g) /\ r.seen \subseteq Ids(g) /\ Prev1(g, i) \subseteq r.seen
    BY <2>1, <2>2 DEF Begun
  <2>6. PICK n : n = NodeOf(g, i)
    OBVIOUS
  <2>7. n \in Nodes(g) /\ n.id = i
    BY <2>3, <2>5, <2>6, NodesAre
  <2>8. n.type # "start"
    BY <1>1, <2>2, <2>3, <2>6, <2>7 DEF Stored
  <2>9. ref[1] \in Predecessors(g, i) /\ ref[2] \in NodeOf(g, ref[1]).vars
    BY <1>1, <2>2, <2>4, <2>6, <2>7, <2>8 DEF RefsHold
  <2>10. Predecessors(g, i) \subseteq r.seen
    <3> DEFINE C == {i} \cup r.seen
    <3>1. C \in SUBSET Ids(g) /\ i \in C
      BY <2>5
    <3>2. \A j \in C : Prev1(g, j) \subseteq C
      BY <2>1, <2>2, <2>5 DEF Begun
    <3>3. Predecessors(g, i) \subseteq C \ {i}
      <4> HIDE DEF C
      <4> QED
        BY <2>3, <2>4, <3>1, <3>2, PredecessorsWithin
    <3> QED
      BY <3>3
  <2>11. Stored(NodeOf(g, ref[1]))
    BY <2>3, <2>5, <2>9, <2>10, NodesAre
  <2> QED
    BY <2>2, <2>9, <2>10, <2>11, DeclaredIsWritten DEF Found
<1>2. IInv => RefsAreBound
  BY <1>1 DEF IInv, RefsAreBound
<1> QED
  BY <1>2, InvariantHolds, PTL

\* What conversations are offered has been run to its end.
THEOREM OfferedWasTested == Spec => []PublishedWasTested
<1>1. IInv => PublishedWasTested
  BY DEF IInv, Gate, PublishedWasTested, Offered
<1> QED
  BY <1>1, InvariantHolds, PTL

-----------------------------------------------------------------------------
(* What lights the gate.                                                   *)

\* As long as no client has left a run and no save has met the end of one, the
\* gate is lit for a draft that has been run, and a save in progress has seen
\* it lit and will put it out.  Publications may race as they like.
Lit ==
    "left" \notin doubt /\ "edited" \notin doubt =>
        /\ wf.passed = "yes" => wf.draft \in tested
        /\ \A q \in Reqs : req[q].kind = "save" /\ wf.passed = "yes" =>
              req[q].view.passed = "yes"

\* A run's steps leave it alone until the run ends.
LEMMA LitStays ==
    ASSUME Lit, UNCHANGED <<wf, req, tested, doubt>>
    PROVE  Lit'
  BY DEF Lit

\* A step that puts the gate out, or leaves the row away, keeps it.
LEMMA LitWhenOut ==
    ASSUME wf'.passed = "no"
    PROVE  Lit'
  BY DEF Lit

\* The run that lights the gate has run the draft to its end, and no save has
\* begun to change it.
LEMMA LitByRuns ==
    ASSUME IInv, Lit, NEW d \in Runs, DebugEnds(d)
    PROVE  Lit'
<1>1. PICK s : s = run[d]
  OBVIOUS
<1>2. IsRun(s) /\ s.pc = "closing"
  BY <1>1 DEF IInv, DebugEnds
<1>3. /\ wf' = Light(wf, s) /\ req' = req
      /\ tested' = IF s.result = "succeeded" /\ s.left = "no"
                   THEN tested \cup {s.graph} ELSE tested
      /\ doubt' = doubt \cup
            (IF s.left = "yes" THEN {"left"} ELSE {}) \cup
            (IF \/ wf.draft # s.graph
                \/ \E q \in Reqs : req[q].kind = "save"
             THEN {"edited"} ELSE {})
  BY <1>1 DEF DebugEnds
<1>4. PICK m : m = Light(wf, s)
  OBVIOUS
<1>5. LitOnly(wf, s, m)
  BY <1>4, GateIsLit DEF IInv
<1>6. SUFFICES ASSUME "left" \notin doubt', "edited" \notin doubt'
               PROVE  /\ wf'.passed = "yes" => wf'.draft \in tested'
                      /\ \A q \in Reqs :
                            req'[q].kind = "save" /\ wf'.passed = "yes" =>
                                req'[q].view.passed = "yes"
  BY DEF Lit
<1>7. /\ "left" \notin doubt /\ "edited" \notin doubt
      /\ s.left # "yes" /\ wf.draft = s.graph
      /\ \A q \in Reqs : req[q].kind # "save"
  BY <1>3, <1>6
<1>8. s.left = "no"
  BY <1>2, <1>7 DEF IsRun
<1>9. ASSUME m.passed = "yes" PROVE m.draft \in tested'
  <2>1. m.draft = wf.draft
    BY <1>5 DEF LitOnly
  <2>2. CASE wf.passed = "yes"
    BY <1>3, <1>7, <2>1, <2>2 DEF Lit
  <2>3. CASE s.result = "succeeded"
    BY <1>3, <1>7, <1>8, <2>1, <2>3
  <2> QED
    BY <1>5, <1>9, <2>2, <2>3 DEF LitOnly
<1> QED
  BY <1>3, <1>4, <1>7, <1>9

\* A request that begins sees the row as it is.
LEMMA LitByBegin ==
    ASSUME IInv, Lit, NEW q \in Reqs, NEW kind, NEW new, Begin(q, kind, new),
           wf' = wf, doubt \subseteq doubt'
    PROVE  Lit'
<1>1. PICK r : r = [kind |-> kind, view |-> wf, new |-> new]
  OBVIOUS
<1>2. /\ tested' = tested /\ r.view = wf
      /\ \A p \in Reqs : req'[p] = IF p = q THEN r ELSE req[p]
  BY <1>1 DEF Begin, IInv
<1> QED
  BY <1>2 DEF Lit

\* A commit leaves the gate out: a publication puts out what it has seen lit,
\* and so does a save, unless it was out all along.
LEMMA LitByCommit ==
    ASSUME IInv, Lit, NEW q \in Reqs, Commit(q)
    PROVE  Lit'
<1>1. CASE wf = Gone
  <2>1. wf'.passed = "no"
    BY <1>1 DEF Commit, Gone, Row
  <2> QED
    BY <2>1, LitWhenOut
<1>2. CASE wf # Gone
  <2>1. PICK r : r = req[q]
    OBVIOUS
  <2>2. /\ IsRow(wf) /\ IsReq(r) /\ r.kind # "none"
        /\ doubt' = doubt /\ wf.passed \in {"yes", "no"}
    BY <2>1 DEF IInv, Commit, IsRow
  <2>3. PICK m : m = Flush(wf, r.view, r.new)
    OBVIOUS
  <2>4. wf' = m /\ Merged(wf, r, m)
    BY <1>2, <2>1, <2>2, <2>3, RowsMerge DEF Commit
  <2>5. SUFFICES ASSUME "left" \notin doubt, "edited" \notin doubt
                 PROVE  wf'.passed = "no"
    BY <2>2, LitWhenOut DEF Lit
  <2>6. wf.passed = "yes" => r.view.passed = "yes"
    BY <2>1, <2>2, <2>5 DEF Lit, IsReq
  <2> QED
    BY <2>2, <2>4, <2>6 DEF Merged
<1> QED
  BY <1>1, <1>2

\* Every step keeps it.
LEMMA StepLit == IInv /\ Lit /\ [Next]_vars => Lit'
<1> SUFFICES ASSUME IInv, Lit, [Next]_vars PROVE Lit'
  OBVIOUS
<1>1. ASSUME Create \/ Cancel \/ Delete PROVE Lit'
  <2>1. Create \/ Delete => wf'.passed = "no"
    BY DEF Create, Delete, Gone, Row
  <2>2. Cancel => wf'.passed = "no"
    BY DEF Cancel, IInv, IsRow
  <2> QED
    BY <1>1, <2>1, <2>2, LitWhenOut
<1>2. ASSUME NEW q \in Reqs, Request(q) PROVE Lit'
  <2>1. ASSUME NEW g, Save(q, g) PROVE Lit'
    <3>1. wf' = wf /\ doubt' = doubt
      BY <2>1 DEF Save
    <3> QED
      BY <2>1, <3>1, LitByBegin DEF Save
  <2>2. CASE Publish(q)
    <3>1. wf' = wf /\ doubt \subseteq doubt'
      BY <2>2 DEF Publish
    <3> QED
      BY <2>2, <3>1, LitByBegin DEF Publish
  <2> QED
    BY <1>2, <2>1, <2>2, LitByCommit DEF Request
<1>3. ASSUME NEW d \in Runs, RunStep(d) PROVE Lit'
  BY <1>3, LitByRuns, LitStays
     DEF RunStep, NodeEnds, NodeFails, CodeTimesOut
<1>4. ASSUME NEW d \in Runs,
             \/ \E counted \in BOOLEAN : DebugStarts(d, counted)
             \/ \E i \in run[d].active : CodeHangs(d, i)
             \/ ClientLeaves(d) \/ DebugIsLost(d)
      PROVE  Lit'
  BY <1>4, LitStays DEF DebugStarts, CodeHangs, ClientLeaves, DebugIsLost
<1>5. CASE UNCHANGED vars
  BY <1>5, LitStays DEF vars
<1> QED
  BY <1>1, <1>2, <1>3, <1>4, <1>5 DEF Next

\* The gate shows that a run of the draft came to its end, unless a client has
\* left a run in the middle: apart from a save that meets the end of a run,
\* which the property leaves out, leaving is the only way to a gate that says
\* more than it knows, however requests and runs interleave.
THEOREM LeavingAloneMisleads ==
    Spec => []("left" \notin doubt => GateMeansTested)
<1>1. Init => Lit
  <2> SUFFICES ASSUME Init PROVE Lit
    OBVIOUS
  <2>1. wf.passed = "no"
    BY DEF Init, Gone, Row
  <2> QED
    BY <2>1 DEF Lit
<1>2. Lit => ("left" \notin doubt => GateMeansTested)
  BY DEF Lit, GateMeansTested
<1> QED
  BY <1>1, <1>2, StepLit, InvariantHolds, PTL DEF Spec

-----------------------------------------------------------------------------
(* The engine is never stuck.                                              *)

Busy(r) == r.pc = "running" => r.active # {}

\* What is strictly valid has a start node.
LEMMA HasStart ==
    ASSUME NEW g, TwoLists(g), Strict(g)
    PROVE  Start(g) # {}
<1>1. /\ Cardinality({i \in DOMAIN g.nodes : g.nodes[i].type = "start"}) <= 1
      /\ OnePole(Sources(g), "start") /\ Sources(g) \in SUBSET Nodes(g)
  BY DEF Strict, Sources
<1>2. PICK s \in Nodes(g) : {n \in Nodes(g) : n.type = "start"} = {s}
  <2>1. Joins(g) /\ \A m, n \in Nodes(g) : m.id = n.id => m = n
    BY StrictLists, ListsAre
  <2> QED
    BY <1>1, <2>1, PoleIs
<1> QED
  BY <1>2 DEF Start

\* A run goes on as long as a node can be begun, and otherwise ends.
LEMMA AdvanceIsBusy ==
    ASSUME NEW w, DOMAIN w = DOMAIN NoRun, w.pc = "running",
           NEW r, r = Advance(w)
    PROVE  DOMAIN r = DOMAIN NoRun /\ Busy(r)
<1>1. CASE w.active # {}
  BY <1>1 DEF Advance, Busy
<1>2. CASE w.active = {}
  <2> DEFINE seen == w.seen \cup w.wrote
             next == Ready(w.graph, seen)
  <2>1. r = [w EXCEPT !.seen = seen, !.wrote = {}, !.active = next,
                      !.pc = IF next = {} THEN "closing" ELSE "running",
                      !.result = IF next = {} THEN "succeeded" ELSE "running"]
    BY <1>2 DEF Advance
  <2> HIDE DEF seen, next
  <2>2. /\ DOMAIN r = DOMAIN NoRun /\ r.active = next
        /\ r.pc = IF next = {} THEN "closing" ELSE "running"
    BY <2>1 DEF NoRun
  <2> QED
    BY <2>2 DEF Busy
<1> QED
  BY <1>1, <1>2

\* The steps that change a run leave it busy.
LEMMA NodeEndsBusy ==
    ASSUME IInv, NEW d \in Runs, NEW i, NodeEnds(d, i)
    PROVE  Busy(run'[d]) /\ \A x \in Runs \ {d} : run'[x] = run[x]
<1>1. IsRun(run[d]) /\ run[d].pc = "running"
  BY DEF IInv, NodeEnds
<1>2. PICK w : w = Wrote(d, i)
  OBVIOUS
<1>3. DOMAIN w = DOMAIN NoRun /\ w.pc = "running"
  BY <1>1, <1>2 DEF Wrote, IsRun, NoRun
<1>4. PICK r : r = Advance(w)
  OBVIOUS
<1>5. DOMAIN r = DOMAIN NoRun /\ Busy(r)
  BY <1>3, <1>4, AdvanceIsBusy
<1>6. \/ run' = [run EXCEPT ![d] = r]
      \/ run' = [run EXCEPT ![d] = [r EXCEPT !.passed = wf.passed]]
  BY <1>2, <1>4 DEF NodeEnds
<1>7. PICK s : s = [r EXCEPT !.passed = wf.passed]
  OBVIOUS
<1>8. Busy(s)
  BY <1>5, <1>7 DEF Busy, NoRun
<1> QED
  BY <1>5, <1>6, <1>7, <1>8 DEF IInv

\* A run that starts has a start node to begin with.
LEMMA DebugStartsBusy ==
    ASSUME IInv, NEW d \in Runs, NEW counted, DebugStarts(d, counted)
    PROVE  Busy(run'[d]) /\ \A x \in Runs \ {d} : run'[x] = run[x]
<1>1. PICK r :
        /\ \/ r = [NoRun EXCEPT !.pc = "refused"]
           \/ /\ Strict(wf.draft)
              /\ r = [NoRun EXCEPT !.pc = "running", !.graph = wf.draft,
                                   !.active = Start(wf.draft),
                                   !.result = "running",
                                   !.passed = wf.passed]
        /\ run' = [run EXCEPT ![d] = r]
  BY DEF DebugStarts
<1>2. CASE r = [NoRun EXCEPT !.pc = "refused"]
  <2>1. Busy(r)
    BY <1>2 DEF Busy, NoRun
  <2> QED
    BY <1>1, <2>1 DEF IInv
<1>3. CASE r # [NoRun EXCEPT !.pc = "refused"]
  <2>1. Strict(wf.draft) /\ TwoLists(wf.draft)
    BY <1>1, <1>3, SettledLists DEF IInv, IsRow, Draft
  <2>2. r.active = Start(wf.draft)
    BY <1>1, <1>3 DEF NoRun
  <2>3. Busy(r)
    BY <2>1, <2>2, HasStart DEF Busy
  <2> QED
    BY <1>1, <2>3 DEF IInv
<1> QED
  BY <1>2, <1>3

\* The others end a run, or keep its active nodes.
LEMMA OthersBusy ==
    ASSUME IInv, NEW d \in Runs, Busy(run[d]),
           \/ \E i : NodeFails(d, i) \/ CodeTimesOut(d, i) \/ CodeHangs(d, i)
           \/ DebugEnds(d) \/ ClientLeaves(d) \/ DebugIsLost(d)
    PROVE  Busy(run'[d]) /\ \A x \in Runs \ {d} : run'[x] = run[x]
<1>1. PICK s : s = run[d]
  OBVIOUS
<1>2. DOMAIN s = DOMAIN NoRun
  BY <1>1 DEF IInv, IsRun
<1>3. ASSUME NEW r, Busy(r), run' = [run EXCEPT ![d] = r]
      PROVE  Busy(run'[d]) /\ \A x \in Runs \ {d} : run'[x] = run[x]
  BY <1>3 DEF IInv
<1>4. ASSUME NEW i, NodeFails(d, i) \/ CodeTimesOut(d, i)
      PROVE  run' = [run EXCEPT ![d] = Fail(s)]
  BY <1>1, <1>4 DEF NodeFails, CodeTimesOut
<1>5. Busy(Fail(s))
  BY <1>2 DEF Fail, Busy, NoRun
<1>6. ASSUME NEW i, CodeHangs(d, i)
      PROVE  \E r : Busy(r) /\ run' = [run EXCEPT ![d] = r]
  <2>1. PICK r : r = [s EXCEPT !.hung = @ \cup {i}]
    OBVIOUS
  <2>2. Busy(r)
    BY <1>1, <1>2, <2>1 DEF Busy, NoRun
  <2> QED
    BY <1>1, <1>6, <2>1, <2>2 DEF CodeHangs
<1>7. ASSUME DebugEnds(d) \/ DebugIsLost(d)
      PROVE  \E r : Busy(r) /\ run' = [run EXCEPT ![d] = r]
  <2>1. /\ Busy([NoRun EXCEPT !.pc = "over"])
        /\ Busy([NoRun EXCEPT !.pc = "lost"])
    BY DEF Busy, NoRun
  <2> QED
    BY <1>7, <2>1 DEF DebugEnds, DebugIsLost
<1>8. ASSUME ClientLeaves(d)
      PROVE  \E r : Busy(r) /\ run' = [run EXCEPT ![d] = r]
  <2>1. PICK r : r = [s EXCEPT !.pc = "closing", !.active = {}, !.hung = {},
                               !.result = "succeeded", !.left = "yes"]
    OBVIOUS
  <2>2. Busy(r)
    BY <1>2, <2>1 DEF Busy, NoRun
  <2> QED
    BY <1>1, <1>8, <2>1, <2>2 DEF ClientLeaves
<1> QED
  BY <1>3, <1>4, <1>5, <1>6, <1>7, <1>8

\* The engine never waits for nothing: as long as a run goes on, a node of it
\* is running, which ends, fails or times out.
THEOREM EngineNeverStuck ==
    Spec => [](\A d \in Runs : run[d].pc = "running" => run[d].active # {})
<1> DEFINE AllBusy == \A d \in Runs : Busy(run[d])
<1>1. Init => AllBusy
  BY DEF Init, Busy, NoRun
<1>2. IInv /\ AllBusy /\ [Next]_vars => AllBusy'
  <2> SUFFICES ASSUME IInv, AllBusy, [Next]_vars PROVE AllBusy'
    OBVIOUS
  <2>1. CASE run' = run
    BY <2>1
  <2>2. ASSUME NEW d \in Runs, RunStep(d) PROVE AllBusy'
    BY <2>2, NodeEndsBusy, OthersBusy DEF RunStep
  <2>3. ASSUME NEW d \in Runs,
               \/ \E counted \in BOOLEAN : DebugStarts(d, counted)
               \/ \E i \in run[d].active : CodeHangs(d, i)
               \/ ClientLeaves(d) \/ DebugIsLost(d)
        PROVE  AllBusy'
    BY <2>3, DebugStartsBusy, OthersBusy
  <2>4. (\E q \in Reqs : Request(q)) \/ Create \/ Cancel \/ Delete
            => run' = run
    BY DEF Request, Save, Publish, Commit, Begin, Create, Cancel, Delete
  <2>5. UNCHANGED vars => run' = run
    BY DEF vars
  <2> QED
    BY <2>1, <2>2, <2>3, <2>4, <2>5 DEF Next
<1>3. AllBusy <=>
        \A d \in Runs : run[d].pc = "running" => run[d].active # {}
  BY DEF Busy
<1> QED
  BY <1>1, <1>2, <1>3, InvariantHolds, PTL DEF Spec

-----------------------------------------------------------------------------
(* The order in which nodes run.                                           *)

\* What a run begins in its next step is new to it, and all that comes before
\* it has been executed; what is under way stays so until its superstep ends.
InOrder(r, s) ==
    r.pc = "running" /\ s.pc = "running" =>
        /\ s.graph = r.graph
        /\ \A i \in s.active \ r.active :
              /\ i \notin Begun(r)
              /\ Prev1(r.graph, i) \subseteq s.seen
              /\ s.seen = Begun(r)

\* A superstep ends with its last node, and then begins what has not begun.
LEMMA AdvanceInOrder ==
    ASSUME NEW s, IsRun(s), s.pc = "running", NEW i \in s.active,
           NEW w, w = [s EXCEPT !.active = @ \ {i}, !.wrote = @ \cup {i}],
           NEW r, r = Advance(w)
    PROVE  DOMAIN r = DOMAIN NoRun /\ InOrder(s, r)
<1>1. /\ DOMAIN w = DOMAIN NoRun /\ w.pc = "running" /\ w.graph = s.graph
      /\ w.active = s.active \ {i} /\ w.wrote = s.wrote \cup {i}
      /\ w.seen = s.seen
  BY DEF IsRun, NoRun
<1>2. CASE w.active # {}
  <2>1. r = w
    BY <1>2 DEF Advance
  <2> QED
    BY <1>1, <2>1 DEF InOrder
<1>3. CASE w.active = {}
  <2> DEFINE seen == w.seen \cup w.wrote
             next == Ready(w.graph, seen)
  <2>1. r = [w EXCEPT !.seen = seen, !.wrote = {}, !.active = next,
                      !.pc = IF next = {} THEN "closing" ELSE "running",
                      !.result = IF next = {} THEN "succeeded" ELSE "running"]
    BY <1>3 DEF Advance
  <2>2. seen = Begun(s)
    BY <1>1, <1>3 DEF Begun
  <2>3. \A j \in next : j \notin seen /\ Prev1(s.graph, j) \subseteq seen
    BY <1>1 DEF Ready
  <2> HIDE DEF seen, next
  <2>4. /\ DOMAIN r = DOMAIN NoRun /\ r.graph = s.graph /\ r.seen = seen
        /\ r.active = next
    BY <1>1, <2>1 DEF NoRun
  <2> QED
    BY <2>2, <2>3, <2>4 DEF InOrder
<1> QED
  BY <1>2, <1>3

\* A node's end is such a step, also when its commit renews the view.
LEMMA NodeEndsInOrder ==
    ASSUME IInv, NEW d \in Runs, NEW i, NodeEnds(d, i)
    PROVE  /\ InOrder(run[d], run'[d])
           /\ \A x \in Runs \ {d} : run'[x] = run[x]
<1>1. IsRun(run[d]) /\ run[d].pc = "running" /\ i \in run[d].active
  BY DEF IInv, NodeEnds
<1>2. PICK s : s = run[d]
  OBVIOUS
<1>3. PICK w : w = [s EXCEPT !.active = @ \ {i}, !.wrote = @ \cup {i}]
  OBVIOUS
<1>4. PICK r : r = Advance(w)
  OBVIOUS
<1>5. DOMAIN r = DOMAIN NoRun /\ InOrder(s, r)
  BY <1>1, <1>2, <1>3, <1>4, AdvanceInOrder
<1>6. PICK v : v = [r EXCEPT !.passed = wf.passed]
  OBVIOUS
<1>7. /\ v.pc = r.pc /\ v.graph = r.graph /\ v.active = r.active
      /\ v.seen = r.seen
  BY <1>5, <1>6 DEF NoRun
<1>8. InOrder(s, v)
  BY <1>5, <1>7 DEF InOrder
<1>9. run' = [run EXCEPT ![d] = r] \/ run' = [run EXCEPT ![d] = v]
  BY <1>2, <1>3, <1>4, <1>6 DEF NodeEnds, Wrote
<1> QED
  BY <1>2, <1>5, <1>8, <1>9 DEF IInv

\* The other steps begin no node of a run that is on.
LEMMA OthersInOrder ==
    ASSUME IInv, NEW d \in Runs,
           \/ \E i : NodeFails(d, i) \/ CodeTimesOut(d, i) \/ CodeHangs(d, i)
           \/ \E counted : DebugStarts(d, counted)
           \/ DebugEnds(d) \/ ClientLeaves(d) \/ DebugIsLost(d)
    PROVE  /\ InOrder(run[d], run'[d])
           /\ \A x \in Runs \ {d} : run'[x] = run[x]
<1>1. PICK s : s = run[d]
  OBVIOUS
<1>2. DOMAIN s = DOMAIN NoRun
  BY <1>1 DEF IInv, IsRun
<1>3. ASSUME NEW r, InOrder(s, r), run' = [run EXCEPT ![d] = r]
      PROVE  /\ InOrder(run[d], run'[d])
             /\ \A x \in Runs \ {d} : run'[x] = run[x]
  BY <1>1, <1>3 DEF IInv
<1>4. ASSUME NEW i, NodeFails(d, i) \/ CodeTimesOut(d, i)
      PROVE  \E r : InOrder(s, r) /\ run' = [run EXCEPT ![d] = r]
  <2>1. Fail(s).pc = "closing"
    BY <1>2 DEF Fail, NoRun
  <2> QED
    BY <1>1, <1>4, <2>1 DEF NodeFails, CodeTimesOut, InOrder
<1>5. ASSUME NEW i, CodeHangs(d, i)
      PROVE  \E r : InOrder(s, r) /\ run' = [run EXCEPT ![d] = r]
  <2>1. PICK r : r = [s EXCEPT !.hung = @ \cup {i}]
    OBVIOUS
  <2>2. InOrder(s, r)
    BY <1>2, <2>1 DEF InOrder, NoRun
  <2> QED
    BY <1>1, <1>5, <2>1, <2>2 DEF CodeHangs
<1>6. ASSUME NEW counted, DebugStarts(d, counted)
      PROVE  \E r : InOrder(s, r) /\ run' = [run EXCEPT ![d] = r]
  BY <1>1, <1>6 DEF DebugStarts, InOrder
<1>7. ASSUME DebugEnds(d) \/ DebugIsLost(d)
      PROVE  \E r : InOrder(s, r) /\ run' = [run EXCEPT ![d] = r]
  <2>1. /\ [NoRun EXCEPT !.pc = "over"].pc # "running"
        /\ [NoRun EXCEPT !.pc = "lost"].pc # "running"
    BY DEF NoRun
  <2> QED
    BY <1>7, <2>1 DEF DebugEnds, DebugIsLost, InOrder
<1>8. ASSUME ClientLeaves(d)
      PROVE  \E r : InOrder(s, r) /\ run' = [run EXCEPT ![d] = r]
  <2>1. PICK r : r = [s EXCEPT !.pc = "closing", !.active = {}, !.hung = {},
                               !.result = "succeeded", !.left = "yes"]
    OBVIOUS
  <2>2. r.pc # "running"
    BY <1>2, <2>1 DEF NoRun
  <2> QED
    BY <1>1, <1>8, <2>1, <2>2 DEF ClientLeaves, InOrder
<1> QED
  BY <1>3, <1>4, <1>5, <1>6, <1>7, <1>8

\* No node of a run is begun twice, and none before all its sources have been
\* executed, in every superstep of every graph the strict check accepts: a
\* run's graph stays what it was, and what is begun is new and in order.
THEOREM NodesRunOnceInOrder ==
    Spec => [][\A d \in Runs : InOrder(run[d], run'[d])]_vars
<1>1. IInv /\ [Next]_vars => [\A d \in Runs : InOrder(run[d], run'[d])]_vars
  <2> SUFFICES ASSUME IInv, Next PROVE \A d \in Runs : InOrder(run[d], run'[d])
    OBVIOUS
  <2>1. \A r : InOrder(r, r)
    BY DEF InOrder
  <2>2. CASE run' = run
    BY <2>1, <2>2
  <2>3. ASSUME NEW d \in Runs, RunStep(d)
        PROVE  \A x \in Runs : InOrder(run[x], run'[x])
    BY <2>1, <2>3, NodeEndsInOrder, OthersInOrder DEF RunStep
  <2>4. ASSUME NEW d \in Runs,
               \/ \E counted \in BOOLEAN : DebugStarts(d, counted)
               \/ \E i \in run[d].active : CodeHangs(d, i)
               \/ ClientLeaves(d) \/ DebugIsLost(d)
        PROVE  \A x \in Runs : InOrder(run[x], run'[x])
    BY <2>1, <2>4, OthersInOrder
  <2>5. (\E q \in Reqs : Request(q)) \/ Create \/ Cancel \/ Delete
            => run' = run
    BY DEF Request, Save, Publish, Commit, Begin, Create, Cancel, Delete
  <2> QED
    BY <2>2, <2>3, <2>4, <2>5 DEF Next
<1> QED
  BY <1>1, InvariantHolds, PTL DEF Spec

=============================================================================
