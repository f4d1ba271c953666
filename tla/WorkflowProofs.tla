--------------------------- MODULE WorkflowProofs ---------------------------
(***************************************************************************)
(* Proofs about the runs of a workflow and about its versions.             *)
(*                                                                         *)
(* Of a run (WorkflowRun) what has to be seen is where rows are.  The plan *)
(* has each node after those that feed it; so what holds of a node as soon *)
(* as it holds of its feeders holds of every node the run has passed.      *)
(* Along the plan, then: a node runs if and only if a source reaches it    *)
(* over wires that are taken, it hands on the rows of those sources, and   *)
(* what a sink holds is a load of them.  A watermark is pending over rows  *)
(* that are staged, and promoted by the sink that serves them.             *)
(*                                                                         *)
(* Of the versions (WorkflowVersions) it is that a version names one graph *)
(* wherever it is spoken of: on the row, in the archive, in a release      *)
(* about to be written, and in what a run has executed.  That holds as     *)
(* long as saves of the row do not overlap.                                *)
(***************************************************************************)
EXTENDS WorkflowRun, WorkflowVersions, FiniteSetTheorems, TLAPS

-----------------------------------------------------------------------------
(* Numbers and sequences. *)

LEMMA Least ==
  ASSUME NEW T \in SUBSET Nat, T # {}
  PROVE  \E x \in T : \A y \in T : x <= y
<1>1. PICK x \in T : \A y \in T : ~ (<<y, x>> \in OpToRel(<, Nat))
  BY NatLessThanWellFounded, WFMin
<1>2. \A y \in T : ~ (y < x)
  BY <1>1 DEF OpToRel
<1> QED
  BY <1>2

LEMMA SeqFacts ==
  ASSUME NEW S, NEW s \in Seq(S)
  PROVE  Len(s) \in Nat /\ DOMAIN s = 1 .. Len(s) /\ \A i \in 1 .. Len(s) : s[i] \in S
OBVIOUS

LEMMA ConcatFacts ==
  ASSUME NEW S, NEW s \in Seq(S), NEW t \in Seq(S)
  PROVE  /\ s \o t \in Seq(S) /\ Len(s \o t) = Len(s) + Len(t)
         /\ \A i \in 1 .. Len(s) : (s \o t)[i] = s[i]
         /\ \A i \in 1 .. Len(t) : (s \o t)[Len(s) + i] = t[i]
OBVIOUS

\* A position of a set of them is the first, the second, ... : each number once.
LEMMA Ranks ==
  ASSUME NEW n \in Nat, NEW I \in SUBSET (1 .. n)
  PROVE  /\ IsFiniteSet(I) /\ Cardinality(I) \in Nat
         /\ \A i \in I : Cardinality({j \in I : j < i}) \in Nat
         /\ \A i \in I : Cardinality({j \in I : j < i}) + 1 \in 1 .. Cardinality(I)
         /\ \A i, j \in I : Cardinality({l \in I : l < i}) = Cardinality({l \in I : l < j}) => i = j
         /\ \A k \in 1 .. Cardinality(I) : \E i \in I : Cardinality({j \in I : j < i}) = k - 1
<1> DEFINE Below(i) == {j \in I : j < i}
           rank == [i \in I |-> Cardinality(Below(i)) + 1]
<1>1. IsFiniteSet(I) /\ Cardinality(I) \in Nat
  <2>1. IsFiniteSet(1 .. n)
    BY FS_Interval
  <2> QED BY <2>1, FS_Subset, FS_CardinalityType
<1>2. \A i \in I : IsFiniteSet(Below(i)) /\ Cardinality(Below(i)) \in Nat
  BY <1>1, FS_Subset, FS_CardinalityType
<1>3. ASSUME NEW i \in I PROVE Cardinality(Below(i)) + 1 \in 1 .. Cardinality(I)
  <2>1. Below(i) \in SUBSET (I \ {i})
    OBVIOUS
  <2>2. IsFiniteSet(I \ {i}) /\ Cardinality(I \ {i}) = Cardinality(I) - 1
    BY <1>1, FS_RemoveElement
  <2>3. Cardinality(Below(i)) <= Cardinality(I) - 1
    BY <2>1, <2>2, FS_Subset
  <2> QED BY <1>1, <1>2, <2>3
<1>4. ASSUME NEW i \in I, NEW j \in I, i < j PROVE Cardinality(Below(i)) < Cardinality(Below(j))
  <2>1. Below(i) \cup {i} \in SUBSET Below(j)
    <3>1. \A l \in Below(i) : l \in I /\ l < j
      BY <1>4
    <3>2. i \in Below(j)
      BY <1>4
    <3> QED BY <3>1, <3>2
  <2>2. Cardinality(Below(i) \cup {i}) = Cardinality(Below(i)) + 1
    <3>1. i \notin Below(i)
      OBVIOUS
    <3> HIDE DEF Below
    <3> QED BY <1>2, <3>1, FS_AddElement
  <2>3. Cardinality(Below(i) \cup {i}) <= Cardinality(Below(j))
    BY <1>2, <2>1, FS_Subset
  <2> HIDE DEF Below
  <2> QED BY <1>2, <2>2, <2>3
<1>5. \A i, j \in I : Cardinality(Below(i)) = Cardinality(Below(j)) => i = j
  <2>1. SUFFICES ASSUME NEW i \in I, NEW j \in I, Cardinality(Below(i)) = Cardinality(Below(j)), i # j
                 PROVE  FALSE
    OBVIOUS
  <2>2. i < j \/ j < i
    BY <2>1
  <2> QED BY <1>2, <1>4, <2>1, <2>2
<1>6. rank \in Injection(I, 1 .. Cardinality(I))
  <2>1. rank \in [I -> 1 .. Cardinality(I)]
    BY <1>3
  <2>2. ASSUME NEW i \in I, NEW j \in I, rank[i] = rank[j] PROVE i = j
    <3>1. Cardinality(Below(i)) = Cardinality(Below(j))
      BY <1>2, <2>2
    <3> QED BY <1>5, <3>1
  <2> HIDE DEF rank
  <2> QED BY <2>1, <2>2 DEF Injection, IsInjective
<1>7. IsFiniteSet(1 .. Cardinality(I)) /\ Cardinality(1 .. Cardinality(I)) = Cardinality(I)
  BY <1>1, FS_Interval
<1>8. rank \in Surjection(I, 1 .. Cardinality(I))
  <2> HIDE DEF rank
  <2> QED BY <1>6, <1>7, FS_Injection
<1>9. \A k \in 1 .. Cardinality(I) : \E i \in I : Cardinality(Below(i)) = k - 1
  <2>1. \A k \in 1 .. Cardinality(I) : \E i \in I : rank[i] = k
    BY <1>8 DEF Surjection
  <2> HIDE DEF Below
  <2>2. \A i \in I : rank[i] - 1 = Cardinality(Below(i))
    BY <1>2
  <2> HIDE DEF rank
  <2> QED BY <2>1, <2>2
<1> QED BY <1>1, <1>2, <1>3, <1>5, <1>9

\* What Picked returns: each of the positions once.
LEMMA PickedFacts ==
  ASSUME NEW S, NEW s \in Seq(S), NEW I \in SUBSET (DOMAIN s)
  PROVE  /\ Picked(s, I) \in Seq(S)
         /\ Len(Picked(s, I)) = Cardinality(I) /\ Cardinality(I) \in Nat
         /\ \E nth \in [1 .. Cardinality(I) -> I] :
              /\ \A k \in 1 .. Cardinality(I) : Picked(s, I)[k] = s[nth[k]]
              /\ \A i \in I : \E k \in 1 .. Cardinality(I) : nth[k] = i
              /\ \A k, l \in 1 .. Cardinality(I) : nth[k] = nth[l] => k = l
<1> DEFINE Rank(i) == Cardinality({j \in I : j < i})
           C == Cardinality(I)
           Nth(k) == CHOOSE i \in I : Rank(i) = k - 1
           chosen == [k \in 1 .. C |-> Nth(k)]
<1>1. I \in SUBSET (1 .. Len(s)) /\ Len(s) \in Nat
  BY SeqFacts
<1>2. /\ C \in Nat
      /\ \A i \in I : Rank(i) \in Nat /\ Rank(i) + 1 \in 1 .. C
      /\ \A i, j \in I : Rank(i) = Rank(j) => i = j
      /\ \A k \in 1 .. C : \E i \in I : Rank(i) = k - 1
  BY <1>1, Ranks
<1>3. \A i \in I : Rank(i) \in Nat
  BY <1>2
<1> HIDE DEF Rank
<1>4. \A k \in 1 .. C : Nth(k) \in I /\ Rank(Nth(k)) = k - 1
  BY <1>2
<1>5. Picked(s, I) = [k \in 1 .. C |-> s[Nth(k)]]
  BY DEF Picked, Rank
<1> HIDE DEF Nth, C
<1>6. \A k \in 1 .. C : s[Nth(k)] \in S
  BY <1>1, <1>4
<1>7. Picked(s, I) \in Seq(S) /\ Len(Picked(s, I)) = C
  BY <1>2, <1>5, <1>6
<1>8. chosen \in [1 .. C -> I]
  BY <1>4
<1>9. \A k \in 1 .. C : Picked(s, I)[k] = s[chosen[k]]
  BY <1>5
<1>10. ASSUME NEW i \in I PROVE \E k \in 1 .. C : chosen[k] = i
  <2>1. Rank(i) + 1 \in 1 .. C
    BY <1>2
  <2>2. Nth(Rank(i) + 1) \in I /\ Rank(Nth(Rank(i) + 1)) = Rank(i)
    BY <1>3, <1>4, <2>1
  <2>3. Nth(Rank(i) + 1) = i
    BY <1>2, <2>2
  <2> QED BY <2>1, <2>3
<1>11. ASSUME NEW k \in 1 .. C, NEW l \in 1 .. C, chosen[k] = chosen[l] PROVE k = l
  <2>1. k - 1 = l - 1
    BY <1>4, <1>11
  <2> QED BY <1>2, <2>1
<1> HIDE DEF chosen
<1>12. \E nth \in [1 .. C -> I] :
         /\ \A k \in 1 .. C : Picked(s, I)[k] = s[nth[k]]
         /\ \A i \in I : \E k \in 1 .. C : nth[k] = i
         /\ \A k, l \in 1 .. C : nth[k] = nth[l] => k = l
  BY <1>8, <1>9, <1>10, <1>11
<1> QED BY <1>2, <1>7, <1>12 DEF C

-----------------------------------------------------------------------------
(* The plan. *)

To(g) == [i \in DOMAIN g.edges |-> g.edges[i].to]

Queued(g, queue, i) ==
  queue \o Picked(To(g), Freed(g, queue[i], {queue[j] : j \in 1 .. i}))

\* The function workflowRunOrder computes, up to n.
IsReady(g, ready, n) ==
  ready = [i \in 0 .. n |-> IF i = 0 THEN Picked(g.nodes, Roots(g)) ELSE Queued(g, ready[i - 1], i)]

LEMMA ReadyExists ==
  ASSUME NEW g, NEW N \in Nat
  PROVE  \E ready : IsReady(g, ready, N)
<1> DEFINE Bad == {n \in Nat : ~ \E ready : IsReady(g, ready, n)}
<1>1. SUFFICES Bad = {}
  OBVIOUS
<1>2. SUFFICES ASSUME Bad # {} PROVE FALSE
  OBVIOUS
<1>3. PICK n \in Bad : \A m \in Bad : n <= m
  BY <1>2, Least
<1>4. CASE n = 0
  <2> DEFINE r == [i \in 0 .. 0 |-> Picked(g.nodes, Roots(g))]
  <2>1. IsReady(g, r, 0)
    BY DEF IsReady
  <2> QED BY <1>3, <1>4, <2>1
<1>5. CASE n # 0
  <2>1. n - 1 \in Nat /\ n - 1 \notin Bad
    BY <1>3, <1>5
  <2>2. PICK r : IsReady(g, r, n - 1)
    BY <2>1
  <2> DEFINE Base == Picked(g.nodes, Roots(g))
             Grow(q, i) == Queued(g, q, i)
             s == [i \in 0 .. n |-> IF i = n THEN Grow(r[n - 1], n) ELSE r[i]]
  <2> HIDE DEF Base, Grow
  <2>3. r = [i \in 0 .. n - 1 |-> IF i = 0 THEN Base ELSE Grow(r[i - 1], i)]
    BY <2>2 DEF IsReady, Base, Grow
  <2>4. \A i \in 0 .. n : s[i] = IF i = 0 THEN Base ELSE Grow(s[i - 1], i)
    <3>1. SUFFICES ASSUME NEW i \in 0 .. n PROVE s[i] = IF i = 0 THEN Base ELSE Grow(s[i - 1], i)
      OBVIOUS
    <3>2. CASE i = 0
      <4>1. 0 \in 0 .. n - 1 /\ 0 # n
        BY <2>1, <1>5
      <4>2. r[0] = Base
        BY <2>3, <4>1
      <4> QED BY <3>2, <4>1, <4>2
    <3>3. CASE i # 0
      <4>1. i - 1 \in 0 .. n /\ i - 1 # n /\ i - 1 \in 0 .. n - 1
        BY <2>1, <3>3
      <4>2. s[i - 1] = r[i - 1]
        BY <4>1
      <4>3. CASE i = n
        BY <4>2, <4>3, <3>3
      <4>4. CASE i # n
        <5>1. i \in 0 .. n - 1
          BY <4>4
        <5>2. s[i] = r[i]
          BY <4>4
        <5>3. r[i] = Grow(r[i - 1], i)
          BY <2>3, <5>1, <3>3
        <5> QED BY <4>2, <5>2, <5>3, <3>3
      <4> QED BY <4>3, <4>4
    <3> QED BY <3>2, <3>3
  <2>5. s = [i \in 0 .. n |-> IF i = 0 THEN Base ELSE Grow(s[i - 1], i)]
    <3>1. s = [i \in 0 .. n |-> s[i]]
      OBVIOUS
    <3> HIDE DEF s
    <3> QED BY <2>4, <3>1
  <2>6. IsReady(g, s, n)
    <3> HIDE DEF s
    <3> QED BY <2>5 DEF IsReady, Base, Grow
  <2> QED BY <1>3, <2>6
<1> QED BY <1>4, <1>5

LEMMA PlanIsReady ==
  ASSUME NEW g, Len(g.nodes) \in Nat
  PROVE  \E ready : /\ IsReady(g, ready, Len(g.nodes))
                    /\ workflowRunOrder(g) = ready[Len(g.nodes)]
<1> DEFINE N == Len(g.nodes)
           chosen == CHOOSE ready : IsReady(g, ready, N)
<1>1. IsReady(g, chosen, N)
  BY ReadyExists
<1>2. workflowRunOrder(g) = chosen[N]
  BY DEF workflowRunOrder, IsReady, Queued, To
<1> QED BY <1>1, <1>2

LEMMA GraphFacts ==
  ASSUME NEW g \in Workflows
  PROVE  /\ g.nodes \in Seq(NodesOf(g)) /\ Len(g.nodes) \in Nat /\ Len(g.nodes) # 0
         /\ \A i \in 1 .. Len(g.nodes) : g.nodes[i] \in NodesOf(g)
         /\ \A n \in NodesOf(g) : \E i \in 1 .. Len(g.nodes) : g.nodes[i] = n
         /\ \A i, j \in 1 .. Len(g.nodes) : g.nodes[i] = g.nodes[j] => i = j
         /\ IsFiniteSet(NodesOf(g)) /\ Cardinality(NodesOf(g)) = Len(g.nodes)
<1>1. IsGraph(g) /\ collectNodesById(g)
  BY WorkflowAssumption DEF validateWorkflow
<1>2. g.nodes \in Seq(NodesOf(g)) /\ g.nodes # <<>>
  BY <1>1 DEF IsGraph
<1>3. Len(g.nodes) \in Nat /\ DOMAIN g.nodes = 1 .. Len(g.nodes) /\ Len(g.nodes) # 0
  BY <1>2
<1>4. \A i \in 1 .. Len(g.nodes) : g.nodes[i] \in NodesOf(g)
  BY <1>2
<1>5. \A n \in NodesOf(g) : \E i \in 1 .. Len(g.nodes) : g.nodes[i] = n
  BY <1>3 DEF NodesOf, ToSet
<1>6. \A i, j \in 1 .. Len(g.nodes) : g.nodes[i] = g.nodes[j] => i = j
  BY <1>1, <1>3 DEF collectNodesById
<1>7. IsFiniteSet(NodesOf(g)) /\ Cardinality(NodesOf(g)) = Len(g.nodes)
  <2>1. g.nodes \in [1 .. Len(g.nodes) -> NodesOf(g)]
    BY <1>2
  <2>2. g.nodes \in Bijection(1 .. Len(g.nodes), NodesOf(g))
    BY <1>5, <1>6, <2>1 DEF Bijection, Injection, Surjection, IsInjective
  <2>3. IsFiniteSet(1 .. Len(g.nodes)) /\ Cardinality(1 .. Len(g.nodes)) = Len(g.nodes)
    BY <1>3, FS_Interval
  <2> QED BY <2>2, <2>3, FS_Bijection DEF ExistsBijection
<1> QED BY <1>2, <1>3, <1>4, <1>5, <1>6, <1>7

LEMMA WireFacts ==
  ASSUME NEW g \in Workflows
  PROVE  /\ g.edges \in Seq([from : NodesOf(g), to : NodesOf(g), branch : Branches \cup {"plain"}])
         /\ Len(g.edges) \in Nat /\ DOMAIN g.edges = 1 .. Len(g.edges)
         /\ \A i \in DOMAIN g.edges :
              /\ g.edges[i] \in WiresOf(g)
              /\ g.edges[i].from \in NodesOf(g) /\ g.edges[i].to \in NodesOf(g)
         /\ \A e \in WiresOf(g) :
              /\ e \in [from : NodesOf(g), to : NodesOf(g), branch : Branches \cup {"plain"}]
              /\ \E i \in DOMAIN g.edges : e = g.edges[i]
         /\ \A i, j \in DOMAIN g.edges :
              g.edges[i].from = g.edges[j].from /\ g.edges[i].to = g.edges[j].to => i = j
         /\ \A d, e \in WiresOf(g) : d.from = e.from /\ d.to = e.to => d = e
         /\ To(g) \in Seq(NodesOf(g)) /\ DOMAIN To(g) = DOMAIN g.edges
<1> DEFINE Wire == [from : NodesOf(g), to : NodesOf(g), branch : Branches \cup {"plain"}]
<1>1. IsGraph(g) /\ checkEdges(g)
  BY WorkflowAssumption DEF validateWorkflow
<1>2. g.edges \in Seq(Wire)
  BY <1>1 DEF IsGraph
<1>3. Len(g.edges) \in Nat /\ DOMAIN g.edges = 1 .. Len(g.edges)
  BY <1>2
<1>4. \A i \in DOMAIN g.edges : g.edges[i] \in Wire /\ g.edges[i] \in WiresOf(g)
  <2>1. \A i \in DOMAIN g.edges : g.edges[i] \in WiresOf(g)
    BY DEF WiresOf, ToSet
  <2>2. \A i \in DOMAIN g.edges : g.edges[i] \in Wire
    <3> HIDE DEF Wire
    <3> QED BY <1>2, <1>3
  <2> QED BY <2>1, <2>2
<1>5. \A e \in WiresOf(g) : \E i \in DOMAIN g.edges : e = g.edges[i]
  BY DEF WiresOf, ToSet
<1>6. \A i, j \in DOMAIN g.edges :
        g.edges[i].from = g.edges[j].from /\ g.edges[i].to = g.edges[j].to => i = j
  BY <1>1 DEF checkEdges
<1>7. \A d, e \in WiresOf(g) : d.from = e.from /\ d.to = e.to => d = e
  BY <1>5, <1>6
<1>8. \A i \in DOMAIN g.edges : g.edges[i].from \in NodesOf(g) /\ g.edges[i].to \in NodesOf(g)
  BY <1>4
<1>9. To(g) \in Seq(NodesOf(g)) /\ DOMAIN To(g) = DOMAIN g.edges
  BY <1>3, <1>8 DEF To
<1> QED BY <1>2, <1>3, <1>4, <1>5, <1>6, <1>7, <1>8, <1>9

LEMMA FeedersAre ==
  ASSUME NEW g \in Workflows, NEW n
  PROVE  /\ Feeders(g, n) \subseteq NodesOf(g)
         /\ \A f \in Feeders(g, n) :
              \E i \in DOMAIN g.edges : g.edges[i].from = f /\ g.edges[i].to = n
         /\ \A i \in DOMAIN g.edges : g.edges[i].to = n => g.edges[i].from \in Feeders(g, n)
         /\ \A e \in WiresOf(g) : e.to = n => e.from \in Feeders(g, n)
<1> HIDE DEF WiresOf
<1>1. \A e \in WiresOf(g) : e.to = n => e.from \in Feeders(g, n)
  BY DEF Feeders
<1>2. \A f \in Feeders(g, n) : \E e \in WiresOf(g) : e.to = n /\ e.from = f
  BY DEF Feeders
<1>3. \A i \in DOMAIN g.edges : /\ g.edges[i] \in WiresOf(g)
                               /\ g.edges[i].from \in NodesOf(g)
  BY WireFacts
<1>4. \A e \in WiresOf(g) : \E i \in DOMAIN g.edges : e = g.edges[i]
  BY WireFacts
<1>5. \A f \in Feeders(g, n) : \E i \in DOMAIN g.edges : g.edges[i].from = f /\ g.edges[i].to = n
  BY <1>2, <1>4
<1> QED BY <1>1, <1>3, <1>5

\* The first i of the queue are done, and it holds what has only them to wait for.
Frontier(g, queue, i) ==
  /\ queue \in Seq(NodesOf(g))
  /\ i \in 0 .. Len(queue)
  /\ \A j, l \in 1 .. Len(queue) : queue[j] = queue[l] => j = l
  /\ \A n \in NodesOf(g) :
       (\E j \in 1 .. Len(queue) : queue[j] = n) <=> Feeders(g, n) \subseteq {queue[j] : j \in 1 .. i}
  /\ \A j \in 1 .. Len(queue) : \A f \in Feeders(g, queue[j]) : \E l \in 1 .. j - 1 : queue[l] = f

\* While a node is left, one waits for nothing that is not done.
LEMMA FrontierHolds ==
  ASSUME NEW g \in Workflows, NEW queue, NEW i \in Nat, i < Len(g.nodes), Frontier(g, queue, i)
  PROVE  i < Len(queue)
<1> DEFINE Done == {queue[j] : j \in 1 .. i}
           Left == NodesOf(g) \ Done
<1>1. SUFFICES ASSUME ~(i < Len(queue)) PROVE FALSE
  OBVIOUS
<1>2. queue \in Seq(NodesOf(g)) /\ Len(queue) \in Nat /\ i = Len(queue)
  BY <1>1 DEF Frontier
<1>3. IsFiniteSet(Done) /\ Cardinality(Done) <= i
  <2>1. IsFiniteSet(1 .. i) /\ Cardinality(1 .. i) = i
    BY FS_Interval
  <2> DEFINE f == [j \in 1 .. i |-> queue[j]]
  <2>2. f \in Surjection(1 .. i, Done)
    BY DEF Surjection
  <2> HIDE DEF f, Done
  <2> QED BY <2>1, <2>2, FS_Surjection
<1>4. Left # {}
  <2>1. SUFFICES ASSUME NodesOf(g) \subseteq Done PROVE FALSE
    OBVIOUS
  <2>2. Cardinality(NodesOf(g)) <= Cardinality(Done)
    BY <1>3, <2>1, FS_Subset
  <2>3. Cardinality(Done) \in Nat
    BY <1>3, FS_CardinalityType
  <2> HIDE DEF Done
  <2> QED BY <1>3, <2>2, <2>3, GraphFacts
<1>5. PICK n \in Left : Feeders(g, n) \cap Left = {}
  BY <1>4, WorkflowAssumption DEF validateWorkflow, Acyclic
<1>6. Feeders(g, n) \subseteq Done
  BY <1>5, FeedersAre
<1>7. \E j \in 1 .. Len(queue) : queue[j] = n
  BY <1>5, <1>6 DEF Frontier
<1> QED BY <1>2, <1>5, <1>7

LEMMA FrontierStarts ==
  ASSUME NEW g \in Workflows
  PROVE  Frontier(g, Picked(g.nodes, Roots(g)), 0)
<1> DEFINE q == Picked(g.nodes, Roots(g))
           C == Cardinality(Roots(g))
<1>1. g.nodes \in Seq(NodesOf(g)) /\ Roots(g) \in SUBSET (DOMAIN g.nodes)
  BY GraphFacts DEF Roots
<1>2. /\ q \in Seq(NodesOf(g)) /\ Len(q) = C /\ C \in Nat
      /\ \E nth \in [1 .. C -> Roots(g)] :
           /\ \A k \in 1 .. C : q[k] = g.nodes[nth[k]]
           /\ \A i \in Roots(g) : \E k \in 1 .. C : nth[k] = i
           /\ \A k, l \in 1 .. C : nth[k] = nth[l] => k = l
  BY <1>1, PickedFacts
<1> HIDE DEF q, C
<1>3. PICK nth \in [1 .. C -> Roots(g)] :
           /\ \A k \in 1 .. C : q[k] = g.nodes[nth[k]]
           /\ \A i \in Roots(g) : \E k \in 1 .. C : nth[k] = i
           /\ \A k, l \in 1 .. C : nth[k] = nth[l] => k = l
  BY <1>2
<1>4. DOMAIN g.nodes = 1 .. Len(g.nodes)
  BY GraphFacts
<1>5. \A k \in 1 .. C : nth[k] \in 1 .. Len(g.nodes) /\ Feeders(g, g.nodes[nth[k]]) = {}
  BY <1>3, <1>4 DEF Roots
<1>6. ASSUME NEW j \in 1 .. C, NEW l \in 1 .. C, q[j] = q[l] PROVE j = l
  <2>1. \A a, b \in 1 .. Len(g.nodes) : g.nodes[a] = g.nodes[b] => a = b
    BY GraphFacts
  <2>2. nth[j] \in 1 .. Len(g.nodes) /\ nth[l] \in 1 .. Len(g.nodes)
    BY <1>5
  <2>3. g.nodes[nth[j]] = g.nodes[nth[l]]
    BY <1>3, <1>6
  <2>4. nth[j] = nth[l]
    BY <2>1, <2>2, <2>3
  <2> QED BY <1>3, <2>4
<1>7. \A j \in 1 .. C : Feeders(g, q[j]) = {}
  BY <1>3, <1>5
<1>8. ASSUME NEW n \in NodesOf(g), Feeders(g, n) = {} PROVE \E j \in 1 .. C : q[j] = n
  <2>1. PICK i \in 1 .. Len(g.nodes) : g.nodes[i] = n
    BY GraphFacts
  <2>2. i \in Roots(g)
    BY <1>4, <1>8, <2>1 DEF Roots
  <2> QED BY <1>3, <2>1, <2>2
<1>9. {q[j] : j \in 1 .. 0} = {}
  OBVIOUS
<1>10. \A n \in NodesOf(g) : (\E j \in 1 .. C : q[j] = n) <=> Feeders(g, n) = {}
  BY <1>7, <1>8
<1>11. \A n \in NodesOf(g) :
         (\E j \in 1 .. Len(q) : q[j] = n) <=> Feeders(g, n) \subseteq {q[j] : j \in 1 .. 0}
  BY <1>2, <1>9, <1>10
<1>12. Frontier(g, q, 0)
  BY <1>2, <1>6, <1>7, <1>11 DEF Frontier
<1> QED BY <1>12 DEF q

LEMMA FrontierMoves ==
  ASSUME NEW g \in Workflows, NEW queue, NEW i \in Nat, i < Len(queue), Frontier(g, queue, i)
  PROVE  Frontier(g, Queued(g, queue, i + 1), i + 1)
<1> DEFINE done == {queue[j] : j \in 1 .. i}
           x == queue[i + 1]
           now == {queue[j] : j \in 1 .. i + 1}
           I == Freed(g, x, now)
           C == Cardinality(I)
           new == Picked(To(g), I)
           q == Queued(g, queue, i + 1)
           L == Len(queue)
<1>1. /\ queue \in Seq(NodesOf(g)) /\ L \in Nat
      /\ \A j, l \in 1 .. L : queue[j] = queue[l] => j = l
      /\ \A n \in NodesOf(g) : (\E j \in 1 .. L : queue[j] = n) <=> Feeders(g, n) \subseteq done
      /\ \A j \in 1 .. L : \A f \in Feeders(g, queue[j]) : \E l \in 1 .. j - 1 : queue[l] = f
  BY DEF Frontier
<1>2. I \in SUBSET (DOMAIN To(g)) /\ To(g) \in Seq(NodesOf(g))
  BY WireFacts DEF Freed
<1>3. /\ new \in Seq(NodesOf(g)) /\ Len(new) = C /\ C \in Nat
      /\ \E nth \in [1 .. C -> I] :
           /\ \A k \in 1 .. C : new[k] = To(g)[nth[k]]
           /\ \A e \in I : \E k \in 1 .. C : nth[k] = e
           /\ \A k, l \in 1 .. C : nth[k] = nth[l] => k = l
  <2> HIDE DEF I, C, new, q
  <2>1. /\ Picked(To(g), I) \in Seq(NodesOf(g))
        /\ Len(Picked(To(g), I)) = Cardinality(I) /\ Cardinality(I) \in Nat
        /\ \E nth \in [1 .. Cardinality(I) -> I] :
             /\ \A k \in 1 .. Cardinality(I) : Picked(To(g), I)[k] = To(g)[nth[k]]
             /\ \A e \in I : \E k \in 1 .. Cardinality(I) : nth[k] = e
             /\ \A k, l \in 1 .. Cardinality(I) : nth[k] = nth[l] => k = l
    BY <1>2, PickedFacts
  <2> QED BY <2>1 DEF C, new
<1>4. q = queue \o new
  BY DEF Queued
<1>5. i + 1 \in 1 .. L /\ x \in NodesOf(g)
  BY <1>1
<1>6. now = done \cup {x}
  <2>1. \A j \in 1 .. i + 1 : j \in 1 .. i \/ j = i + 1
    OBVIOUS
  <2>2. \A j \in 1 .. i : j \in 1 .. i + 1
    OBVIOUS
  <2>3. i + 1 \in 1 .. i + 1
    OBVIOUS
  <2> QED BY <2>1, <2>2, <2>3
<1>7. x \notin done
  BY <1>1, <1>5
<1>8. \A j \in DOMAIN g.edges : To(g)[j] = g.edges[j].to
  BY DEF To
<1>9. \A j \in I : /\ j \in DOMAIN g.edges /\ g.edges[j].from = x
                  /\ Feeders(g, To(g)[j]) \subseteq now /\ x \in Feeders(g, To(g)[j])
  BY <1>8, FeedersAre DEF Freed
<1> HIDE DEF new, q, I, C, x, now, done
<1>10. PICK nth \in [1 .. C -> I] :
           /\ \A k \in 1 .. C : new[k] = To(g)[nth[k]]
           /\ \A e \in I : \E k \in 1 .. C : nth[k] = e
           /\ \A k, l \in 1 .. C : nth[k] = nth[l] => k = l
  BY <1>3
<1>11. /\ q \in Seq(NodesOf(g)) /\ Len(q) = L + C
       /\ \A j \in 1 .. L : q[j] = queue[j]
       /\ \A k \in 1 .. C : q[L + k] = new[k]
  BY <1>1, <1>3, <1>4
<1>12. \A j \in 1 .. L + C : j \in 1 .. L \/ \E k \in 1 .. C : j = L + k
  <2>1. ASSUME NEW j \in 1 .. L + C, j \notin 1 .. L PROVE \E k \in 1 .. C : j = L + k
    <3>1. j - L \in 1 .. C /\ j = L + (j - L)
      BY <1>1, <1>3, <2>1
    <3> QED BY <3>1
  <2> QED BY <2>1
\* What is freed was not in the queue.
<1>13. ASSUME NEW k \in 1 .. C
       PROVE  /\ new[k] \in NodesOf(g) /\ x \in Feeders(g, new[k])
              /\ Feeders(g, new[k]) \subseteq now
  <2>1. new[k] \in NodesOf(g)
    BY <1>3
  <2>2. nth[k] \in I /\ new[k] = To(g)[nth[k]]
    BY <1>10
  <2> QED BY <1>9, <2>1, <2>2
<1>14. \A k \in 1 .. C : \A j \in 1 .. L : queue[j] # new[k]
  BY <1>1, <1>7, <1>13
<1>15. \A k, l \in 1 .. C : new[k] = new[l] => k = l
  <2>1. SUFFICES ASSUME NEW k \in 1 .. C, NEW l \in 1 .. C, new[k] = new[l] PROVE k = l
    OBVIOUS
  <2>2. nth[k] \in I /\ nth[l] \in I /\ To(g)[nth[k]] = To(g)[nth[l]]
    BY <1>10, <2>1
  <2>3. \A a, b \in DOMAIN g.edges :
          g.edges[a].from = g.edges[b].from /\ g.edges[a].to = g.edges[b].to => a = b
    BY WireFacts
  <2>4. /\ nth[k] \in DOMAIN g.edges /\ nth[l] \in DOMAIN g.edges
        /\ g.edges[nth[k]].from = x /\ g.edges[nth[l]].from = x
    BY <1>9, <2>2
  <2>5. g.edges[nth[k]].to = g.edges[nth[l]].to
    BY <1>8, <2>2, <2>4
  <2>6. nth[k] = nth[l]
    BY <2>3, <2>4, <2>5
  <2> QED BY <1>10, <2>6
<1>16. ASSUME NEW j \in 1 .. L + C, NEW l \in 1 .. L + C, q[j] = q[l] PROVE j = l
  <2>1. CASE j \in 1 .. L /\ l \in 1 .. L
    BY <1>1, <1>11, <1>16, <2>1
  <2>2. ASSUME NEW a \in 1 .. L, NEW b \in 1 .. C PROVE q[a] # q[L + b]
    BY <1>11, <1>14
  <2>3. CASE j \in 1 .. L /\ l \notin 1 .. L
    BY <1>12, <1>16, <2>2, <2>3
  <2>4. CASE j \notin 1 .. L /\ l \in 1 .. L
    BY <1>12, <1>16, <2>2, <2>4
  <2>5. CASE j \notin 1 .. L /\ l \notin 1 .. L
    <3>1. PICK a \in 1 .. C : j = L + a
      BY <1>12, <2>5
    <3>2. PICK b \in 1 .. C : l = L + b
      BY <1>12, <2>5
    <3>3. a = b
      BY <1>11, <1>15, <1>16, <3>1, <3>2
    <3> QED BY <3>1, <3>2, <3>3
  <2> QED BY <2>1, <2>3, <2>4, <2>5
<1>17. ASSUME NEW n \in NodesOf(g)
       PROVE  (\E j \in 1 .. L + C : q[j] = n) <=> Feeders(g, n) \subseteq now
  <2>1. ASSUME NEW j \in 1 .. L + C, q[j] = n PROVE Feeders(g, n) \subseteq now
    <3>1. CASE j \in 1 .. L
      <4>1. Feeders(g, n) \subseteq done
        BY <1>1, <1>11, <2>1, <3>1
      <4> QED BY <1>6, <4>1
    <3>2. CASE \E k \in 1 .. C : j = L + k
      BY <1>11, <1>13, <2>1, <3>2
    <3> QED BY <1>12, <3>1, <3>2
  <2>2. ASSUME Feeders(g, n) \subseteq now PROVE \E j \in 1 .. L + C : q[j] = n
    <3>1. CASE Feeders(g, n) \subseteq done
      <4>1. PICK j \in 1 .. L : queue[j] = n
        BY <1>1, <3>1
      <4>2. j \in 1 .. L + C /\ q[j] = n
        BY <1>1, <1>3, <1>11, <4>1
      <4> QED BY <4>2
    <3>2. CASE ~(Feeders(g, n) \subseteq done)
      <4>1. x \in Feeders(g, n)
        BY <1>6, <2>2, <3>2
      <4>2. PICK e \in DOMAIN g.edges : g.edges[e].from = x /\ g.edges[e].to = n
        BY <4>1, FeedersAre
      <4>3. e \in I
        BY <2>2, <4>2 DEF I, Freed
      <4>4. PICK k \in 1 .. C : nth[k] = e
        BY <1>10, <4>3
      <4>5. new[k] = n
        BY <1>8, <1>10, <4>2, <4>4
      <4>6. L + k \in 1 .. L + C /\ q[L + k] = n
        BY <1>1, <1>3, <1>11, <4>4, <4>5
      <4> QED BY <4>6
    <3> QED BY <3>1, <3>2
  <2> QED BY <2>1, <2>2
<1>18. ASSUME NEW j \in 1 .. L + C, NEW f \in Feeders(g, q[j]) PROVE \E l \in 1 .. j - 1 : q[l] = f
  <2>1. CASE j \in 1 .. L
    <3>1. PICK l \in 1 .. j - 1 : queue[l] = f
      BY <1>1, <1>11, <1>18, <2>1
    <3>2. l \in 1 .. L
      BY <1>1, <2>1
    <3> QED BY <1>11, <3>1, <3>2
  <2>2. CASE j \notin 1 .. L
    <3>1. PICK k \in 1 .. C : j = L + k
      BY <1>12, <2>2
    <3>2. f \in now
      BY <1>11, <1>13, <1>18, <3>1
    <3>3. PICK l \in 1 .. i + 1 : queue[l] = f
      BY <3>2 DEF now
    <3>4. l \in 1 .. L /\ l \in 1 .. j - 1
      BY <1>1, <1>3, <1>5, <3>1
    <3> QED BY <1>11, <3>3, <3>4
  <2> QED BY <2>1, <2>2
<1>19. now = {q[j] : j \in 1 .. i + 1}
  <2>1. \A j \in 1 .. i + 1 : j \in 1 .. L
    BY <1>1, <1>5
  <2>2. \A j \in 1 .. i + 1 : q[j] = queue[j]
    BY <1>11, <2>1
  <2> QED BY <2>2 DEF now
<1>20. i + 1 \in 0 .. L + C
  BY <1>1, <1>3, <1>5
<1>21. Frontier(g, q, i + 1)
  BY <1>11, <1>16, <1>17, <1>18, <1>19, <1>20 DEF Frontier
<1> QED BY <1>21 DEF q

\* A plan: every node once, after those that feed it.
IsPlan(g, plan) ==
  /\ plan \in Seq(NodesOf(g)) /\ Len(plan) = Len(g.nodes)
  /\ \A i, j \in 1 .. Len(plan) : plan[i] = plan[j] => i = j
  /\ \A n \in NodesOf(g) : \E i \in 1 .. Len(plan) : plan[i] = n
  /\ \A i \in 1 .. Len(plan) : \A f \in Feeders(g, plan[i]) : \E j \in 1 .. i - 1 : plan[j] = f

LEMMA FrontierEnds ==
  ASSUME NEW g \in Workflows, NEW plan, Frontier(g, plan, Len(g.nodes))
  PROVE  IsPlan(g, plan)
<1> DEFINE N == Len(g.nodes)
<1>1. N \in Nat /\ IsFiniteSet(NodesOf(g)) /\ Cardinality(NodesOf(g)) = N
  BY GraphFacts
<1>2. /\ plan \in Seq(NodesOf(g)) /\ N \in 0 .. Len(plan) /\ Len(plan) \in Nat
      /\ \A i, j \in 1 .. Len(plan) : plan[i] = plan[j] => i = j
  BY DEF Frontier
<1>3. plan \in Injection(1 .. Len(plan), NodesOf(g))
  BY <1>2 DEF Injection, IsInjective
<1>4. IsFiniteSet(1 .. Len(plan)) /\ Cardinality(1 .. Len(plan)) = Len(plan)
  <2>1. Len(plan) \in Nat
    BY <1>2
  <2>2. \A a, b \in Int : IsFiniteSet(a .. b) /\ Cardinality(a .. b) = IF a > b THEN 0 ELSE b - a + 1
    BY FS_Interval
  <2> DEFINE M == Len(plan)
  <2> HIDE DEF M
  <2>3. M \in Nat
    BY <2>1 DEF M
  <2>4. IsFiniteSet(1 .. M) /\ Cardinality(1 .. M) = M
    BY <2>2, <2>3
  <2> QED BY <2>4 DEF M
<1>5. Len(plan) <= N
  <2>1. Cardinality(1 .. Len(plan)) <= Cardinality(NodesOf(g))
    BY <1>1, <1>3, FS_Injection
  <2> QED BY <1>1, <1>4, <2>1
<1>6. Len(plan) = N
  BY <1>1, <1>2, <1>5
<1>7. plan \in Surjection(1 .. Len(plan), NodesOf(g))
  <2>1. Cardinality(1 .. Len(plan)) = Cardinality(NodesOf(g))
    BY <1>1, <1>4, <1>6
  <2> QED BY <1>1, <1>3, <1>4, <2>1, FS_Injection
<1>8. \A n \in NodesOf(g) : \E i \in 1 .. Len(plan) : plan[i] = n
  BY <1>7 DEF Surjection
<1>9. \A i \in 1 .. Len(plan) : \A f \in Feeders(g, plan[i]) : \E j \in 1 .. i - 1 : plan[j] = f
  BY DEF Frontier
<1> QED BY <1>2, <1>6, <1>8, <1>9 DEF IsPlan

\* workflowRunOrder plans every node once, after the nodes that feed it.
THEOREM PlanOrders ==
  ASSUME NEW g \in Workflows
  PROVE  IsPlan(g, Plan[g])
<1> DEFINE N == Len(g.nodes)
<1>1. N \in Nat /\ N # 0
  BY GraphFacts
<1>2. PICK ready : IsReady(g, ready, N) /\ workflowRunOrder(g) = ready[N]
  BY <1>1, PlanIsReady
<1>3. /\ ready[0] = Picked(g.nodes, Roots(g))
      /\ \A i \in 1 .. N : ready[i] = Queued(g, ready[i - 1], i)
  <2>1. \A i \in 0 .. N : ready[i] = IF i = 0 THEN Picked(g.nodes, Roots(g)) ELSE Queued(g, ready[i - 1], i)
    BY <1>2 DEF IsReady
  <2> QED BY <1>1, <2>1
<1> DEFINE Bad == {i \in 0 .. N : ~ Frontier(g, ready[i], i)}
<1> HIDE DEF N
<1>4. Bad = {}
  <2>1. SUFFICES ASSUME Bad # {} PROVE FALSE
    OBVIOUS
  <2>2. Bad \in SUBSET Nat
    OBVIOUS
  <2>3. PICK i \in Bad : \A j \in Bad : i <= j
    BY <2>1, <2>2, Least
  <2>4. i # 0
    BY <1>3, <2>3, FrontierStarts
  <2>5. i - 1 \in Nat /\ i - 1 \in 0 .. N /\ i - 1 \notin Bad /\ i \in 1 .. N /\ i - 1 < N /\ (i - 1) + 1 = i
    BY <1>1, <2>3, <2>4
  <2>6. Frontier(g, ready[i - 1], i - 1)
    BY <2>5
  <2>7. i - 1 < Len(ready[i - 1])
    BY <2>5, <2>6, FrontierHolds DEF N
  <2>8. Frontier(g, Queued(g, ready[i - 1], (i - 1) + 1), (i - 1) + 1)
    BY <2>5, <2>6, <2>7, FrontierMoves
  <2> QED BY <1>3, <2>3, <2>5, <2>8
<1>5. Frontier(g, ready[N], N)
  BY <1>1, <1>4
<1>6. IsPlan(g, workflowRunOrder(g))
  BY <1>2, <1>5, FrontierEnds DEF N
<1> QED BY <1>6 DEF Plan

-----------------------------------------------------------------------------
(* Sequences of sequences, one after the other. *)

\* The function FlattenSeq computes, up to n.
IsFlat(seqs, flat, n) ==
  flat = [i \in 1 .. n |-> IF i = 1 THEN seqs[i] ELSE flat[i - 1] \o seqs[i]]

LEMMA FlatExists ==
  ASSUME NEW seqs, NEW N \in Nat
  PROVE  \E flat : IsFlat(seqs, flat, N)
<1> DEFINE Bad == {n \in Nat : ~ \E flat : IsFlat(seqs, flat, n)}
<1>1. SUFFICES Bad = {}
  OBVIOUS
<1>2. SUFFICES ASSUME Bad # {} PROVE FALSE
  OBVIOUS
<1>3. PICK n \in Bad : \A m \in Bad : n <= m
  BY <1>2, Least
<1>4. CASE n = 0
  <2> DEFINE r == [i \in 1 .. 0 |-> seqs[i]]
  <2>1. IsFlat(seqs, r, 0)
    BY DEF IsFlat
  <2> QED BY <1>3, <1>4, <2>1
<1>5. CASE n # 0
  <2>1. n - 1 \in Nat /\ n - 1 \notin Bad
    BY <1>3, <1>5
  <2>2. PICK r : IsFlat(seqs, r, n - 1)
    BY <2>1
  <2> DEFINE Base(i) == seqs[i]
             Joins(q, i) == q \o seqs[i]
             s == [i \in 1 .. n |-> IF i = n THEN (IF n = 1 THEN Base(n) ELSE Joins(r[n - 1], n)) ELSE r[i]]
  <2> HIDE DEF Base, Joins
  <2>3. r = [i \in 1 .. n - 1 |-> IF i = 1 THEN Base(i) ELSE Joins(r[i - 1], i)]
    BY <2>2 DEF IsFlat, Base, Joins
  <2>4. \A i \in 1 .. n : s[i] = IF i = 1 THEN Base(i) ELSE Joins(s[i - 1], i)
    <3>1. SUFFICES ASSUME NEW i \in 1 .. n PROVE s[i] = IF i = 1 THEN Base(i) ELSE Joins(s[i - 1], i)
      OBVIOUS
    <3>2. CASE i # n
      <4>1. i \in 1 .. n - 1
        BY <3>2, <2>1
      <4>2. s[i] = r[i]
        BY <3>2
      <4>3. r[i] = IF i = 1 THEN Base(i) ELSE Joins(r[i - 1], i)
        BY <2>3, <4>1
      <4>4. i # 1 => s[i - 1] = r[i - 1]
        BY <3>2, <4>1
      <4> QED BY <4>2, <4>3, <4>4
    <3>3. CASE i = n
      <4>1. i # 1 => s[i - 1] = r[i - 1]
        BY <3>3, <2>1
      <4> QED BY <3>3, <4>1
    <3> QED BY <3>2, <3>3
  <2>5. s = [i \in 1 .. n |-> IF i = 1 THEN Base(i) ELSE Joins(s[i - 1], i)]
    <3>1. s = [i \in 1 .. n |-> s[i]]
      OBVIOUS
    <3> HIDE DEF s
    <3> QED BY <2>4, <3>1
  <2>6. IsFlat(seqs, s, n)
    <3> HIDE DEF s
    <3> QED BY <2>5 DEF IsFlat, Base, Joins
  <2> QED BY <1>3, <2>6
<1> QED BY <1>4, <1>5

\* What does not meet what is beside it.
Apart(s) == \A i, j \in DOMAIN s : i # j => s[i] \cap s[j] = {}

\* The first n of seqs, one after the other, are flat.
Joined(seqs, n, flat) ==
  /\ \A i \in 1 .. Len(flat) : \E k \in 1 .. n : \E j \in DOMAIN seqs[k] : flat[i] = seqs[k][j]
  /\ \A k \in 1 .. n : \A j \in DOMAIN seqs[k] : \E i \in 1 .. Len(flat) : flat[i] = seqs[k][j]
  /\ (/\ \A k \in 1 .. n : Apart(seqs[k])
      /\ \A k, l \in 1 .. n : k # l =>
           \A i \in DOMAIN seqs[k], j \in DOMAIN seqs[l] : seqs[k][i] \cap seqs[l][j] = {})
     => Apart(flat)

LEMMA JoinStep ==
  ASSUME NEW T, NEW seqs \in Seq(Seq(T)), NEW n \in Nat, n + 1 <= Len(seqs),
         NEW flat \in Seq(T), Joined(seqs, n, flat)
  PROVE  /\ flat \o seqs[n + 1] \in Seq(T)
         /\ Joined(seqs, n + 1, flat \o seqs[n + 1])
<1> DEFINE t == seqs[n + 1]
           q == flat \o t
<1>1. t \in Seq(T) /\ DOMAIN t = 1 .. Len(t) /\ Len(t) \in Nat /\ Len(flat) \in Nat
  OBVIOUS
<1>2. /\ q \in Seq(T) /\ Len(q) = Len(flat) + Len(t)
      /\ \A i \in 1 .. Len(flat) : q[i] = flat[i]
      /\ \A i \in 1 .. Len(t) : q[Len(flat) + i] = t[i]
  <2> HIDE DEF t
  <2> QED BY <1>1, ConcatFacts
<1>3. \A i \in 1 .. Len(q) : i \in 1 .. Len(flat) \/ \E j \in 1 .. Len(t) : i = Len(flat) + j
  <2>1. ASSUME NEW i \in 1 .. Len(q), i \notin 1 .. Len(flat)
        PROVE  i - Len(flat) \in 1 .. Len(t) /\ i = Len(flat) + (i - Len(flat))
    <3> HIDE DEF t, q
    <3> QED BY <1>1, <1>2, <2>1
  <2> QED BY <2>1
<1>4. /\ \A k \in 1 .. n + 1 : k \in 1 .. n \/ k = n + 1
      /\ \A k \in 1 .. n : k \in 1 .. n + 1 /\ k # n + 1
      /\ n + 1 \in 1 .. n + 1
  OBVIOUS
<1>5. /\ \A i \in 1 .. Len(flat) : \E k \in 1 .. n : \E j \in DOMAIN seqs[k] : flat[i] = seqs[k][j]
      /\ \A k \in 1 .. n : \A j \in DOMAIN seqs[k] : \E i \in 1 .. Len(flat) : flat[i] = seqs[k][j]
  BY DEF Joined
<1>6. \A i \in 1 .. Len(flat) : i \in 1 .. Len(q)
  <2> HIDE DEF t, q
  <2> QED BY <1>1, <1>2
<1>7. \A i \in 1 .. Len(t) : Len(flat) + i \in 1 .. Len(q)
  <2> HIDE DEF t, q
  <2> QED BY <1>1, <1>2
<1>8. ASSUME NEW i \in 1 .. Len(q)
      PROVE  \E k \in 1 .. n + 1 : \E j \in DOMAIN seqs[k] : q[i] = seqs[k][j]
  <2>1. CASE i \in 1 .. Len(flat)
    <3>1. PICK k \in 1 .. n : \E j \in DOMAIN seqs[k] : flat[i] = seqs[k][j]
      BY <1>5, <2>1
    <3>2. k \in 1 .. n + 1
      BY <1>4
    <3>3. q[i] = flat[i]
      BY <1>2, <2>1
    <3> HIDE DEF t, q
    <3> QED BY <3>1, <3>2, <3>3
  <2>2. CASE \E j \in 1 .. Len(t) : i = Len(flat) + j
    <3>1. PICK j \in 1 .. Len(t) : i = Len(flat) + j
      BY <2>2
    <3>2. q[i] = seqs[n + 1][j] /\ j \in DOMAIN seqs[n + 1]
      BY <1>1, <1>2, <3>1
    <3> QED BY <1>4, <3>2
  <2> QED BY <1>3, <2>1, <2>2
<1>9. ASSUME NEW k \in 1 .. n + 1, NEW j \in DOMAIN seqs[k]
      PROVE  \E i \in 1 .. Len(q) : q[i] = seqs[k][j]
  <2>1. CASE k \in 1 .. n
    <3> HIDE DEF t, q
    <3> QED BY <1>2, <1>5, <1>6, <2>1
  <2>2. CASE k = n + 1
    <3>1. j \in 1 .. Len(t) /\ q[Len(flat) + j] = seqs[k][j]
      BY <1>1, <1>2, <2>2
    <3> QED BY <1>7, <3>1
  <2> QED BY <1>4, <2>1, <2>2
<1>10. ASSUME \A k \in 1 .. n + 1 : Apart(seqs[k]),
              \A k, l \in 1 .. n + 1 : k # l =>
                \A i \in DOMAIN seqs[k], j \in DOMAIN seqs[l] : seqs[k][i] \cap seqs[l][j] = {}
       PROVE  Apart(q)
  <2>1. Apart(flat) /\ Apart(t)
    BY <1>4, <1>10 DEF Joined
  <2>2. ASSUME NEW i \in 1 .. Len(flat), NEW j \in 1 .. Len(t) PROVE flat[i] \cap t[j] = {}
    <3>1. PICK k \in 1 .. n : \E m \in DOMAIN seqs[k] : flat[i] = seqs[k][m]
      BY <1>5
    <3>2. PICK m \in DOMAIN seqs[k] : flat[i] = seqs[k][m]
      BY <3>1
    <3>3. k \in 1 .. n + 1 /\ k # n + 1
      BY <1>4
    <3>4. j \in DOMAIN seqs[n + 1]
      BY <1>1
    <3>5. seqs[k][m] \cap seqs[n + 1][j] = {}
      BY <1>4, <1>10, <3>3, <3>4
    <3> QED BY <3>2, <3>5
  <2>3. DOMAIN q = 1 .. Len(q) /\ DOMAIN flat = 1 .. Len(flat)
    <3> HIDE DEF t, q
    <3> QED BY <1>2
  <2>4. SUFFICES ASSUME NEW i \in 1 .. Len(q), NEW j \in 1 .. Len(q), i # j PROVE q[i] \cap q[j] = {}
    BY <2>3 DEF Apart
  <2> HIDE DEF q, t
  <2>5. CASE i \in 1 .. Len(flat) /\ j \in 1 .. Len(flat)
    BY <1>2, <2>1, <2>3, <2>4, <2>5 DEF Apart
  <2>6. CASE i \in 1 .. Len(flat) /\ j \notin 1 .. Len(flat)
    <3>1. PICK b \in 1 .. Len(t) : j = Len(flat) + b
      BY <1>3, <2>6
    <3>2. q[i] = flat[i] /\ q[j] = t[b]
      BY <1>2, <2>6, <3>1
    <3> QED BY <2>2, <2>6, <3>2
  <2>7. CASE i \notin 1 .. Len(flat) /\ j \in 1 .. Len(flat)
    <3>1. PICK a \in 1 .. Len(t) : i = Len(flat) + a
      BY <1>3, <2>7
    <3>2. q[i] = t[a] /\ q[j] = flat[j]
      BY <1>2, <2>7, <3>1
    <3>3. flat[j] \cap t[a] = {}
      BY <2>2, <2>7
    <3> QED BY <3>2, <3>3
  <2>8. CASE i \notin 1 .. Len(flat) /\ j \notin 1 .. Len(flat)
    <3>1. PICK a \in 1 .. Len(t) : i = Len(flat) + a
      BY <1>3, <2>8
    <3>2. PICK b \in 1 .. Len(t) : j = Len(flat) + b
      BY <1>3, <2>8
    <3>3. q[i] = t[a] /\ q[j] = t[b] /\ a # b
      BY <1>2, <2>4, <3>1, <3>2
    <3>4. a \in DOMAIN t /\ b \in DOMAIN t
      BY <1>1
    <3> QED BY <2>1, <3>3, <3>4 DEF Apart
  <2> QED BY <2>5, <2>6, <2>7, <2>8
<1>11. Joined(seqs, n + 1, q)
  <2> HIDE DEF t, q
  <2> QED BY <1>8, <1>9, <1>10 DEF Joined
<1> QED BY <1>2, <1>11

\* What FlattenSeq returns: the batches of the sequences, and those only, apart when they
\* were.
LEMMA FlattenFacts ==
  ASSUME NEW T, NEW seqs \in Seq(Seq(T))
  PROVE  FlattenSeq(seqs) \in Seq(T) /\ Joined(seqs, Len(seqs), FlattenSeq(seqs))
<1> DEFINE N == Len(seqs)
<1>1. N \in Nat
  OBVIOUS
<1>2. CASE N = 0
  <2>1. FlattenSeq(seqs) = <<>>
    BY <1>2 DEF FlattenSeq
  <2>2. Joined(seqs, 0, <<>>)
    BY DEF Joined, Apart
  <2> QED BY <1>2, <2>1, <2>2
<1>3. CASE N # 0
  <2> DEFINE flat == CHOOSE f : IsFlat(seqs, f, N)
  <2>1. IsFlat(seqs, flat, N)
    BY <1>1, FlatExists
  <2>2. FlattenSeq(seqs) = flat[N]
    BY <1>3 DEF FlattenSeq, IsFlat
  <2>3. \A i \in 1 .. N : flat[i] = IF i = 1 THEN seqs[i] ELSE flat[i - 1] \o seqs[i]
    BY <2>1 DEF IsFlat
  <2> HIDE DEF flat
  <2> DEFINE Good(i) == flat[i] \in Seq(T) /\ Joined(seqs, i, flat[i])
             Bad == {i \in 1 .. N : ~ Good(i)}
  <2>4. Bad = {}
    <3>1. SUFFICES ASSUME Bad # {} PROVE FALSE
      OBVIOUS
    <3>2. PICK i \in Bad : \A j \in Bad : i <= j
      <4>1. Bad \in SUBSET Nat
        OBVIOUS
      <4> HIDE DEF Bad
      <4> QED BY <3>1, <4>1, Least
    <3>3. i \in 1 .. N /\ ~ Good(i)
      BY <3>2
    <3>4. CASE i = 1
      <4>1. flat[1] = seqs[1] /\ seqs[1] \in Seq(T) /\ DOMAIN seqs[1] = 1 .. Len(seqs[1])
        BY <2>3, <3>3, <3>4
      <4>2. \A k \in 1 .. 1 : k = 1
        OBVIOUS
      <4>3. Joined(seqs, 1, seqs[1])
        BY <4>1, <4>2 DEF Joined
      <4> QED BY <3>3, <3>4, <4>1, <4>3
    <3>5. CASE i # 1
      <4>1. i - 1 \in 1 .. N /\ i - 1 \in Nat /\ (i - 1) + 1 = i /\ (i - 1) + 1 <= N /\ ~(i <= i - 1)
        BY <1>1, <3>3, <3>5
      <4>2. Good(i - 1)
        BY <3>2, <4>1
      <4>3. flat[i] = flat[i - 1] \o seqs[(i - 1) + 1]
        BY <2>3, <3>3, <3>5, <4>1
      <4>4. /\ flat[i - 1] \o seqs[(i - 1) + 1] \in Seq(T)
            /\ Joined(seqs, (i - 1) + 1, flat[i - 1] \o seqs[(i - 1) + 1])
        BY <4>1, <4>2, JoinStep
      <4> QED BY <3>3, <4>1, <4>3, <4>4
    <3> QED BY <3>4, <3>5
  <2>5. Good(N)
    BY <1>1, <1>3, <2>4
  <2> QED BY <2>2, <2>5
<1> QED BY <1>2, <1>3

-----------------------------------------------------------------------------
(* Nodes, and what they are fed. *)

LEMMA NodeFacts ==
  ASSUME NEW g \in Workflows, NEW n \in NodesOf(g)
  PROVE  /\ g.kind[n] \in Kinds
         /\ g.kind[n] = "source" <=> n \in Sources
         /\ g.kind[n] = "sink" <=> n \in Sinks
         /\ n # NoStage
         /\ g.kind[n] = "source" <=> Feeders(g, n) = {}
         /\ Feeders(g, n) = {} <=> {e \in WiresOf(g) : e.to = n} = {}
<1>1. /\ IsGraph(g) /\ validateWorkflow(g) /\ NoStage \notin NodesOf(g)
      /\ OfKind(g, "source") = NodesOf(g) \cap Sources
      /\ OfKind(g, "sink") = NodesOf(g) \cap Sinks
  BY WorkflowAssumption
<1>2. g.kind[n] \in Kinds
  BY <1>1 DEF IsGraph
<1>3. g.kind[n] = "source" <=> n \in Sources
  BY <1>1 DEF OfKind
<1>4. g.kind[n] = "sink" <=> n \in Sinks
  BY <1>1 DEF OfKind
<1>5. Feeders(g, n) = {} <=> {e \in WiresOf(g) : e.to = n} = {}
  BY DEF Feeders
<1>6. g.kind[n] = "source" => {e \in WiresOf(g) : e.to = n} = {}
  BY <1>1 DEF validateWorkflow, checkNodeWiring
<1>7. {e \in WiresOf(g) : e.to = n} = {} => g.kind[n] = "source"
  BY <1>1 DEF validateWorkflow, checkReachability
<1> QED BY <1>1, <1>2, <1>3, <1>4, <1>5, <1>6, <1>7

LEMMA InputsFacts ==
  ASSUME graph \in Workflows, NEW n
  PROVE  /\ Inputs(n) \in Seq(Nodes) /\ Len(Inputs(n)) \in Nat /\ DOMAIN Inputs(n) = 1 .. Len(Inputs(n))
         /\ \A i \in 1 .. Len(Inputs(n)) : Inputs(n)[i] \in Feeders(graph, n) /\ Inputs(n)[i] \in Nodes
         /\ \A f \in Feeders(graph, n) : \E i \in 1 .. Len(Inputs(n)) : Inputs(n)[i] = f
         /\ \A i, j \in 1 .. Len(Inputs(n)) : Inputs(n)[i] = Inputs(n)[j] => i = j
<1> DEFINE froms == [i \in DOMAIN graph.edges |-> graph.edges[i].from]
           I == {i \in DOMAIN graph.edges : graph.edges[i].to = n}
           C == Cardinality(I)
           ins == Inputs(n)
<1>1. /\ DOMAIN graph.edges = 1 .. Len(graph.edges) /\ Len(graph.edges) \in Nat
      /\ \A i \in DOMAIN graph.edges : graph.edges[i].from \in Nodes
      /\ \A i, j \in DOMAIN graph.edges :
           graph.edges[i].from = graph.edges[j].from /\ graph.edges[i].to = graph.edges[j].to => i = j
  BY WireFacts DEF Nodes
<1>2. froms \in Seq(Nodes) /\ I \in SUBSET (DOMAIN froms)
  BY <1>1
<1>3. ins = Picked(froms, I)
  BY DEF Inputs
<1>4. /\ ins \in Seq(Nodes) /\ Len(ins) = C /\ C \in Nat
      /\ \E nth \in [1 .. C -> I] :
           /\ \A k \in 1 .. C : ins[k] = froms[nth[k]]
           /\ \A i \in I : \E k \in 1 .. C : nth[k] = i
           /\ \A k, l \in 1 .. C : nth[k] = nth[l] => k = l
  <2> HIDE DEF froms, I, C, ins
  <2>1. /\ Picked(froms, I) \in Seq(Nodes)
        /\ Len(Picked(froms, I)) = Cardinality(I) /\ Cardinality(I) \in Nat
        /\ \E nth \in [1 .. Cardinality(I) -> I] :
             /\ \A k \in 1 .. Cardinality(I) : Picked(froms, I)[k] = froms[nth[k]]
             /\ \A e \in I : \E k \in 1 .. Cardinality(I) : nth[k] = e
             /\ \A k, l \in 1 .. Cardinality(I) : nth[k] = nth[l] => k = l
    BY <1>2, PickedFacts
  <2> QED BY <1>3, <2>1 DEF C
<1>5. \A i \in I : /\ i \in DOMAIN graph.edges /\ froms[i] = graph.edges[i].from
                  /\ graph.edges[i].to = n /\ froms[i] \in Feeders(graph, n)
  BY FeedersAre
<1>6. \A f \in Feeders(graph, n) : \E i \in I : froms[i] = f
  BY FeedersAre
<1> HIDE DEF froms, I, C, ins
<1>7. PICK nth \in [1 .. C -> I] :
           /\ \A k \in 1 .. C : ins[k] = froms[nth[k]]
           /\ \A i \in I : \E k \in 1 .. C : nth[k] = i
           /\ \A k, l \in 1 .. C : nth[k] = nth[l] => k = l
  BY <1>4
<1>8. DOMAIN ins = 1 .. C /\ \A i \in 1 .. C : ins[i] \in Nodes
  BY <1>4
<1>9. \A i \in 1 .. C : ins[i] \in Feeders(graph, n)
  BY <1>5, <1>7
<1>10. \A f \in Feeders(graph, n) : \E i \in 1 .. C : ins[i] = f
  BY <1>6, <1>7
<1>11. ASSUME NEW i \in 1 .. C, NEW j \in 1 .. C, ins[i] = ins[j] PROVE i = j
  <2>1. nth[i] \in I /\ nth[j] \in I /\ froms[nth[i]] = froms[nth[j]]
    BY <1>7, <1>11
  <2>2. nth[i] = nth[j]
    BY <1>1, <1>5, <2>1
  <2> QED BY <1>7, <2>2
<1> QED BY <1>4, <1>8, <1>9, <1>10, <1>11 DEF ins

\* The batches of the inputs of a node.
Incoming(n) == [i \in DOMAIN Inputs(n) |-> Staged(Inputs(n)[i])]

LEMMA StageRefs ==
  ASSUME NEW T, graph \in Workflows, ref \in [Nodes -> Nodes \cup {NoStage}],
         stage \in [Nodes -> Seq(T)], NEW n
  PROVE  /\ Incoming(n) \in Seq(Seq(T)) /\ Len(Incoming(n)) = Len(Inputs(n))
         /\ stageRefsFor(n) \in Seq(T)
         /\ Joined(Incoming(n), Len(Inputs(n)), stageRefsFor(n))
<1>1. \A m \in Nodes : Staged(m) \in Seq(T)
  BY DEF Staged
<1>2. /\ Len(Inputs(n)) \in Nat /\ DOMAIN Inputs(n) = 1 .. Len(Inputs(n))
      /\ \A i \in 1 .. Len(Inputs(n)) : Inputs(n)[i] \in Nodes
  BY InputsFacts
<1>3. Incoming(n) \in Seq(Seq(T)) /\ Len(Incoming(n)) = Len(Inputs(n))
  <2>1. \A i \in 1 .. Len(Inputs(n)) : Staged(Inputs(n)[i]) \in Seq(T)
    BY <1>1, <1>2
  <2>2. Incoming(n) = [i \in 1 .. Len(Inputs(n)) |-> Staged(Inputs(n)[i])]
    BY <1>2 DEF Incoming
  <2> QED BY <1>2, <2>1, <2>2
<1>4. stageRefsFor(n) = FlattenSeq(Incoming(n))
  BY DEF stageRefsFor, Incoming
<1> QED BY <1>3, <1>4, FlattenFacts

-----------------------------------------------------------------------------
(* Types, and where the run stands. *)

\* The nodes the run has passed, and whether it is under way.
Past == {order[i] : i \in 1 .. at - 1}
Running == pc \notin {"rest", "finish"}

Control ==
  /\ pc = "rest" => at = 1 /\ order = <<>>
  /\ pc # "rest" => IsPlan(graph, order)
  /\ pc \notin {"rest", "turn"} => at <= Len(order)
  /\ pc \in {"fetch", "settle"} => Kind(Node) = "source"
  /\ pc = "branch" => Kind(Node) = "if"
  /\ pc = "pass" => Kind(Node) = "pipe"
  /\ pc \in {"append", "commit", "promote"} => Kind(Node) = "sink"
  /\ pc = "return" => Kind(Node) # "if"

\* No watermark is beyond what there was to read.
Marks ==
  /\ \A v \in Sources : mark[v].committed <= feed[v] /\ mark[v].pending <= feed[v]
  /\ pc = "settle" /\ ~Full(Node) => mark[Node].committed + Len(stage[Node]) <= feed[Node]

TypeInv == TypeOK /\ Control /\ Marks

LEMMA NodeHere ==
  ASSUME TypeInv, pc # "rest", at <= Len(order)
  PROVE  /\ Node \in Nodes /\ at \in 1 .. Len(order) /\ Len(order) = Len(graph.nodes)
         /\ at + 1 \in 1 .. Len(graph.nodes) + 1 /\ Kind(Node) \in Kinds
         /\ Entry(Node) \in {"fetch", "branch", "pass", "append"}
         /\ Kind(Node) = "source" => Node \in Sources /\ Entry(Node) = "fetch"
         /\ Kind(Node) = "if" => Entry(Node) = "branch"
         /\ Kind(Node) = "pipe" => Entry(Node) = "pass"
         /\ Kind(Node) = "sink" => Node \in Sinks /\ Entry(Node) = "append"
<1>1. graph \in Workflows /\ order \in Seq(Nodes) /\ at \in 1 .. Len(graph.nodes) + 1
  BY DEF TypeInv, TypeOK
<1>2. Len(order) = Len(graph.nodes)
  BY DEF TypeInv, Control, IsPlan
<1>3. Len(graph.nodes) \in Nat
  BY <1>1, GraphFacts
<1>4. at \in 1 .. Len(order) /\ at + 1 \in 1 .. Len(graph.nodes) + 1
  BY <1>1, <1>2, <1>3
<1>5. Node \in Nodes
  BY <1>1, <1>4 DEF Node
<1>6. Kind(Node) \in Kinds /\ (Kind(Node) = "source" => Node \in Sources)
      /\ (Kind(Node) = "sink" => Node \in Sinks)
  BY <1>1, <1>5, NodeFacts DEF Kind, Nodes
<1>7. /\ Entry(Node) \in {"fetch", "branch", "pass", "append"}
      /\ Kind(Node) = "source" => Entry(Node) = "fetch"
      /\ Kind(Node) = "if" => Entry(Node) = "branch"
      /\ Kind(Node) = "pipe" => Entry(Node) = "pass"
      /\ Kind(Node) = "sink" => Entry(Node) = "append"
  BY <1>6 DEF Entry, Kinds
<1> QED BY <1>2, <1>4, <1>5, <1>6, <1>7

LEMMA Bounds == Retries \in Nat /\ MaxRows \in Nat /\ MaxFaults \in Nat
BY WorkflowAssumption

LEMMA TypeStarts == Init => TypeInv
<1> SUFFICES ASSUME Init PROVE TypeInv
  OBVIOUS
<1>1. graph \in Workflows /\ Len(graph.nodes) \in Nat
  BY GraphFacts DEF Init
<1>2. TypeOK
  BY <1>1, Bounds DEF Init, TypeOK, Phases, Outcomes, Row
<1>3. Control
  BY DEF Init, Control
<1>4. Marks
  BY DEF Init, Marks
<1> QED BY <1>2, <1>3, <1>4 DEF TypeInv

\* The steps that leave the run where it is.
LEMMA TypeArrive ==
  ASSUME TypeInv, NEW v \in Sources, Arrive(v)
  PROVE  TypeInv'
<1>1. /\ feed \in [Sources -> 0 .. MaxRows] /\ feed[v] < MaxRows
      /\ feed' = [feed EXCEPT ![v] = @ + 1] /\ MaxRows \in Nat
  BY Bounds DEF TypeInv, TypeOK, Arrive
<1>2. feed' \in [Sources -> 0 .. MaxRows] /\ \A u \in Sources : feed[u] <= feed'[u]
  BY <1>1
<1>3. UNCHANGED <<graph, mark, types, pc, progress, stage, count, tries, faults>>
  BY DEF Arrive
<1>4. TypeOK'
  BY <1>2, <1>3 DEF TypeInv, TypeOK, types, progress, Nodes
<1>5. Control'
  BY <1>3 DEF TypeInv, Control, progress, Kind, Node
<1>6. Marks'
  <2>1. \A u \in Sources : mark[u].committed <= feed'[u] /\ mark[u].pending <= feed'[u]
    BY <1>1, <1>2 DEF TypeInv, TypeOK, Marks
  <2>2. ASSUME pc = "settle", ~Full(Node) PROVE mark[Node].committed + Len(stage[Node]) <= feed'[Node]
    <3>1. Node \in Sources /\ Node \in Nodes
      BY <2>2, NodeHere DEF TypeInv, Control
    <3>2. mark[Node].committed + Len(stage[Node]) <= feed[Node]
      BY <2>2 DEF TypeInv, Marks
    <3>3. mark[Node].committed \in Nat /\ Len(stage[Node]) \in Nat /\ feed[Node] \in Int /\ feed'[Node] \in Int
      BY <1>1, <1>2, <3>1 DEF TypeInv, TypeOK
    <3> QED BY <1>2, <3>1, <3>2, <3>3
  <2> QED BY <1>3, <2>1, <2>2 DEF Marks, Full, Node, progress
<1> QED BY <1>4, <1>5, <1>6 DEF TypeInv

LEMMA TypeStartRun ==
  ASSUME TypeInv, StartRun
  PROVE  TypeInv'
<1>1. IsPlan(graph, order') /\ order' \in Seq(Nodes)
  <2>1. graph \in Workflows
    BY DEF TypeInv, TypeOK
  <2>2. IsPlan(graph, Plan[graph])
    BY <2>1, PlanOrders
  <2> QED BY <2>2 DEF StartRun, IsPlan, Nodes
<1>2. TypeOK'
  BY <1>1 DEF TypeInv, TypeOK, StartRun, world, types, Phases, Nodes
<1>3. Control'
  BY <1>1 DEF Control, StartRun, world
<1>4. Marks'
  BY DEF TypeInv, Marks, StartRun, world
<1> QED BY <1>2, <1>3, <1>4 DEF TypeInv

LEMMA TypeSkip ==
  ASSUME TypeInv, SkipUnlessLive
  PROVE  TypeInv'
<1>1. at + 1 \in 1 .. Len(graph.nodes) + 1 /\ Node \in Nodes
  BY NodeHere DEF SkipUnlessLive
<1>2. outcome' \in [Nodes -> Outcomes]
  BY <1>1 DEF TypeInv, TypeOK, SkipUnlessLive, Outcomes
<1>3. TypeOK'
  BY <1>1, <1>2 DEF TypeInv, TypeOK, SkipUnlessLive, world, types, Nodes
<1>4. Control'
  BY DEF TypeInv, Control, SkipUnlessLive, world
<1>5. Marks'
  BY DEF TypeInv, Marks, SkipUnlessLive, world
<1> QED BY <1>3, <1>4, <1>5 DEF TypeInv

LEMMA TypeDispatch ==
  ASSUME TypeInv, Dispatch
  PROVE  TypeInv'
<1>1. /\ Entry(Node) \in {"fetch", "branch", "pass", "append"} /\ Kind(Node) \in Kinds
      /\ Kind(Node) = "source" => Entry(Node) = "fetch"
      /\ Kind(Node) = "if" => Entry(Node) = "branch"
      /\ Kind(Node) = "pipe" => Entry(Node) = "pass"
      /\ Kind(Node) = "sink" => Entry(Node) = "append"
  BY NodeHere DEF Dispatch
<1>2. TypeOK'
  BY <1>1 DEF TypeInv, TypeOK, Dispatch, world, types, progress, Phases, Nodes
<1>3. Control'
  BY <1>1 DEF TypeInv, Control, Dispatch, world, progress, Kind, Node, Kinds
<1>4. Marks'
  BY <1>1 DEF TypeInv, Marks, Dispatch, world
<1> QED BY <1>2, <1>3, <1>4 DEF TypeInv

LEMMA TypeRemember ==
  ASSUME TypeInv, pc \notin {"rest", "turn"}, NEW what \in Outcomes, NEW from \in Nodes \cup {NoStage},
         Remember(Node, what, from), UNCHANGED <<world, mark, types, stage, faults>>
  PROVE  TypeInv'
<1>1. at + 1 \in 1 .. Len(graph.nodes) + 1 /\ Node \in Nodes
  BY NodeHere DEF TypeInv, Control
<1>2. outcome' \in [Nodes -> Outcomes] /\ ref' \in [Nodes -> Nodes \cup {NoStage}]
  BY <1>1 DEF TypeInv, TypeOK, Remember
<1>3. TypeOK'
  BY <1>1, <1>2, Bounds DEF TypeInv, TypeOK, Remember, world, types, Nodes, Phases
<1>4. Control'
  BY DEF TypeInv, Control, Remember, world
<1>5. Marks'
  BY DEF TypeInv, Marks, Remember, world
<1> QED BY <1>3, <1>4, <1>5 DEF TypeInv

LEMMA TypeReturn ==
  ASSUME TypeInv, Return
  PROVE  TypeInv'
<1>1. pc \notin {"rest", "turn"}
  BY DEF Return
<1>2. Node \in Nodes
  BY <1>1, NodeHere DEF TypeInv, Control
<1> DEFINE from == IF Kind(Node) = "sink" THEN NoStage ELSE Node
<1>3. from \in Nodes \cup {NoStage} /\ "done" \in Outcomes
  BY <1>2 DEF Outcomes
<1>4. Remember(Node, "done", from) /\ UNCHANGED <<world, mark, types, stage, faults>>
  BY DEF Return
<1> HIDE DEF from
<1> QED BY <1>1, <1>3, <1>4, TypeRemember

LEMMA TypeBranch ==
  ASSUME TypeInv, Branch
  PROVE  TypeInv'
<1>1. pc \notin {"rest", "turn"} /\ Kind(Node) = "if" /\ at <= Len(order) /\ pc # "rest"
  BY DEF Branch, TypeInv, Control
<1>2. Node \in Nodes /\ graph \in Workflows
  BY <1>1, NodeHere DEF TypeInv, TypeOK
<1>3. PICK f : f \in Feeders(graph, Node)
  BY <1>1, <1>2, NodeFacts DEF Kind, Nodes
<1>4. Inputs(Node)[1] \in Nodes
  BY <1>2, <1>3, InputsFacts
<1> DEFINE from == ref[Inputs(Node)[1]]
<1>5. from \in Nodes \cup {NoStage}
  BY <1>4 DEF TypeInv, TypeOK
<1>6. PICK way \in Branches : Remember(Node, way, from)
  BY DEF Branch
<1>7. way \in Outcomes /\ UNCHANGED <<world, mark, types, stage, faults>>
  BY DEF Outcomes, Branch
<1> HIDE DEF from
<1> QED BY <1>1, <1>5, <1>6, <1>7, TypeRemember

LEMMA TypeFetch ==
  ASSUME TypeInv, Fetch
  PROVE  TypeInv'
<1> DEFINE from == IF Full(Node) THEN 0 ELSE mark[Node].committed
           rows == [i \in 1 .. feed[Node] - from |-> {<<Node, from + i>>}]
<1>1. /\ Node \in Nodes /\ Node \in Sources /\ Kind(Node) = "source"
  BY NodeHere DEF Fetch, TypeInv, Control
<1>2. /\ feed[Node] \in 0 .. MaxRows /\ mark[Node].committed \in 0 .. MaxRows
      /\ mark[Node].committed <= feed[Node] /\ MaxRows \in Nat
  BY <1>1, Bounds DEF TypeInv, TypeOK, Marks
<1>3. from \in 0 .. MaxRows /\ feed[Node] - from \in Nat /\ (~Full(Node) => from = mark[Node].committed)
  BY <1>2
<1> HIDE DEF from
<1>4. \A i \in 1 .. feed[Node] - from : from + i \in 1 .. MaxRows
  BY <1>2, <1>3
<1>5. rows \in Seq(SUBSET Row) /\ Len(rows) = feed[Node] - from
  BY <1>1, <1>3, <1>4 DEF Row
<1> HIDE DEF rows
<1>6. /\ stage' = [stage EXCEPT ![Node] = rows] /\ pc' = "settle"
      /\ UNCHANGED <<world, mark, types, progress, count, tries, faults>>
  BY DEF Fetch, rows, from
<1>7. TypeOK'
  BY <1>5, <1>6 DEF TypeInv, TypeOK, world, types, progress, Phases, Nodes
<1>8. Control'
  BY <1>1, <1>6 DEF Fetch, TypeInv, Control, world, progress, Kind, Node
<1>9. Marks'
  <2>1. stage'[Node] = rows
    BY <1>1, <1>6 DEF TypeInv, TypeOK
  <2>2. ~Full(Node) => mark[Node].committed + Len(rows) <= feed[Node]
    BY <1>2, <1>3, <1>5
  <2>3. \A v \in Sources : mark[v].committed <= feed[v] /\ mark[v].pending <= feed[v]
    BY DEF TypeInv, Marks
  <2> QED BY <1>6, <2>1, <2>2, <2>3 DEF Marks, world, progress, Full, Node
<1> QED BY <1>7, <1>8, <1>9 DEF TypeInv

LEMMA TypeSettle ==
  ASSUME TypeInv, Settle
  PROVE  TypeInv'
<1>1. Node \in Nodes /\ Node \in Sources /\ Kind(Node) = "source"
  BY NodeHere DEF Settle, TypeInv, Control
<1> DEFINE to == mark[Node].committed + Len(stage[Node])
<1>2. /\ feed[Node] \in 0 .. MaxRows /\ mark[Node].committed \in 0 .. MaxRows
      /\ Len(stage[Node]) \in Nat /\ MaxRows \in Nat
  BY <1>1, Bounds DEF TypeInv, TypeOK
<1>3. ~Full(Node) => to \in 0 .. MaxRows /\ to <= feed[Node]
  <2>1. ~Full(Node) => to <= feed[Node]
    BY DEF Settle, TypeInv, Marks
  <2> QED BY <1>2, <2>1
<1> HIDE DEF to
<1>4. /\ mark' = IF Full(Node) \/ stage[Node] = <<>> THEN mark
                 ELSE [mark EXCEPT ![Node].pending = to]
      /\ pc' = "return"
      /\ UNCHANGED <<world, types, progress, stage, count, tries, faults>>
  BY DEF Settle, to
<1>5. /\ mark' \in [Sources -> [committed : 0 .. MaxRows, pending : 0 .. MaxRows]]
      /\ \A v \in Sources : mark'[v].committed <= feed[v] /\ mark'[v].pending <= feed[v]
  <2>1. mark \in [Sources -> [committed : 0 .. MaxRows, pending : 0 .. MaxRows]]
    BY DEF TypeInv, TypeOK
  <2>2. \A v \in Sources : mark[v].committed <= feed[v] /\ mark[v].pending <= feed[v]
    BY DEF TypeInv, Marks
  <2>3. CASE Full(Node) \/ stage[Node] = <<>>
    BY <1>4, <2>1, <2>2, <2>3
  <2>4. CASE ~(Full(Node) \/ stage[Node] = <<>>)
    <3>1. mark' = [mark EXCEPT ![Node].pending = to] /\ to \in 0 .. MaxRows /\ to <= feed[Node]
      BY <1>3, <1>4, <2>4
    <3>2. mark' \in [Sources -> [committed : 0 .. MaxRows, pending : 0 .. MaxRows]]
      BY <2>1, <3>1
    <3>3. \A v \in Sources : mark'[v].committed = mark[v].committed
                            /\ mark'[v].pending = IF v = Node THEN to ELSE mark[v].pending
      BY <1>1, <2>1, <3>1
    <3> QED BY <2>2, <3>1, <3>2, <3>3
  <2> QED BY <2>3, <2>4
<1>6. TypeOK'
  BY <1>4, <1>5 DEF TypeInv, TypeOK, world, types, progress, Phases, Nodes
<1>7. Control'
  BY <1>1, <1>4 DEF Settle, TypeInv, Control, world, progress, Kind, Node
<1>8. Marks'
  BY <1>4, <1>5 DEF Marks, world
<1> QED BY <1>6, <1>7, <1>8 DEF TypeInv

LEMMA StageRefsType ==
  ASSUME TypeInv, NEW n
  PROVE  /\ stageRefsFor(n) \in Seq(SUBSET Row) /\ Len(stageRefsFor(n)) \in Nat
         /\ DOMAIN stageRefsFor(n) = 1 .. Len(stageRefsFor(n))
<1>1. /\ graph \in Workflows /\ ref \in [Nodes -> Nodes \cup {NoStage}]
      /\ stage \in [Nodes -> Seq(SUBSET Row)]
  BY DEF TypeInv, TypeOK
<1>2. stageRefsFor(n) \in Seq(SUBSET Row)
  BY <1>1, StageRefs
<1> QED BY <1>2, SeqFacts

LEMMA TypePass ==
  ASSUME TypeInv, Pass
  PROVE  TypeInv'
<1>1. Node \in Nodes /\ Kind(Node) = "pipe" /\ stageRefsFor(Node) \in Seq(SUBSET Row)
  BY NodeHere, StageRefsType DEF Pass, TypeInv, Control
<1>2. TypeOK'
  BY <1>1 DEF Pass, TypeInv, TypeOK, world, types, progress, Phases, Nodes
<1>3. Control'
  BY <1>1 DEF Pass, TypeInv, Control, world, progress, Kind, Node
<1>4. Marks'
  BY DEF Pass, TypeInv, Marks, world
<1> QED BY <1>2, <1>3, <1>4 DEF TypeInv

LEMMA TypeSink ==
  ASSUME TypeInv, Kind(Node) = "sink", pc \notin {"rest", "turn"},
         UNCHANGED <<world, kept, progress, stage, tries, faults>>,
         mark' \in [Sources -> [committed : 0 .. MaxRows, pending : 0 .. MaxRows]],
         \A v \in Sources : mark'[v].committed <= feed[v] /\ mark'[v].pending <= feed[v],
         cells' \in [Sinks -> SUBSET (Nat \X Row)], live' \subseteq Sinks, count' \in Nat,
         pc' \in {"append", "commit", "promote", "return"}
  PROVE  TypeInv'
<1>1. TypeOK'
  BY DEF TypeInv, TypeOK, world, progress, Phases, Nodes
<1>2. Control'
  BY DEF TypeInv, Control, world, progress, Kind, Node
<1>3. Marks'
  BY DEF Marks, world
<1> QED BY <1>1, <1>2, <1>3 DEF TypeInv

LEMMA SinkHere ==
  ASSUME TypeInv, pc \in {"append", "commit", "promote"}
  PROVE  /\ Kind(Node) = "sink" /\ Node \in Sinks /\ Node \in Nodes /\ graph \in Workflows
         /\ mark \in [Sources -> [committed : 0 .. MaxRows, pending : 0 .. MaxRows]]
         /\ \A v \in Sources : mark[v].committed <= feed[v] /\ mark[v].pending <= feed[v]
         /\ cells \in [Sinks -> SUBSET (Nat \X Row)] /\ kept \in [Sinks -> SUBSET Row]
         /\ live \subseteq Sinks /\ count \in Nat
<1>1. Kind(Node) = "sink" /\ pc # "rest" /\ at <= Len(order)
  BY DEF TypeInv, Control
<1>2. Node \in Sinks /\ Node \in Nodes
  BY <1>1, NodeHere
<1> QED BY <1>1, <1>2 DEF TypeInv, TypeOK, Marks

LEMMA TypeAppendBatch ==
  ASSUME TypeInv, AppendBatch
  PROVE  TypeInv'
<1> DEFINE number == count + 1
           refs == stageRefsFor(Node)
<1>1. /\ Kind(Node) = "sink" /\ Node \in Sinks /\ cells \in [Sinks -> SUBSET (Nat \X Row)]
      /\ count \in Nat /\ live \subseteq Sinks
      /\ mark \in [Sources -> [committed : 0 .. MaxRows, pending : 0 .. MaxRows]]
      /\ \A v \in Sources : mark[v].committed <= feed[v] /\ mark[v].pending <= feed[v]
  BY SinkHere DEF AppendBatch
<1>2. number \in 1 .. Len(refs) /\ number \in Nat /\ refs[number] \in SUBSET Row
  <2>1. refs \in Seq(SUBSET Row) /\ Len(refs) \in Nat /\ count < Len(refs)
    BY StageRefsType DEF AppendBatch
  <2> HIDE DEF refs
  <2> QED BY <1>1, <2>1
<1> DEFINE new == {c \in cells[Node] : c[1] # number} \cup {<<number, r>> : r \in refs[number]}
<1>3. new \in SUBSET (Nat \X Row)
  <2> HIDE DEF refs, number
  <2> QED BY <1>1, <1>2
<1>4. /\ cells' = [cells EXCEPT ![Node] = new] /\ count' = count + 1
      /\ UNCHANGED <<world, mark, kept, live, pc, progress, stage, tries, faults>>
  BY DEF AppendBatch
<1> HIDE DEF new
<1>5. cells' \in [Sinks -> SUBSET (Nat \X Row)] /\ count' \in Nat
  BY <1>1, <1>3, <1>4
<1>6. pc = "append"
  BY DEF AppendBatch
<1> QED BY <1>1, <1>4, <1>5, <1>6, TypeSink DEF world, progress

LEMMA TypeCarryRest ==
  ASSUME TypeInv, CarryRest
  PROVE  TypeInv'
<1>1. pc = "append"
  BY DEF CarryRest, Appended
<1>2. /\ Kind(Node) = "sink" /\ Node \in Sinks /\ cells \in [Sinks -> SUBSET (Nat \X Row)]
      /\ kept \in [Sinks -> SUBSET Row] /\ count \in Nat /\ live \subseteq Sinks
      /\ mark \in [Sources -> [committed : 0 .. MaxRows, pending : 0 .. MaxRows]]
      /\ \A v \in Sources : mark[v].committed <= feed[v] /\ mark[v].pending <= feed[v]
  BY <1>1, SinkHere
<1> DEFINE own == {c \in cells[Node] : c[1] # 0}
           new == own \cup {<<0, r>> : r \in kept[Node] \ {c[2] : c \in own}}
<1>3. new \in SUBSET (Nat \X Row)
  BY <1>2
<1>4. /\ cells' = [cells EXCEPT ![Node] = new] /\ pc' = "commit"
      /\ UNCHANGED <<world, mark, kept, live, progress, stage, count, tries, faults>>
  BY DEF CarryRest
<1> HIDE DEF new
<1>5. cells' \in [Sinks -> SUBSET (Nat \X Row)]
  BY <1>2, <1>3, <1>4
<1> QED BY <1>1, <1>2, <1>4, <1>5, TypeSink DEF world, progress

LEMMA TypeFullLoad ==
  ASSUME TypeInv, FullLoad
  PROVE  TypeInv'
<1>1. pc = "append" /\ pc' = "commit" /\ UNCHANGED <<world, mark, types, progress, stage, count, tries, faults>>
  BY DEF FullLoad, Appended
<1> QED BY <1>1, SinkHere, TypeSink DEF world, progress, types

LEMMA TypeCommit ==
  ASSUME TypeInv, Commit
  PROVE  TypeInv'
<1>1. /\ pc = "commit" /\ pc' = "promote" /\ live' = live \cup {Node} /\ count' = 0
      /\ UNCHANGED <<world, mark, kept, cells, progress, stage, tries, faults>>
  BY DEF Commit
<1> QED BY <1>1, SinkHere, TypeSink DEF world, progress

LEMMA TypePromote ==
  ASSUME TypeInv, Promote
  PROVE  TypeInv'
<1> DEFINE v == graph.nodes[count + 1]
<1>1. /\ pc = "promote" /\ count' = count + 1
      /\ mark' = IF v \in Sources /\ mark[v].pending # 0
                  THEN [mark EXCEPT ![v] = [committed |-> @.pending, pending |-> 0]]
                  ELSE mark
      /\ UNCHANGED <<world, types, pc, progress, stage, tries, faults>>
  BY DEF Promote
<1> HIDE DEF v
<1>2. /\ mark \in [Sources -> [committed : 0 .. MaxRows, pending : 0 .. MaxRows]]
      /\ \A u \in Sources : mark[u].committed <= feed[u] /\ mark[u].pending <= feed[u]
      /\ feed \in [Sources -> 0 .. MaxRows] /\ MaxRows \in Nat
  BY <1>1, SinkHere, Bounds DEF TypeInv, TypeOK
<1>3. /\ mark' \in [Sources -> [committed : 0 .. MaxRows, pending : 0 .. MaxRows]]
      /\ \A u \in Sources : mark'[u].committed <= feed[u] /\ mark'[u].pending <= feed[u]
  <2>1. CASE v \in Sources /\ mark[v].pending # 0
    <3>1. mark' = [mark EXCEPT ![v] = [committed |-> mark[v].pending, pending |-> 0]]
      BY <1>1, <2>1
    <3>2. mark[v].pending \in 0 .. MaxRows /\ 0 \in 0 .. MaxRows
      BY <1>2, <2>1
    <3>3. [committed |-> mark[v].pending, pending |-> 0] \in [committed : 0 .. MaxRows, pending : 0 .. MaxRows]
      BY <3>2
    <3>4. mark' \in [Sources -> [committed : 0 .. MaxRows, pending : 0 .. MaxRows]]
      BY <1>2, <3>1, <3>3
    <3>5. ASSUME NEW u \in Sources PROVE mark'[u].committed <= feed[u] /\ mark'[u].pending <= feed[u]
      BY <1>2, <3>1
    <3> QED BY <3>4, <3>5
  <2>2. CASE ~(v \in Sources /\ mark[v].pending # 0)
    BY <1>1, <1>2, <2>2
  <2> QED BY <2>1, <2>2
<1> QED BY <1>1, <1>3, SinkHere, TypeSink DEF world, progress, types

LEMMA TypePromoted ==
  ASSUME TypeInv, Promoted
  PROVE  TypeInv'
<1>1. pc = "promote" /\ pc' = "return" /\ UNCHANGED <<world, mark, types, progress, stage, count, tries, faults>>
  BY DEF Promoted
<1> QED BY <1>1, SinkHere, TypeSink DEF world, progress, types

LEMMA TypeAttemptFails ==
  ASSUME TypeInv, Working, AttemptFails, UNCHANGED <<world, mark, types, order, ref, stage>>,
         faults' \in 0 .. MaxFaults
  PROVE  TypeInv'
<1>1. pc # "rest" /\ pc # "turn" /\ at <= Len(order)
  BY DEF Working, TypeInv, Control
<1>2. /\ Entry(Node) \in {"fetch", "branch", "pass", "append"} /\ Kind(Node) \in Kinds
      /\ Kind(Node) = "source" => Entry(Node) = "fetch"
      /\ Kind(Node) = "if" => Entry(Node) = "branch"
      /\ Kind(Node) = "pipe" => Entry(Node) = "pass"
      /\ Kind(Node) = "sink" => Entry(Node) = "append"
  BY <1>1, NodeHere
<1>3. outcome' \in [Nodes -> Outcomes] /\ count' \in Nat /\ tries' \in 0 .. Retries /\ at' = at
  BY Bounds DEF AttemptFails, TypeInv, TypeOK, Outcomes
<1>4. pc' \in {"fetch", "branch", "pass", "append", "finish"} /\ (pc' # "finish" => pc' = Entry(Node))
  BY <1>2 DEF AttemptFails
<1>5. TypeOK'
  BY <1>3, <1>4 DEF TypeInv, TypeOK, world, types, Nodes, Phases
<1>6. Control'
  BY <1>1, <1>2, <1>3, <1>4 DEF TypeInv, Control, world, Kind, Node, Kinds
<1>7. Marks'
  BY <1>4 DEF TypeInv, Marks, world
<1> QED BY <1>5, <1>6, <1>7 DEF TypeInv

LEMMA TypeEndRun ==
  ASSUME TypeInv, EndRun, faults' \in 0 .. MaxFaults
  PROVE  TypeInv'
<1>1. \A k \in Sinks : View(k) \in SUBSET Row
  BY DEF TypeInv, TypeOK, View
<1>2. graph \in Workflows /\ Len(graph.nodes) \in Nat
  BY GraphFacts DEF TypeInv, TypeOK
<1>3. TypeOK'
  <2>1. /\ kept' \in [Sinks -> SUBSET Row] /\ cells' \in [Sinks -> SUBSET (Nat \X Row)]
        /\ outcome' \in [Nodes -> Outcomes] /\ ref' \in [Nodes -> Nodes \cup {NoStage}]
        /\ stage' \in [Nodes -> Seq(SUBSET Row)]
    BY <1>1 DEF EndRun, Outcomes
  <2>2. at' \in 1 .. Len(graph.nodes) + 1 /\ order' \in Seq(Nodes)
    BY <1>2 DEF EndRun
  <2> QED BY <2>1, <2>2, Bounds DEF EndRun, TypeInv, TypeOK, world, Nodes, Phases
<1>4. Control'
  BY DEF EndRun, Control
<1>5. Marks'
  BY DEF EndRun, TypeInv, Marks, world
<1> QED BY <1>3, <1>4, <1>5 DEF TypeInv

LEMMA TypeStutters ==
  ASSUME TypeInv, UNCHANGED vars
  PROVE  TypeInv'
<1>1. TypeOK'
  BY DEF vars, TypeInv, TypeOK, Nodes
<1>2. Control'
  BY DEF vars, TypeInv, Control, Kind, Node
<1>3. Marks'
  BY DEF vars, TypeInv, Marks, Full, Node
<1> QED BY <1>1, <1>2, <1>3 DEF TypeInv

LEMMA TypeMoves == TypeInv /\ [Next]_vars => TypeInv'
<1> SUFFICES ASSUME TypeInv, [Next]_vars PROVE TypeInv'
  OBVIOUS
<1>1. ASSUME NEW v \in Sources, Arrive(v) PROVE TypeInv'
  BY <1>1, TypeArrive
<1>2. CASE StartRun
  BY <1>2, TypeStartRun
<1>3. CASE Advance
  <2>1. CASE SkipUnlessLive \/ Dispatch \/ Return
    BY <2>1, TypeSkip, TypeDispatch, TypeReturn
  <2>2. CASE Fetch \/ Settle \/ Branch \/ Pass
    BY <2>2, TypeFetch, TypeSettle, TypeBranch, TypePass
  <2>3. CASE AppendBatch \/ CarryRest \/ FullLoad
    BY <2>3, TypeAppendBatch, TypeCarryRest, TypeFullLoad
  <2>4. CASE Commit \/ Promote \/ Promoted
    BY <2>4, TypeCommit, TypePromote, TypePromoted
  <2>5. CASE EmptyRefused
    <3>1. Working /\ AttemptFails /\ UNCHANGED <<world, mark, types, order, ref, stage>>
      BY <2>5 DEF EmptyRefused, NothingReached, Appended, Working
    <3>2. faults' \in 0 .. MaxFaults
      BY <2>5 DEF EmptyRefused, TypeInv, TypeOK
    <3> QED BY <3>1, <3>2, TypeAttemptFails
  <2>6. CASE Finish
    <3>1. EndRun /\ faults' \in 0 .. MaxFaults
      BY <2>6 DEF Finish, TypeInv, TypeOK
    <3> QED BY <3>1, TypeEndRun
  <2> QED BY <1>3, <2>1, <2>2, <2>3, <2>4, <2>5, <2>6 DEF Advance
<1>4. Fault => faults' \in 0 .. MaxFaults
  BY Bounds DEF Fault, TypeInv, TypeOK
<1>5. CASE Crash
  BY <1>4, <1>5, TypeAttemptFails DEF Crash
<1>6. CASE Cancel
  BY <1>4, <1>6, TypeEndRun DEF Cancel
<1>7. CASE UNCHANGED vars
  BY <1>7, TypeStutters
<1> QED BY <1>1, <1>2, <1>3, <1>5, <1>6, <1>7 DEF Next

\* In every run of every valid workflow, through failures, retries and cancellations, the
\* variables keep their types (what workflow-runner.service.ts holds of a run).
THEOREM RunTypeCorrect == Spec => []TypeOK
<1>1. TypeInv => TypeOK
  BY DEF TypeInv
<1> QED BY <1>1, TypeStarts, TypeMoves, PTL DEF Spec

-----------------------------------------------------------------------------
(* What the nodes behind the run have left. *)

\* What a node hands on: nothing if it was skipped or is a sink, an if what it was handed.
HandsOn(n) ==
  IF ~Ran(n) \/ Kind(n) = "sink" THEN NoStage
  ELSE IF Kind(n) = "if" THEN ref[Inputs(n)[1]] ELSE n

SettledNode(n) ==
  /\ Ran(n) <=> workflowNodeRuns(n)
  /\ Ran(n) => (Kind(n) = "if" <=> outcome[n] \in Branches)
  /\ ref[n] = HandsOn(n)
  /\ ref[n] \in Past \cup {NoStage}
  /\ Ran(n) /\ Kind(n) = "pipe" => stage[n] = stageRefsFor(n)

Settled ==
  /\ pc = "rest" => \A n \in Nodes : ref[n] = NoStage
  /\ Running =>
       /\ \A n \in Past : SettledNode(n)
       /\ \A n \in Nodes \ Past : ref[n] = NoStage
       /\ Working => workflowNodeRuns(Node)
       /\ pc = "return" /\ Kind(Node) = "pipe" => stage[Node] = stageRefsFor(Node)

LEMMA PastFacts ==
  ASSUME TypeInv, pc # "rest"
  PROVE  /\ Past \subseteq Nodes /\ graph \in Workflows
         /\ \A n \in Past : Feeders(graph, n) \subseteq Past
         /\ at <= Len(order) => Node \in Nodes /\ Node \notin Past /\ Feeders(graph, Node) \subseteq Past
<1>1. /\ graph \in Workflows /\ order \in Seq(Nodes) /\ at \in 1 .. Len(graph.nodes) + 1
  BY DEF TypeInv, TypeOK
<1>2. /\ Len(order) = Len(graph.nodes)
      /\ \A i, j \in 1 .. Len(order) : order[i] = order[j] => i = j
      /\ \A i \in 1 .. Len(order) : \A f \in Feeders(graph, order[i]) : \E j \in 1 .. i - 1 : order[j] = f
  BY DEF TypeInv, Control, IsPlan
<1>3. Len(order) \in Nat /\ at \in Nat /\ at <= Len(order) + 1 /\ 1 <= at
  BY <1>1, <1>2, GraphFacts
<1>4. \A i \in 1 .. at - 1 : i \in 1 .. Len(order) /\ order[i] \in Nodes
  BY <1>1, <1>3
<1>5. \A i \in 1 .. at - 1 : \A j \in 1 .. i - 1 : j \in 1 .. at - 1
  BY <1>3
<1>6. ASSUME NEW n \in Past PROVE Feeders(graph, n) \subseteq Past
  <2>1. PICK i \in 1 .. at - 1 : order[i] = n
    BY DEF Past
  <2>2. \A f \in Feeders(graph, n) : \E j \in 1 .. i - 1 : order[j] = f
    BY <1>2, <1>4, <2>1
  <2> QED BY <1>5, <2>2 DEF Past
<1>7. ASSUME at <= Len(order) PROVE Node \in Nodes /\ Node \notin Past /\ Feeders(graph, Node) \subseteq Past
  <2>1. at \in 1 .. Len(order) /\ Node = order[at]
    BY <1>3, <1>7 DEF Node
  <2>2. Node \in Nodes
    BY <1>1, <2>1
  <2>3. Node \notin Past
    <3>1. \A i \in 1 .. at - 1 : i # at
      BY <1>3
    <3> QED BY <1>2, <1>4, <2>1, <3>1 DEF Past
  <2>4. Feeders(graph, Node) \subseteq Past
    BY <1>2, <2>1 DEF Past
  <2> QED BY <2>2, <2>3, <2>4
<1>8. Past \subseteq Nodes
  BY <1>4 DEF Past
<1> QED BY <1>1, <1>6, <1>7, <1>8

LEMMA PastMoves ==
  ASSUME TypeInv, pc # "rest", order' = order
  PROVE  /\ at' = at => Past' = Past
         /\ at' = at + 1 => Past' = Past \cup {Node}
<1>1. at \in Nat /\ 1 <= at
  <2>1. graph \in Workflows /\ at \in 1 .. Len(graph.nodes) + 1
    BY DEF TypeInv, TypeOK
  <2> QED BY <2>1, GraphFacts
<1>2. \A i \in 1 .. at : i \in 1 .. at - 1 \/ i = at
  BY <1>1
<1>3. \A i \in 1 .. at - 1 : i \in 1 .. at
  BY <1>1
<1>4. at \in 1 .. at /\ (at + 1) - 1 = at
  BY <1>1
<1>5. at' = at + 1 => Past' = {order[i] : i \in 1 .. at}
  BY <1>4 DEF Past
<1>6. {order[i] : i \in 1 .. at} = Past \cup {Node}
  BY <1>2, <1>3, <1>4 DEF Past, Node
<1> QED BY <1>5, <1>6 DEF Past

LEMMA SameRuns ==
  ASSUME NEW n, graph' = graph, \A f \in Feeders(graph, n) : outcome'[f] = outcome[f]
  PROVE  workflowNodeRuns(n)' <=> workflowNodeRuns(n)
<1>1. \A e \in WiresInto(n) : e.from \in Feeders(graph, n)
  BY DEF WiresInto, Feeders
<1>2. WiresInto(n)' = WiresInto(n)
  BY DEF WiresInto
<1> QED BY <1>1, <1>2 DEF workflowNodeRuns, Ran

LEMMA SameRefs ==
  ASSUME NEW n, graph \in Workflows, graph' = graph,
         \A f \in Feeders(graph, n) : Staged(f)' = Staged(f)
  PROVE  stageRefsFor(n)' = stageRefsFor(n)
<1>1. Inputs(n)' = Inputs(n)
  BY DEF Inputs
<1>2. \A i \in DOMAIN Inputs(n) : Inputs(n)[i] \in Feeders(graph, n)
  BY InputsFacts
<1>3. Incoming(n)' = Incoming(n)
  BY <1>1, <1>2 DEF Incoming, Staged
<1>4. stageRefsFor(n)' = FlattenSeq(Incoming(n)')
  BY DEF stageRefsFor, Incoming
<1>5. stageRefsFor(n) = FlattenSeq(Incoming(n))
  BY DEF stageRefsFor, Incoming
<1> QED BY <1>3, <1>4, <1>5

\* A step that leaves the nodes behind the run as they are.
Frame ==
  /\ graph' = graph /\ order' = order /\ Past \subseteq Past'
  /\ \A n \in Past : outcome'[n] = outcome[n] /\ ref'[n] = ref[n] /\ stage'[n] = stage[n]

LEMMA FrameFacts ==
  ASSUME TypeInv, Settled, Running, Frame
  PROVE  \A n : Feeders(graph, n) \subseteq Past =>
            /\ workflowNodeRuns(n)' <=> workflowNodeRuns(n)
            /\ stageRefsFor(n)' = stageRefsFor(n)
<1>1. SUFFICES ASSUME NEW n, Feeders(graph, n) \subseteq Past
               PROVE  /\ workflowNodeRuns(n)' <=> workflowNodeRuns(n)
                      /\ stageRefsFor(n)' = stageRefsFor(n)
  OBVIOUS
<1>2. graph \in Workflows /\ graph' = graph
  BY DEF TypeInv, TypeOK, Frame
<1>3. workflowNodeRuns(n)' <=> workflowNodeRuns(n)
  BY <1>1, SameRuns DEF Frame
<1>4. \A f \in Feeders(graph, n) : Staged(f)' = Staged(f)
  <2>1. SUFFICES ASSUME NEW f \in Feeders(graph, n) PROVE Staged(f)' = Staged(f)
    OBVIOUS
  <2>2. f \in Past /\ ref'[f] = ref[f]
    BY <1>1 DEF Frame
  <2>3. ref[f] \in Past \cup {NoStage}
    BY <2>2 DEF Settled, SettledNode
  <2>4. ref[f] # NoStage => stage'[ref[f]] = stage[ref[f]]
    BY <2>3 DEF Frame
  <2> QED BY <2>2, <2>4 DEF Staged
<1> QED BY <1>2, <1>3, <1>4, SameRefs

LEMMA FrameSettled ==
  ASSUME TypeInv, Settled, Running, Frame
  PROVE  \A n \in Past : SettledNode(n)'
<1>1. SUFFICES ASSUME NEW n \in Past PROVE SettledNode(n)'
  OBVIOUS
<1>2. graph \in Workflows /\ Feeders(graph, n) \subseteq Past /\ n \in Nodes /\ graph' = graph
  BY PastFacts DEF Running, Frame
<1>3. (workflowNodeRuns(n)' <=> workflowNodeRuns(n)) /\ stageRefsFor(n)' = stageRefsFor(n)
  BY <1>2, FrameFacts
<1>4. outcome'[n] = outcome[n] /\ ref'[n] = ref[n] /\ stage'[n] = stage[n] /\ Past \subseteq Past'
  BY <1>1 DEF Frame
<1>5. SettledNode(n)
  BY <1>1 DEF Settled
<1>6. (Ran(n)' <=> Ran(n)) /\ Kind(n)' = Kind(n)
  BY <1>2, <1>4 DEF Ran, Kind
<1>7. HandsOn(n)' = HandsOn(n)
  <2>1. Inputs(n)' = Inputs(n)
    BY <1>2 DEF Inputs
  <2>2. Kind(n) = "if" => ref'[Inputs(n)[1]] = ref[Inputs(n)[1]]
    <3>1. ASSUME Kind(n) = "if" PROVE Inputs(n)[1] \in Past
      <4>1. PICK f : f \in Feeders(graph, n)
        BY <1>2, <3>1, NodeFacts DEF Kind, Nodes
      <4>2. 1 \in 1 .. Len(Inputs(n)) /\ Inputs(n)[1] \in Feeders(graph, n)
        BY <1>2, <4>1, InputsFacts
      <4> QED BY <1>2, <4>2
    <3> QED BY <3>1 DEF Frame
  <2> QED BY <1>4, <1>6, <2>1, <2>2 DEF HandsOn
<1> QED BY <1>3, <1>4, <1>5, <1>6, <1>7 DEF SettledNode

LEMMA SettledStarts == Init => Settled
BY DEF Init, Settled, Running

\* A step that leaves the run at its node.
LEMMA SettledStays ==
  ASSUME TypeInv, Settled, Running, graph' = graph, order' = order, at' = at,
         outcome' = outcome, ref' = ref, \A n \in Past : stage'[n] = stage[n],
         pc' # "rest", Working' => workflowNodeRuns(Node),
         pc' = "return" /\ Kind(Node) = "pipe" => at <= Len(order) /\ stage'[Node] = stageRefsFor(Node)
  PROVE  Settled'
<1>1. Past' = Past /\ Node' = Node
  BY PastMoves DEF Running, Node
<1>2. Frame
  BY <1>1 DEF Frame
<1>3. \A n \in Past' : SettledNode(n)'
  BY <1>1, <1>2, FrameSettled
<1>4. \A n \in Nodes' \ Past' : ref'[n] = NoStage
  BY <1>1 DEF Settled, Nodes
<1>5. Working' => workflowNodeRuns(Node)'
  <2>1. WiresInto(Node)' = WiresInto(Node)
    BY <1>1 DEF WiresInto
  <2>2. workflowNodeRuns(Node)' <=> workflowNodeRuns(Node)
    BY <2>1 DEF workflowNodeRuns, Ran
  <2> QED BY <2>2
<1>6. pc' = "return" /\ Kind(Node)' = "pipe" => stage'[Node'] = stageRefsFor(Node)'
  <2>1. SUFFICES ASSUME pc' = "return", Kind(Node)' = "pipe" PROVE stage'[Node'] = stageRefsFor(Node)'
    OBVIOUS
  <2>2. Kind(Node)' = Kind(Node)
    BY <1>1 DEF Kind
  <2>3. at <= Len(order) /\ stage'[Node] = stageRefsFor(Node)
    BY <2>1, <2>2
  <2>4. PICK n : n = Node
    OBVIOUS
  <2>5. Feeders(graph, n) \subseteq Past
    BY <2>3, <2>4, PastFacts DEF Running
  <2>6. stageRefsFor(n)' = stageRefsFor(n)
    BY <1>2, <2>5, FrameFacts
  <2>7. n = Node'
    BY <1>1, <2>4
  <2>8. Inputs(Node)' = Inputs(n)'
    BY <2>7 DEF Inputs
  <2>9. stageRefsFor(Node)' = stageRefsFor(n)'
    BY <2>8 DEF stageRefsFor, Staged
  <2> QED BY <1>1, <2>3, <2>4, <2>6, <2>9
<1> QED BY <1>3, <1>4, <1>5, <1>6 DEF Settled

\* A step that settles the node the run is at.
LEMMA SettledMoves ==
  ASSUME TypeInv, Settled, Running, graph' = graph, order' = order, at <= Len(order), at' = at + 1,
         pc' = "turn", stage' = stage, NEW n, n = Node,
         \A m \in Nodes \ {n} : outcome'[m] = outcome[m] /\ ref'[m] = ref[m],
         Past' = Past \cup {n} => SettledNode(n)'
  PROVE  Settled'
<1>1. Past' = Past \cup {n} /\ n \in Nodes /\ n \notin Past /\ Past \subseteq Nodes
  BY PastMoves, PastFacts DEF Running
<1>2. Frame
  BY <1>1 DEF Frame
<1>3. \A m \in Past' : SettledNode(m)'
  BY <1>1, <1>2, FrameSettled
<1>4. \A m \in Nodes' \ Past' : ref'[m] = NoStage
  BY <1>1 DEF Settled, Nodes
<1> QED BY <1>3, <1>4 DEF Settled, Working

LEMMA SettledSkip ==
  ASSUME TypeInv, Settled, SkipUnlessLive
  PROVE  Settled'
<1>1. /\ pc = "turn" /\ at <= Len(order) /\ ~workflowNodeRuns(Node) /\ Running
      /\ outcome' = [outcome EXCEPT ![Node] = "skipped"] /\ at' = at + 1
      /\ graph' = graph /\ order' = order /\ ref' = ref /\ stage' = stage /\ pc' = pc
  BY DEF SkipUnlessLive, Running, world
<1>2. PICK n : n = Node
  OBVIOUS
<1>3. n \in Nodes /\ n \notin Past /\ Past \subseteq Nodes /\ Feeders(graph, n) \subseteq Past
      /\ graph \in Workflows
  BY <1>1, <1>2, PastFacts
<1>4. outcome'[n] = "skipped" /\ \A m \in Nodes \ {n} : outcome'[m] = outcome[m]
  BY <1>1, <1>2, <1>3 DEF TypeInv, TypeOK
<1>5. ASSUME Past' = Past \cup {n} PROVE SettledNode(n)'
  <2>1. Frame
    BY <1>1, <1>3, <1>4, <1>5 DEF Frame
  <2>2. ~workflowNodeRuns(n)'
    BY <1>1, <1>2, <1>3, <2>1, FrameFacts
  <2>3. ~Ran(n)'
    BY <1>4 DEF Ran, Branches
  <2>4. ref'[n] = NoStage
    BY <1>1, <1>3 DEF Settled
  <2> QED BY <2>2, <2>3, <2>4 DEF SettledNode, HandsOn
<1> QED BY <1>1, <1>2, <1>4, <1>5, SettledMoves

LEMMA SettledReturn ==
  ASSUME TypeInv, Settled, Return
  PROVE  Settled'
<1>1. /\ pc = "return" /\ Running /\ Working /\ at <= Len(order) /\ pc # "rest"
      /\ outcome' = [outcome EXCEPT ![Node] = "done"] /\ at' = at + 1
      /\ ref' = [ref EXCEPT ![Node] = IF Kind(Node) = "sink" THEN NoStage ELSE Node]
      /\ graph' = graph /\ order' = order /\ stage' = stage /\ pc' = "turn"
      /\ Kind(Node) # "if"
  BY DEF Return, Remember, Running, Working, world, TypeInv, Control
<1>2. PICK n : n = Node
  OBVIOUS
<1>3. n \in Nodes /\ n \notin Past /\ Past \subseteq Nodes /\ Feeders(graph, n) \subseteq Past
      /\ graph \in Workflows
  BY <1>1, <1>2, PastFacts
<1>4. /\ outcome'[n] = "done" /\ ref'[n] = IF Kind(n) = "sink" THEN NoStage ELSE n
      /\ \A m \in Nodes \ {n} : outcome'[m] = outcome[m] /\ ref'[m] = ref[m]
  BY <1>1, <1>2, <1>3 DEF TypeInv, TypeOK
<1>5. ASSUME Past' = Past \cup {n} PROVE SettledNode(n)'
  <2>1. Frame
    BY <1>1, <1>3, <1>4, <1>5 DEF Frame
  <2>2. workflowNodeRuns(n)' /\ stageRefsFor(n)' = stageRefsFor(n)
    BY <1>1, <1>2, <1>3, <2>1, FrameFacts DEF Settled
  <2>3. Ran(n)' /\ Kind(n)' = Kind(n) /\ Kind(n) # "if"
    BY <1>1, <1>2, <1>4 DEF Ran, Kind
  <2>4. outcome'[n] \notin Branches
    BY <1>4 DEF Branches
  <2>5. ref'[n] = HandsOn(n)'
    BY <1>4, <2>3 DEF HandsOn
  <2>6. Kind(n) = "pipe" => stage'[n] = stageRefsFor(n)'
    BY <1>1, <1>2, <2>2 DEF Settled
  <2>7. ref'[n] \in Past' \cup {NoStage}
    BY <1>4, <1>5
  <2> QED BY <2>2, <2>3, <2>4, <2>5, <2>6, <2>7 DEF SettledNode
<1> QED BY <1>1, <1>2, <1>4, <1>5, SettledMoves

LEMMA SettledBranch ==
  ASSUME TypeInv, Settled, Branch
  PROVE  Settled'
<1>1. PICK way \in Branches : Remember(Node, way, ref[Inputs(Node)[1]])
  BY DEF Branch
<1>2. /\ pc = "branch" /\ Running /\ Working /\ at <= Len(order) /\ pc # "rest"
      /\ outcome' = [outcome EXCEPT ![Node] = way] /\ at' = at + 1
      /\ ref' = [ref EXCEPT ![Node] = ref[Inputs(Node)[1]]]
      /\ graph' = graph /\ order' = order /\ stage' = stage /\ pc' = "turn"
      /\ Kind(Node) = "if"
  BY <1>1 DEF Branch, Remember, Running, Working, world, TypeInv, Control
<1>3. PICK n : n = Node
  OBVIOUS
<1>4. n \in Nodes /\ n \notin Past /\ Past \subseteq Nodes /\ Feeders(graph, n) \subseteq Past
      /\ graph \in Workflows
  BY <1>2, <1>3, PastFacts
<1>5. /\ outcome'[n] = way /\ ref'[n] = ref[Inputs(n)[1]]
      /\ \A m \in Nodes \ {n} : outcome'[m] = outcome[m] /\ ref'[m] = ref[m]
  BY <1>2, <1>3, <1>4 DEF TypeInv, TypeOK
<1>6. Inputs(n)[1] \in Past
  <2>1. PICK f : f \in Feeders(graph, n)
    BY <1>2, <1>3, <1>4, NodeFacts DEF Kind, Nodes
  <2>2. 1 \in 1 .. Len(Inputs(n)) /\ Inputs(n)[1] \in Feeders(graph, n)
    BY <1>4, <2>1, InputsFacts
  <2> QED BY <1>4, <2>2
<1>7. ASSUME Past' = Past \cup {n} PROVE SettledNode(n)'
  <2>1. Frame
    BY <1>2, <1>4, <1>5, <1>7 DEF Frame
  <2>2. workflowNodeRuns(n)'
    BY <1>2, <1>3, <1>4, <2>1, FrameFacts DEF Settled
  <2>3. Ran(n)' /\ Kind(n)' = Kind(n) /\ Kind(n) = "if" /\ outcome'[n] \in Branches
    BY <1>2, <1>3, <1>5 DEF Ran, Kind
  <2>4. ref'[n] = HandsOn(n)'
    <3>1. Inputs(n)' = Inputs(n)
      BY <1>2 DEF Inputs
    <3>2. ref'[Inputs(n)[1]] = ref[Inputs(n)[1]]
      BY <1>4, <1>5, <1>6
    <3> QED BY <1>5, <2>3, <3>1, <3>2 DEF HandsOn
  <2>5. ref'[n] \in Past' \cup {NoStage}
    BY <1>2, <1>5, <1>6, <1>7 DEF Settled, SettledNode
  <2> QED BY <2>2, <2>3, <2>4, <2>5 DEF SettledNode
<1> QED BY <1>2, <1>3, <1>5, <1>7, SettledMoves

LEMMA SettledRests == ASSUME TypeInv, Settled, EndRun PROVE Settled'
BY DEF EndRun, Settled, Running, Nodes, world

LEMMA SettledFails ==
  ASSUME TypeInv, Settled, Working, AttemptFails, UNCHANGED <<world, mark, types, order, ref, stage>>
  PROVE  Settled'
<1>1. CASE tries < Retries
  <2>1. /\ graph' = graph /\ order' = order /\ at' = at /\ outcome' = outcome /\ ref' = ref
        /\ stage' = stage /\ pc' = Entry(Node)
    BY <1>1 DEF AttemptFails, world
  <2>2. Running /\ workflowNodeRuns(Node) /\ at <= Len(order) /\ pc # "rest"
    BY DEF Working, Running, Settled, TypeInv, Control
  <2>3. pc' # "rest" /\ pc' # "return"
    BY <2>1, <2>2, NodeHere
  <2> QED BY <2>1, <2>2, <2>3, SettledStays
<1>2. CASE ~(tries < Retries)
  <2>1. pc' = "finish"
    BY <1>2 DEF AttemptFails
  <2> QED BY <2>1 DEF Settled, Running
<1> QED BY <1>1, <1>2

LEMMA SettledMovesOn == TypeInv /\ Settled /\ [Next]_vars => Settled'
<1> SUFFICES ASSUME TypeInv, Settled, [Next]_vars PROVE Settled'
  OBVIOUS
<1>1. ASSUME graph' = graph, order' = order, at' = at, outcome' = outcome, ref' = ref,
             pc' = pc, stage' = stage
      PROVE  Settled'
  <2>1. CASE Running
    <3>1. Working' => workflowNodeRuns(Node)
      BY <1>1, <2>1 DEF Settled, Working
    <3>2. pc' = "return" /\ Kind(Node) = "pipe" => at <= Len(order) /\ stage'[Node] = stageRefsFor(Node)
      BY <1>1, <2>1 DEF Settled, TypeInv, Control
    <3> QED BY <1>1, <2>1, <3>1, <3>2, SettledStays DEF Running
  <2>2. CASE ~Running
    BY <1>1, <2>2 DEF Running, Settled, Nodes
  <2> QED BY <2>1, <2>2
<1>2. ASSUME NEW v \in Sources, Arrive(v) PROVE Settled'
  BY <1>1, <1>2 DEF Arrive, progress
<1>3. CASE StartRun
  <2>1. /\ graph' = graph /\ at' = 1 /\ ref' = ref /\ pc' = "turn" /\ \A n \in Nodes : ref[n] = NoStage
    BY <1>3 DEF StartRun, world, TypeInv, Control, Settled
  <2>2. Past' = {}
    BY <2>1 DEF Past
  <2> QED BY <2>1, <2>2 DEF Settled, Nodes, Working
<1>4. CASE Advance
  <2>1. CASE SkipUnlessLive \/ Return \/ Branch
    BY <2>1, SettledSkip, SettledReturn, SettledBranch
  <2>2. CASE Dispatch
    <3>1. /\ graph' = graph /\ order' = order /\ at' = at /\ outcome' = outcome /\ ref' = ref /\ stage' = stage
          /\ pc = "turn" /\ workflowNodeRuns(Node) /\ pc' = Entry(Node) /\ at <= Len(order) /\ Running
      BY <2>2 DEF Dispatch, world, progress, Running
    <3>2. pc' # "rest" /\ pc' # "return"
      BY <3>1, NodeHere
    <3> QED BY <3>1, <3>2, SettledStays
  <2>3. CASE Fetch \/ Pass
    <3>1. /\ graph' = graph /\ order' = order /\ at' = at /\ outcome' = outcome /\ ref' = ref
          /\ pc \in {"fetch", "pass"} /\ pc' \in {"settle", "return"} /\ at <= Len(order)
          /\ Running /\ Working /\ workflowNodeRuns(Node)
      BY <2>3 DEF Fetch, Pass, world, progress, Running, Working, TypeInv, Control, Settled
    <3>2. Node \in Nodes /\ Node \notin Past /\ Past \subseteq Nodes
      BY <3>1, PastFacts
    <3>3. \A n \in Past : stage'[n] = stage[n]
      <4>1. stage \in [Nodes -> Seq(SUBSET Row)]
        BY DEF TypeInv, TypeOK
      <4> QED BY <2>3, <3>2, <4>1 DEF Fetch, Pass
    <3>4. pc' = "return" => stage'[Node] = stageRefsFor(Node)
      <4>1. stage \in [Nodes -> Seq(SUBSET Row)]
        BY DEF TypeInv, TypeOK
      <4> QED BY <2>3, <3>2, <4>1 DEF Fetch, Pass
    <3> QED BY <3>1, <3>3, <3>4, SettledStays
  <2>4. CASE Settle \/ AppendBatch \/ CarryRest \/ FullLoad \/ Commit \/ Promote \/ Promoted
    <3>1. /\ graph' = graph /\ order' = order /\ at' = at /\ outcome' = outcome /\ ref' = ref /\ stage' = stage
      BY <2>4 DEF Settle, AppendBatch, CarryRest, FullLoad, Commit, Promote, Promoted, world, progress
    <3>2. pc \in {"settle", "append", "commit", "promote"} /\ pc' # "rest"
      BY <2>4 DEF Settle, AppendBatch, CarryRest, FullLoad, Commit, Promote, Promoted, Appended
    <3>3. Running /\ Working /\ workflowNodeRuns(Node) /\ Kind(Node) # "pipe"
      BY <3>2 DEF Running, Working, TypeInv, Control, Settled
    <3> QED BY <3>1, <3>2, <3>3, SettledStays
  <2>5. CASE EmptyRefused
    <3>1. Working /\ AttemptFails /\ UNCHANGED <<world, mark, types, order, ref, stage>>
      BY <2>5 DEF EmptyRefused, NothingReached, Appended, Working
    <3> QED BY <3>1, SettledFails
  <2>6. CASE Finish
    BY <2>6, SettledRests DEF Finish
  <2> QED BY <1>4, <2>1, <2>2, <2>3, <2>4, <2>5, <2>6 DEF Advance
<1>5. CASE Crash
  BY <1>5, SettledFails DEF Crash
<1>6. CASE Cancel
  BY <1>6, SettledRests DEF Cancel
<1>7. CASE UNCHANGED vars
  BY <1>1, <1>7 DEF vars
<1> QED BY <1>2, <1>3, <1>4, <1>5, <1>6, <1>7 DEF Next

-----------------------------------------------------------------------------
(* What the sinks have loaded. *)

RowsOf(s) == UNION {s[i] : i \in DOMAIN s}

Numbered(s) == UNION {{i} \X s[i] : i \in DOMAIN s}

\* A load: the batches, by number, and, unless it is a full one, what else was served.
Load(k) ==
  Numbered(stageRefsFor(k)) \cup
  (IF Full(k) THEN {} ELSE {0} \X (kept[k] \ RowsOf(stageRefsFor(k))))

LoadNode(k) ==
  /\ \A c \in cells[k] : IF c[1] = 0 THEN ~Full(k) ELSE c \in Numbered(stageRefsFor(k))
  /\ k \in live => cells[k] = Load(k)

Reached(k) == k \in Past \/ (Working /\ k = Node)

Loads ==
  /\ pc = "rest" => live = {} /\ \A k \in Sinks : cells[k] = {}
  /\ Running =>
       /\ \A k \in Of("sink") : IF Reached(k) THEN LoadNode(k) ELSE cells[k] = {} /\ k \notin live
       /\ pc = "append" =>
            \A c \in Numbered(stageRefsFor(Node)) : c[1] <= count => c \in cells[Node]
       /\ pc = "commit" => cells[Node] = Load(Node)
       /\ pc = "promote" => Node \in live

LEMMA NumberedFacts ==
  ASSUME NEW s, NEW T, s \in Seq(T)
  PROVE  \A c : c \in Numbered(s) <=> \E i \in 1 .. Len(s) : \E r \in s[i] : c = <<i, r>>
<1>1. DOMAIN s = 1 .. Len(s)
  OBVIOUS
<1> QED BY <1>1 DEF Numbered

LEMMA NodeRefs ==
  ASSUME TypeInv, Settled, Running, Frame, at <= Len(order), at' = at
  PROVE  Node' = Node /\ stageRefsFor(Node)' = stageRefsFor(Node)
<1>1. Node' = Node
  BY DEF Node, Frame
<1>2. PICK n : n = Node
  OBVIOUS
<1>3. Feeders(graph, n) \subseteq Past
  BY <1>2, PastFacts DEF Running
<1>4. stageRefsFor(n)' = stageRefsFor(n)
  BY <1>3, FrameFacts
<1>5. n = Node'
  BY <1>1, <1>2
<1>6. Inputs(Node)' = Inputs(n)'
  BY <1>5 DEF Inputs
<1>7. stageRefsFor(Node)' = stageRefsFor(n)'
  BY <1>6 DEF stageRefsFor, Staged
<1> QED BY <1>1, <1>2, <1>4, <1>7

LEMMA LoadKept ==
  ASSUME NEW k, graph' = graph, kept' = kept, stageRefsFor(k)' = stageRefsFor(k)
  PROVE  Load(k)' = Load(k)
BY DEF Load, Full

LEMMA LoadNodeKept ==
  ASSUME NEW k, graph' = graph, kept' = kept, stageRefsFor(k)' = stageRefsFor(k),
         cells'[k] = cells[k], k \in live' <=> k \in live, LoadNode(k)
  PROVE  LoadNode(k)'
<1>1. Load(k)' = Load(k) /\ (Full(k)' <=> Full(k))
  BY LoadKept DEF Full
<1> QED BY <1>1 DEF LoadNode

LEMMA LoadsStart == Init => Loads
BY DEF Init, Loads, Running

LEMMA LoadsRest ==
  ASSUME TypeInv, EndRun
  PROVE  Loads'
BY DEF EndRun, Loads, Running

\* A step that leaves what the types hold as it is.
LEMMA LoadsStay ==
  ASSUME TypeInv, Settled, Loads, Running, Frame, UNCHANGED types, pc' # "rest",
         \/ at' = at /\ (Working => Working')
         \/ at' = at + 1 /\ pc' = "turn" /\ at <= Len(order),
         Working' => at <= Len(order),
         pc' = "append" => \A c \in Numbered(stageRefsFor(Node)) : c[1] <= count' => c \in cells[Node],
         pc' = "commit" => cells[Node] = Load(Node),
         pc' = "promote" => Node \in live
  PROVE  Loads'
<1>1. graph' = graph /\ order' = order /\ kept' = kept /\ cells' = cells /\ live' = live
  BY DEF Frame, types
<1>2. /\ at' = at => Past' = Past /\ Node' = Node
      /\ at' = at + 1 => Past' = Past \cup {Node}
  BY <1>1, PastMoves DEF Running, Node
<1>3. /\ graph \in Workflows /\ Past \subseteq Nodes
      /\ \A n \in Past : Feeders(graph, n) \subseteq Past
      /\ at <= Len(order) => Feeders(graph, Node) \subseteq Past
  BY PastFacts DEF Running
<1>4. ASSUME NEW k \in Of("sink")'
      PROVE  IF Reached(k)' THEN LoadNode(k)' ELSE cells'[k] = {} /\ k \notin live'
  <2>1. k \in Of("sink")
    BY <1>1 DEF Of
  <2>2. Reached(k)' => k \in Past \/ (k = Node /\ at <= Len(order))
    BY <1>2 DEF Reached, Working
  <2>3. Reached(k) => Reached(k)'
    BY <1>2 DEF Reached, Working
  <2>4. IF Reached(k) THEN LoadNode(k) ELSE cells[k] = {} /\ k \notin live
    BY <2>1 DEF Loads
  <2>5. LoadNode(k) \/ (cells[k] = {} /\ k \notin live)
    BY <2>4
  <2>6. LoadNode(k)
    BY <2>5 DEF LoadNode
  <2>7. CASE Reached(k)'
    <3>1. Feeders(graph, k) \subseteq Past
      BY <1>3, <2>2, <2>7
    <3>2. stageRefsFor(k)' = stageRefsFor(k)
      BY <3>1, FrameFacts
    <3>3. LoadNode(k)'
      BY <1>1, <2>6, <3>2, LoadNodeKept
    <3> QED BY <2>7, <3>3
  <2>8. CASE ~Reached(k)'
    BY <1>1, <2>3, <2>4, <2>8
  <2> QED BY <2>7, <2>8
<1>5. Working' => Node' = Node /\ stageRefsFor(Node)' = stageRefsFor(Node) /\ Load(Node)' = Load(Node)
  <2>1. SUFFICES ASSUME Working' PROVE Node' = Node /\ stageRefsFor(Node)' = stageRefsFor(Node) /\ Load(Node)' = Load(Node)
    OBVIOUS
  <2>2. at' = at /\ at <= Len(order)
    BY <2>1 DEF Working
  <2>3. Node' = Node /\ stageRefsFor(Node)' = stageRefsFor(Node)
    BY <2>2, NodeRefs
  <2> QED BY <1>1, <2>3 DEF Load, Full
<1>6. pc' \in {"append", "commit", "promote"} => Working'
  BY DEF Working
<1>7. pc' = "append" => \A c \in Numbered(stageRefsFor(Node)') : c[1] <= count' => c \in cells'[Node']
  BY <1>1, <1>5, <1>6
<1>8. pc' = "commit" => cells'[Node'] = Load(Node)'
  BY <1>1, <1>5, <1>6
<1>9. pc' = "promote" => Node' \in live'
  BY <1>1, <1>5, <1>6
<1> QED BY <1>4, <1>7, <1>8, <1>9 DEF Loads

\* A step of the sink itself.
LEMMA LoadsSink ==
  ASSUME TypeInv, Settled, Loads, Running, Frame, at' = at, at <= Len(order), Working, Working',
         Kind(Node) = "sink", kept' = kept, NEW k, k = Node,
         \A l \in Sinks \ {k} : cells'[l] = cells[l] /\ (l \in live' <=> l \in live),
         LoadNode(k)',
         pc' = "append" => \A c \in Numbered(stageRefsFor(k)) : c[1] <= count' => c \in cells'[k],
         pc' = "commit" => cells'[k] = Load(k),
         pc' = "promote" => k \in live'
  PROVE  Loads'
<1>1. graph' = graph /\ order' = order
  BY DEF Frame
<1>2. Past' = Past /\ Node' = Node
  BY <1>1, PastMoves DEF Running, Node
<1>3. /\ graph \in Workflows /\ Past \subseteq Nodes
      /\ \A n \in Past : Feeders(graph, n) \subseteq Past
  BY PastFacts DEF Running
<1>4. ASSUME NEW l \in Of("sink")'
      PROVE  IF Reached(l)' THEN LoadNode(l)' ELSE cells'[l] = {} /\ l \notin live'
  <2>1. l \in Of("sink") /\ l \in Sinks
    BY <1>1, <1>3, WorkflowAssumption DEF Of
  <2>2. Reached(l)' <=> Reached(l)
    BY <1>2 DEF Reached
  <2>3. CASE l = k
    BY <1>2, <2>3 DEF Reached
  <2>4. CASE l # k
    <3>1. cells'[l] = cells[l] /\ (l \in live' <=> l \in live)
      BY <2>1, <2>4
    <3>2. ASSUME Reached(l) PROVE LoadNode(l)'
      <4>1. l \in Past
        BY <2>4, <3>2 DEF Reached
      <4>2. stageRefsFor(l)' = stageRefsFor(l)
        BY <1>3, <4>1, FrameFacts
      <4>3. LoadNode(l)
        BY <2>1, <3>2 DEF Loads
      <4> QED BY <1>1, <3>1, <4>2, <4>3, LoadNodeKept
    <3> QED BY <2>1, <2>2, <3>1, <3>2 DEF Loads
  <2> QED BY <2>3, <2>4
<1>5. Node' = k /\ stageRefsFor(Node)' = stageRefsFor(k) /\ Load(Node)' = Load(k)
  <2>1. stageRefsFor(Node)' = stageRefsFor(Node)
    BY NodeRefs
  <2>2. stageRefsFor(Node) = stageRefsFor(k)
    OBVIOUS
  <2> QED BY <1>1, <1>2, <2>1, <2>2 DEF Load, Full
<1> QED BY <1>4, <1>5 DEF Loads, Working

LEMMA SinkRefs ==
  ASSUME TypeInv, Loads, pc \in {"append", "commit", "promote"}, NEW k, k = Node
  PROVE  /\ k \in Of("sink") /\ k \in Sinks /\ Reached(k) /\ LoadNode(k) /\ Running /\ Working
         /\ Kind(Node) = "sink" /\ at <= Len(order) /\ pc # "rest"
         /\ stageRefsFor(k) \in Seq(SUBSET Row) /\ Len(stageRefsFor(k)) \in Nat
         /\ cells \in [Sinks -> SUBSET (Nat \X Row)] /\ kept \in [Sinks -> SUBSET Row] /\ count \in Nat
<1>1. k \in Sinks /\ k \in Nodes /\ Kind(k) = "sink" /\ cells \in [Sinks -> SUBSET (Nat \X Row)]
      /\ kept \in [Sinks -> SUBSET Row] /\ count \in Nat
  BY SinkHere
<1>2. k \in Of("sink")
  BY <1>1 DEF Of, OfKind, Kind, Nodes
<1>3. Reached(k) /\ Running /\ Working
  BY DEF Reached, Running, Working
<1>4. at <= Len(order)
  BY DEF TypeInv, Control
<1>5. stageRefsFor(k) \in Seq(SUBSET Row) /\ Len(stageRefsFor(k)) \in Nat
  BY StageRefsType
<1> QED BY <1>1, <1>2, <1>3, <1>4, <1>5 DEF Loads

LEMMA LoadsAppend ==
  ASSUME TypeInv, Settled, Loads, AppendBatch
  PROVE  Loads'
<1>1. PICK k : k = Node
  OBVIOUS
<1>2. pc = "append"
  BY DEF AppendBatch
<1>3. /\ k \in Of("sink") /\ k \in Sinks /\ LoadNode(k) /\ Running /\ Working
      /\ Kind(Node) = "sink" /\ at <= Len(order)
      /\ stageRefsFor(k) \in Seq(SUBSET Row) /\ Len(stageRefsFor(k)) \in Nat
      /\ cells \in [Sinks -> SUBSET (Nat \X Row)] /\ count \in Nat
  BY <1>1, <1>2, SinkRefs
<1> DEFINE refs == stageRefsFor(k)
           number == count + 1
           old == cells[k]
           new == {c \in old : c[1] # number} \cup {<<number, r>> : r \in refs[number]}
<1>4. /\ cells' = [cells EXCEPT ![k] = new] /\ count' = number /\ count < Len(refs)
      /\ graph' = graph /\ order' = order /\ at' = at /\ outcome' = outcome /\ ref' = ref /\ stage' = stage
      /\ kept' = kept /\ live' = live /\ pc' = pc
  BY <1>1 DEF AppendBatch, world, progress
<1>5. Frame
  BY <1>3, <1>4, PastMoves DEF Frame, Running
<1>6. \A c : c \in Numbered(refs) <=> \E i \in 1 .. Len(refs) : \E r \in refs[i] : c = <<i, r>>
  BY <1>3, NumberedFacts
<1>7. /\ old \subseteq Nat \X Row
      /\ \A c \in old : IF c[1] = 0 THEN ~Full(k) ELSE c \in Numbered(refs)
      /\ k \in live => old = Load(k)
      /\ \A c \in Numbered(refs) : c[1] <= count => c \in old
  BY <1>1, <1>2, <1>3 DEF LoadNode, Loads
<1>8. number \in 1 .. Len(refs)
  BY <1>3, <1>4
<1>9. stageRefsFor(k)' = refs
  <2>1. stageRefsFor(Node)' = stageRefsFor(Node) /\ Node' = Node
    BY <1>3, <1>4, <1>5, NodeRefs
  <2>2. Feeders(graph, k) \subseteq Past
    BY <1>1, <1>3, PastFacts DEF Running
  <2> QED BY <1>3, <1>5, <2>2, FrameFacts
<1>10. cells'[k] = new /\ \A l \in Sinks \ {k} : cells'[l] = cells[l]
  BY <1>3, <1>4
<1> HIDE DEF refs, number, old
<1>11. \A c \in new : IF c[1] = 0 THEN ~Full(k) ELSE c \in Numbered(refs)
  <2>1. ASSUME NEW r \in refs[number] PROVE <<number, r>>[1] # 0 /\ <<number, r>> \in Numbered(refs)
    BY <1>6, <1>8
  <2> QED BY <1>7, <2>1
<1>12. \A c \in Numbered(refs) : c[1] <= number => c \in new
  <2>1. SUFFICES ASSUME NEW c \in Numbered(refs), c[1] <= number PROVE c \in new
    OBVIOUS
  <2>2. PICK i \in 1 .. Len(refs) : \E r \in refs[i] : c = <<i, r>>
    BY <1>6
  <2>3. CASE i = number
    BY <2>2, <2>3
  <2>4. CASE i # number
    <3>1. c[1] = i /\ i <= count
      BY <1>3, <2>1, <2>2, <2>4 DEF number
    <3> QED BY <1>7, <2>4, <3>1
  <2> QED BY <2>3, <2>4
<1>13. k \in live => new = Load(k)
  <2>1. SUFFICES ASSUME k \in live PROVE new = Load(k)
    OBVIOUS
  <2>2. old = Numbered(refs) \cup (IF Full(k) THEN {} ELSE {0} \X (kept[k] \ RowsOf(refs)))
    BY <1>7, <2>1 DEF Load, refs
  <2>3. \A r \in refs[number] : <<number, r>> \in old
    BY <1>6, <1>8, <2>2
  <2>4. \A c \in old : c[1] = number => \E r \in refs[number] : c = <<number, r>>
    <3>1. SUFFICES ASSUME NEW c \in old, c[1] = number PROVE \E r \in refs[number] : c = <<number, r>>
      OBVIOUS
    <3>2. number # 0
      BY <1>8
    <3>3. c \in Numbered(refs)
      BY <1>7, <3>1, <3>2
    <3> QED BY <1>6, <3>1, <3>3
  <2>5. new = old
    BY <2>3, <2>4
  <2> QED BY <1>7, <2>1, <2>5
<1> HIDE DEF new
<1>14. LoadNode(k)'
  <2>1. Load(k)' = Load(k) /\ (Full(k)' <=> Full(k))
    BY <1>4, <1>9, LoadKept DEF Full, refs
  <2> QED BY <1>4, <1>9, <1>10, <1>11, <1>13, <2>1 DEF LoadNode, refs
<1>15. \A c \in Numbered(stageRefsFor(k)) : c[1] <= count' => c \in cells'[k]
  BY <1>4, <1>10, <1>12 DEF refs
<1>16. Working' /\ pc' = "append"
  BY <1>2, <1>4 DEF Working
<1> QED BY <1>1, <1>3, <1>4, <1>5, <1>10, <1>14, <1>15, <1>16, LoadsSink

LEMMA LoadsCarry ==
  ASSUME TypeInv, Settled, Loads, CarryRest
  PROVE  Loads'
<1>1. PICK k : k = Node
  OBVIOUS
<1>2. pc = "append"
  BY DEF CarryRest, Appended
<1>3. /\ k \in Of("sink") /\ k \in Sinks /\ LoadNode(k) /\ Running /\ Working
      /\ Kind(Node) = "sink" /\ at <= Len(order)
      /\ stageRefsFor(k) \in Seq(SUBSET Row) /\ Len(stageRefsFor(k)) \in Nat
      /\ cells \in [Sinks -> SUBSET (Nat \X Row)] /\ count \in Nat
  BY <1>1, <1>2, SinkRefs
<1> DEFINE refs == stageRefsFor(k)
           old == cells[k]
           own == {c \in old : c[1] # 0}
           new == own \cup {<<0, r>> : r \in kept[k] \ {c[2] : c \in own}}
<1>4. /\ cells' = [cells EXCEPT ![k] = new] /\ count = Len(refs) /\ ~Full(k)
      /\ graph' = graph /\ order' = order /\ at' = at /\ outcome' = outcome /\ ref' = ref /\ stage' = stage
      /\ kept' = kept /\ live' = live /\ pc' = "commit"
  BY <1>1 DEF CarryRest, Appended, world, progress
<1>5. Frame
  BY <1>3, <1>4, PastMoves DEF Frame, Running
<1>6. \A c : c \in Numbered(refs) <=> \E i \in 1 .. Len(refs) : \E r \in refs[i] : c = <<i, r>>
  BY <1>3, NumberedFacts
<1>7. /\ \A c \in old : IF c[1] = 0 THEN ~Full(k) ELSE c \in Numbered(refs)
      /\ \A c \in Numbered(refs) : c[1] <= count => c \in old
  BY <1>1, <1>2, <1>3 DEF LoadNode, Loads
<1>8. stageRefsFor(k)' = refs
  <2>1. Feeders(graph, k) \subseteq Past
    BY <1>1, <1>3, PastFacts DEF Running
  <2> QED BY <1>3, <1>5, <2>1, FrameFacts
<1>9. cells'[k] = new /\ \A l \in Sinks \ {k} : cells'[l] = cells[l]
  BY <1>3, <1>4
<1>10. DOMAIN refs = 1 .. Len(refs)
  BY <1>3
<1> HIDE DEF refs, old
<1>11. own = Numbered(refs)
  <2>1. ASSUME NEW c \in Numbered(refs) PROVE c \in old /\ c[1] # 0
    <3>1. PICK i \in 1 .. Len(refs) : \E r \in refs[i] : c = <<i, r>>
      BY <1>6
    <3>2. c[1] = i
      BY <3>1
    <3>3. c[1] # 0 /\ c[1] <= count
      BY <1>3, <1>4, <3>2 DEF refs
    <3> QED BY <1>7, <3>3
  <2> QED BY <1>7, <2>1
<1>12. {c[2] : c \in own} = RowsOf(refs)
  <2>1. ASSUME NEW c \in own PROVE c[2] \in RowsOf(refs)
    <3>1. PICK i \in 1 .. Len(refs) : \E r \in refs[i] : c = <<i, r>>
      BY <1>6, <1>11
    <3>2. c[2] \in refs[i]
      BY <3>1
    <3> QED BY <1>10, <3>2 DEF RowsOf
  <2>2. ASSUME NEW r \in RowsOf(refs) PROVE \E c \in own : c[2] = r
    <3>1. PICK i \in 1 .. Len(refs) : r \in refs[i]
      BY <1>10 DEF RowsOf
    <3>2. <<i, r>> \in own
      BY <1>6, <1>11, <3>1
    <3> QED BY <3>2
  <2> HIDE DEF own
  <2> QED BY <2>1, <2>2
<1>13. new = Load(k)
  <2> HIDE DEF own
  <2>1. Load(k) = Numbered(refs) \cup {0} \X (kept[k] \ RowsOf(refs))
    BY <1>4 DEF Load, refs
  <2>2. {<<0, r>> : r \in kept[k] \ RowsOf(refs)} = {0} \X (kept[k] \ RowsOf(refs))
    OBVIOUS
  <2> QED BY <1>11, <1>12, <2>1, <2>2
<1>14. \A c \in new : IF c[1] = 0 THEN ~Full(k) ELSE c \in Numbered(refs)
  <2>1. \A c \in new : c \in own \/ c[1] = 0
    OBVIOUS
  <2> HIDE DEF new
  <2> QED BY <1>4, <1>11, <2>1
<1> HIDE DEF new, own
<1>15. Load(k)' = Load(k) /\ (Full(k)' <=> Full(k))
  BY <1>4, <1>8, LoadKept DEF Full, refs
<1>16. LoadNode(k)'
  BY <1>4, <1>8, <1>9, <1>13, <1>14, <1>15 DEF LoadNode, refs
<1>17. Working' /\ pc' = "commit"
  BY <1>4 DEF Working
<1> QED BY <1>1, <1>3, <1>4, <1>5, <1>9, <1>13, <1>16, <1>17, LoadsSink

LEMMA LoadsFull ==
  ASSUME TypeInv, Settled, Loads, FullLoad
  PROVE  Loads'
<1>1. PICK k : k = Node
  OBVIOUS
<1>2. pc = "append"
  BY DEF FullLoad, Appended
<1>3. /\ LoadNode(k) /\ Running /\ Working /\ at <= Len(order)
      /\ stageRefsFor(k) \in Seq(SUBSET Row) /\ Len(stageRefsFor(k)) \in Nat /\ count \in Nat
  BY <1>1, <1>2, SinkRefs
<1> DEFINE refs == stageRefsFor(k)
<1>4. /\ count = Len(refs) /\ Full(k)
      /\ graph' = graph /\ order' = order /\ at' = at /\ outcome' = outcome /\ ref' = ref /\ stage' = stage
      /\ UNCHANGED types /\ pc' = "commit"
  BY <1>1 DEF FullLoad, Appended, world, progress
<1>5. Frame
  BY <1>3, <1>4, PastMoves DEF Frame, Running
<1>6. \A c : c \in Numbered(refs) <=> \E i \in 1 .. Len(refs) : \E r \in refs[i] : c = <<i, r>>
  BY <1>3, NumberedFacts
<1>7. /\ \A c \in cells[k] : IF c[1] = 0 THEN ~Full(k) ELSE c \in Numbered(refs)
      /\ \A c \in Numbered(refs) : c[1] <= count => c \in cells[k]
  BY <1>1, <1>2, <1>3 DEF LoadNode, Loads
<1>8. cells[k] = Load(k)
  <2> HIDE DEF refs
  <2>1. ASSUME NEW c \in Numbered(refs) PROVE c \in cells[k]
    <3>1. PICK i \in 1 .. Len(refs) : \E r \in refs[i] : c = <<i, r>>
      BY <1>6
    <3>2. c[1] = i
      BY <3>1
    <3>3. c[1] <= count
      BY <1>4, <3>2
    <3> QED BY <1>7, <3>3
  <2>2. cells[k] \subseteq Numbered(refs)
    BY <1>4, <1>7
  <2>3. Load(k) = Numbered(refs)
    BY <1>4 DEF Load, refs
  <2> QED BY <2>1, <2>2, <2>3
<1>9. Working' /\ pc' # "rest"
  BY <1>4 DEF Working
<1> QED BY <1>1, <1>3, <1>4, <1>5, <1>8, <1>9, LoadsStay

LEMMA LoadsCommit ==
  ASSUME TypeInv, Settled, Loads, Commit
  PROVE  Loads'
<1>1. PICK k : k = Node
  OBVIOUS
<1>2. pc = "commit"
  BY DEF Commit
<1>3. /\ k \in Of("sink") /\ k \in Sinks /\ LoadNode(k) /\ Running /\ Working
      /\ Kind(Node) = "sink" /\ at <= Len(order)
  BY <1>1, <1>2, SinkRefs
<1>4. /\ graph' = graph /\ order' = order /\ at' = at /\ outcome' = outcome /\ ref' = ref /\ stage' = stage
      /\ kept' = kept /\ cells' = cells /\ live' = live \cup {k} /\ pc' = "promote"
  BY <1>1 DEF Commit, world, progress
<1>5. Frame
  BY <1>3, <1>4, PastMoves DEF Frame, Running
<1>6. stageRefsFor(k)' = stageRefsFor(k)
  <2>1. Feeders(graph, k) \subseteq Past
    BY <1>1, <1>3, PastFacts DEF Running
  <2> QED BY <1>3, <1>5, <2>1, FrameFacts
<1>7. Load(k)' = Load(k) /\ (Full(k)' <=> Full(k))
  BY <1>4, <1>6, LoadKept DEF Full
<1>8. cells[k] = Load(k)
  BY <1>1, <1>2, <1>3 DEF Loads
<1>9. LoadNode(k)'
  BY <1>3, <1>4, <1>6, <1>7, <1>8 DEF LoadNode
<1>10. Working' /\ pc' = "promote"
  BY <1>4 DEF Working
<1> QED BY <1>1, <1>3, <1>4, <1>5, <1>9, <1>10, LoadsSink

LEMMA LoadsFail ==
  ASSUME TypeInv, Settled, Loads, Working, AttemptFails,
         UNCHANGED <<world, mark, types, order, ref, stage>>
  PROVE  Loads'
<1>1. CASE tries < Retries
  <2>1. /\ graph' = graph /\ order' = order /\ at' = at /\ outcome' = outcome /\ ref' = ref
        /\ stage' = stage /\ pc' = Entry(Node) /\ count' = 0 /\ UNCHANGED types
    BY <1>1 DEF AttemptFails, world
  <2>2. Running /\ at <= Len(order) /\ pc # "rest"
    BY DEF Working, Running, TypeInv, Control
  <2>3. pc' \in {"fetch", "branch", "pass", "append"}
    BY <2>1, <2>2, NodeHere
  <2>4. Frame
    BY <2>1, <2>2, PastMoves DEF Frame
  <2>5. \A c \in Numbered(stageRefsFor(Node)) : c[1] <= count' => c \in cells[Node]
    <3>1. stageRefsFor(Node) \in Seq(SUBSET Row)
      BY StageRefsType
    <3>2. \A c \in Numbered(stageRefsFor(Node)) :
            \E i \in 1 .. Len(stageRefsFor(Node)) : \E r \in stageRefsFor(Node)[i] : c = <<i, r>>
      BY <3>1, NumberedFacts
    <3>3. \A c \in Numbered(stageRefsFor(Node)) : c[1] \in Nat \ {0}
      BY <3>2
    <3> QED BY <2>1, <3>3
  <2>6. Working' /\ pc' # "rest" /\ pc' # "commit" /\ pc' # "promote"
    BY <2>3 DEF Working
  <2> QED BY <2>1, <2>2, <2>4, <2>5, <2>6, LoadsStay
<1>2. CASE ~(tries < Retries)
  <2>1. pc' = "finish"
    BY <1>2 DEF AttemptFails
  <2> QED BY <2>1 DEF Loads, Running
<1> QED BY <1>1, <1>2

LEMMA LoadsMove == TypeInv /\ Settled /\ Loads /\ [Next]_vars => Loads'
<1> SUFFICES ASSUME TypeInv, Settled, Loads, [Next]_vars PROVE Loads'
  OBVIOUS
<1>1. ASSUME graph' = graph, order' = order, at' = at, outcome' = outcome, ref' = ref,
             stage' = stage, UNCHANGED types, pc' = pc, count' = count \/ pc # "append"
      PROVE  Loads'
  <2>1. CASE Running
    <3>1. Frame
      BY <1>1, <2>1, PastMoves DEF Frame, Running
    <3>2. Working => at <= Len(order)
      BY DEF Working, TypeInv, Control
    <3>3. (Working' <=> Working) /\ pc' # "rest"
      BY <1>1, <2>1 DEF Working, Running
    <3>4. pc' = "append" => \A c \in Numbered(stageRefsFor(Node)) : c[1] <= count' => c \in cells[Node]
      BY <1>1, <2>1 DEF Loads
    <3>5. (pc' = "commit" => cells[Node] = Load(Node)) /\ (pc' = "promote" => Node \in live)
      BY <1>1, <2>1 DEF Loads
    <3> QED BY <1>1, <2>1, <3>1, <3>2, <3>3, <3>4, <3>5, LoadsStay
  <2>2. CASE ~Running
    BY <1>1, <2>2 DEF Running, Loads, types
  <2> QED BY <2>1, <2>2
<1>2. ASSUME NEW v \in Sources, Arrive(v) PROVE Loads'
  BY <1>1, <1>2 DEF Arrive, progress
<1>3. CASE StartRun
  <2>1. graph' = graph /\ at' = 1 /\ pc' = "turn" /\ UNCHANGED types /\ pc = "rest" /\ graph \in Workflows
    BY <1>3 DEF StartRun, world, TypeInv, TypeOK, Control
  <2>2. \A k \in Of("sink")' : k \in Sinks
    BY <2>1, WorkflowAssumption DEF Of
  <2>3. Past' = {} /\ ~Working'
    BY <2>1 DEF Past, Working
  <2> QED BY <2>1, <2>2, <2>3 DEF Loads, Reached, types
<1>4. CASE Advance
  <2>1. CASE SkipUnlessLive \/ Return \/ Branch
    <3>1. /\ graph' = graph /\ order' = order /\ at' = at + 1 /\ stage' = stage /\ pc' = "turn"
          /\ UNCHANGED types /\ at <= Len(order) /\ pc # "rest" /\ Running
          /\ outcome \in [Nodes -> Outcomes] /\ ref \in [Nodes -> Nodes \cup {NoStage}]
      BY <2>1 DEF SkipUnlessLive, Return, Branch, Remember, world, TypeInv, TypeOK, Control, Running
    <3>2. Node \in Nodes /\ Node \notin Past /\ Past \subseteq Nodes
      BY <3>1, PastFacts
    <3>3. \A n \in Past : outcome'[n] = outcome[n] /\ ref'[n] = ref[n]
      BY <2>1, <3>1, <3>2 DEF SkipUnlessLive, Return, Branch, Remember
    <3>4. Frame
      BY <3>1, <3>3, PastMoves DEF Frame
    <3> QED BY <3>1, <3>4, LoadsStay DEF Working
  <2>2. CASE Dispatch
    <3>1. /\ graph' = graph /\ order' = order /\ at' = at /\ outcome' = outcome /\ ref' = ref /\ stage' = stage
          /\ pc = "turn" /\ pc' = Entry(Node) /\ count' = 0 /\ at <= Len(order) /\ Running
          /\ UNCHANGED types
      BY <2>2 DEF Dispatch, world, progress, Running
    <3>2. pc' \in {"fetch", "branch", "pass", "append"}
      BY <3>1, NodeHere
    <3>3. Frame
      BY <3>1, PastMoves DEF Frame
    <3>4. \A c \in Numbered(stageRefsFor(Node)) : c[1] <= count' => c \in cells[Node]
      <4>1. stageRefsFor(Node) \in Seq(SUBSET Row)
        BY StageRefsType
      <4>2. \A c \in Numbered(stageRefsFor(Node)) :
              \E i \in 1 .. Len(stageRefsFor(Node)) : \E r \in stageRefsFor(Node)[i] : c = <<i, r>>
        BY <4>1, NumberedFacts
      <4>3. \A c \in Numbered(stageRefsFor(Node)) : c[1] \in Nat \ {0}
        BY <4>2
      <4> QED BY <3>1, <4>3
    <3>5. ~Working /\ pc' # "rest" /\ pc' # "commit" /\ pc' # "promote"
      BY <3>1, <3>2 DEF Working
    <3> QED BY <3>1, <3>3, <3>4, <3>5, LoadsStay
  <2>3. CASE Fetch \/ Settle \/ Pass \/ Promoted
    <3>1. /\ graph' = graph /\ order' = order /\ at' = at /\ outcome' = outcome /\ ref' = ref
          /\ pc \in {"fetch", "settle", "pass", "promote"} /\ pc' \in {"settle", "return"} /\ at <= Len(order)
          /\ UNCHANGED types
      BY <2>3 DEF Fetch, Settle, Pass, Promoted, world, progress, TypeInv, Control
    <3>2. Running /\ Working'
      BY <3>1 DEF Running, Working
    <3>3. Node \in Nodes /\ Node \notin Past /\ Past \subseteq Nodes
      BY <3>1, <3>2, PastFacts
    <3>4. \A n \in Past : stage'[n] = stage[n]
      <4>1. stage \in [Nodes -> Seq(SUBSET Row)]
        BY DEF TypeInv, TypeOK
      <4> QED BY <2>3, <3>3, <4>1 DEF Fetch, Settle, Pass, Promoted
    <3>5. Frame
      BY <3>1, <3>2, <3>4, PastMoves DEF Frame, Running
    <3> QED BY <3>1, <3>2, <3>5, LoadsStay
  <2>4. CASE AppendBatch \/ CarryRest \/ FullLoad \/ Commit
    BY <2>4, LoadsAppend, LoadsCarry, LoadsFull, LoadsCommit
  <2>5. CASE Promote
    BY <1>1, <2>5 DEF Promote, world, progress
  <2>6. CASE EmptyRefused
    <3>1. Working /\ AttemptFails /\ UNCHANGED <<world, mark, types, order, ref, stage>>
      BY <2>6 DEF EmptyRefused, NothingReached, Appended, Working
    <3> QED BY <3>1, LoadsFail
  <2>7. CASE Finish
    BY <2>7, LoadsRest DEF Finish
  <2> QED BY <1>4, <2>1, <2>2, <2>3, <2>4, <2>5, <2>6, <2>7 DEF Advance
<1>5. CASE Crash
  BY <1>5, LoadsFail DEF Crash
<1>6. CASE Cancel
  BY <1>6, LoadsRest DEF Cancel
<1>7. CASE UNCHANGED vars
  BY <1>1, <1>7 DEF vars, types
<1> QED BY <1>2, <1>3, <1>4, <1>5, <1>6, <1>7 DEF Next

-----------------------------------------------------------------------------
(* What the sources have read. *)

\* Batches of one row, in order, after the row b of the source.
ReadAfter(v, b, batches) == \A i \in 1 .. Len(batches) : batches[i] = {<<v, b + i>>}

Spread == \A v \in Of("source") : \E b \in Nat : ReadAfter(v, b, stage[v])

LEMMA SpreadFacts ==
  ASSUME TypeInv, Spread, NEW v \in Of("source")
  PROVE  Apart(stage[v]) /\ \A r \in RowsOf(stage[v]) : r[1] = v
<1>1. stage[v] \in Seq(SUBSET Row)
  BY DEF TypeInv, TypeOK, Of, OfKind, Nodes
<1>2. DOMAIN stage[v] = 1 .. Len(stage[v])
  BY <1>1
<1>3. PICK b \in Nat : \A i \in 1 .. Len(stage[v]) : stage[v][i] = {<<v, b + i>>}
  BY DEF Spread, ReadAfter
<1>4. Apart(stage[v])
  <2>1. SUFFICES ASSUME NEW i \in 1 .. Len(stage[v]), NEW j \in 1 .. Len(stage[v]), i # j
                 PROVE  stage[v][i] \cap stage[v][j] = {}
    BY <1>2 DEF Apart
  <2>2. b + i # b + j
    BY <1>1, <1>3, <2>1
  <2>3. stage[v][i] = {<<v, b + i>>} /\ stage[v][j] = {<<v, b + j>>}
    BY <1>3
  <2> QED BY <2>2, <2>3
<1>5. \A r \in RowsOf(stage[v]) : r[1] = v
  BY <1>2, <1>3 DEF RowsOf
<1> QED BY <1>4, <1>5

LEMMA SpreadStarts == Init => Spread
<1> SUFFICES ASSUME Init, NEW v \in Of("source") PROVE \E b \in Nat : ReadAfter(v, b, stage[v])
  BY DEF Spread
<1>1. stage[v] = <<>>
  BY DEF Init, Of, OfKind, Nodes
<1>2. ReadAfter(v, 0, stage[v])
  BY <1>1 DEF ReadAfter
<1> QED BY <1>2

\* The one read of a source.
LEMMA FetchReads ==
  ASSUME TypeInv, Fetch
  PROVE  /\ Node \in Of("source") /\ Node \in Nodes
         /\ \A n \in Nodes \ {Node} : stage'[n] = stage[n]
         /\ \E b \in Nat :
              /\ b = IF Full(Node) THEN 0 ELSE mark[Node].committed
              /\ ReadAfter(Node, b, stage'[Node])
              /\ Len(stage'[Node]) = feed[Node] - b
              /\ stage'[Node] \in Seq(SUBSET Row) /\ b <= feed[Node]
<1>1. PICK n : n = Node
  OBVIOUS
<1>2. /\ n \in Nodes /\ n \in Sources /\ Kind(n) = "source" /\ stage \in [Nodes -> Seq(SUBSET Row)]
      /\ feed[n] \in Nat /\ mark[n].committed \in Nat /\ mark[n].committed <= feed[n]
  <2>1. n \in Nodes /\ n \in Sources /\ Kind(n) = "source"
    BY <1>1, NodeHere DEF Fetch, TypeInv, Control
  <2>2. feed \in [Sources -> 0 .. MaxRows] /\ stage \in [Nodes -> Seq(SUBSET Row)]
        /\ mark \in [Sources -> [committed : 0 .. MaxRows, pending : 0 .. MaxRows]]
    BY DEF TypeInv, TypeOK
  <2>3. mark[n].committed <= feed[n]
    BY <2>1 DEF TypeInv, Marks
  <2> QED BY <2>1, <2>2, <2>3, Bounds
<1> DEFINE b == IF Full(n) THEN 0 ELSE mark[n].committed
           s == [i \in 1 .. feed[n] - b |-> {<<n, b + i>>}]
<1>3. b \in Nat /\ b <= feed[n] /\ feed[n] - b \in Nat
  BY <1>2
<1>4. stage' = [stage EXCEPT ![n] = s]
  BY <1>1 DEF Fetch
<1>5. stage'[n] = s /\ \A m \in Nodes \ {n} : stage'[m] = stage[m]
  BY <1>2, <1>4
<1>6. n \in Of("source")
  BY <1>2 DEF Of, OfKind, Kind, Nodes
<1>7. s \in Seq(SUBSET Row)
  <2>1. TypeInv'
    BY TypeFetch
  <2>2. stage'[n] \in Seq(SUBSET Row)
    BY <1>2, <2>1 DEF TypeInv, TypeOK, Nodes, Fetch, world
  <2> QED BY <1>5, <2>2
<1>8. Len(s) = feed[n] - b /\ \A i \in 1 .. Len(s) : s[i] = {<<n, b + i>>}
  BY <1>3
<1>9. ReadAfter(n, b, s)
  BY <1>8 DEF ReadAfter
<1> HIDE DEF s, b
<1>10. b = IF Full(n) THEN 0 ELSE mark[n].committed
  BY DEF b
<1> QED BY <1>1, <1>2, <1>3, <1>5, <1>6, <1>7, <1>8, <1>9, <1>10

LEMMA SpreadMoves == TypeInv /\ Spread /\ [Next]_vars => Spread'
<1> SUFFICES ASSUME TypeInv, Spread, [Next]_vars PROVE Spread'
  OBVIOUS
<1>1. graph' = graph
  BY DEF Next, Advance, vars, Arrive, StartRun, SkipUnlessLive, Dispatch, Return, Fetch, Settle, Branch, Pass,
         AppendBatch, CarryRest, FullLoad, EmptyRefused, Commit, Promote, Promoted, Finish, Crash, Cancel,
         EndRun, world
<1>2. Of("source")' = Of("source") /\ Of("source") \subseteq Nodes
  BY <1>1 DEF Of, OfKind, Nodes
<1>3. CASE stage' = stage
  BY <1>2, <1>3 DEF Spread
<1>4. CASE EndRun
  <2>1. \A v \in Of("source") : stage'[v] = <<>>
    BY <1>2, <1>4 DEF EndRun
  <2>2. \A v : ReadAfter(v, 0, <<>>)
    BY DEF ReadAfter
  <2> QED BY <1>2, <2>1, <2>2 DEF Spread
<1>5. CASE Fetch
  <2>1. PICK n : n = Node
    OBVIOUS
  <2>2. /\ \A m \in Nodes \ {n} : stage'[m] = stage[m]
        /\ \E b \in Nat : ReadAfter(n, b, stage'[n])
    BY <1>5, <2>1, FetchReads
  <2>3. \A v \in Of("source") : \E b \in Nat : ReadAfter(v, b, stage'[v])
    BY <1>2, <2>2 DEF Spread
  <2> QED BY <1>2, <2>3 DEF Spread
<1>6. CASE Pass
  <2>1. Kind(Node) # "source" /\ stage \in [Nodes -> Seq(SUBSET Row)]
        /\ stage' = [stage EXCEPT ![Node] = stageRefsFor(Node)]
    BY <1>6 DEF Pass, TypeInv, Control, TypeOK
  <2>2. \A v \in Of("source") : v # Node /\ v \in Nodes
    BY <2>1 DEF Of, OfKind, Kind, Nodes
  <2>3. \A v \in Of("source") : stage'[v] = stage[v]
    BY <2>1, <2>2
  <2> QED BY <1>2, <2>3 DEF Spread
<1>7. stage' = stage \/ EndRun \/ Fetch \/ Pass
  BY DEF Next, Advance, vars, Arrive, StartRun, SkipUnlessLive, Dispatch, Return, Settle, Branch,
         AppendBatch, CarryRest, FullLoad, EmptyRefused, Commit, Promote, Promoted, Finish, Crash, Cancel
<1> QED BY <1>3, <1>4, <1>5, <1>6, <1>7

-----------------------------------------------------------------------------
(* Where rows go. *)

\* A node other than the source is reached over a wire that is taken.
LEMMA ReachSteps ==
  ASSUME NEW g \in Workflows, NEW ways, NEW v \in NodesOf(g), NEW n \in NodesOf(g)
  PROVE  n \in Reach(g, ways, v) <=>
           n = v \/ \E e \in Taken(g, ways) : e.to = n /\ e.from \in Reach(g, ways, v)
<1> DEFINE R == Reach(g, ways, v)
           T == Taken(g, ways)
           Around == {S \in Closed(g, ways) : v \in S}
<1>1. \A S \in Around : S \in SUBSET NodesOf(g) /\ v \in S /\ \A e \in T : e.from \in S => e.to \in S
  BY DEF Closed
<1>2. \A S \in SUBSET NodesOf(g) : v \in S /\ (\A e \in T : e.from \in S => e.to \in S) => S \in Around
  BY DEF Closed
<1>3. \A m : m \in R <=> m \in NodesOf(g) /\ \A S \in Around : m \in S
  BY DEF Reach
<1>4. \A e \in T : e.from \in NodesOf(g) /\ e.to \in NodesOf(g)
  BY WireFacts DEF Taken
<1> HIDE DEF R, T, Around
<1>5. \A e \in T : e.from \in R => e.to \in R
  BY <1>1, <1>3, <1>4
<1>6. v \in R
  BY <1>1, <1>3
<1>7. ASSUME n \in R, n # v, \A e \in T : e.to = n => e.from \notin R
      PROVE  FALSE
  <2>1. R \ {n} \in SUBSET NodesOf(g) /\ v \in R \ {n}
    BY <1>3, <1>6, <1>7
  <2>2. \A e \in T : e.from \in R \ {n} => e.to \in R \ {n}
    BY <1>5, <1>7
  <2>3. R \ {n} \in Around
    BY <1>2, <2>1, <2>2
  <2>4. n \in R \ {n}
    BY <1>3, <1>7, <2>3
  <2> QED BY <2>4
<1>8. n \in R <=> n = v \/ \E e \in T : e.to = n /\ e.from \in R
  BY <1>5, <1>6, <1>7
<1> QED BY <1>8 DEF R, T

\* The nodes behind the run, and the one it is at.
Upto == IF at <= Len(order) THEN Past \cup {Node} ELSE Past

\* What holds of a node where it holds of those that feed it holds of every node so far.
LEMMA AlongPlan ==
  ASSUME TypeInv, pc # "rest", NEW S,
         \A n \in Upto : Feeders(graph, n) \subseteq S => n \in S
  PROVE  Upto \subseteq S
<1>1. /\ graph \in Workflows /\ Past \subseteq Nodes /\ \A n \in Past : Feeders(graph, n) \subseteq Past
      /\ at <= Len(order) => Node \in Nodes /\ Feeders(graph, Node) \subseteq Past
  BY PastFacts
<1>2. Upto \subseteq Nodes /\ \A n \in Upto : Feeders(graph, n) \subseteq Upto
  BY <1>1 DEF Upto
<1>3. SUFFICES ASSUME Upto \ S # {} PROVE FALSE
  OBVIOUS
<1>4. Acyclic(graph)
  BY <1>1, WorkflowAssumption DEF validateWorkflow
<1>5. Upto \ S \in (SUBSET NodesOf(graph)) \ {{}}
  BY <1>2, <1>3 DEF Nodes
<1>6. PICK n \in Upto \ S : Feeders(graph, n) \cap (Upto \ S) = {}
  BY <1>4, <1>5 DEF Acyclic
<1>7. Feeders(graph, n) \subseteq S
  BY <1>2, <1>6
<1> QED BY <1>6, <1>7

\* The ifs behind the run took the branches ways says.
Agrees(ways) == \A i \in Past : Kind(i) = "if" /\ Ran(i) => ways[i] = outcome[i]

LiveWire(e) == Ran(e.from) /\ (e.branch = "plain" \/ outcome[e.from] = e.branch)

LEMMA LiveWires ==
  ASSUME TypeInv, Settled, Running, NEW ways, Agrees(ways),
         NEW e \in WiresOf(graph), e.from \in Past
  PROVE  LiveWire(e) <=> Ran(e.from) /\ e \in Taken(graph, ways)
<1>1. graph \in Workflows
  BY DEF TypeInv, TypeOK
<1>2. Kind(e.from) = "if" <=> e.branch # "plain"
  BY <1>1, WorkflowAssumption DEF validateWorkflow, checkBranches, Kind
<1>3. Kind(e.from) = "if" /\ Ran(e.from) => ways[e.from] = outcome[e.from]
  BY DEF Agrees
<1>4. e \in Taken(graph, ways) <=> (Kind(e.from) = "if" => e.branch = ways[e.from])
  BY DEF Taken, Kind
<1> QED BY <1>2, <1>3, <1>4 DEF LiveWire

\* A node runs if and only if it is reached from a source.
LEMMA RunsReached ==
  ASSUME TypeInv, Settled, Running, NEW ways, Agrees(ways), NEW n \in Upto
  PROVE  workflowNodeRuns(n) <=> \E v \in Of("source") : n \in Reach(graph, ways, v)
<1> DEFINE Met(m) == \E v \in Of("source") : m \in Reach(graph, ways, v)
           S == {m \in Upto : workflowNodeRuns(m) <=> Met(m)}
<1>1. /\ graph \in Workflows /\ Past \subseteq Nodes /\ \A m \in Past : Feeders(graph, m) \subseteq Past
      /\ at <= Len(order) => Node \in Nodes /\ Feeders(graph, Node) \subseteq Past
      /\ pc # "rest"
  BY PastFacts DEF Running
<1>2. \A m \in Upto : m \in Nodes /\ Feeders(graph, m) \subseteq Past
  BY <1>1 DEF Upto
<1>3. ASSUME NEW m \in Upto, Feeders(graph, m) \subseteq S PROVE m \in S
  <2>1. \A v \in Of("source") : v \in Nodes /\ Kind(v) = "source"
    BY DEF Of, OfKind, Nodes, Kind
  <2>2. CASE Kind(m) = "source"
    <3>1. WiresInto(m) = {} /\ m \in Of("source") /\ m \in NodesOf(graph)
      BY <1>1, <1>2, <2>2, NodeFacts DEF WiresInto, Kind, Nodes, Of, OfKind
    <3>2. m \in Reach(graph, ways, m)
      BY <1>1, <3>1, ReachSteps
    <3> QED BY <3>1, <3>2 DEF workflowNodeRuns
  <2>3. CASE Kind(m) # "source"
    <3>1. WiresInto(m) # {} /\ m \in NodesOf(graph)
      BY <1>1, <1>2, <2>3, NodeFacts DEF WiresInto, Kind, Nodes
    <3>2. \A e \in WiresInto(m) : e \in WiresOf(graph) /\ e.to = m /\ e.from \in Past /\ e.from \in S
      BY <1>2, <1>3 DEF WiresInto, Feeders
    <3>3. workflowNodeRuns(m) <=> \E e \in WiresInto(m) : LiveWire(e)
      BY <3>1 DEF workflowNodeRuns, LiveWire
    <3>4. \A e \in WiresInto(m) : LiveWire(e) <=> Ran(e.from) /\ e \in Taken(graph, ways)
      BY <3>2, LiveWires
    <3>5. \A e \in WiresInto(m) : Ran(e.from) <=> Met(e.from)
      BY <3>2 DEF Settled, SettledNode
    <3>6. \A e \in Taken(graph, ways) : e.to = m => e \in WiresInto(m)
      BY DEF Taken, WiresInto
    <3>7. \A v \in Of("source") : m \in Reach(graph, ways, v) <=>
            \E e \in Taken(graph, ways) : e.to = m /\ e.from \in Reach(graph, ways, v)
      <4>1. SUFFICES ASSUME NEW v \in Of("source")
                     PROVE  m \in Reach(graph, ways, v) <=>
                              \E e \in Taken(graph, ways) : e.to = m /\ e.from \in Reach(graph, ways, v)
        OBVIOUS
      <4>2. v \in NodesOf(graph) /\ m # v
        BY <2>1, <2>3 DEF Nodes
      <4> QED BY <1>1, <3>1, <4>2, ReachSteps
    <3>8. Met(m) <=> \E e \in WiresInto(m) : e \in Taken(graph, ways) /\ Met(e.from)
      BY <3>2, <3>6, <3>7
    <3> HIDE DEF Met
    <3>9. workflowNodeRuns(m) <=> Met(m)
      BY <3>3, <3>4, <3>5, <3>8
    <3> QED BY <3>9
  <2> QED BY <2>2, <2>3
<1>4. Upto \subseteq S
  <2> HIDE DEF S
  <2> QED BY <1>1, <1>3, AlongPlan
<1> QED BY <1>4

\* The rows of the sources a node is reached from.
Coming(ways, n) == UNION {RowsOf(stage[v]) : v \in {u \in Of("source") : n \in Reach(graph, ways, u)}}

\* A batch that is handed to a node is one that a node before it hands on.
LEMMA RefsRows ==
  ASSUME TypeInv, NEW n
  PROVE  /\ \A f \in Feeders(graph, n) : RowsOf(Staged(f)) \subseteq RowsOf(stageRefsFor(n))
         /\ \A r \in RowsOf(stageRefsFor(n)) : \E f \in Feeders(graph, n) : r \in RowsOf(Staged(f))
<1> DEFINE ins == Inputs(n)
           N == Len(ins)
           refs == stageRefsFor(n)
           coming == Incoming(n)
<1>1. /\ graph \in Workflows /\ ref \in [Nodes -> Nodes \cup {NoStage}]
      /\ stage \in [Nodes -> Seq(SUBSET Row)]
  BY DEF TypeInv, TypeOK
<1>2. /\ DOMAIN ins = 1 .. N
      /\ \A i \in 1 .. N : ins[i] \in Feeders(graph, n)
      /\ \A f \in Feeders(graph, n) : \E i \in 1 .. N : ins[i] = f
  BY <1>1, InputsFacts
<1>3. refs \in Seq(SUBSET Row) /\ Joined(coming, N, refs)
  BY <1>1, StageRefs
<1>4. DOMAIN refs = 1 .. Len(refs)
  BY <1>3, SeqFacts
<1>5. \A i \in 1 .. N : coming[i] = Staged(ins[i])
  BY <1>2 DEF Incoming
<1>6. \A i \in 1 .. Len(refs) : \E k \in 1 .. N : \E j \in DOMAIN coming[k] : refs[i] = coming[k][j]
  BY <1>3 DEF Joined
<1>7. \A k \in 1 .. N : \A j \in DOMAIN coming[k] : \E i \in 1 .. Len(refs) : refs[i] = coming[k][j]
  BY <1>3 DEF Joined
<1> HIDE DEF ins, N, refs, coming
<1>8. ASSUME NEW f \in Feeders(graph, n) PROVE RowsOf(Staged(f)) \subseteq RowsOf(refs)
  <2>1. PICK k \in 1 .. N : coming[k] = Staged(f)
    BY <1>2, <1>5
  <2>2. \A j \in DOMAIN Staged(f) : \E i \in DOMAIN refs : refs[i] = Staged(f)[j]
    BY <1>4, <1>7, <2>1
  <2> QED BY <2>2 DEF RowsOf
<1>9. ASSUME NEW r \in RowsOf(refs) PROVE \E f \in Feeders(graph, n) : r \in RowsOf(Staged(f))
  <2>1. PICK i \in 1 .. Len(refs) : r \in refs[i]
    BY <1>4 DEF RowsOf
  <2>2. PICK k \in 1 .. N : \E j \in DOMAIN coming[k] : refs[i] = coming[k][j]
    BY <1>6
  <2>3. PICK j \in DOMAIN coming[k] : refs[i] = coming[k][j]
    BY <2>2
  <2>4. r \in RowsOf(Staged(ins[k]))
    BY <1>5, <2>1, <2>3 DEF RowsOf
  <2> QED BY <1>2, <2>4
<1> QED BY <1>8, <1>9 DEF refs

\* What feeds a node hands on, and over one wire.
LEMMA FeederFacts ==
  ASSUME TypeInv, pc # "rest", NEW n \in Upto, NEW f \in Feeders(graph, n)
  PROVE  /\ f \in Past /\ f \in Nodes /\ Kind(f) # "sink" /\ f \in Upto
         /\ \E e \in WiresOf(graph) : e.from = f /\ e.to = n /\ e \in WiresInto(n)
<1>1. /\ graph \in Workflows /\ Past \subseteq Nodes /\ \A m \in Past : Feeders(graph, m) \subseteq Past
      /\ at <= Len(order) => Node \in Nodes /\ Feeders(graph, Node) \subseteq Past
  BY PastFacts
<1>2. f \in Past /\ f \in Nodes /\ f \in Upto
  BY <1>1 DEF Upto
<1>3. PICK e \in WiresOf(graph) : e.from = f /\ e.to = n
  BY DEF Feeders
<1>4. Kind(f) # "sink"
  BY <1>1, <1>3, WorkflowAssumption DEF validateWorkflow, checkNodeWiring, Kind
<1> QED BY <1>2, <1>3, <1>4 DEF WiresInto

\* Where the branches are whole, whatever feeds a node that runs feeds it over a wire that
\* is taken.
LEMMA FeedersTaken ==
  ASSUME TypeInv, Settled, Running, NEW ways, Agrees(ways), NEW n \in Upto, workflowNodeRuns(n),
         BranchesAreWhole(graph), NEW e \in WiresInto(n)
  PROVE  Ran(e.from) => e \in Taken(graph, ways)
<1>1. pc # "rest" /\ graph \in Workflows /\ e \in WiresOf(graph) /\ e.to = n
  BY DEF Running, TypeInv, TypeOK, WiresInto
<1>2. PICK d \in WiresInto(n) : LiveWire(d)
  BY DEF workflowNodeRuns, LiveWire
<1>3. d \in WiresOf(graph) /\ d.to = n /\ d.from \in Feeders(graph, n)
  BY DEF WiresInto, Feeders
<1>4. d \in Taken(graph, ways)
  BY <1>1, <1>2, <1>3, FeederFacts, LiveWires
<1>5. CASE Kind(e.from) = "if"
  <2>1. d = e
    BY <1>1, <1>3, <1>5 DEF BranchesAreWhole, Kind
  <2> QED BY <1>4, <2>1
<1>6. CASE Kind(e.from) # "if"
  BY <1>1, <1>6 DEF Taken, Kind
<1> QED BY <1>5, <1>6

Handed(ways, n) ==
  n \in Past /\ Ran(n) /\ Kind(n) # "sink" =>
    /\ Coming(ways, n) \subseteq RowsOf(Staged(n))
    /\ BranchesAreWhole(graph) => RowsOf(Staged(n)) \subseteq Coming(ways, n)

LEMMA ReachedOver ==
  ASSUME graph \in Workflows, NEW ways, NEW n \in Nodes, Kind(n) # "source", NEW v \in Of("source")
  PROVE  n \in Reach(graph, ways, v) <=>
           \E e \in WiresInto(n) : e \in Taken(graph, ways) /\ e.from \in Reach(graph, ways, v)
<1>1. v \in NodesOf(graph) /\ n \in NodesOf(graph) /\ n # v
  BY DEF Of, OfKind, Kind, Nodes
<1>2. n \in Reach(graph, ways, v) <=>
        \E e \in Taken(graph, ways) : e.to = n /\ e.from \in Reach(graph, ways, v)
  BY <1>1, ReachSteps
<1> QED BY <1>2 DEF Taken, WiresInto

LEMMA RefsHanded ==
  ASSUME TypeInv, Settled, Running, NEW ways, Agrees(ways), NEW n \in Upto, workflowNodeRuns(n),
         Kind(n) # "source", \A f \in Feeders(graph, n) : Handed(ways, f)
  PROVE  /\ Coming(ways, n) \subseteq RowsOf(stageRefsFor(n))
         /\ BranchesAreWhole(graph) => RowsOf(stageRefsFor(n)) \subseteq Coming(ways, n)
<1>1. pc # "rest" /\ graph \in Workflows /\ n \in Nodes
  BY PastFacts DEF Running, Upto
<1>2. \A e \in WiresInto(n) : e.from \in Feeders(graph, n)
  BY DEF WiresInto, Feeders
<1>3. \A f \in Feeders(graph, n) :
        /\ f \in Past /\ f \in Upto /\ Kind(f) # "sink"
        /\ \E e \in WiresInto(n) : e.from = f
  BY <1>1, FeederFacts
<1>4. \A r : \A m : r \in Coming(ways, m) <=>
        \E v \in Of("source") : m \in Reach(graph, ways, v) /\ r \in RowsOf(stage[v])
  BY DEF Coming
<1>5. ASSUME NEW r \in Coming(ways, n) PROVE r \in RowsOf(stageRefsFor(n))
  <2>1. PICK v \in Of("source") : n \in Reach(graph, ways, v) /\ r \in RowsOf(stage[v])
    BY <1>4, <1>5
  <2>2. PICK e \in WiresInto(n) : e \in Taken(graph, ways) /\ e.from \in Reach(graph, ways, v)
    BY <1>1, <2>1, ReachedOver
  <2>3. e.from \in Feeders(graph, n) /\ e.from \in Past /\ e.from \in Upto /\ Kind(e.from) # "sink"
    BY <1>2, <1>3
  <2>4. workflowNodeRuns(e.from)
    BY <2>2, <2>3, RunsReached
  <2>5. Ran(e.from)
    BY <2>3, <2>4 DEF Settled, SettledNode
  <2>6. r \in Coming(ways, e.from)
    BY <1>4, <2>1, <2>2
  <2>7. r \in RowsOf(Staged(e.from))
    BY <2>3, <2>5, <2>6 DEF Handed
  <2> QED BY <2>3, <2>7, RefsRows
<1>6. ASSUME BranchesAreWhole(graph), NEW r \in RowsOf(stageRefsFor(n)) PROVE r \in Coming(ways, n)
  <2>1. PICK f \in Feeders(graph, n) : r \in RowsOf(Staged(f))
    BY <1>6, RefsRows
  <2>2. PICK e \in WiresInto(n) : e.from = f
    BY <1>3
  <2>3. f \in Past /\ Kind(f) # "sink"
    BY <1>3
  <2>4. Ran(f)
    <3>1. SUFFICES ASSUME ~Ran(f) PROVE FALSE
      OBVIOUS
    <3>2. ref[f] = NoStage
      BY <2>3, <3>1 DEF Settled, SettledNode, HandsOn
    <3>3. RowsOf(Staged(f)) = {}
      BY <3>2 DEF Staged, RowsOf
    <3> QED BY <2>1, <3>3
  <2>5. e \in Taken(graph, ways)
    BY <1>6, <2>2, <2>4, FeedersTaken
  <2>6. r \in Coming(ways, f)
    BY <1>6, <2>1, <2>3, <2>4 DEF Handed
  <2>7. PICK v \in Of("source") : f \in Reach(graph, ways, v) /\ r \in RowsOf(stage[v])
    BY <1>4, <2>6
  <2>8. n \in Reach(graph, ways, v)
    BY <1>1, <2>2, <2>5, <2>7, ReachedOver
  <2> QED BY <1>4, <2>7, <2>8
<1> QED BY <1>5, <1>6

LEMMA IfHands ==
  ASSUME TypeInv, Settled, Running, NEW n \in Past, Kind(n) = "if"
  PROVE  \E e \in WiresInto(n) :
           /\ \A d \in WiresInto(n) : d = e
           /\ e.from \in Past /\ e.from \in Upto /\ Kind(e.from) # "sink" /\ e.from \in Feeders(graph, n)
           /\ Ran(n) => Staged(n) = Staged(e.from) /\ Ran(e.from)
<1>1. pc # "rest" /\ graph \in Workflows /\ n \in Nodes /\ n \in Upto
  BY PastFacts DEF Running, Upto
<1>2. WiresInto(n) # {}
  BY <1>1, NodeFacts DEF Kind, Nodes, WiresInto
<1>3. PICK e \in WiresInto(n) : TRUE
  BY <1>2
<1>4. \A d \in WiresInto(n) : d = e
  BY <1>1, <1>3, WorkflowAssumption DEF validateWorkflow, checkNodeWiring, WiresInto, Kind
<1>5. e.from \in Feeders(graph, n)
  BY DEF WiresInto, Feeders
<1>6. e.from \in Past /\ e.from \in Upto /\ Kind(e.from) # "sink"
  BY <1>1, <1>5, FeederFacts
<1>7. \A f \in Feeders(graph, n) : f = e.from
  BY <1>4 DEF Feeders, WiresInto
<1>8. Inputs(n)[1] = e.from
  <2>1. 1 \in 1 .. Len(Inputs(n)) /\ Inputs(n)[1] \in Feeders(graph, n)
    BY <1>1, <1>5, InputsFacts
  <2> QED BY <1>7, <2>1
<1>9. ASSUME Ran(n) PROVE Staged(n) = Staged(e.from) /\ Ran(e.from)
  <2>1. ref[n] = ref[e.from] /\ workflowNodeRuns(n)
    BY <1>8, <1>9 DEF Settled, SettledNode, HandsOn
  <2>2. Ran(e.from)
    BY <1>2, <1>4, <2>1 DEF workflowNodeRuns
  <2> QED BY <2>1, <2>2 DEF Staged
<1> QED BY <1>4, <1>5, <1>6, <1>9

\* A node hands on the rows of the sources it is reached from, and where the branches are
\* whole no others.
LEMMA RowsHanded ==
  ASSUME TypeInv, Settled, Running, NEW ways, Agrees(ways), NEW n \in Upto
  PROVE  Handed(ways, n)
<1> DEFINE S == {m \in Upto : Handed(ways, m)}
<1>1. pc # "rest" /\ graph \in Workflows /\ Past \subseteq Nodes
  BY PastFacts DEF Running
<1>2. ASSUME NEW m \in Upto, Feeders(graph, m) \subseteq S PROVE m \in S
  <2>1. SUFFICES ASSUME m \in Past, Ran(m), Kind(m) # "sink"
                 PROVE  /\ Coming(ways, m) \subseteq RowsOf(Staged(m))
                        /\ BranchesAreWhole(graph) => RowsOf(Staged(m)) \subseteq Coming(ways, m)
    BY <1>2 DEF Handed
  <2>2. /\ workflowNodeRuns(m) /\ ref[m] = HandsOn(m) /\ m \in Nodes
        /\ Kind(m) = "pipe" => stage[m] = stageRefsFor(m)
    BY <1>1, <2>1 DEF Settled, SettledNode
  <2>3. Kind(m) \in {"source", "if", "pipe"} /\ m # NoStage
    BY <1>1, <2>1, <2>2, NodeFacts DEF Kind, Kinds, Nodes
  <2>4. Kind(m) # "if" => Staged(m) = stage[m]
    BY <2>1, <2>2, <2>3 DEF Staged, HandsOn
  <2>5. CASE Kind(m) = "source"
    <3>1. m \in Of("source") /\ m \in NodesOf(graph) /\ WiresInto(m) = {}
      BY <1>1, <2>2, <2>5, NodeFacts DEF Of, OfKind, Kind, Nodes, WiresInto
    <3>2. \A v \in Of("source") : m \in Reach(graph, ways, v) <=> m = v
      <4>1. SUFFICES ASSUME NEW v \in Of("source") PROVE m \in Reach(graph, ways, v) <=> m = v
        OBVIOUS
      <4>2. v \in NodesOf(graph)
        BY DEF Of, OfKind
      <4>3. \A e \in Taken(graph, ways) : e.to # m
        BY <3>1 DEF Taken, WiresInto
      <4> QED BY <1>1, <3>1, <4>2, <4>3, ReachSteps
    <3>3. {u \in Of("source") : m \in Reach(graph, ways, u)} = {m}
      BY <3>1, <3>2
    <3>4. Coming(ways, m) = RowsOf(stage[m])
      BY <3>3 DEF Coming
    <3> QED BY <2>4, <2>5, <3>4
  <2>6. CASE Kind(m) = "pipe"
    <3>1. \A f \in Feeders(graph, m) : Handed(ways, f)
      BY <1>2
    <3>2. Kind(m) # "source" /\ Staged(m) = stageRefsFor(m)
      BY <2>2, <2>4, <2>6
    <3> QED BY <1>2, <2>2, <3>1, <3>2, RefsHanded
  <2>7. CASE Kind(m) = "if"
    <3>1. PICK e \in WiresInto(m) :
            /\ \A d \in WiresInto(m) : d = e
            /\ e.from \in Past /\ e.from \in Upto /\ Kind(e.from) # "sink" /\ e.from \in Feeders(graph, m)
            /\ Ran(m) => Staged(m) = Staged(e.from) /\ Ran(e.from)
      BY <2>1, <2>7, IfHands
    <3>2. LiveWire(e)
      BY <2>2, <3>1 DEF workflowNodeRuns, LiveWire
    <3>3. e \in Taken(graph, ways)
      BY <3>1, <3>2, LiveWires DEF WiresInto
    <3>4. \A v \in Of("source") : m \in Reach(graph, ways, v) <=> e.from \in Reach(graph, ways, v)
      <4>1. Kind(m) # "source"
        BY <2>7
      <4> QED BY <1>1, <2>2, <3>1, <3>3, <4>1, ReachedOver
    <3>5. Coming(ways, m) = Coming(ways, e.from)
      BY <3>4 DEF Coming
    <3>6. Handed(ways, e.from)
      BY <1>2, <3>1
    <3> QED BY <2>1, <3>1, <3>5, <3>6 DEF Handed
  <2> QED BY <2>3, <2>5, <2>6, <2>7
<1>3. Upto \subseteq S
  <2> HIDE DEF S
  <2> QED BY <1>1, <1>2, AlongPlan
<1> QED BY <1>3

LEMMA RowsReached ==
  ASSUME TypeInv, Settled, Running, NEW ways, Agrees(ways), NEW n \in Upto, workflowNodeRuns(n),
         Kind(n) # "source"
  PROVE  /\ Coming(ways, n) \subseteq RowsOf(stageRefsFor(n))
         /\ BranchesAreWhole(graph) => RowsOf(stageRefsFor(n)) \subseteq Coming(ways, n)
<1>1. \A f \in Feeders(graph, n) : Handed(ways, f)
  BY FeederFacts, RowsHanded DEF Running
<1> QED BY <1>1, RefsHanded

\* A way for every if: the branch it took, where it took one.
TakenWays == [i \in Of("if") |-> IF outcome[i] \in Branches THEN outcome[i] ELSE "then"]

LEMMA WaysAgree ==
  ASSUME TypeInv, Settled, Running
  PROVE  /\ TakenWays \in Ways(graph) /\ Agrees(TakenWays)
         /\ Agrees([n \in Of("if") |-> outcome[n]])
<1>1. TakenWays \in Ways(graph)
  BY DEF TakenWays, Ways, Of, Branches
<1>2. \A i \in Past : Kind(i) = "if" /\ Ran(i) => i \in Of("if") /\ outcome[i] \in Branches
  BY PastFacts DEF Settled, SettledNode, Of, OfKind, Kind, Nodes, Running
<1> QED BY <1>1, <1>2 DEF Agrees, TakenWays

\* Where rows arrive once, no row is in two of the batches that are handed to a node.
ApartOf(n) == n \in Past /\ Ran(n) /\ Kind(n) # "sink" => Apart(Staged(n))

LEMMA RefsApart ==
  ASSUME TypeInv, Settled, Running, Spread, BranchesAreWhole(graph), RowsArriveOnce(graph),
         NEW n \in Upto, workflowNodeRuns(n), \A f \in Feeders(graph, n) : ApartOf(f)
  PROVE  Apart(stageRefsFor(n))
<1> DEFINE ins == Inputs(n)
           N == Len(ins)
           coming == Incoming(n)
           ways == TakenWays
<1>1. /\ graph \in Workflows /\ ref \in [Nodes -> Nodes \cup {NoStage}]
      /\ stage \in [Nodes -> Seq(SUBSET Row)] /\ pc # "rest"
  BY DEF TypeInv, TypeOK, Running
<1>2. /\ DOMAIN ins = 1 .. N
      /\ \A i \in 1 .. N : ins[i] \in Feeders(graph, n)
      /\ \A i, j \in 1 .. N : ins[i] = ins[j] => i = j
  BY <1>1, InputsFacts
<1>3. Joined(coming, N, stageRefsFor(n))
  BY <1>1, StageRefs
<1>4. \A i \in 1 .. N : coming[i] = Staged(ins[i])
  BY <1>2 DEF Incoming
<1>5. ways \in Ways(graph) /\ Agrees(ways)
  BY WaysAgree
<1> HIDE DEF ins, N, coming, ways
<1>6. \A f \in Feeders(graph, n) :
        /\ f \in Past /\ f \in Upto /\ Kind(f) # "sink"
        /\ \E e \in WiresInto(n) : e.from = f
  BY <1>1, FeederFacts
<1>7. \A f \in Feeders(graph, n) : ~Ran(f) => Staged(f) = <<>>
  BY <1>6 DEF Settled, SettledNode, HandsOn, Staged
<1>8. \A f \in Feeders(graph, n) : Apart(Staged(f))
  <2>1. Apart(<<>>)
    BY DEF Apart
  <2> QED BY <1>6, <1>7, <2>1 DEF ApartOf
<1>9. ASSUME NEW i \in 1 .. N, NEW j \in 1 .. N, i # j, NEW r,
             r \in RowsOf(Staged(ins[i])), r \in RowsOf(Staged(ins[j]))
      PROVE  FALSE
  <2>1. /\ ins[i] \in Feeders(graph, n) /\ ins[j] \in Feeders(graph, n) /\ ins[i] # ins[j]
    BY <1>2, <1>9
  <2>2. RowsOf(<<>>) = {}
    BY DEF RowsOf
  <2>3. Ran(ins[i]) /\ Ran(ins[j])
    BY <1>7, <1>9, <2>1, <2>2
  <2>4. r \in Coming(ways, ins[i]) /\ r \in Coming(ways, ins[j])
    BY <1>5, <1>6, <1>9, <2>1, <2>3, RowsHanded DEF Handed
  <2>5. PICK v \in Of("source") : ins[i] \in Reach(graph, ways, v) /\ r \in RowsOf(stage[v])
    BY <2>4 DEF Coming
  <2>6. PICK u \in Of("source") : ins[j] \in Reach(graph, ways, u) /\ r \in RowsOf(stage[u])
    BY <2>4 DEF Coming
  <2>7. u = v
    BY <2>5, <2>6, SpreadFacts
  <2>8. PICK d \in WiresInto(n) : d.from = ins[i]
    BY <1>6, <2>1
  <2>9. PICK e \in WiresInto(n) : e.from = ins[j]
    BY <1>6, <2>1
  <2>10. d \in Taken(graph, ways) /\ e \in Taken(graph, ways)
    BY <1>5, <2>3, <2>8, <2>9, FeedersTaken
  <2>11. d.to = e.to /\ v \in OfKind(graph, "source")
    BY <2>5, <2>8, <2>9 DEF WiresInto, Of
  <2>12. d = e
    BY <1>5, <2>5, <2>6, <2>7, <2>8, <2>9, <2>10, <2>11 DEF RowsArriveOnce
  <2> QED BY <2>1, <2>8, <2>9, <2>12
<1>10. \A k, l \in 1 .. N : k # l =>
         \A i \in DOMAIN coming[k], j \in DOMAIN coming[l] : coming[k][i] \cap coming[l][j] = {}
  <2>1. SUFFICES ASSUME NEW k \in 1 .. N, NEW l \in 1 .. N, k # l,
                        NEW i \in DOMAIN coming[k], NEW j \in DOMAIN coming[l],
                        NEW r, r \in coming[k][i], r \in coming[l][j]
                 PROVE  FALSE
    OBVIOUS
  <2>2. r \in RowsOf(coming[k]) /\ r \in RowsOf(coming[l])
    BY <2>1 DEF RowsOf
  <2> QED BY <1>4, <1>9, <2>1, <2>2
<1>11. \A k \in 1 .. N : Apart(coming[k])
  BY <1>2, <1>4, <1>8
<1> QED BY <1>3, <1>10, <1>11 DEF Joined

LEMMA NodesApart ==
  ASSUME TypeInv, Settled, Running, Spread, BranchesAreWhole(graph), RowsArriveOnce(graph), NEW n \in Upto
  PROVE  ApartOf(n)
<1> DEFINE S == {m \in Upto : ApartOf(m)}
<1>1. pc # "rest" /\ graph \in Workflows /\ Past \subseteq Nodes
  BY PastFacts DEF Running
<1>2. ASSUME NEW m \in Upto, Feeders(graph, m) \subseteq S PROVE m \in S
  <2>1. SUFFICES ASSUME m \in Past, Ran(m), Kind(m) # "sink"
                 PROVE  Apart(Staged(m))
    BY <1>2 DEF ApartOf
  <2>2. /\ workflowNodeRuns(m) /\ ref[m] = HandsOn(m) /\ m \in Nodes
        /\ Kind(m) = "pipe" => stage[m] = stageRefsFor(m)
    BY <1>1, <2>1 DEF Settled, SettledNode
  <2>3. Kind(m) \in {"source", "if", "pipe"} /\ m # NoStage
    BY <1>1, <2>1, <2>2, NodeFacts DEF Kind, Kinds, Nodes
  <2>4. Kind(m) # "if" => Staged(m) = stage[m]
    BY <2>1, <2>2, <2>3 DEF Staged, HandsOn
  <2>5. CASE Kind(m) = "source"
    <3>1. m \in Of("source")
      BY <2>2, <2>5 DEF Of, OfKind, Kind, Nodes
    <3> QED BY <2>4, <2>5, <3>1, SpreadFacts
  <2>6. CASE Kind(m) = "pipe"
    <3>1. \A f \in Feeders(graph, m) : ApartOf(f)
      BY <1>2
    <3>2. Apart(stageRefsFor(m))
      BY <1>2, <2>2, <3>1, RefsApart
    <3> QED BY <2>2, <2>4, <2>6, <3>2
  <2>7. CASE Kind(m) = "if"
    <3>1. PICK e \in WiresInto(m) :
            /\ \A d \in WiresInto(m) : d = e
            /\ e.from \in Past /\ e.from \in Upto /\ Kind(e.from) # "sink" /\ e.from \in Feeders(graph, m)
            /\ Ran(m) => Staged(m) = Staged(e.from) /\ Ran(e.from)
      BY <2>1, <2>7, IfHands
    <3>2. ApartOf(e.from)
      BY <1>2, <3>1
    <3> QED BY <2>1, <3>1, <3>2 DEF ApartOf
  <2> QED BY <2>3, <2>5, <2>6, <2>7
<1>3. Upto \subseteq S
  <2> HIDE DEF S
  <2> QED BY <1>1, <1>2, AlongPlan
<1> QED BY <1>3

-----------------------------------------------------------------------------
(* What a commit serves. *)

LEMMA RowFinite == IsFiniteSet(Row)
<1>1. IsFiniteSet(Sources) /\ MaxRows \in Nat
  BY WorkflowAssumption
<1>2. IsFiniteSet(1 .. MaxRows)
  <2>1. \A a, b \in Int : IsFiniteSet(a .. b)
    BY FS_Interval
  <2> QED BY <1>1, <2>1
<1> QED BY <1>1, <1>2, FS_Product DEF Row

\* What a load holds: what it was handed and, unless it is a full one, what was served.
LEMMA LoadServes ==
  ASSUME TypeInv, NEW k
  PROVE  {c[2] : c \in Load(k)} = RowsOf(stageRefsFor(k)) \cup (IF Full(k) THEN {} ELSE kept[k])
<1> DEFINE refs == stageRefsFor(k)
           rest == IF Full(k) THEN {} ELSE kept[k] \ RowsOf(refs)
<1>1. refs \in Seq(SUBSET Row) /\ DOMAIN refs = 1 .. Len(refs)
  BY StageRefsType
<1>2. \A c : c \in Numbered(refs) <=> \E i \in 1 .. Len(refs) : \E r \in refs[i] : c = <<i, r>>
  BY <1>1, NumberedFacts
<1>3. \A r : r \in RowsOf(refs) <=> \E i \in 1 .. Len(refs) : r \in refs[i]
  BY <1>1 DEF RowsOf
<1> HIDE DEF refs
<1>4. Load(k) = Numbered(refs) \cup ({0} \X rest)
  BY DEF Load, refs
<1> HIDE DEF rest
<1>5. {c[2] : c \in Numbered(refs)} = RowsOf(refs)
  <2>1. \A c \in Numbered(refs) : c[2] \in RowsOf(refs)
    BY <1>2, <1>3
  <2>2. ASSUME NEW r \in RowsOf(refs) PROVE \E c \in Numbered(refs) : r = c[2]
    <3>1. PICK i \in 1 .. Len(refs) : r \in refs[i]
      BY <1>3
    <3>2. <<i, r>> \in Numbered(refs) /\ r = <<i, r>>[2]
      BY <1>2, <3>1
    <3> QED BY <3>2
  <2> QED BY <2>1, <2>2
<1>6. {c[2] : c \in {0} \X rest} = rest
  <2>1. \A r \in rest : <<0, r>> \in {0} \X rest /\ <<0, r>>[2] = r
    OBVIOUS
  <2>2. \A c \in {0} \X rest : c[2] \in rest
    OBVIOUS
  <2> QED BY <2>1, <2>2
<1>7. {c[2] : c \in Load(k)} = {c[2] : c \in Numbered(refs)} \cup {c[2] : c \in {0} \X rest}
  BY <1>4
<1>8. {c[2] : c \in Load(k)} = RowsOf(refs) \cup rest
  BY <1>5, <1>6, <1>7
<1>9. RowsOf(refs) \cup rest = RowsOf(refs) \cup (IF Full(k) THEN {} ELSE kept[k])
  BY DEF rest
<1> QED BY <1>8, <1>9 DEF refs

\* A load of batches that are apart holds each row once.
LEMMA LoadOnce ==
  ASSUME TypeInv, NEW k \in Sinks, Apart(stageRefsFor(k))
  PROVE  Cardinality(Load(k)) = Cardinality({c[2] : c \in Load(k)})
<1> DEFINE refs == stageRefsFor(k)
           rest == IF Full(k) THEN {} ELSE kept[k] \ RowsOf(refs)
           L == Load(k)
           V == {c[2] : c \in L}
<1>1. refs \in Seq(SUBSET Row) /\ DOMAIN refs = 1 .. Len(refs) /\ Len(refs) \in Nat
  BY StageRefsType
<1>2. \A c : c \in Numbered(refs) <=> \E i \in 1 .. Len(refs) : \E r \in refs[i] : c = <<i, r>>
  BY <1>1, NumberedFacts
<1>3. \A r : r \in RowsOf(refs) <=> \E i \in 1 .. Len(refs) : r \in refs[i]
  BY <1>1 DEF RowsOf
<1>4. \A i, j \in 1 .. Len(refs) : i # j => refs[i] \cap refs[j] = {}
  BY <1>1 DEF Apart
<1>5. V \subseteq Row
  <2>1. V = RowsOf(refs) \cup (IF Full(k) THEN {} ELSE kept[k])
    BY LoadServes
  <2>2. kept[k] \subseteq Row
    BY DEF TypeInv, TypeOK
  <2>3. RowsOf(refs) \subseteq Row
    <3>1. \A i \in 1 .. Len(refs) : refs[i] \subseteq Row
      BY <1>1, SeqFacts
    <3> HIDE DEF refs
    <3> QED BY <1>3, <3>1
  <2> QED BY <2>1, <2>2, <2>3
<1>6. L = Numbered(refs) \cup ({0} \X rest)
  BY DEF Load
<1> HIDE DEF refs
<1>7. ASSUME NEW c \in L, NEW d \in L, c[2] = d[2] PROVE c = d
  <2>1. \A b \in Numbered(refs) : \E i \in 1 .. Len(refs) : \E r \in refs[i] : b = <<i, r>> /\ r \in RowsOf(refs)
    BY <1>2, <1>3
  <2>2. \A b \in {0} \X rest : b = <<0, b[2]>> /\ b[2] \notin RowsOf(refs)
    OBVIOUS
  <2>3. CASE c \in Numbered(refs) /\ d \in Numbered(refs)
    <3>1. PICK i \in 1 .. Len(refs) : \E r \in refs[i] : c = <<i, r>>
      BY <2>1, <2>3
    <3>2. PICK j \in 1 .. Len(refs) : \E r \in refs[j] : d = <<j, r>>
      BY <2>1, <2>3
    <3>3. c = <<i, c[2]>> /\ d = <<j, d[2]>> /\ c[2] \in refs[i] /\ d[2] \in refs[j]
      BY <3>1, <3>2
    <3>4. i = j
      BY <1>4, <1>7, <3>3
    <3> QED BY <1>7, <3>3, <3>4
  <2>4. CASE c \in {0} \X rest /\ d \in {0} \X rest
    BY <1>7, <2>2, <2>4
  <2>5. CASE c \in Numbered(refs) /\ d \in {0} \X rest
    BY <1>7, <2>1, <2>2, <2>5
  <2>6. CASE c \in {0} \X rest /\ d \in Numbered(refs)
    BY <1>7, <2>1, <2>2, <2>6
  <2> QED BY <1>6, <2>3, <2>4, <2>5, <2>6
<1> HIDE DEF L
<1> DEFINE f == [r \in V |-> CHOOSE c \in L : c[2] = r]
<1>8. \A r \in V : f[r] \in L /\ f[r][2] = r
  OBVIOUS
<1>9. \A c \in L : c[2] \in V /\ f[c[2]] = c
  BY <1>7, <1>8
<1>10. f \in [V -> L]
  BY <1>8
<1>11. \A r, s \in V : f[r] = f[s] => r = s
  BY <1>8
<1> HIDE DEF f, V
<1>12. f \in Bijection(V, L)
  BY <1>9, <1>10, <1>11 DEF Bijection, Injection, Surjection, IsInjective
<1>13. IsFiniteSet(V)
  BY <1>5, RowFinite, FS_Subset
<1>14. Cardinality(L) = Cardinality(V)
  BY <1>12, <1>13, FS_Bijection DEF ExistsBijection
<1> QED BY <1>14 DEF L, V

RunInv == TypeInv /\ Settled /\ Loads /\ Spread

LEMMA RunInvHolds == Spec => []RunInv
<1>1. Init => RunInv
  BY TypeStarts, SettledStarts, LoadsStart, SpreadStarts DEF RunInv
<1>2. RunInv /\ [Next]_vars => RunInv'
  BY TypeMoves, SettledMovesOn, LoadsMove, SpreadMoves DEF RunInv
<1> QED BY <1>1, <1>2, PTL DEF Spec

CommitServes ==
  LET from == {v \in Of("source") :
                 Node \in Reach(graph, [n \in Of("if") |-> outcome[n]], v)}
      rows == UNION {UNION ToSet(stage[v]) : v \in from}
  IN /\ from # {}
     /\ View(Node)' = rows \cup (IF Full(Node) THEN {} ELSE kept[Node])
     /\ Cardinality(cells[Node]) = Cardinality(View(Node)')

LEMMA CommitServing ==
  ASSUME RunInv, Commit, BranchesAreWhole(graph), RowsArriveOnce(graph)
  PROVE  CommitServes
<1> DEFINE ways == [n \in Of("if") |-> outcome[n]]
<1>1. PICK k : k = Node
  OBVIOUS
<1>2. TypeInv /\ Settled /\ Loads /\ Spread /\ pc = "commit"
  BY DEF RunInv, Commit
<1>3. /\ k \in Sinks /\ Kind(k) = "sink" /\ Running /\ Working /\ at <= Len(order)
      /\ cells \in [Sinks -> SUBSET (Nat \X Row)]
  BY <1>1, <1>2, SinkRefs
<1>4. k \in Upto /\ workflowNodeRuns(k) /\ cells[k] = Load(k)
  BY <1>1, <1>2, <1>3 DEF Upto, Settled, Loads
<1>5. Agrees(ways)
  BY <1>2, <1>3, WaysAgree
<1> DEFINE from == {v \in Of("source") : k \in Reach(graph, ways, v)}
<1> HIDE DEF ways
<1>6. from # {}
  BY <1>2, <1>3, <1>4, <1>5, RunsReached
<1>7. Coming(ways, k) = UNION {UNION ToSet(stage[v]) : v \in from}
  <2>1. \A v : RowsOf(stage[v]) = UNION ToSet(stage[v])
    BY DEF RowsOf, ToSet
  <2> QED BY <2>1 DEF Coming
<1>8. RowsOf(stageRefsFor(k)) = Coming(ways, k)
  <2>1. Kind(k) # "source"
    BY <1>3
  <2> QED BY <1>2, <1>3, <1>4, <1>5, <2>1, RowsReached
<1>9. View(k)' = {c[2] : c \in Load(k)}
  <2>1. cells' = cells /\ live' = live \cup {k}
    BY <1>1 DEF Commit
  <2>2. View(k)' = {c[2] : c \in cells[k]}
    BY <2>1 DEF View
  <2> QED BY <1>4, <2>2
<1>10. View(k)' = Coming(ways, k) \cup (IF Full(k) THEN {} ELSE kept[k])
  BY <1>2, <1>8, <1>9, LoadServes
<1>11. Apart(stageRefsFor(k))
  <2>1. \A f \in Feeders(graph, k) : ApartOf(f)
    BY <1>2, <1>3, <1>4, FeederFacts, NodesApart DEF Running
  <2> QED BY <1>2, <1>3, <1>4, <2>1, RefsApart
<1>12. Cardinality(cells[k]) = Cardinality(View(k)')
  BY <1>2, <1>3, <1>4, <1>9, <1>11, LoadOnce
<1>13. View(Node)' = View(k)'
  <2>1. Node' = Node
    BY DEF Commit, progress, Node
  <2> QED BY <1>1, <2>1 DEF View
<1> HIDE DEF from
<1>14. /\ from # {}
       /\ View(Node)' = (UNION {UNION ToSet(stage[v]) : v \in from}) \cup (IF Full(Node) THEN {} ELSE kept[Node])
       /\ Cardinality(cells[Node]) = Cardinality(View(Node)')
  BY <1>1, <1>6, <1>7, <1>10, <1>12, <1>13
<1> QED BY <1>1, <1>14 DEF CommitServes, from, ways

\* A sink serves what the taken wires bring it, each row once, where no branch wire joins
\* another wire and no source's rows come over two.
THEOREM RunCommitsWhatReaches ==
  ASSUME \A g \in Workflows : BranchesAreWhole(g) /\ RowsArriveOnce(g)
  PROVE  Spec => CommitsWhatReachesIt
<1>1. RunInv /\ [Next]_vars => [Commit => CommitServes]_vars
  <2> SUFFICES ASSUME RunInv, Commit PROVE CommitServes
    OBVIOUS
  <2>1. graph \in Workflows
    BY DEF RunInv, TypeInv, TypeOK
  <2> QED BY <2>1, CommitServing
<1>2. CommitsWhatReachesIt <=> [][Commit => CommitServes]_vars
  BY DEF CommitsWhatReachesIt, CommitServes
<1>3. Spec => [][Commit => CommitServes]_vars
  BY <1>1, RunInvHolds, PTL DEF Spec
<1> QED BY <1>2, <1>3

-----------------------------------------------------------------------------
(* What is behind a watermark. *)

\* A source that has read in this run.
HasRead(v) == v \in Past \/ (Working /\ v = Node /\ pc \in {"settle", "return"})

\* What is pending was read by the run, and staged.
Pending(v) ==
  \A r \in Nat : mark[v].committed < r /\ r <= mark[v].pending => <<v, r>> \in RowsOf(stage[v])

Reads ==
  /\ \A v \in Sources : Full(v) => mark[v].committed = 0 /\ mark[v].pending = 0
  /\ pc = "settle" /\ ~Full(Node) => ReadAfter(Node, mark[Node].committed, stage[Node])
  /\ Running => \A v \in Of("source") : ~Full(v) /\ HasRead(v) => Pending(v)

LEMMA ReadsStart == Init => Reads
BY DEF Init, Reads, Running

\* A step that marks nothing, and after which no source has read that had not.
LEMMA ReadsKept ==
  ASSUME Reads, graph' = graph, mark' = mark, pc' # "settle",
         Running' => \A v \in Of("source") : HasRead(v)' =>
                       Running /\ HasRead(v) /\ stage'[v] = stage[v]
  PROVE  Reads'
<1>1. Of("source")' = Of("source") /\ \A v : Full(v)' <=> Full(v)
  BY DEF Of, Full
<1>2. ASSUME Running', NEW v \in Of("source"), ~Full(v), HasRead(v)' PROVE Pending(v)'
  <2>1. Pending(v) /\ stage'[v] = stage[v]
    BY <1>2 DEF Reads
  <2> QED BY <2>1 DEF Pending
<1> QED BY <1>1, <1>2 DEF Reads

LEMMA ReadsGo ==
  ASSUME TypeInv, Reads, Running, graph' = graph, order' = order, mark' = mark, pc' # "settle",
         \A v \in Of("source") : stage'[v] = stage[v],
         \/ at' = at /\ (pc' = "return" => Node \notin Of("source"))
         \/ at' = at + 1 /\ pc' = "turn" /\ (pc = "return" \/ Node \notin Of("source"))
  PROVE  Reads'
<1>1. /\ at' = at => Past' = Past /\ Node' = Node
      /\ at' = at + 1 => Past' = Past \cup {Node}
  BY PastMoves DEF Running, Node
<1>2. ASSUME NEW v \in Of("source"), HasRead(v)' PROVE HasRead(v)
  <2>1. CASE at' = at
    BY <1>1, <1>2, <2>1 DEF HasRead
  <2>2. CASE at' = at + 1 /\ pc' = "turn" /\ (pc = "return" \/ Node \notin Of("source"))
    <3>1. v \in Past \cup {Node} /\ (v = Node => pc = "return")
      BY <1>1, <1>2, <2>2 DEF HasRead, Working
    <3> QED BY <3>1 DEF HasRead, Working
  <2> QED BY <2>1, <2>2
<1> QED BY <1>2, ReadsKept

LEMMA ReadsFetch ==
  ASSUME TypeInv, Reads, Fetch
  PROVE  Reads'
<1>1. PICK n : n = Node
  OBVIOUS
<1>2. /\ graph' = graph /\ order' = order /\ at' = at /\ mark' = mark
      /\ pc = "fetch" /\ pc' = "settle" /\ Running
  BY DEF Fetch, world, progress, Running
<1>3. /\ Past' = Past /\ Node' = n /\ Of("source")' = Of("source") /\ \A v : Full(v)' <=> Full(v)
  BY <1>1, <1>2, PastMoves DEF Running, Node, Of, Full
<1>4. /\ n \in Of("source") /\ n \in Nodes /\ n \in Sources
      /\ \A m \in Nodes \ {n} : stage'[m] = stage[m]
      /\ mark[n].committed \in Nat /\ mark[n].pending \in Nat /\ feed[n] \in Nat
      /\ mark[n].pending <= feed[n]
  <2>1. n \in Of("source") /\ n \in Nodes /\ \A m \in Nodes \ {n} : stage'[m] = stage[m]
    BY <1>1, FetchReads
  <2>2. n \in Sources
    BY <2>1, NodeFacts DEF Of, OfKind, TypeInv, TypeOK
  <2>3. /\ feed \in [Sources -> 0 .. MaxRows]
        /\ mark \in [Sources -> [committed : 0 .. MaxRows, pending : 0 .. MaxRows]]
    BY DEF TypeInv, TypeOK
  <2> QED BY <2>1, <2>2, <2>3, Bounds DEF TypeInv, Marks
<1>5. PICK b \in Nat : /\ b = IF Full(n) THEN 0 ELSE mark[n].committed
                       /\ ReadAfter(n, b, stage'[n])
                       /\ Len(stage'[n]) = feed[n] - b
                       /\ stage'[n] \in Seq(SUBSET Row) /\ b <= feed[n]
  BY <1>1, FetchReads
<1>6. ASSUME ~Full(n) PROVE Pending(n)'
  <2>1. SUFFICES ASSUME NEW r \in Nat, mark[n].committed < r, r <= mark[n].pending
                 PROVE  <<n, r>> \in RowsOf(stage'[n])
    BY <1>2 DEF Pending
  <2>2. b = mark[n].committed
    BY <1>5, <1>6
  <2>3. r - b \in 1 .. Len(stage'[n]) /\ b + (r - b) = r
    BY <1>4, <1>5, <2>1, <2>2
  <2>4. stage'[n][r - b] = {<<n, r>>}
    BY <1>5, <2>3 DEF ReadAfter
  <2>5. DOMAIN stage'[n] = 1 .. Len(stage'[n])
    BY <1>5, SeqFacts
  <2> QED BY <2>3, <2>4, <2>5 DEF RowsOf
<1>7. ASSUME NEW v \in Of("source"), ~Full(v), HasRead(v)' PROVE Pending(v)'
  <2>1. CASE v = n
    BY <1>6, <1>7, <2>1
  <2>2. CASE v # n
    <3>1. HasRead(v) /\ v \in Nodes
      BY <1>3, <1>7, <2>2 DEF HasRead, Of, OfKind, Nodes
    <3>2. Pending(v) /\ stage'[v] = stage[v]
      BY <1>2, <1>4, <1>7, <2>2, <3>1 DEF Reads
    <3> QED BY <1>2, <3>2 DEF Pending
  <2> QED BY <2>1, <2>2
<1>8. ~Full(n) => ReadAfter(n, mark[n].committed, stage'[n])
  BY <1>5
<1> QED BY <1>2, <1>3, <1>7, <1>8 DEF Reads

LEMMA ReadsSettle ==
  ASSUME TypeInv, Reads, Settle
  PROVE  Reads'
<1>1. PICK n : n = Node
  OBVIOUS
<1>2. /\ graph' = graph /\ order' = order /\ at' = at /\ stage' = stage
      /\ pc = "settle" /\ pc' = "return" /\ Running /\ at <= Len(order)
  BY DEF Settle, world, progress, Running, TypeInv, Control
<1>3. /\ Past' = Past /\ Node' = n /\ Of("source")' = Of("source") /\ \A v : Full(v)' <=> Full(v)
  BY <1>1, <1>2, PastMoves DEF Running, Node, Of, Full
<1>4. n \in Nodes /\ n \in Sources /\ n \in Of("source") /\ HasRead(n) /\ stage[n] \in Seq(SUBSET Row)
  <2>1. n \in Nodes /\ Kind(n) = "source" /\ n \in Sources
    BY <1>1, <1>2, NodeHere DEF TypeInv, Control
  <2> QED BY <1>1, <1>2, <2>1 DEF Of, OfKind, Kind, Nodes, HasRead, Working, TypeInv, TypeOK
<1>5. \A v \in Of("source") : HasRead(v)' => HasRead(v)
  BY <1>2, <1>3, <1>4 DEF HasRead
<1>6. CASE Full(n) \/ stage[n] = <<>>
  <2>1. mark' = mark
    BY <1>1, <1>6 DEF Settle
  <2> QED BY <1>2, <1>5, <2>1, ReadsKept
<1>7. CASE ~(Full(n) \/ stage[n] = <<>>)
  <2> DEFINE b == mark[n].committed
  <2>1. mark \in [Sources -> [committed : 0 .. MaxRows, pending : 0 .. MaxRows]]
    BY DEF TypeInv, TypeOK
  <2>2. mark' = [mark EXCEPT ![n].pending = mark[n].committed + Len(stage[n])]
    BY <1>1, <1>7 DEF Settle
  <2>3. /\ \A v \in Sources \ {n} : mark'[v] = mark[v]
        /\ mark'[n].committed = b /\ mark'[n].pending = b + Len(stage[n]) /\ b \in Nat
    BY <1>4, <2>1, <2>2, Bounds
  <2>4. ReadAfter(n, b, stage[n])
    BY <1>1, <1>2, <1>7 DEF Reads
  <2>5. Pending(n)'
    <3>1. SUFFICES ASSUME NEW r \in Nat, b < r, r <= b + Len(stage[n])
                   PROVE  <<n, r>> \in RowsOf(stage[n])
      BY <1>2, <2>3 DEF Pending
    <3>2. DOMAIN stage[n] = 1 .. Len(stage[n]) /\ Len(stage[n]) \in Nat
      BY <1>4, SeqFacts
    <3>3. r - b \in 1 .. Len(stage[n]) /\ b + (r - b) = r
      BY <2>3, <3>1, <3>2
    <3>4. stage[n][r - b] = {<<n, r>>}
      BY <2>4, <3>3 DEF ReadAfter
    <3> QED BY <3>2, <3>3, <3>4 DEF RowsOf
  <2>6. ASSUME NEW v \in Of("source"), ~Full(v), HasRead(v)' PROVE Pending(v)'
    <3>1. CASE v = n
      BY <2>5, <3>1
    <3>2. CASE v # n
      <4>1. v \in Sources
        BY NodeFacts DEF Of, OfKind, TypeInv, TypeOK
      <4>2. Pending(v) /\ mark'[v] = mark[v]
        BY <1>2, <1>5, <2>3, <2>6, <3>2, <4>1 DEF Reads
      <4> QED BY <1>2, <4>2 DEF Pending
    <3> QED BY <3>1, <3>2
  <2>7. ASSUME NEW v \in Sources, Full(v) PROVE mark'[v].committed = 0 /\ mark'[v].pending = 0
    <3>1. v # n
      BY <1>7, <2>7
    <3> QED BY <2>3, <2>7, <3>1 DEF Reads
  <2> QED BY <1>2, <1>3, <2>6, <2>7 DEF Reads
<1> QED BY <1>6, <1>7

\* A watermark that is promoted: nothing is pending then.
LEMMA PromoteMarks ==
  ASSUME TypeInv, Promote
  PROVE  \A u \in Sources :
           /\ \/ mark'[u] = mark[u]
              \/ /\ mark[u].pending # 0
                 /\ mark'[u].committed = mark[u].pending /\ mark'[u].pending = 0
<1>1. mark \in [Sources -> [committed : 0 .. MaxRows, pending : 0 .. MaxRows]]
  BY DEF TypeInv, TypeOK
<1> DEFINE v == graph.nodes[count + 1]
<1>2. mark' = IF v \in Sources /\ mark[v].pending # 0
                THEN [mark EXCEPT ![v] = [committed |-> mark[v].pending, pending |-> 0]]
                ELSE mark
  BY DEF Promote
<1> HIDE DEF v
<1> QED BY <1>1, <1>2

LEMMA ReadsPromote ==
  ASSUME TypeInv, Reads, Promote
  PROVE  Reads'
<1>1. /\ graph' = graph /\ order' = order /\ at' = at /\ stage' = stage
      /\ pc = "promote" /\ pc' = pc /\ Running
  BY DEF Promote, world, progress, Running
<1>2. /\ Past' = Past /\ Node' = Node /\ Of("source")' = Of("source") /\ \A v : Full(v)' <=> Full(v)
  BY <1>1, PastMoves DEF Running, Node, Of, Full
<1>3. \A u \in Sources :
        \/ mark'[u] = mark[u]
        \/ /\ mark[u].pending # 0
           /\ mark'[u].committed = mark[u].pending /\ mark'[u].pending = 0
  BY PromoteMarks
<1>4. \A v \in Sources : mark[v].pending \in Nat
  BY Bounds DEF TypeInv, TypeOK
<1>5. ASSUME NEW v \in Of("source"), ~Full(v), HasRead(v)' PROVE Pending(v)'
  <2>1. v \in Sources
    BY NodeFacts DEF Of, OfKind, TypeInv, TypeOK
  <2>2. Pending(v)
    <3>1. HasRead(v)
      BY <1>1, <1>2, <1>5 DEF HasRead, Working
    <3> QED BY <1>1, <1>5, <3>1 DEF Reads
  <2>3. CASE mark'[v] = mark[v]
    BY <1>1, <2>2, <2>3 DEF Pending
  <2>4. CASE mark'[v].committed = mark[v].pending /\ mark'[v].pending = 0
    BY <1>4, <2>1, <2>4 DEF Pending
  <2> QED BY <1>3, <2>1, <2>3, <2>4
<1>6. ASSUME NEW v \in Sources, Full(v) PROVE mark'[v].committed = 0 /\ mark'[v].pending = 0
  BY <1>3, <1>6 DEF Reads
<1> QED BY <1>1, <1>2, <1>5, <1>6 DEF Reads

LEMMA ReadsMove == TypeInv /\ Settled /\ Reads /\ [Next]_vars => Reads'
<1> SUFFICES ASSUME TypeInv, Settled, Reads, [Next]_vars PROVE Reads'
  OBVIOUS
<1>1. \A v \in Of("source") : v \in Nodes /\ Kind(v) = "source"
  BY DEF Of, OfKind, Kind, Nodes
<1>2. ASSUME UNCHANGED <<graph, mark, pc, at, order, stage>> PROVE Reads'
  <2>1. /\ Past' = Past /\ Node' = Node /\ Of("source")' = Of("source")
        /\ \A v : (Full(v)' <=> Full(v)) /\ (Pending(v)' <=> Pending(v))
    BY <1>2 DEF Past, Node, Of, Full, Pending
  <2>2. \A v : HasRead(v)' <=> HasRead(v)
    BY <1>2, <2>1 DEF HasRead, Working
  <2> QED BY <1>2, <2>1, <2>2 DEF Reads, Running
<1>3. ASSUME NEW v \in Sources, Arrive(v) PROVE Reads'
  BY <1>2, <1>3 DEF Arrive, progress
<1>4. CASE StartRun
  <2>1. graph' = graph /\ mark' = mark /\ pc' = "turn" /\ at' = 1
    BY <1>4 DEF StartRun, world, TypeInv, Control
  <2>2. \A v : ~HasRead(v)'
    BY <2>1 DEF HasRead, Past, Working
  <2> QED BY <2>1, <2>2, ReadsKept
<1>5. ASSUME EndRun PROVE Reads'
  BY <1>5, ReadsKept DEF EndRun, world, Running
<1>6. ASSUME Working, AttemptFails, UNCHANGED <<world, mark, types, order, ref, stage>> PROVE Reads'
  <2>1. /\ graph' = graph /\ order' = order /\ mark' = mark /\ stage' = stage /\ at' = at
        /\ pc' = Entry(Node) \/ pc' = "finish"
    BY <1>6 DEF AttemptFails, world
  <2>2. Running /\ pc # "rest" /\ at <= Len(order)
    BY <1>6 DEF Working, Running, TypeInv, Control
  <2>3. pc' # "settle" /\ pc' # "return"
    BY <2>1, <2>2, NodeHere
  <2> QED BY <2>1, <2>2, <2>3, ReadsGo
<1>7. CASE Advance
  <2>1. CASE SkipUnlessLive
    <3>1. /\ graph' = graph /\ order' = order /\ mark' = mark /\ stage' = stage /\ at' = at + 1
          /\ pc' = "turn" /\ Running /\ at <= Len(order) /\ ~workflowNodeRuns(Node) /\ pc # "rest"
      BY <2>1 DEF SkipUnlessLive, world, Running
    <3>2. graph \in Workflows /\ Node \in NodesOf(graph)
      BY <3>1, PastFacts DEF Nodes
    <3>3. Kind(Node) # "source"
      BY <3>1, <3>2, NodeFacts DEF workflowNodeRuns, WiresInto, Kind
    <3> QED BY <1>1, <3>1, <3>3, ReadsGo
  <2>2. CASE Return
    <3>1. /\ graph' = graph /\ order' = order /\ mark' = mark /\ stage' = stage /\ at' = at + 1
          /\ pc' = "turn" /\ pc = "return" /\ Running
      BY <2>2 DEF Return, Remember, world, Running
    <3> QED BY <3>1, ReadsGo
  <2>3. CASE Branch
    <3>1. /\ graph' = graph /\ order' = order /\ mark' = mark /\ stage' = stage /\ at' = at + 1
          /\ pc' = "turn" /\ Running /\ Kind(Node) = "if"
      BY <2>3 DEF Branch, Remember, world, Running, TypeInv, Control
    <3> QED BY <1>1, <3>1, ReadsGo
  <2>4. CASE Dispatch
    <3>1. /\ graph' = graph /\ order' = order /\ mark' = mark /\ stage' = stage /\ at' = at
          /\ pc' = Entry(Node) /\ Running /\ at <= Len(order) /\ pc # "rest"
      BY <2>4 DEF Dispatch, world, progress, Running
    <3>2. pc' # "settle" /\ pc' # "return"
      BY <3>1, NodeHere
    <3> QED BY <3>1, <3>2, ReadsGo
  <2>5. CASE Pass
    <3>1. /\ graph' = graph /\ order' = order /\ mark' = mark /\ at' = at
          /\ pc' = "return" /\ Running /\ Kind(Node) = "pipe"
          /\ stage' = [stage EXCEPT ![Node] = stageRefsFor(Node)]
      BY <2>5 DEF Pass, world, progress, Running, TypeInv, Control
    <3>2. stage \in [Nodes -> Seq(SUBSET Row)]
      BY DEF TypeInv, TypeOK
    <3>3. \A v \in Of("source") : stage'[v] = stage[v]
      BY <1>1, <3>1, <3>2
    <3> QED BY <1>1, <3>1, <3>3, ReadsGo
  <2>6. CASE CarryRest \/ FullLoad \/ Commit \/ Promoted
    <3>1. /\ graph' = graph /\ order' = order /\ mark' = mark /\ stage' = stage /\ at' = at
          /\ pc' # "settle" /\ pc \in {"append", "commit", "promote"}
      BY <2>6 DEF CarryRest, FullLoad, Commit, Promoted, Appended, world, progress
    <3>2. Running /\ Kind(Node) = "sink"
      BY <3>1 DEF Running, TypeInv, Control
    <3> QED BY <1>1, <3>1, <3>2, ReadsGo
  <2>7. CASE AppendBatch
    BY <1>2, <2>7 DEF AppendBatch, world, progress
  <2>8. CASE EmptyRefused
    BY <1>6, <2>8 DEF EmptyRefused, NothingReached, Appended, Working
  <2>9. CASE Finish
    BY <1>5, <2>9 DEF Finish
  <2> QED BY <1>7, <2>1, <2>2, <2>3, <2>4, <2>5, <2>6, <2>7, <2>8, <2>9,
             ReadsFetch, ReadsSettle, ReadsPromote DEF Advance
<1>8. CASE Crash
  BY <1>6, <1>8 DEF Crash
<1>9. CASE Cancel
  BY <1>5, <1>9 DEF Cancel
<1>10. CASE UNCHANGED vars
  BY <1>2, <1>10 DEF vars
<1> QED BY <1>3, <1>4, <1>7, <1>8, <1>9, <1>10 DEF Next

\* Every row behind a committed watermark is served, by every sink.
Covered ==
  \A v \in Of("source"), k \in Of("sink") :
    \A r \in Nat \ {0} : r <= mark[v].committed => <<v, r>> \in View(k)

LEMMA CoveredStart == Init => Covered
<1> SUFFICES ASSUME Init, NEW v \in Of("source"), NEW r \in Nat \ {0} PROVE ~(r <= mark[v].committed)
  BY DEF Covered
<1>1. graph \in Workflows /\ v \in NodesOf(graph) /\ graph.kind[v] = "source"
  BY DEF Init, Of, OfKind
<1>2. mark[v].committed = 0
  BY <1>1, NodeFacts DEF Init
<1> QED BY <1>2

LEMMA CoveredKept ==
  ASSUME Covered, graph' = graph, mark' = mark,
         \A k \in Of("sink") : View(k) \subseteq View(k)'
  PROVE  Covered'
<1>1. Of("source")' = Of("source") /\ Of("sink")' = Of("sink")
  BY DEF Of
<1>2. ASSUME NEW v \in Of("source"), NEW k \in Of("sink"), NEW r \in Nat \ {0}, r <= mark'[v].committed
      PROVE  <<v, r>> \in View(k)'
  BY <1>2 DEF Covered
<1> QED BY <1>1, <1>2 DEF Covered

\* While a sink is at work, a type that is served from the run is not changed.
LEMMA ViewLoads ==
  ASSUME TypeInv, Settled, Loads, pc = "append", AppendBatch \/ CarryRest
  PROVE  \A k \in Of("sink") : View(k)' = View(k)
<1>1. PICK n : n = Node
  OBVIOUS
<1>2. n \in Of("sink") /\ n \in Sinks /\ Running /\ Working /\ at <= Len(order)
      /\ cells \in [Sinks -> SUBSET (Nat \X Row)]
  BY <1>1, SinkRefs
<1>3. /\ graph' = graph /\ order' = order /\ at' = at /\ outcome' = outcome /\ ref' = ref /\ stage' = stage
      /\ kept' = kept /\ live' = live /\ pc' \in {"append", "commit"}
      /\ \A k \in Sinks \ {n} : cells'[k] = cells[k]
  BY <1>1, <1>2 DEF AppendBatch, CarryRest, world, progress
<1>4. Loads'
  BY LoadsAppend, LoadsCarry
<1>5. ASSUME n \in live PROVE cells'[n] = cells[n]
  <2>1. cells[n] = Load(n)
    BY <1>1, <1>2, <1>5, SinkRefs DEF LoadNode
  <2>2. Past' = Past /\ Node' = n /\ Of("sink")' = Of("sink")
    BY <1>1, <1>2, <1>3, PastMoves DEF Running, Node, Of
  <2>3. Reached(n)' /\ Running'
    BY <1>3, <2>2 DEF Reached, Working, Running
  <2>4. LoadNode(n)'
    BY <1>2, <1>4, <2>2, <2>3 DEF Loads
  <2>5. cells'[n] = Load(n)'
    BY <1>3, <1>5, <2>4 DEF LoadNode
  <2>6. Frame
    BY <1>3, <2>2 DEF Frame
  <2>7. Feeders(graph, n) \subseteq Past
    BY <1>1, <1>2, PastFacts DEF Running
  <2>8. Load(n)' = Load(n)
    BY <1>2, <1>3, <2>6, <2>7, FrameFacts, LoadKept
  <2> QED BY <2>1, <2>5, <2>8
<1>6. ASSUME NEW k \in Of("sink") PROVE View(k)' = View(k)
  <2>1. k \in Sinks
    BY WorkflowAssumption DEF Of, TypeInv, TypeOK
  <2>2. k \in live => cells'[k] = cells[k]
    BY <1>3, <1>5, <2>1
  <2> QED BY <1>3, <2>2 DEF View
<1> QED BY <1>6

\* The one sink, at its watermarks, serves what was pending.
LEMMA PendingServed ==
  ASSUME RunInv, Reads, Together(graph), pc = "promote", NEW k \in Of("sink"),
         NEW v \in Of("source"), mark[v].pending # 0,
         NEW r \in Nat, mark[v].committed < r, r <= mark[v].pending
  PROVE  <<v, r>> \in View(k)
<1> DEFINE ways == TakenWays
<1>1. TypeInv /\ Settled /\ Loads /\ Spread
  BY DEF RunInv
<1>2. PICK n : n = Node
  OBVIOUS
<1>3. /\ n \in Of("sink") /\ Kind(n) = "sink" /\ Running /\ Working /\ at <= Len(order)
      /\ LoadNode(n) /\ n \in live /\ graph \in Workflows
  BY <1>1, <1>2, SinkRefs DEF Loads, TypeInv, TypeOK
<1>4. k = n
  BY <1>3 DEF Together, Of
<1>5. k \in Upto /\ workflowNodeRuns(k) /\ k \in Nodes /\ Kind(k) # "source"
  BY <1>1, <1>2, <1>3, <1>4 DEF Upto, Settled, Of, OfKind, Nodes
<1>6. ways \in Ways(graph) /\ Agrees(ways)
  BY <1>1, <1>3, WaysAgree
<1> HIDE DEF ways
<1>7. PICK u \in Of("source") : k \in Reach(graph, ways, u)
  BY <1>1, <1>3, <1>5, <1>6, RunsReached
<1>8. k \in Reach(graph, ways, v)
  BY <1>6, <1>7 DEF Together, Of
<1>9. v \in Past
  <2> DEFINE S == {m \in Upto : m \in Reach(graph, ways, v) => m = v \/ v \in Past}
  <2>1. ASSUME NEW m \in Upto, Feeders(graph, m) \subseteq S PROVE m \in S
    <3>1. SUFFICES ASSUME m \in Reach(graph, ways, v), m # v PROVE v \in Past
      BY <2>1
    <3>2. m \in NodesOf(graph) /\ v \in NodesOf(graph)
      BY <1>1, <1>3, PastFacts DEF Upto, Nodes, Of, OfKind, Running
    <3>3. PICK e \in Taken(graph, ways) : e.to = m /\ e.from \in Reach(graph, ways, v)
      BY <1>3, <3>1, <3>2, ReachSteps
    <3>4. e.from \in Feeders(graph, m)
      BY <3>3 DEF Taken, Feeders
    <3>5. e.from \in Past
      BY <1>1, <1>3, <3>4, FeederFacts DEF Running
    <3>6. e.from = v \/ v \in Past
      BY <2>1, <3>3, <3>4
    <3> QED BY <3>5, <3>6
  <2>2. Upto \subseteq S
    <3> HIDE DEF S
    <3> QED BY <1>1, <1>3, <2>1, AlongPlan DEF Running
  <2>3. k # v
    BY <1>5 DEF Of, OfKind, Kind
  <2> QED BY <1>5, <1>8, <2>2, <2>3
<1>10. ~Full(v)
  <2>1. v \in Sources
    BY <1>3, NodeFacts DEF Of, OfKind
  <2> QED BY <2>1 DEF Reads
<1>11. <<v, r>> \in RowsOf(stage[v])
  <2>1. Pending(v)
    BY <1>3, <1>9, <1>10 DEF Reads, HasRead
  <2> QED BY <2>1 DEF Pending
<1>12. <<v, r>> \in RowsOf(stageRefsFor(k))
  <2>1. <<v, r>> \in Coming(ways, k)
    BY <1>8, <1>11 DEF Coming
  <2> QED BY <1>1, <1>3, <1>5, <1>6, <2>1, RowsReached
<1>13. View(k) = {c[2] : c \in Load(k)}
  BY <1>3, <1>4 DEF LoadNode, View
<1> QED BY <1>1, <1>12, <1>13, LoadServes

LEMMA CoveredMoves ==
  RunInv /\ Reads /\ Covered /\ (\A g \in Workflows : Together(g)) /\ [Next]_vars => Covered'
<1> SUFFICES ASSUME RunInv, Reads, Covered, \A g \in Workflows : Together(g), [Next]_vars PROVE Covered'
  OBVIOUS
<1>1. TypeInv /\ Settled /\ Loads /\ graph \in Workflows /\ Together(graph)
  BY DEF RunInv, TypeInv, TypeOK
<1>2. \A k \in Of("sink") : k \in Sinks /\ k \in Nodes /\ Kind(k) = "sink"
  BY <1>1, WorkflowAssumption DEF Of, OfKind, Kind, Nodes
<1>3. ASSUME UNCHANGED <<graph, mark, types>> PROVE Covered'
  <2>1. \A k : View(k)' = View(k)
    BY <1>3 DEF View, types
  <2> QED BY <1>3, <2>1, CoveredKept
<1>4. ASSUME EndRun PROVE Covered'
  <2>1. graph' = graph /\ mark' = mark /\ \A k \in Sinks : kept'[k] = View(k) /\ k \notin live'
    BY <1>4 DEF EndRun, world
  <2>2. \A k \in Of("sink") : View(k)' = View(k)
    BY <1>2, <2>1 DEF View
  <2> QED BY <2>1, <2>2, CoveredKept
<1>5. CASE AppendBatch \/ CarryRest
  <2>1. graph' = graph /\ mark' = mark /\ pc = "append"
    BY <1>5 DEF AppendBatch, CarryRest, Appended, world
  <2>2. \A k \in Of("sink") : View(k)' = View(k)
    BY <1>1, <1>5, <2>1, ViewLoads
  <2> QED BY <2>1, <2>2, CoveredKept
<1>6. CASE Commit
  <2>1. PICK n : n = Node
    OBVIOUS
  <2>2. /\ graph' = graph /\ mark' = mark /\ kept' = kept /\ cells' = cells /\ live' = live \cup {n}
        /\ pc = "commit"
    BY <1>6, <2>1 DEF Commit, world
  <2>3. n \in Of("sink") /\ cells[n] = Load(n)
    BY <1>1, <2>1, <2>2, SinkRefs DEF Loads
  <2>4. \A k \in Of("sink") : k = n
    BY <1>1, <2>3 DEF Together, Of
  <2>5. View(n)' = {c[2] : c \in cells[n]}
    BY <2>2 DEF View
  <2>6. CASE ~Full(n)
    <3>1. kept[n] \subseteq View(n)'
      BY <1>1, <2>3, <2>5, <2>6, LoadServes
    <3>2. View(n) \subseteq View(n)'
      BY <2>5, <3>1 DEF View
    <3> QED BY <2>2, <2>4, <3>2, CoveredKept
  <2>7. CASE Full(n)
    <3>1. \A v \in Of("source") : Full(v) /\ v \in Sources
      BY <1>1, <2>3, <2>7, NodeFacts DEF Together, Of, OfKind, Full
    <3>2. \A v \in Of("source") : mark[v].committed = 0
      BY <3>1 DEF Reads
    <3>3. Of("source")' = Of("source")
      BY <2>2 DEF Of
    <3>4. \A v \in Of("source")' : mark'[v].committed = 0
      BY <2>2, <3>2, <3>3
    <3> QED BY <3>4 DEF Covered
  <2> QED BY <2>6, <2>7
<1>7. CASE Promote
  <2>1. graph' = graph /\ UNCHANGED types /\ pc = "promote"
    BY <1>7 DEF Promote, world
  <2>2. /\ Of("source")' = Of("source") /\ Of("sink")' = Of("sink") /\ \A k : View(k)' = View(k)
    BY <2>1 DEF Of, View, types
  <2>3. ASSUME NEW v \in Of("source"), NEW k \in Of("sink"), NEW r \in Nat \ {0}, r <= mark'[v].committed
        PROVE  <<v, r>> \in View(k)
    <3>1. v \in Sources
      BY <1>1, NodeFacts DEF Of, OfKind
    <3>2. mark[v].committed \in Nat /\ mark[v].pending \in Nat
      BY <1>1, <3>1, Bounds DEF TypeInv, TypeOK
    <3>3. CASE r <= mark[v].committed
      BY <3>3 DEF Covered
    <3>4. CASE ~(r <= mark[v].committed)
      <4>1. mark'[v] # mark[v]
        BY <2>3, <3>4
      <4>2. mark[v].pending # 0 /\ mark'[v].committed = mark[v].pending
        BY <1>1, <1>7, <3>1, <4>1, PromoteMarks
      <4>3. r \in Nat /\ mark[v].committed < r /\ r <= mark[v].pending
        BY <2>3, <3>2, <3>4, <4>2
      <4> QED BY <1>1, <2>1, <4>2, <4>3, PendingServed
    <3> QED BY <3>3, <3>4
  <2> QED BY <2>2, <2>3 DEF Covered
<1>8. CASE Settle
  <2>1. graph' = graph /\ UNCHANGED types
    BY <1>8 DEF Settle, world
  <2>2. /\ Of("source")' = Of("source") /\ Of("sink")' = Of("sink") /\ \A k : View(k)' = View(k)
    BY <2>1 DEF Of, View, types
  <2>3. \A v \in Of("source") : mark'[v].committed = mark[v].committed
    <3>1. mark \in [Sources -> [committed : 0 .. MaxRows, pending : 0 .. MaxRows]]
      BY <1>1 DEF TypeInv, TypeOK
    <3>2. \A v \in Of("source") : v \in Sources
      BY <1>1, NodeFacts DEF Of, OfKind
    <3> QED BY <1>8, <3>1, <3>2 DEF Settle
  <2> QED BY <2>2, <2>3 DEF Covered
<1>9. AppendBatch \/ CarryRest \/ Commit \/ Promote \/ Settle \/ EndRun \/ UNCHANGED <<graph, mark, types>>
  BY DEF Next, Advance, vars, Arrive, StartRun, SkipUnlessLive, Dispatch, Return, Fetch, Branch, Pass,
         FullLoad, EmptyRefused, Promoted, Finish, Crash, Cancel, world, types
<1> QED BY <1>3, <1>4, <1>5, <1>6, <1>7, <1>8, <1>9

\* Where there is one sink, that every source reaches or none does, no row is behind a
\* watermark that is not served.
THEOREM RunWatermarkCovered ==
  ASSUME \A g \in Workflows : Together(g)
  PROVE  Spec => []WatermarkCovered
<1>1. Init => Reads /\ Covered
  BY ReadsStart, CoveredStart
<1>2. RunInv /\ Reads /\ Covered /\ [Next]_vars => Reads' /\ Covered'
  BY ReadsMove, CoveredMoves DEF RunInv
<1>3. RunInv /\ Covered => WatermarkCovered
  <2> SUFFICES ASSUME RunInv, Covered, NEW v \in Sources, NEW k \in Ends[graph][v].may,
                      NEW i \in 1 .. mark[v].committed
               PROVE  <<v, i>> \in View(k)
    BY DEF WatermarkCovered
  <2>1. graph \in Workflows /\ mark[v].committed \in Nat
    BY Bounds DEF RunInv, TypeInv, TypeOK
  <2>2. Ends[graph][v] = IF v \notin NodesOf(graph) THEN [must |-> {}, may |-> {}]
          ELSE [must |-> {l \in Sinks : \A ways \in Ways(graph) : l \in Reach(graph, ways, v)},
                may  |-> {l \in Sinks : \E ways \in Ways(graph) : l \in Reach(graph, ways, v)}]
    BY <2>1 DEF Ends
  <2>3. v \in NodesOf(graph)
    BY <2>2
  <2>4. k \in Sinks /\ \E ways \in Ways(graph) : k \in Reach(graph, ways, v)
    BY <2>2, <2>3
  <2>5. k \in NodesOf(graph)
    BY <2>4 DEF Reach
  <2>6. v \in Of("source") /\ k \in Of("sink")
    BY <2>1, <2>3, <2>4, <2>5, WorkflowAssumption DEF Of
  <2>7. i \in Nat \ {0} /\ i <= mark[v].committed
    BY <2>1
  <2> QED BY <2>6, <2>7 DEF Covered
<1> QED BY <1>1, <1>2, <1>3, RunInvHolds, PTL DEF Spec

-----------------------------------------------------------------------------
(* The versions of a workflow. *)

\* One tab is open on the workflow, and awaits its save before the next.
OneEditor == \A d, e \in Editors : d = e

\* Someone speaks of version v as graph g.
Claim(v, g) ==
  \/ row.version = v /\ row.graph = g
  \/ releases[v] = g
  \/ \E p \in Publishers :
       call[p].op = "release" /\ call[p].was.version = v /\ call[p].was.graph = g
  \/ \E r \in Runs : run[r].version = v /\ g \in run[r].graphs

\* A version names one graph, and the head's is the newest.
VersionsNameGraphs ==
  /\ \A v \in Versions : \A g, h \in Graphs : Claim(v, g) /\ Claim(v, h) => g = h
  /\ \A v \in Versions : \A g \in Graphs : Claim(v, g) => v <= row.version

\* What a save read is still what the row holds.
EditsAreCurrent ==
  \A e \in Editors : edit[e] # Idle =>
    edit[e].was.version = row.version /\ edit[e].was.graph = row.graph

\* A save was let in below the bound.
EditsHaveRoom == \A e \in Editors : edit[e] # Idle => edit[e].was.version < MaxVersion

\* A run that has not started has executed nothing.
RunsStartFresh == \A r \in Runs : run[r].state = "none" => run[r].graphs = {}

VersionsInv == VersionsTypeOK /\ EditsHaveRoom /\ RunsStartFresh /\ VersionsNameGraphs /\ EditsAreCurrent

-----------------------------------------------------------------------------

\* The state keeps its types, and a save stays below the bound it was let in under.
THEOREM VersionsTypeCorrect == VersionsSpec => [](VersionsTypeOK /\ EditsHaveRoom)
<1> USE VersionsAssumption
<1>1. VersionsInit => VersionsTypeOK /\ EditsHaveRoom
  BY DEF VersionsInit, VersionsTypeOK, EditsHaveRoom, Rows, Versions, Idle
<1>2. VersionsTypeOK /\ EditsHaveRoom /\ [VersionsNext]_versionsVars => (VersionsTypeOK /\ EditsHaveRoom)'
  <2> SUFFICES ASSUME VersionsTypeOK, EditsHaveRoom, [VersionsNext]_versionsVars PROVE (VersionsTypeOK /\ EditsHaveRoom)'
    OBVIOUS
  <2> USE DEF VersionsTypeOK, EditsHaveRoom, Idle
  <2>1. ASSUME NEW e \in Editors, NEW g \in Graphs, BeginSave(e, g)
        PROVE  (VersionsTypeOK /\ EditsHaveRoom)'
    <3>1. [op |-> "save", was |-> row, graph |-> g]
            \in [op : {"save"}, was : Rows, graph : Graphs]
      OBVIOUS
    <3>2. row.version < MaxVersion
      BY <2>1 DEF BeginSave
    <3> QED BY <2>1, <3>1, <3>2 DEF BeginSave
  <2>2. ASSUME NEW e \in Editors, FlushSave(e)
        PROVE  (VersionsTypeOK /\ EditsHaveRoom)'
    <3>1. edit[e] \in [op : {"save"}, was : Rows, graph : Graphs]
      BY <2>2 DEF FlushSave
    <3>2. edit[e].was.version + 1 \in Versions
      BY <2>2, <3>1 DEF FlushSave, Rows, Versions
    <3>3. Saved(e) \in Rows
      BY <3>1, <3>2 DEF Saved, Rows
    <3> QED BY <2>2, <3>3 DEF FlushSave
  <2>3. ASSUME NEW p \in Publishers, BeginPublish(p) \/ BeginRelease(p)
        PROVE  (VersionsTypeOK /\ EditsHaveRoom)'
    <3>1. /\ [op |-> "publish", was |-> row] \in [op : {"publish", "release"}, was : Rows]
          /\ [op |-> "release", was |-> row] \in [op : {"publish", "release"}, was : Rows]
      OBVIOUS
    <3> QED BY <2>3, <3>1 DEF BeginPublish, BeginRelease
  <2>4. ASSUME NEW p \in Publishers, FlushPublish(p)
        PROVE  (VersionsTypeOK /\ EditsHaveRoom)'
    <3>1. [row EXCEPT !.status = "ready"] \in Rows
      BY DEF Rows
    <3> QED BY <2>4, <3>1 DEF FlushPublish
  <2>5. ASSUME NEW p \in Publishers, FlushRelease(p)
        PROVE  (VersionsTypeOK /\ EditsHaveRoom)'
    <3>1. call[p] \in [op : {"publish", "release"}, was : Rows]
      BY <2>5 DEF FlushRelease
    <3>2. releases' \in [Versions -> Graphs \cup {NoGraph}]
      BY <2>5, <3>1 DEF FlushRelease, Frozen, Rows
    <3> QED BY <2>5, <3>2 DEF FlushRelease
  <2>6. CASE Unpublish
    <3>1. [row EXCEPT !.status = "draft"] \in Rows
      BY DEF Rows
    <3> QED BY <2>6, <3>1 DEF Unpublish
  <2>7. ASSUME NEW v \in 0 .. MaxVersion, SetLiveVersion(v)
        PROVE  (VersionsTypeOK /\ EditsHaveRoom)'
    BY <2>7 DEF SetLiveVersion
  <2>8. ASSUME NEW r \in Runs, NEW v \in Versions, Start(r, v)
        PROVE  (VersionsTypeOK /\ EditsHaveRoom)'
    BY <2>8 DEF Start
  <2>9. ASSUME NEW r \in Runs, StartScheduled(r)
        PROVE  (VersionsTypeOK /\ EditsHaveRoom)'
    <3>1. liveWorkflowVersion \in Versions
      BY DEF liveWorkflowVersion, Rows, Versions
    <3> QED BY <2>8, <2>9, <3>1 DEF StartScheduled
  <2>10. ASSUME NEW r \in Runs, Step(r)
         PROVE  (VersionsTypeOK /\ EditsHaveRoom)'
    <3> DEFINE g == requireWorkflowAt(run[r].version)
    <3>1. g \in Graphs \cup {NoGraph}
      BY DEF requireWorkflowAt, Rows
    <3>2. run[r].made + 1 \in 0 .. Steps
      BY <2>10 DEF Step
    <3> HIDE DEF g
    <3>3. CASE g = NoGraph
      <4>1. run' = [run EXCEPT ![r].state = "stopped"]
        BY <2>10, <3>3 DEF Step, g
      <4> QED BY <2>10, <4>1 DEF Step
    <3>4. CASE g # NoGraph
      <4>1. run' = [run EXCEPT ![r].graphs = @ \cup {g}, ![r].made = @ + 1]
        BY <2>10, <3>4 DEF Step, g
      <4>2. run[r].graphs \cup {g} \in SUBSET Graphs
        BY <3>1, <3>4
      <4> QED BY <2>10, <3>2, <4>1, <4>2 DEF Step
    <3> QED BY <3>3, <3>4
  <2>11. CASE UNCHANGED versionsVars
    BY <2>11 DEF versionsVars
  <2> QED
    BY <2>1, <2>2, <2>3, <2>4, <2>5, <2>6, <2>7, <2>8, <2>9, <2>10, <2>11
    DEF VersionsNext, StartNamed
<1> QED BY <1>1, <1>2, PTL DEF VersionsSpec

-----------------------------------------------------------------------------

\* Where nobody speaks of a version that was not spoken of before, and the head's version
\* does not go back, versions go on naming graphs.
LEMMA NoNewClaim ==
  ASSUME VersionsNameGraphs, row.version \in Nat, row'.version \in Nat,
         row'.version >= row.version,
         \A v \in Versions : \A g \in Graphs : Claim(v, g)' => Claim(v, g)
  PROVE  VersionsNameGraphs'
<1>1. \A v \in Versions : v \in Nat
  BY VersionsAssumption DEF Versions
<1> QED BY <1>1 DEF VersionsNameGraphs

\* Versions name graphs, wherever they are spoken of, as long as saves do not overlap.
THEOREM VersionsHold ==
  ASSUME OneEditor
  PROVE  VersionsSpec => []VersionsInv
<1> USE VersionsAssumption
<1>1. VersionsInit => RunsStartFresh /\ VersionsNameGraphs /\ EditsAreCurrent
  <2> SUFFICES ASSUME VersionsInit PROVE RunsStartFresh /\ VersionsNameGraphs /\ EditsAreCurrent
    OBVIOUS
  <2>1. \A v \in Versions : \A g \in Graphs : Claim(v, g) => row.version = v /\ row.graph = g
    BY DEF VersionsInit, Claim, Idle
  <2>2. row.version \in Nat
    BY DEF VersionsInit
  <2> QED BY <2>1, <2>2 DEF RunsStartFresh, VersionsNameGraphs, EditsAreCurrent, VersionsInit, Idle, Versions
<1>2. ASSUME VersionsInv, VersionsTypeOK', EditsHaveRoom', [VersionsNext]_versionsVars
      PROVE  VersionsInv'
  <2> USE <1>2
  <2>a. RunsStartFresh'
    <3>1. ASSUME NEW r \in Runs, Step(r) PROVE RunsStartFresh'
      BY <3>1 DEF Step, RunsStartFresh, VersionsInv, VersionsTypeOK
    <3>2. ASSUME NEW r \in Runs, NEW v, Start(r, v) PROVE RunsStartFresh'
      BY <3>2 DEF Start, RunsStartFresh, VersionsInv, VersionsTypeOK
    <3>3. ASSUME UNCHANGED run PROVE RunsStartFresh'
      BY <3>3 DEF RunsStartFresh, VersionsInv
    <3> QED
      BY <3>1, <3>2, <3>3
      DEF VersionsNext, versionsVars, BeginSave, FlushSave, BeginPublish, FlushPublish, BeginRelease,
          FlushRelease, Unpublish, SetLiveVersion, StartScheduled, StartNamed
  <2> USE <2>a
  <2>0. /\ row \in Rows /\ row' \in Rows
        /\ row.version \in Nat /\ row'.version \in Nat
    BY DEF VersionsInv, VersionsTypeOK, Rows, Versions
  <2>1. ASSUME NEW e \in Editors, NEW g \in Graphs, BeginSave(e, g)
        PROVE  VersionsInv'
    <3>1. \A v \in Versions : \A h \in Graphs : Claim(v, h)' => Claim(v, h)
      BY <2>1 DEF BeginSave, Claim
    <3>2. VersionsNameGraphs'
      BY <2>0, <2>1, <3>1, NoNewClaim DEF VersionsInv, BeginSave
    <3>3. EditsAreCurrent'
      BY <2>1 DEF BeginSave, EditsAreCurrent, VersionsInv, VersionsTypeOK
    <3> QED BY <3>2, <3>3 DEF VersionsInv
  <2>2. ASSUME NEW e \in Editors, FlushSave(e)
        PROVE  VersionsInv'
    <3>1. /\ edit[e] # Idle
          /\ edit[e].was.version = row.version /\ edit[e].was.graph = row.graph
      BY <2>2 DEF FlushSave, VersionsInv, EditsAreCurrent
    <3>2. EditsAreCurrent'
      <4>1. \A d \in Editors : edit'[d] = Idle
        BY <2>2 DEF FlushSave, OneEditor, VersionsInv, VersionsTypeOK
      <4> QED BY <4>1 DEF EditsAreCurrent
    <3>3. CASE edit[e].graph = edit[e].was.graph
      <4>1. row' = row
        BY <2>2, <3>3 DEF FlushSave, Saved
      <4>2. \A v \in Versions : \A h \in Graphs : Claim(v, h)' => Claim(v, h)
        BY <2>2, <4>1 DEF FlushSave, Claim
      <4> QED BY <2>0, <4>1, <4>2, <3>2, NoNewClaim DEF VersionsInv
    <3>4. CASE edit[e].graph # edit[e].was.graph
      <4>1. row'.version = row.version + 1
        BY <2>0, <2>2, <3>1, <3>4 DEF FlushSave, Saved, Rows
      <4>2. \A v \in Versions : \A h \in Graphs :
              Claim(v, h)' => (v = row'.version /\ h = row'.graph) \/ Claim(v, h)
        BY <2>2 DEF FlushSave, Claim
      <4>3. \A v \in Versions : \A h \in Graphs : Claim(v, h) => v <= row.version
        BY DEF VersionsInv, VersionsNameGraphs
      <4>4. \A v \in Versions : v \in Nat
        BY DEF Versions
      <4>5. \A v \in Versions : \A g, h \in Graphs : Claim(v, g)' /\ Claim(v, h)' => g = h
        <5> SUFFICES ASSUME NEW v \in Versions, NEW g \in Graphs, NEW h \in Graphs,
                            Claim(v, g)', Claim(v, h)'
                     PROVE  g = h
          OBVIOUS
        <5>1. CASE v = row'.version
          <6>1. ~Claim(v, g) /\ ~Claim(v, h)
            BY <2>0, <4>1, <4>3, <5>1
          <6> QED BY <4>2, <6>1
        <5>2. CASE v # row'.version
          BY <4>2, <5>2 DEF VersionsInv, VersionsNameGraphs
        <5> QED BY <5>1, <5>2
      <4>6. \A v \in Versions : \A g \in Graphs : Claim(v, g)' => v <= row'.version
        BY <2>0, <4>1, <4>2, <4>3, <4>4
      <4> QED BY <3>2, <4>5, <4>6 DEF VersionsInv, VersionsNameGraphs
    <3> QED BY <3>3, <3>4
  <2>3. ASSUME NEW p \in Publishers, BeginPublish(p)
        PROVE  VersionsInv'
    <3>1. \A v \in Versions : \A h \in Graphs : Claim(v, h)' => Claim(v, h)
      BY <2>3 DEF BeginPublish, Claim, VersionsInv, VersionsTypeOK
    <3> QED BY <2>0, <2>3, <3>1, NoNewClaim DEF VersionsInv, BeginPublish, EditsAreCurrent
  <2>4. ASSUME NEW p \in Publishers, FlushPublish(p)
        PROVE  VersionsInv'
    <3>1. row'.version = row.version /\ row'.graph = row.graph
      BY <2>0, <2>4 DEF FlushPublish, Rows
    <3>2. \A v \in Versions : \A h \in Graphs : Claim(v, h)' => Claim(v, h)
      BY <2>4, <3>1 DEF FlushPublish, Claim, VersionsInv, VersionsTypeOK, Idle
    <3> QED BY <2>0, <2>4, <3>1, <3>2, NoNewClaim DEF VersionsInv, FlushPublish, EditsAreCurrent
  <2>5. ASSUME NEW p \in Publishers, BeginRelease(p)
        PROVE  VersionsInv'
    <3>1. \A v \in Versions : \A h \in Graphs : Claim(v, h)' => Claim(v, h)
      BY <2>5 DEF BeginRelease, Claim, VersionsInv, VersionsTypeOK
    <3> QED BY <2>0, <2>5, <3>1, NoNewClaim DEF VersionsInv, BeginRelease, EditsAreCurrent
  <2>6. ASSUME NEW p \in Publishers, FlushRelease(p)
        PROVE  VersionsInv'
    <3>1. \A v \in Versions : \A h \in Graphs : Claim(v, h)' => Claim(v, h)
      BY <2>6 DEF FlushRelease, Frozen, Claim, VersionsInv, VersionsTypeOK, Idle
    <3> QED BY <2>0, <2>6, <3>1, NoNewClaim DEF VersionsInv, FlushRelease, EditsAreCurrent
  <2>7. CASE Unpublish
    <3>1. row'.version = row.version /\ row'.graph = row.graph
      BY <2>0, <2>7 DEF Unpublish, Rows
    <3>2. \A v \in Versions : \A h \in Graphs : Claim(v, h)' => Claim(v, h)
      BY <2>7, <3>1 DEF Unpublish, Claim
    <3> QED BY <2>0, <2>7, <3>1, <3>2, NoNewClaim DEF VersionsInv, Unpublish, EditsAreCurrent
  <2>8. ASSUME NEW v \in 0 .. MaxVersion, SetLiveVersion(v)
        PROVE  VersionsInv'
    <3>1. \A w \in Versions : \A h \in Graphs : Claim(w, h)' => Claim(w, h)
      BY <2>8 DEF SetLiveVersion, Claim
    <3> QED BY <2>0, <2>8, <3>1, NoNewClaim DEF VersionsInv, SetLiveVersion, EditsAreCurrent
  <2>9. ASSUME NEW r \in Runs, NEW w, Start(r, w)
        PROVE  VersionsInv'
    <3>1. run[r].graphs = {}
      BY <2>9 DEF Start, VersionsInv, RunsStartFresh
    <3>2. \A v \in Versions : \A h \in Graphs : Claim(v, h)' => Claim(v, h)
      BY <2>9, <3>1 DEF Start, Claim, VersionsInv, VersionsTypeOK
    <3> QED BY <2>0, <2>9, <3>2, NoNewClaim DEF VersionsInv, Start, EditsAreCurrent
  <2>10. ASSUME NEW r \in Runs, Step(r)
         PROVE  VersionsInv'
    <3> DEFINE u == run[r].version
    <3>1. requireWorkflowAt(u) # NoGraph => Claim(u, requireWorkflowAt(u))
      BY DEF requireWorkflowAt, Claim
    <3>2. \A q \in Runs : /\ run'[q].version = run[q].version
                         /\ run'[q].graphs \ run[q].graphs
                              \subseteq {g \in {requireWorkflowAt(u)} : q = r /\ g # NoGraph}
      BY <2>10 DEF Step, VersionsInv, VersionsTypeOK
    <3>3. ASSUME NEW v \in Versions, NEW h \in Graphs, Claim(v, h)'
          PROVE  Claim(v, h)
      <4>1. CASE \E q \in Runs : run'[q].version = v /\ h \in run'[q].graphs
        <5>1. PICK q \in Runs : run'[q].version = v /\ h \in run'[q].graphs
          BY <4>1
        <5>2. CASE h \in run[q].graphs
          BY <3>2, <5>1, <5>2 DEF Claim
        <5>3. CASE h \notin run[q].graphs
          BY <3>1, <3>2, <5>1, <5>3
        <5> QED BY <5>2, <5>3
      <4>2. CASE ~\E q \in Runs : run'[q].version = v /\ h \in run'[q].graphs
        <5>1. UNCHANGED <<row, releases, call>>
          BY <2>10 DEF Step
        <5>2. \/ row'.version = v /\ row'.graph = h
              \/ releases'[v] = h
              \/ \E p \in Publishers : call'[p].op = "release"
                                    /\ call'[p].was.version = v /\ call'[p].was.graph = h
          <6>1. Claim(v, h)'
            BY <3>3
          <6> QED BY <4>2, <6>1 DEF Claim
        <5> QED BY <5>1, <5>2 DEF Claim
      <4> QED BY <4>1, <4>2
    <3> QED BY <2>0, <2>10, <3>3, NoNewClaim DEF VersionsInv, Step, EditsAreCurrent
  <2>11. CASE UNCHANGED versionsVars
    <3>1. \A v \in Versions : \A h \in Graphs : Claim(v, h)' => Claim(v, h)
      BY <2>11 DEF versionsVars, Claim
    <3> QED BY <2>0, <2>11, <3>1, NoNewClaim DEF VersionsInv, versionsVars, EditsAreCurrent
  <2> QED
    BY <2>1, <2>2, <2>3, <2>4, <2>5, <2>6, <2>7, <2>8, <2>9, <2>10, <2>11
    DEF VersionsNext, StartScheduled, StartNamed
<1> QED BY <1>1, <1>2, VersionsTypeCorrect, PTL DEF VersionsSpec, VersionsInv

-----------------------------------------------------------------------------

\* A run does not execute half of one graph and half of another, as long as saves do not
\* overlap (requireWorkflowAt).
THEOREM OneGraphPerRun ==
  ASSUME OneEditor
  PROVE  VersionsSpec => []RunsOneGraph
<1>1. VersionsInv => RunsOneGraph
  <2> SUFFICES ASSUME VersionsInv, NEW r \in Runs, NEW g \in run[r].graphs, NEW h \in run[r].graphs
               PROVE  g = h
    BY DEF RunsOneGraph
  <2>1. run[r].version \in Versions /\ g \in Graphs /\ h \in Graphs
    BY DEF VersionsInv, VersionsTypeOK
  <2>2. Claim(run[r].version, g) /\ Claim(run[r].version, h)
    BY DEF Claim
  <2> QED BY <2>1, <2>2 DEF VersionsInv, VersionsNameGraphs
<1> QED BY <1>1, VersionsHold, PTL

\* The head and the release of its version hold the same graph, as long as saves do not
\* overlap: what runs of a live version execute is what was released.
THEOREM HeadMatchesRelease ==
  ASSUME OneEditor
  PROVE  VersionsSpec => []HeadIsItsRelease
<1>1. VersionsInv => HeadIsItsRelease
  <2> SUFFICES ASSUME VersionsInv, releases[row.version] # NoGraph
               PROVE  row.graph = releases[row.version]
    BY DEF HeadIsItsRelease
  <2>1. row.version \in Versions /\ row.graph \in Graphs /\ releases[row.version] \in Graphs
    BY DEF VersionsInv, VersionsTypeOK, Rows
  <2>2. Claim(row.version, row.graph) /\ Claim(row.version, releases[row.version])
    BY DEF Claim
  <2> QED BY <2>1, <2>2 DEF VersionsInv, VersionsNameGraphs
<1> QED BY <1>1, VersionsHold, PTL

\* The live version is released.
LiveIsReleased == liveVersion # 0 => releases[liveVersion] # NoGraph

\* setLiveWorkflowVersion refuses a version nobody released, and a release is kept.
LEMMA LiveReleased == VersionsSpec => []LiveIsReleased
<1> USE VersionsAssumption
<1>1. VersionsInit => LiveIsReleased
  BY DEF VersionsInit, LiveIsReleased
<1>2. VersionsTypeOK /\ LiveIsReleased /\ [VersionsNext]_versionsVars => LiveIsReleased'
  <2> SUFFICES ASSUME VersionsTypeOK, LiveIsReleased, [VersionsNext]_versionsVars PROVE LiveIsReleased'
    OBVIOUS
  <2>1. ASSUME NEW p \in Publishers, FlushRelease(p) PROVE LiveIsReleased'
    <3>1. call[p] # Idle /\ call[p].was.graph \in Graphs
      BY <2>1 DEF FlushRelease, VersionsTypeOK, Idle, Rows
    <3> QED BY <2>1, <3>1 DEF FlushRelease, Frozen, LiveIsReleased, VersionsTypeOK, Versions
  <2>2. ASSUME NEW v \in 0 .. MaxVersion, SetLiveVersion(v) PROVE LiveIsReleased'
    BY <2>2 DEF SetLiveVersion, LiveIsReleased
  <2>3. ASSUME UNCHANGED <<liveVersion, releases>> PROVE LiveIsReleased'
    BY <2>3 DEF LiveIsReleased
  <2> QED
    BY <2>1, <2>2, <2>3
    DEF VersionsNext, versionsVars, BeginSave, FlushSave, BeginPublish, FlushPublish, BeginRelease,
        Unpublish, StartScheduled, StartNamed, Start, Step
<1> QED BY <1>1, <1>2, VersionsTypeCorrect, PTL DEF VersionsSpec

\* While a version is live, what a scheduled run executes moves with the pointer only, as
\* long as saves do not overlap.
THEOREM EditsDoNotDeploy ==
  ASSUME OneEditor
  PROVE  VersionsSpec => EditsNeverDeploy
<1> USE VersionsAssumption
<1>1. ASSUME VersionsTypeOK, LiveIsReleased, LiveIsReleased', HeadIsItsRelease, HeadIsItsRelease',
             [VersionsNext]_versionsVars, liveVersion # 0, liveVersion' = liveVersion
      PROVE  requireWorkflowAt(liveVersion)' = requireWorkflowAt(liveVersion)
  <2>1. releases'[liveVersion] = releases[liveVersion]
    <3>1. ASSUME NEW p \in Publishers, FlushRelease(p)
          PROVE  releases'[liveVersion] = releases[liveVersion]
      BY <1>1, <3>1 DEF FlushRelease, Frozen, LiveIsReleased, VersionsTypeOK, Versions
    <3> QED
      BY <1>1, <3>1
      DEF VersionsNext, versionsVars, BeginSave, FlushSave, BeginPublish, FlushPublish, BeginRelease,
          Unpublish, SetLiveVersion, StartScheduled, StartNamed, Start, Step
  <2>2. requireWorkflowAt(liveVersion) = releases[liveVersion]
    BY <1>1 DEF requireWorkflowAt, HeadIsItsRelease, LiveIsReleased
  <2>3. requireWorkflowAt(liveVersion)' = releases'[liveVersion]
    BY <1>1 DEF requireWorkflowAt, HeadIsItsRelease, LiveIsReleased
  <2> QED BY <2>1, <2>2, <2>3
<1>2. VersionsTypeOK /\ LiveIsReleased /\ LiveIsReleased' /\ HeadIsItsRelease /\ HeadIsItsRelease'
        /\ [VersionsNext]_versionsVars
      => [liveVersion # 0 /\ liveVersion' = liveVersion => requireWorkflowAt(liveVersion)' = requireWorkflowAt(liveVersion)]_versionsVars
  BY <1>1
<1> QED BY <1>2, VersionsTypeCorrect, LiveReleased, HeadMatchesRelease, PTL DEF VersionsSpec, EditsNeverDeploy
=============================================================================
