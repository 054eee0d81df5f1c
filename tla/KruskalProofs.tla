--------------------------- MODULE KruskalProofs ---------------------------
(***************************************************************************)
(* For every graph: the forest of Kruskal never has a cycle, each edge     *)
(* taken joins two of its trees, the forest implements the partition of    *)
(* Blocks, and the tree that the loop ends with is a minimum spanning tree.*)
(***************************************************************************)
EXTENDS Kruskal, FiniteSetTheorems, SequenceTheorems, WellFoundedInduction, TLAPS

\* What the walks of find_canonical have found, and the edge they start from.
RootsFound ==
    /\ pc \in {"find2", "link"} => parent[p1] = p1
    /\ pc = "link" => parent[p2] = p2

EdgeAtHand == pc \in {"find1", "find2", "link"} => j < node_count - 1 /\ i < Len(edges)

IInv == TypeOK /\ RootsFound /\ EdgeAtHand /\ RanksClimb /\ OneTreeLessPerEdge

LEMMA NodesFinite ==
    /\ IsFiniteSet(Nodes)
    /\ Cardinality(Nodes) = node_count
    /\ 0 \in Nodes
    /\ \A s \in SUBSET Nodes : IsFiniteSet(s) /\ Cardinality(s) \in Nat
<1>1. node_count \in Int /\ node_count >= 1
  BY NodeCountAssumption
<1>2. IsFiniteSet(Nodes) /\ Cardinality(Nodes) = node_count
  <2>1. node_count - 1 \in Int /\ 0 \in Int
    BY <1>1
  <2>2. /\ IsFiniteSet(0 .. node_count - 1)
        /\ Cardinality(0 .. node_count - 1) =
              IF 0 > node_count - 1 THEN 0 ELSE (node_count - 1) - 0 + 1
    BY <2>1, FS_Interval
  <2> QED BY <1>1, <2>2 DEF Nodes
<1>3. \A s \in SUBSET Nodes : IsFiniteSet(s) /\ Cardinality(s) \in Nat
  BY <1>2, FS_Subset, FS_CardinalityType
<1>4. 0 \in Nodes
  BY <1>1 DEF Nodes
<1> QED BY <1>2, <1>3, <1>4

-----------------------------------------------------------------------------
(* Canonical nodes. *)

LEMMA LeastElement ==
    ASSUME NEW S \in SUBSET Nat, S # {}
    PROVE  \E x \in S : \A y \in S : x <= y
<1> DEFINE R == {e \in Nat \X Nat : e[1] < e[2]}
<1>1. R = OpToRel(<, Nat)
  BY DEF OpToRel
<1>2. IsWellFoundedOn(R, Nat)
  BY <1>1, NatLessThanWellFounded
<1> HIDE DEF R
<1>3. \E x \in S : \A y \in S : ~ (<<y, x>> \in R)
  BY <1>2, WFMin
<1>4. \A x \in S : \A y \in S : ~ (<<y, x>> \in R) => x <= y
  BY DEF R
<1> QED BY <1>3, <1>4

\* f sends every node of the forest p to the end of the walk from it.
Follows(f, p) == f = [n \in Nodes |-> IF p[n] = n THEN n ELSE f[p[n]]]

\* In a forest without cycles there is one such function.
LEMMA OneEndOfWalks ==
    ASSUME NEW p \in [Nodes -> Nodes], NEW k \in [Nodes -> Nat],
           \A n \in Nodes : p[n] # n => k[n] < k[p[n]],
           NEW f, NEW g, Follows(f, p), Follows(g, p)
    PROVE  f = g
<1> DEFINE Above(n) == {m \in Nodes : k[m] > k[n]}
           D == {n \in Nodes : f[n] # g[n]}
           S == {Cardinality(Above(n)) : n \in D}
<1>1. ASSUME NEW n \in Nodes
      PROVE  /\ f[n] = IF p[n] = n THEN n ELSE f[p[n]]
             /\ g[n] = IF p[n] = n THEN n ELSE g[p[n]]
  BY DEF Follows
<1>2. \A n \in Nodes : IsFiniteSet(Above(n)) /\ Cardinality(Above(n)) \in Nat
  BY NodesFinite
<1>3. ASSUME NEW n \in Nodes, p[n] # n
      PROVE  Cardinality(Above(p[n])) < Cardinality(Above(n))
  <2>1. k[n] \in Nat /\ k[p[n]] \in Nat /\ k[n] < k[p[n]] /\ p[n] \in Nodes
    BY <1>3
  <2>2. Above(p[n]) \in SUBSET Above(n)
    BY <2>1
  <2>3. p[n] \in Above(n) /\ p[n] \notin Above(p[n])
    BY <2>1
  <2>4. /\ IsFiniteSet(Above(n)) /\ Cardinality(Above(n)) \in Nat
        /\ Cardinality(Above(p[n])) \in Nat
    BY <1>2, <2>1
  <2> HIDE DEF Above
  <2>5. Above(p[n]) # Above(n)
    BY <2>3
  <2>6. /\ Cardinality(Above(p[n])) <= Cardinality(Above(n))
        /\ Cardinality(Above(n)) = Cardinality(Above(p[n])) => Above(n) = Above(p[n])
    BY <2>2, <2>4, FS_Subset
  <2> QED BY <2>4, <2>5, <2>6
<1>4. D = {}
  <2>1. SUFFICES ASSUME D # {} PROVE FALSE
    OBVIOUS
  <2> HIDE DEF Above
  <2>2. S \in SUBSET Nat /\ S # {}
    BY <1>2, <2>1
  <2>3. PICK x \in S : \A y \in S : x <= y
    <3> HIDE DEF S
    <3> QED BY <2>2, LeastElement
  <2>4. PICK n \in D : x = Cardinality(Above(n))
    OBVIOUS
  <2>5. p[n] # n /\ p[n] \in Nodes /\ p[n] \in D
    BY <1>1
  <2>6. Cardinality(Above(p[n])) < Cardinality(Above(n))
    BY <1>3, <2>5
  <2>7. Cardinality(Above(p[n])) \in S
    BY <2>5
  <2>8. Cardinality(Above(n)) <= Cardinality(Above(p[n]))
    BY <2>3, <2>4, <2>7
  <2> QED BY <1>2, <2>5, <2>6, <2>8
<1> QED BY <1>4 DEF Follows

\* If there is such a function, Root is it.
LEMMA RootIsEndOfWalks ==
    ASSUME NEW f, Follows(f, parent)
    PROVE  Follows(Root, parent)
<1> DEFINE Step(g) == [n \in Nodes |-> IF parent[n] = n THEN n ELSE g[parent[n]]]
<1>1. Root = CHOOSE g : g = Step(g)
  BY DEF Root
<1>2. f = Step(f)
  BY DEF Follows
<1>3. Root = Step(Root)
  <2> HIDE DEF Step
  <2> QED BY <1>1, <1>2
<1> QED BY <1>3 DEF Follows

-----------------------------------------------------------------------------
(* The forest. *)

LEMMA Started == Init => IInv
<1> SUFFICES ASSUME Init PROVE IInv
  OBVIOUS
<1>1. edges \in Seq(Edge) /\ Len(edges) \in Nat
  BY GraphsAssumption, LenProperties DEF Init
<1>2. TypeOK
  BY <1>1, NodesFinite, NodeCountAssumption DEF Init, TypeOK
<1>3. Roots = Nodes
  BY DEF Init, Roots
<1>4. OneTreeLessPerEdge
  BY <1>3, NodesFinite, NodeCountAssumption DEF Init, OneTreeLessPerEdge
<1> QED BY <1>2, <1>4 DEF Init, IInv, RootsFound, EdgeAtHand, RanksClimb

\* Steps that leave the forest alone.
LEMMA ForestKept ==
    ASSUME IInv, UNCHANGED <<parent, rank, j, mst_indices>>
    PROVE  RanksClimb' /\ OneTreeLessPerEdge'
BY DEF IInv, RanksClimb, OneTreeLessPerEdge, Roots

\* Both ends that find_canonical has found are roots, and one of them goes below
\* the other.
LEMMA Linked ==
    ASSUME IInv, Link
    PROVE  /\ Lower \in Roots /\ Upper \in Roots /\ Lower # Upper
           /\ parent' = [parent EXCEPT ![Lower] = Upper]
           /\ rank[Lower] <= rank[Upper]
           /\ rank' \in [Nodes -> Nat]
           /\ \A n \in Nodes : n # Upper => rank'[n] = rank[n]
           /\ rank'[Upper] >= rank[Upper]
           /\ rank[Lower] < rank'[Upper]
<1>1. p1 \in Nodes /\ p2 \in Nodes /\ p1 # p2 /\ parent[p1] = p1 /\ parent[p2] = p2
  BY DEF IInv, TypeOK, RootsFound, Link
<1>2. rank \in [Nodes -> Nat] /\ parent \in [Nodes -> Nodes]
  BY DEF IInv, TypeOK
<1>3. /\ Lower \in Nodes /\ Upper \in Nodes /\ Lower # Upper
      /\ parent[Lower] = Lower /\ parent[Upper] = Upper
      /\ rank[Lower] <= rank[Upper]
  BY <1>1, <1>2 DEF Lower, Upper
<1>4. /\ parent' = [parent EXCEPT ![Lower] = Upper]
      /\ rank' = IF rank[Lower] = rank[Upper] THEN [rank EXCEPT ![Upper] = @ + 1] ELSE rank
  BY DEF Link
<1> HIDE DEF Lower, Upper
<1>5. CASE rank[Lower] = rank[Upper]
  <2>1. rank' = [rank EXCEPT ![Upper] = rank[Upper] + 1]
    BY <1>4, <1>5
  <2> QED BY <1>2, <1>3, <1>4, <1>5, <2>1 DEF Roots
<1>6. CASE rank[Lower] # rank[Upper]
  BY <1>2, <1>3, <1>4, <1>6 DEF Roots
<1> QED BY <1>5, <1>6

LEMMA LinkStep == ASSUME IInv, Link PROVE IInv'
<1>1. /\ Lower \in Nodes /\ Upper \in Nodes /\ Lower # Upper
      /\ parent[Lower] = Lower /\ parent[Upper] = Upper
      /\ parent' = [parent EXCEPT ![Lower] = Upper]
      /\ rank[Lower] <= rank[Upper]
      /\ rank' \in [Nodes -> Nat]
      /\ \A n \in Nodes : n # Upper => rank'[n] = rank[n]
      /\ rank'[Upper] >= rank[Upper]
      /\ rank[Lower] < rank'[Upper]
  BY Linked DEF Roots
<1>2. /\ rank \in [Nodes -> Nat] /\ parent \in [Nodes -> Nodes]
      /\ edges \in Seq(Edge) /\ i \in 0 .. Len(edges) /\ j \in 0 .. node_count - 1
      /\ p1 \in Nodes /\ p2 \in Nodes /\ mst_indices \in Seq(Nat)
      /\ j < node_count - 1 /\ i < Len(edges)
  BY DEF IInv, TypeOK, EdgeAtHand, Link
<1>3. /\ mst_indices' = Append(mst_indices, i) /\ j' = j + 1 /\ i' = i + 1
      /\ pc' = "next" /\ UNCHANGED <<edges, p1, p2>>
  BY DEF Link
<1> HIDE DEF Lower, Upper
<1>4. TypeOK'
  <2>1. parent' \in [Nodes -> Nodes]
    BY <1>1, <1>2
  <2>2. Len(edges) \in Nat /\ i \in Nat
    BY <1>2, LenProperties
  <2>3. mst_indices' \in Seq(Nat)
    BY <1>2, <1>3, <2>2, AppendProperties
  <2>4. i' \in 0 .. Len(edges') /\ j' \in 0 .. node_count - 1
    BY <1>2, <1>3, <2>2, NodeCountAssumption
  <2> QED BY <1>1, <1>2, <1>3, <2>1, <2>3, <2>4 DEF TypeOK
<1>5. RanksClimb'
  <2> SUFFICES ASSUME NEW n \in Nodes, parent'[n] # n
               PROVE  rank'[n] < rank'[parent'[n]]
    BY DEF RanksClimb
  <2>1. CASE n = Lower
    <3>1. parent'[n] = Upper
      BY <1>1, <1>2, <2>1
    <3> QED BY <1>1, <2>1, <3>1
  <2>2. CASE n # Lower
    <3>1. parent'[n] = parent[n] /\ parent[n] \in Nodes
      BY <1>1, <1>2, <2>2
    <3>2. n # Upper
      BY <1>1, <3>1
    <3>3. rank[n] < rank[parent[n]] /\ rank'[n] = rank[n]
      BY <1>1, <3>1, <3>2 DEF IInv, RanksClimb
    <3>4. rank[n] \in Nat /\ rank[parent[n]] \in Nat /\ rank'[parent[n]] \in Nat
      BY <1>1, <1>2, <3>1
    <3>5. rank'[parent[n]] >= rank[parent[n]]
      <4>1. CASE parent[n] = Upper
        BY <1>1, <4>1
      <4>2. CASE parent[n] # Upper
        <5>1. rank'[parent[n]] = rank[parent[n]]
          BY <1>1, <3>1, <4>2
        <5> QED BY <3>4, <5>1
      <4> QED BY <4>1, <4>2
    <3> QED BY <3>1, <3>3, <3>4, <3>5
  <2> QED BY <2>1, <2>2
<1>6. OneTreeLessPerEdge'
  <2>1. Roots' = Roots \ {Lower} /\ Lower \in Roots
    BY <1>1, <1>2 DEF Roots
  <2>2. Roots \in SUBSET Nodes
    BY DEF Roots
  <2>3. IsFiniteSet(Roots) /\ Cardinality(Roots) \in Nat
    BY <2>2, NodesFinite
  <2>4. Cardinality(Roots') = Cardinality(Roots) - 1
    BY <2>1, <2>3, FS_RemoveElement
  <2>5. Cardinality(Roots) = node_count - j /\ Len(mst_indices) = j
    BY DEF IInv, OneTreeLessPerEdge
  <2>6. Len(mst_indices') = Len(mst_indices) + 1
    <3>1. i \in Nat
      BY <1>2, LenProperties
    <3> QED BY <1>2, <1>3, <3>1, AppendProperties
  <2>7. j \in Int /\ node_count \in Int
    BY <1>2, NodeCountAssumption
  <2>8. Cardinality(Roots') = node_count - j' /\ Len(mst_indices') = j'
    BY <1>3, <2>4, <2>5, <2>6, <2>7
  <2> QED BY <2>8 DEF OneTreeLessPerEdge
<1>7. RootsFound' /\ EdgeAtHand'
  BY <1>3 DEF RootsFound, EdgeAtHand
<1> QED BY <1>4, <1>5, <1>6, <1>7 DEF IInv

LEMMA Stepped == IInv /\ [Next]_vars => IInv'
<1> SUFFICES ASSUME IInv, [Next]_vars PROVE IInv'
  OBVIOUS
<1>1. /\ rank \in [Nodes -> Nat] /\ parent \in [Nodes -> Nodes]
      /\ edges \in Seq(Edge) /\ i \in 0 .. Len(edges) /\ j \in 0 .. node_count - 1
      /\ p1 \in Nodes /\ p2 \in Nodes /\ mst_indices \in Seq(Nat)
      /\ Len(edges) \in Nat
  BY LenProperties DEF IInv, TypeOK
<1>2. CASE Finish \/ Overrun
  BY <1>2, ForestKept DEF Finish, Overrun, IInv, TypeOK, RootsFound, EdgeAtHand
<1>3. CASE NextEdge
  <2>1. i + 1 \in 1 .. Len(edges)
    BY <1>1, <1>3 DEF NextEdge
  <2>2. edges[i + 1] \in Edge
    BY <1>1, <2>1, ElementOfSeq
  <2>3. p1' \in Nodes /\ p2' \in Nodes
    BY <1>3, <2>2 DEF NextEdge, Edge
  <2> QED BY <1>1, <1>3, <2>3, ForestKept DEF NextEdge, IInv, TypeOK, RootsFound, EdgeAtHand
<1>4. CASE Find1
  <2>1. p1' = parent[p1] /\ p1' \in Nodes
    BY <1>1, <1>4 DEF Find1
  <2>2. CASE parent[p1] = p1
    BY <1>1, <1>4, <2>1, <2>2, ForestKept DEF Find1, IInv, TypeOK, RootsFound, EdgeAtHand
  <2>3. CASE parent[p1] # p1
    BY <1>1, <1>4, <2>1, <2>3, ForestKept DEF Find1, IInv, TypeOK, RootsFound, EdgeAtHand
  <2> QED BY <2>2, <2>3
<1>5. CASE Find2
  <2>1. p2' = parent[p2] /\ p2' \in Nodes
    BY <1>1, <1>5 DEF Find2
  <2>2. CASE parent[p2] = p2
    BY <1>1, <1>5, <2>1, <2>2, ForestKept DEF Find2, IInv, TypeOK, RootsFound, EdgeAtHand
  <2>3. CASE parent[p2] # p2
    BY <1>1, <1>5, <2>1, <2>3, ForestKept DEF Find2, IInv, TypeOK, RootsFound, EdgeAtHand
  <2> QED BY <2>2, <2>3
<1>6. CASE Skip
  <2>1. i' \in 0 .. Len(edges)
    BY <1>1, <1>6 DEF Skip, IInv, EdgeAtHand
  <2> QED BY <1>1, <1>6, <2>1, ForestKept DEF Skip, IInv, TypeOK, RootsFound, EdgeAtHand
<1>7. CASE Link
  BY <1>7, LinkStep
<1>8. CASE UNCHANGED vars
  BY <1>8 DEF vars, IInv, TypeOK, RootsFound, EdgeAtHand, RanksClimb, OneTreeLessPerEdge, Roots
<1> QED BY <1>2, <1>3, <1>4, <1>5, <1>6, <1>7, <1>8 DEF Next

LEMMA IInvHolds == Spec => []IInv
BY Started, Stepped, PTL DEF Spec

-----------------------------------------------------------------------------
(* The blocks: the trees of the forest. *)

\* Every node has a canonical node, and the walks of find_canonical do not leave the trees
\* of the ends of the edge.
RootInv ==
    /\ Follows(Root, parent)
    /\ \A n \in Nodes : Root[n] \in Roots
    /\ pc \in {"find1", "find2", "link"} =>
           /\ Root[p1] = Root[edges[i + 1].end[1]]
           /\ Root[p2] = Root[edges[i + 1].end[2]]

LEMMA RootInvStarted == Init => RootInv
<1> SUFFICES ASSUME Init PROVE RootInv
  OBVIOUS
<1>1. parent = [n \in Nodes |-> n] /\ pc = "next" /\ Roots = Nodes
  BY DEF Init, Roots
<1> DEFINE f == [n \in Nodes |-> n]
<1>2. Follows(f, parent)
  BY <1>1 DEF Follows
<1> HIDE DEF f
<1>3. Follows(Root, parent)
  BY <1>2, RootIsEndOfWalks
<1>4. \A n \in Nodes : Root[n] \in Roots
  BY <1>1, <1>3 DEF Follows
<1> QED BY <1>1, <1>3, <1>4 DEF RootInv

\* Linking two roots takes all nodes of one tree to the other root.
LEMMA RootsLinked ==
    ASSUME IInv, RootInv, Link
    PROVE  /\ Follows(Root', parent')
           /\ Roots' = Roots \ {Lower}
           /\ \A n \in Nodes : Root'[n] = IF Root[n] = Lower THEN Upper ELSE Root[n]
<1>1. /\ Lower \in Nodes /\ Upper \in Nodes /\ Lower # Upper
      /\ parent[Lower] = Lower /\ parent[Upper] = Upper
      /\ parent' = [parent EXCEPT ![Lower] = Upper]
  BY Linked DEF Roots
<1>2. parent \in [Nodes -> Nodes] /\ parent' \in [Nodes -> Nodes]
  BY LinkStep DEF IInv, TypeOK
<1>3. rank' \in [Nodes -> Nat] /\ \A n \in Nodes : parent'[n] # n => rank'[n] < rank'[parent'[n]]
  BY LinkStep DEF IInv, TypeOK, RanksClimb
<1> HIDE DEF Lower, Upper
<1>4. \A n \in Nodes : Root[n] = IF parent[n] = n THEN n ELSE Root[parent[n]]
  BY DEF RootInv, Follows
<1> DEFINE f == [n \in Nodes |-> IF Root[n] = Lower THEN Upper ELSE Root[n]]
<1>5. Follows(f, parent')
  <2>1. ASSUME NEW n \in Nodes
        PROVE  f[n] = IF parent'[n] = n THEN n ELSE f[parent'[n]]
    <3>1. CASE n = Lower
      <4>1. parent'[n] = Upper /\ Root[n] = Lower /\ Root[Upper] = Upper
        BY <1>1, <1>2, <1>4, <3>1
      <4> QED BY <1>1, <3>1, <4>1
    <3>2. CASE n # Lower
      <4>1. parent'[n] = parent[n] /\ parent[n] \in Nodes
        BY <1>1, <1>2, <3>2
      <4>2. CASE parent[n] = n
        <5>1. Root[n] = n
          BY <1>4, <4>2
        <5> QED BY <3>2, <4>1, <4>2, <5>1
      <4>3. CASE parent[n] # n
        <5>1. Root[n] = Root[parent[n]]
          BY <1>4, <4>3
        <5> QED BY <4>1, <4>3, <5>1
      <4> QED BY <4>2, <4>3
    <3> QED BY <3>1, <3>2
  <2>2. f = [n \in Nodes |-> IF parent'[n] = n THEN n ELSE f[parent'[n]]]
    BY <2>1
  <2> QED BY <2>2 DEF Follows
<1> HIDE DEF f
<1>6. Follows(Root', parent')
  <2> DEFINE Step(g) == [n \in Nodes |-> IF parent'[n] = n THEN n ELSE g[parent'[n]]]
  <2>1. Root' = CHOOSE g : g = Step(g)
    BY DEF Root
  <2>2. f = Step(f)
    BY <1>5 DEF Follows
  <2>3. Root' = Step(Root')
    <3> HIDE DEF Step
    <3> QED BY <2>1, <2>2
  <2> QED BY <2>3 DEF Follows
<1>7. Root' = f
  BY <1>2, <1>3, <1>5, <1>6, OneEndOfWalks
<1>8. Roots' = Roots \ {Lower}
  BY <1>1, <1>2 DEF Roots
<1> QED BY <1>6, <1>7, <1>8 DEF f

LEMMA RootInvStepped == IInv /\ RootInv /\ [Next]_vars => RootInv'
<1> SUFFICES ASSUME IInv, RootInv, [Next]_vars PROVE RootInv'
  OBVIOUS
<1>1. parent \in [Nodes -> Nodes] /\ p1 \in Nodes /\ p2 \in Nodes
  BY DEF IInv, TypeOK
<1>2. \A n \in Nodes : Root[n] = IF parent[n] = n THEN n ELSE Root[parent[n]]
  BY DEF RootInv, Follows
<1>3. ASSUME parent' = parent
      PROVE  /\ Root' = Root
             /\ Follows(Root, parent)' /\ \A n \in Nodes : Root'[n] \in Roots'
  <2>1. Root' = Root
    BY <1>3 DEF Root
  <2>2. Roots' = Roots
    BY <1>3 DEF Roots
  <2> QED BY <1>3, <2>1, <2>2 DEF RootInv, Follows
<1>4. CASE Finish \/ Overrun \/ NextEdge
  BY <1>3, <1>4 DEF Finish, Overrun, NextEdge, RootInv
<1>5. CASE Find1
  <2>1. /\ p1' = parent[p1] /\ parent' = parent /\ UNCHANGED <<edges, i, p2>>
        /\ pc' \in {"find1", "find2"} /\ pc = "find1"
    BY <1>5 DEF Find1
  <2>2. Root[parent[p1]] = Root[p1]
    BY <1>1, <1>2
  <2>3. Root'[p1'] = Root[p1]
    BY <1>3, <2>1, <2>2
  <2> QED BY <1>3, <2>1, <2>3 DEF RootInv
<1>6. CASE Find2
  <2>1. /\ p2' = parent[p2] /\ parent' = parent /\ UNCHANGED <<edges, i, p1>>
        /\ pc' \in {"find2", "link"} /\ pc = "find2"
    BY <1>6 DEF Find2
  <2>2. Root[parent[p2]] = Root[p2]
    BY <1>1, <1>2
  <2>3. Root'[p2'] = Root[p2]
    BY <1>3, <2>1, <2>2
  <2> QED BY <1>3, <2>1, <2>3 DEF RootInv
<1>7. CASE Skip
  BY <1>3, <1>7 DEF Skip, RootInv
<1>8. CASE Link
  <2>1. /\ Follows(Root', parent') /\ Roots' = Roots \ {Lower}
        /\ \A n \in Nodes : Root'[n] = IF Root[n] = Lower THEN Upper ELSE Root[n]
    BY <1>8, RootsLinked
  <2>2. Lower \in Roots /\ Upper \in Roots /\ Lower # Upper
    BY <1>8, Linked
  <2>3. \A n \in Nodes : Root[n] \in Roots
    BY DEF RootInv
  <2>4. pc' = "next"
    BY <1>8 DEF Link
  <2> HIDE DEF Lower, Upper
  <2>5. \A n \in Nodes : Root'[n] \in Roots'
    BY <2>1, <2>2, <2>3
  <2> QED BY <2>1, <2>4, <2>5 DEF RootInv
<1>9. CASE UNCHANGED vars
  BY <1>3, <1>9 DEF vars, RootInv
<1> QED BY <1>4, <1>5, <1>6, <1>7, <1>8, <1>9 DEF Next

Tree(r) == {n \in Nodes : Root[n] = r}
Trees == {Tree(r) : r \in Roots}

\* Each root has a tree of its own, and each node is in one tree.
LEMMA TreesPartition ==
    ASSUME IInv, RootInv
    PROVE  /\ \A r \in Roots : Root[r] = r /\ r \in Tree(r)
           /\ \A r, q \in Roots : Tree(r) = Tree(q) => r = q
           /\ \A n \in Nodes : /\ Tree(Root[n]) \in Trees
                               /\ n \in Tree(Root[n])
                               /\ \A b \in Trees : n \in b => b = Tree(Root[n])
           /\ Cardinality(Trees) = Cardinality(Roots)
<1>1. \A r \in Roots : Root[r] = r /\ r \in Tree(r)
  BY DEF RootInv, Follows, Roots, Tree
<1>2. \A r, q \in Roots : Tree(r) = Tree(q) => r = q
  BY <1>1 DEF Tree
<1>3. \A n \in Nodes : /\ Tree(Root[n]) \in Trees
                       /\ n \in Tree(Root[n])
                       /\ \A b \in Trees : n \in b => b = Tree(Root[n])
  BY DEF RootInv, Tree, Trees
<1>4. Cardinality(Trees) = Cardinality(Roots)
  <2> DEFINE f == [r \in Roots |-> Tree(r)]
  <2>1. f \in Bijection(Roots, Trees)
    <3> HIDE DEF Tree
    <3> QED BY <1>2 DEF Bijection, Injection, Surjection, IsInjective, Trees
  <2>2. ExistsBijection(Roots, Trees)
    BY <2>1 DEF ExistsBijection
  <2>3. Roots \in SUBSET Nodes
    BY DEF Roots
  <2>4. IsFiniteSet(Roots)
    BY <2>3, NodesFinite
  <2> QED BY <2>2, <2>4, FS_Bijection
<1> QED BY <1>1, <1>2, <1>3, <1>4

LEMMA BlockIsTree ==
    ASSUME IInv, RootInv, NEW n \in Nodes
    PROVE  Abstract!BlockOf(n) = Tree(Root[n])
<1>1. Abstract!BlockOf(n) = CHOOSE b \in Trees : n \in b
  BY DEF Abstract!BlockOf, Trees, Tree
<1> QED BY <1>1, TreesPartition

\* Where an edge is looked at, the roots found are those of its ends, and more than one
\* tree is left.
LEMMA RootsOfEnds ==
    ASSUME IInv, RootInv, pc = "link"
    PROVE  /\ Abstract!BlockOf(edges[i + 1].end[1]) = Tree(p1)
           /\ Abstract!BlockOf(edges[i + 1].end[2]) = Tree(p2)
           /\ p1 \in Roots /\ p2 \in Roots
           /\ Cardinality(Trees) > 1 /\ i < Len(edges)
<1>1. /\ edges \in Seq(Edge) /\ Len(edges) \in Nat /\ i \in 0 .. Len(edges)
      /\ p1 \in Nodes /\ p2 \in Nodes
  BY LenProperties DEF IInv, TypeOK
<1>2. /\ j < node_count - 1 /\ i < Len(edges)
      /\ parent[p1] = p1 /\ parent[p2] = p2
  BY DEF IInv, EdgeAtHand, RootsFound
<1>3. i + 1 \in 1 .. Len(edges)
  BY <1>1, <1>2
<1>4. edges[i + 1] \in Edge
  BY <1>1, <1>3, ElementOfSeq
<1>5. edges[i + 1].end[1] \in Nodes /\ edges[i + 1].end[2] \in Nodes
  BY <1>4 DEF Edge
<1>6. p1 \in Roots /\ p2 \in Roots
  BY <1>1, <1>2 DEF Roots
<1>7. Root[p1] = p1 /\ Root[p2] = p2
  BY <1>6, TreesPartition
<1>8. Root[edges[i + 1].end[1]] = p1 /\ Root[edges[i + 1].end[2]] = p2
  BY <1>7 DEF RootInv
<1>9. Cardinality(Trees) > 1
  <2>1. Cardinality(Trees) = node_count - j
    BY TreesPartition DEF IInv, OneTreeLessPerEdge
  <2>2. node_count \in Int /\ j \in Int
    BY NodeCountAssumption DEF IInv, TypeOK
  <2> QED BY <1>2, <2>1, <2>2
<1> QED BY <1>2, <1>5, <1>6, <1>8, <1>9, BlockIsTree

\* Linking joins the trees of the ends.
LEMMA TreesLinked ==
    ASSUME IInv, RootInv, Link
    PROVE  Trees' = (Trees \ {Tree(p1), Tree(p2)}) \union {Tree(p1) \union Tree(p2)}
<1>1. /\ Roots' = Roots \ {Lower}
      /\ \A n \in Nodes : Root'[n] = IF Root[n] = Lower THEN Upper ELSE Root[n]
  BY RootsLinked
<1>2. Lower \in Roots /\ Upper \in Roots /\ Lower # Upper
  BY Linked
<1>3. {p1, p2} = {Lower, Upper}
  BY DEF Lower, Upper
<1>4. /\ {Tree(p1), Tree(p2)} = {Tree(Lower), Tree(Upper)}
      /\ Tree(p1) \union Tree(p2) = Tree(Lower) \union Tree(Upper)
  <2>1. (p1 = Lower /\ p2 = Upper) \/ (p1 = Upper /\ p2 = Lower)
    BY DEF Lower, Upper
  <2> HIDE DEF Lower, Upper
  <2> QED BY <2>1
<1> HIDE DEF Lower, Upper
<1> DEFINE NewTree(r) == {n \in Nodes : Root'[n] = r}
<1>5. Trees' = {NewTree(r) : r \in Roots'}
  BY DEF Trees, Tree
<1>6. NewTree(Upper) = Tree(Lower) \union Tree(Upper)
  BY <1>1, <1>2 DEF Tree
<1>7. \A r \in Roots' : r # Upper => NewTree(r) = Tree(r)
  BY <1>1, <1>2 DEF Tree
<1>8. Trees \ {Tree(Lower), Tree(Upper)} = {Tree(r) : r \in Roots \ {Lower, Upper}}
  <2>1. \A r, q \in Roots : Tree(r) = Tree(q) => r = q
    BY TreesPartition
  <2> HIDE DEF Tree
  <2> QED BY <1>2, <2>1 DEF Trees
<1>9. Trees' = (Trees \ {Tree(Lower), Tree(Upper)}) \union {Tree(Lower) \union Tree(Upper)}
  <2> HIDE DEF NewTree
  <2>1. Roots' = (Roots \ {Lower, Upper}) \union {Upper}
    BY <1>1, <1>2
  <2>2. {NewTree(r) : r \in Roots'}
            = {Tree(r) : r \in Roots \ {Lower, Upper}} \union {NewTree(Upper)}
    BY <1>7, <2>1
  <2> QED BY <1>5, <1>6, <1>8, <2>2
<1> QED BY <1>4, <1>9

\* The first trees are the single nodes.
LEMMA BlocksStarted == Init => Abstract!Init
<1> SUFFICES ASSUME Init PROVE Abstract!Init
  OBVIOUS
<1>1. RootInv /\ Roots = Nodes
  BY RootInvStarted DEF Init, Roots
<1>2. \A n \in Nodes : Root[n] = n
  BY <1>1 DEF RootInv, Follows, Init
<1>3. {{n \in Nodes : Root[n] = r} : r \in Roots} = {{n} : n \in Nodes}
  <2>1. \A r \in Nodes : {n \in Nodes : Root[n] = r} = {r}
    BY <1>2
  <2> QED BY <1>1, <2>1
<1> QED BY <1>3 DEF Init, Abstract!Init

\* A step that leaves trees, edges looked at and edges taken alone.
LEMMA BlocksKept ==
    ASSUME UNCHANGED <<edges, parent, i, mst_indices>>
    PROVE  UNCHANGED Abstract!vars
<1>1. Root' = Root /\ Roots' = Roots
  BY DEF Root, Roots
<1> QED BY <1>1 DEF Abstract!vars

\* Blocks counts the trees as this module does.
LEMMA SameCardinality ==
    Abstract!Cardinality({{n \in Nodes : Root[n] = r} : r \in Roots}) = Cardinality(Trees)
<1>1. Trees = {{n \in Nodes : Root[n] = r} : r \in Roots}
  BY DEF Trees, Tree
<1>2. Abstract!Cardinality(Trees) = Cardinality(Trees)
  BY DEF Abstract!Cardinality, Cardinality
<1> QED BY <1>1, <1>2

\* An edge is looked at when its ends' roots have been found: it is left out if they are
\* the same, and joins their trees if not.
LEMMA BlocksStepped ==
    ASSUME IInv, RootInv, [Next]_vars
    PROVE  [Abstract!Look]_(Abstract!vars)
<1>1. CASE Finish \/ Overrun \/ NextEdge \/ Find1 \/ Find2 \/ UNCHANGED vars
  <2>1. UNCHANGED <<edges, parent, i, mst_indices>>
    BY <1>1 DEF Finish, Overrun, NextEdge, Find1, Find2, vars
  <2> QED BY <2>1, BlocksKept
<1> DEFINE a == Abstract!BlockOf(edges[i + 1].end[1])
           b == Abstract!BlockOf(edges[i + 1].end[2])
<1>2. CASE Skip
  <2>1. pc = "link" /\ p1 = p2 /\ i' = i + 1 /\ UNCHANGED <<edges, parent, mst_indices>>
    BY <1>2 DEF Skip
  <2>2. a = b /\ Cardinality(Trees) > 1 /\ i < Len(edges)
    BY <2>1, RootsOfEnds
  <2>3. Root' = Root /\ Roots' = Roots
    BY <2>1 DEF Root, Roots
  <2>4. Abstract!Cardinality({{n \in Nodes : Root[n] = r} : r \in Roots}) > 1
    BY <2>2, SameCardinality
  <2>5. Abstract!Look
    BY <2>1, <2>2, <2>3, <2>4 DEF Abstract!Look
  <2> QED BY <2>5
<1>3. CASE Link
  <2>1. /\ pc = "link" /\ p1 # p2 /\ i' = i + 1 /\ mst_indices' = Append(mst_indices, i)
        /\ UNCHANGED edges
    BY <1>3 DEF Link
  <2>2. a = Tree(p1) /\ b = Tree(p2) /\ Cardinality(Trees) > 1 /\ i < Len(edges)
    BY <2>1, RootsOfEnds
  <2>3. a # b
    BY <2>1, <2>2, RootsOfEnds, TreesPartition
  <2>4. Trees' = (Trees \ {a, b}) \union {a \union b}
    BY <1>3, <2>2, TreesLinked
  <2>5. Abstract!Cardinality({{n \in Nodes : Root[n] = r} : r \in Roots}) > 1
    BY <2>2, SameCardinality
  <2>6. {{n \in Nodes : Root[n] = r} : r \in Roots}'
            = ({{n \in Nodes : Root[n] = r} : r \in Roots} \ {a, b}) \union {a \union b}
    BY <2>4 DEF Trees, Tree
  <2> HIDE DEF a, b
  <2>7. Abstract!Look
    BY <2>1, <2>2, <2>3, <2>5, <2>6 DEF Abstract!Look, a, b
  <2> QED BY <2>7
<1> QED BY <1>1, <1>2, <1>3 DEF Next

-----------------------------------------------------------------------------
(* Sums over sets. *)

\* Of sets of subsets of a finite set, one is smallest.
LEMMA SmallestSet ==
    ASSUME NEW E, IsFiniteSet(E), NEW D \in SUBSET SUBSET E, D # {}
    PROVE  \E s \in D : \A t \in D : Cardinality(s) <= Cardinality(t)
<1> DEFINE N == {Cardinality(s) : s \in D}
<1>1. N \in SUBSET Nat /\ N # {}
  BY FS_Subset, FS_CardinalityType
<1>2. PICK n \in N : \A m \in N : n <= m
  <2> HIDE DEF N
  <2> QED BY <1>1, LeastElement
<1>3. PICK s \in D : n = Cardinality(s)
  OBVIOUS
<1> QED BY <1>2, <1>3

\* An element less, and a smaller set.
LEMMA OneLess ==
    ASSUME NEW E, IsFiniteSet(E), NEW s \in SUBSET E, NEW x \in s
    PROVE  /\ s \ {x} \in SUBSET E
           /\ IsFiniteSet(s) /\ Cardinality(s) \in Nat
           /\ Cardinality(s \ {x}) = Cardinality(s) - 1
           /\ Cardinality(s \ {x}) \in Nat
<1>1. IsFiniteSet(s)
  BY FS_Subset
<1>2. Cardinality(s) \in Nat /\ IsFiniteSet(s \ {x})
  BY <1>1, FS_CardinalityType, FS_RemoveElement
<1>3. Cardinality(s \ {x}) \in Nat
  BY <1>2, FS_CardinalityType
<1>4. Cardinality(s \ {x}) = Cardinality(s) - 1
  BY <1>1, FS_RemoveElement
<1> QED BY <1>1, <1>2, <1>3, <1>4

One(s) == CHOOSE x \in s : TRUE

\* g adds up v over the subsets of E, one element after the other.
AddsUp(g, v, E) ==
    g = [s \in SUBSET E |-> IF s = {} THEN 0 ELSE v[One(s)] + g[s \ {One(s)}]]

LEMMA SumExists ==
    ASSUME NEW E, IsFiniteSet(E), NEW v \in [E -> Int]
    PROVE  \E g : AddsUp(g, v, E)
<1> DEFINE Upto(n) == {s \in SUBSET E : Cardinality(s) <= n}
           Value(g, s) == IF s = {} THEN 0 ELSE v[One(s)] + g[s \ {One(s)}]
           Has(n) == \E g : \A s \in Upto(n) : g[s] = Value(g, s)
           B == {n \in Nat : ~Has(n)}
<1>1. \A s \in SUBSET E : s # {} => One(s) \in s
  BY DEF One
<1>2. \A s \in SUBSET E : IsFiniteSet(s) /\ Cardinality(s) \in Nat
  BY FS_Subset, FS_CardinalityType
<1>3. Has(0)
  <2> DEFINE z == [s \in SUBSET E |-> 0]
  <2>1. \A s \in Upto(0) : s = {}
    BY <1>2, FS_EmptySet
  <2>2. \A s \in Upto(0) : z[s] = Value(z, s)
    BY <2>1
  <2> QED BY <2>2
<1>4. ASSUME NEW n \in Nat, Has(n) PROVE Has(n + 1)
  <2>1. PICK g : \A s \in Upto(n) : g[s] = Value(g, s)
    BY <1>4
  <2> DEFINE h == [s \in SUBSET E |-> Value(g, s)]
  <2>2. ASSUME NEW s \in Upto(n + 1) PROVE h[s] = Value(h, s)
    <3>1. CASE s = {}
      BY <3>1
    <3>2. CASE s # {}
      <4> DEFINE t == s \ {One(s)}
      <4>1. One(s) \in s
        BY <1>1, <3>2
      <4>2. t \in SUBSET E /\ Cardinality(t) = Cardinality(s) - 1
        BY <4>1, OneLess
      <4>3. t \in Upto(n)
        BY <1>2, <4>2
      <4>4. h[t] = g[t]
        BY <2>1, <4>2, <4>3
      <4>5. h[s] = v[One(s)] + g[t] /\ Value(h, s) = v[One(s)] + h[t]
        BY <3>2
      <4> QED BY <4>4, <4>5
    <3> QED BY <3>1, <3>2
  <2> HIDE DEF h
  <2> QED BY <2>2
<1> HIDE DEF Has
<1>5. B = {}
  <2>1. SUFFICES ASSUME B # {} PROVE FALSE
    OBVIOUS
  <2>2. PICK n \in B : \A m \in B : n <= m
    <3>1. B \in SUBSET Nat
      OBVIOUS
    <3> HIDE DEF B
    <3> QED BY <2>1, <3>1, LeastElement
  <2>3. n # 0 /\ n \in Nat
    BY <1>3
  <2>4. n - 1 \in Nat /\ n - 1 \notin B
    BY <2>2, <2>3
  <2>5. Has((n - 1) + 1)
    BY <1>4, <2>4
  <2>6. (n - 1) + 1 = n
    BY <2>3
  <2> QED BY <2>3, <2>5, <2>6
<1>6. Cardinality(E) \in Nat
  BY FS_CardinalityType
<1>7. Has(Cardinality(E))
  BY <1>5, <1>6
<1>8. PICK g : \A s \in Upto(Cardinality(E)) : g[s] = Value(g, s)
  BY <1>7 DEF Has
<1>9. \A s \in SUBSET E : g[s] = Value(g, s)
  BY <1>8, FS_Subset
<1> DEFINE f == [s \in SUBSET E |-> g[s]]
<1>10. ASSUME NEW s \in SUBSET E
       PROVE  f[s] = Value(f, s)
  <2>1. s \ {One(s)} \in SUBSET E
    OBVIOUS
  <2> QED BY <1>9, <2>1
<1>11. f = [s \in SUBSET E |-> Value(f, s)]
  BY <1>10
<1>12. AddsUp(f, v, E)
  BY <1>11 DEF AddsUp
<1> QED BY <1>12

LEMMA SumUnique ==
    ASSUME NEW E, IsFiniteSet(E), NEW T \in SUBSET E, NEW v, NEW f, NEW g,
           AddsUp(f, v, T), AddsUp(g, v, E)
    PROVE  \A s \in SUBSET T : f[s] = g[s]
<1> DEFINE D == {s \in SUBSET T : f[s] # g[s]}
<1>1. SUFFICES ASSUME D # {} PROVE FALSE
  OBVIOUS
<1>2. PICK s \in D : \A t \in D : Cardinality(s) <= Cardinality(t)
  <2>1. D \in SUBSET SUBSET E
    OBVIOUS
  <2> HIDE DEF D
  <2> QED BY <1>1, <2>1, SmallestSet
<1>3. /\ f[s] = IF s = {} THEN 0 ELSE v[One(s)] + f[s \ {One(s)}]
      /\ g[s] = IF s = {} THEN 0 ELSE v[One(s)] + g[s \ {One(s)}]
  BY DEF AddsUp
<1>4. s # {} /\ s \ {One(s)} \in D
  BY <1>3
<1>5. One(s) \in s
  BY <1>4 DEF One
<1>6. Cardinality(s \ {One(s)}) = Cardinality(s) - 1 /\ Cardinality(s) \in Nat
  BY <1>5, OneLess
<1>7. Cardinality(s) <= Cardinality(s \ {One(s)})
  BY <1>2, <1>4
<1> QED BY <1>6, <1>7

\* Any element may be taken out of a sum first.
TakesOut(g, v, E) ==
    \A s \in SUBSET E : g[s] \in Int /\ \A x \in s : g[s] = v[x] + g[s \ {x}]

\* A sum does not depend on the order in which it is added up.
LEMMA SumTakesOut ==
    ASSUME NEW E, IsFiniteSet(E), NEW v \in [E -> Int], NEW g, AddsUp(g, v, E)
    PROVE  TakesOut(g, v, E)
<1> DEFINE Good(s) == g[s] \in Int /\ \A x \in s : g[s] = v[x] + g[s \ {x}]
           D == {s \in SUBSET E : ~Good(s)}
<1>1. SUFFICES ASSUME D # {} PROVE FALSE
  BY DEF TakesOut
<1>2. PICK s \in D : \A t \in D : Cardinality(s) <= Cardinality(t)
  <2>1. D \in SUBSET SUBSET E
    OBVIOUS
  <2> HIDE DEF D
  <2> QED BY <1>1, <2>1, SmallestSet
<1>3. g[s] = IF s = {} THEN 0 ELSE v[One(s)] + g[s \ {One(s)}]
  BY DEF AddsUp
<1>4. s # {}
  BY <1>3
<1> DEFINE y == One(s)
<1>5. y \in s /\ y \in E
  BY <1>4 DEF One
<1> HIDE DEF y, Good
<1>6. ASSUME NEW x \in s PROVE Good(s \ {x})
  <2>1. Cardinality(s \ {x}) = Cardinality(s) - 1 /\ Cardinality(s) \in Nat
    BY OneLess
  <2>2. s \ {x} \notin D
    BY <1>2, <2>1
  <2> QED BY <2>2
<1>7. g[s] = v[y] + g[s \ {y}]
  BY <1>3, <1>4 DEF y
<1>8. g[s] \in Int
  <2>1. g[s \ {y}] \in Int
    BY <1>5, <1>6 DEF Good
  <2> QED BY <1>5, <1>7, <2>1
<1>9. ASSUME NEW x \in s PROVE g[s] = v[x] + g[s \ {x}]
  <2>1. CASE x = y
    BY <1>7, <2>1
  <2>2. CASE x # y
    <3>1. Good(s \ {y}) /\ Good(s \ {x})
      BY <1>5, <1>6
    <3>2. x \in s \ {y} /\ y \in s \ {x}
      BY <1>5, <2>2
    <3>3. g[s \ {y}] = v[x] + g[(s \ {y}) \ {x}]
      BY <3>1, <3>2 DEF Good
    <3>4. g[s \ {x}] = v[y] + g[(s \ {x}) \ {y}]
      BY <3>1, <3>2 DEF Good
    <3>5. (s \ {y}) \ {x} = (s \ {x}) \ {y}
      OBVIOUS
    <3>6. g[(s \ {x}) \ {y}] \in Int
      <4>1. Cardinality((s \ {x}) \ {y}) = Cardinality(s \ {x}) - 1
            /\ Cardinality(s \ {x}) \in Nat
        BY <3>2, OneLess
      <4>2. Cardinality(s \ {x}) = Cardinality(s) - 1 /\ Cardinality(s) \in Nat
        BY OneLess
      <4>3. (s \ {x}) \ {y} \notin D
        BY <1>2, <4>1, <4>2
      <4>4. (s \ {x}) \ {y} \in SUBSET E
        OBVIOUS
      <4> QED BY <4>3, <4>4 DEF Good
    <3>7. v[x] \in Int /\ v[y] \in Int
      BY <1>5
    <3> DEFINE w == g[(s \ {x}) \ {y}]
    <3>8. g[s \ {y}] = v[x] + w /\ g[s \ {x}] = v[y] + w /\ w \in Int
      BY <3>3, <3>4, <3>5, <3>6
    <3> HIDE DEF w
    <3> QED BY <1>7, <3>7, <3>8
  <2> QED BY <2>1, <2>2
<1> QED BY <1>8, <1>9 DEF Good
-----------------------------------------------------------------------------
(* Weights. *)

EdgeSets == SUBSET (1 .. Len(edges))

LEMMA EdgesFinite ==
    ASSUME edges \in Seq(Edge)
    PROVE  /\ Len(edges) \in Nat /\ IsFiniteSet(1 .. Len(edges))
           /\ \A k \in 1 .. Len(edges) : /\ edges[k].len \in Int
                                         /\ edges[k].end[1] \in Nodes
                                         /\ edges[k].end[2] \in Nodes
<1>1. Len(edges) \in Nat
  BY LenProperties
<1>2. IsFiniteSet(1 .. Len(edges))
  <2>1. Len(edges) \in Int /\ 1 \in Int
    BY <1>1
  <2> QED BY <2>1, FS_Interval
<1>3. \A k \in 1 .. Len(edges) : edges[k] \in Edge
  BY <1>1, ElementOfSeq
<1> QED BY <1>1, <1>2, <1>3 DEF Edge

LEMMA WeightAddsUp ==
    ASSUME edges \in Seq(Edge)
    PROVE  /\ \A ks \in EdgeSets : Weight(ks) \in Int
           /\ \A ks \in EdgeSets : \A x \in ks :
                  Weight(ks) = edges[x].len + Weight(ks \ {x})
<1> DEFINE E == 1 .. Len(edges)
           v == [k \in E |-> edges[k].len]
<1>1. IsFiniteSet(E) /\ v \in [E -> Int]
  BY EdgesFinite
<1>2. PICK g : AddsUp(g, v, E)
  <2> HIDE DEF E, v
  <2> QED BY <1>1, SumExists
<1>3. ASSUME NEW ks \in EdgeSets PROVE Weight(ks) = g[ks]
  <2> DEFINE Step(f) == [s \in SUBSET ks |->
                 IF s = {} THEN 0
                 ELSE edges[CHOOSE x \in s : TRUE].len + f[s \ {CHOOSE x \in s : TRUE}]]
             iter == CHOOSE f : f = Step(f)
  <2>1. Weight(ks) = iter[ks]
    BY DEF Weight, MapThenSumSet, MapThenFoldSet
  <2>2. ks \in SUBSET E
    BY DEF EdgeSets
  <2>3. ASSUME NEW f PROVE f = Step(f) <=> AddsUp(f, v, ks)
    <3>1. \A s \in SUBSET ks : s # {} => v[One(s)] = edges[CHOOSE x \in s : TRUE].len
      BY <2>2 DEF One
    <3>2. Step(f) = [s \in SUBSET ks |-> IF s = {} THEN 0 ELSE v[One(s)] + f[s \ {One(s)}]]
      <4> HIDE DEF v
      <4>1. \A s \in SUBSET ks :
                Step(f)[s] = IF s = {} THEN 0 ELSE v[One(s)] + f[s \ {One(s)}]
        BY <3>1 DEF One
      <4> QED BY <4>1
    <3> HIDE DEF v, Step
    <3> QED BY <3>2 DEF AddsUp
  <2> HIDE DEF Step
  <2>4. \E f : f = Step(f)
    <3> DEFINE h == [s \in SUBSET ks |-> g[s]]
    <3>1. ASSUME NEW s \in SUBSET ks
          PROVE  h[s] = IF s = {} THEN 0 ELSE v[One(s)] + h[s \ {One(s)}]
      <4>1. s \in SUBSET E /\ s \ {One(s)} \in SUBSET ks
        BY <2>2
      <4> HIDE DEF E, v
      <4>2. g[s] = IF s = {} THEN 0 ELSE v[One(s)] + g[s \ {One(s)}]
        BY <1>2, <4>1 DEF AddsUp
      <4> QED BY <4>1, <4>2
    <3>2. h = [s \in SUBSET ks |-> IF s = {} THEN 0 ELSE v[One(s)] + h[s \ {One(s)}]]
      <4> HIDE DEF v
      <4> QED BY <3>1
    <3>3. AddsUp(h, v, ks)
      <4> HIDE DEF v, h
      <4> QED BY <3>2 DEF AddsUp
    <3> QED BY <2>3, <3>3
  <2>5. iter = Step(iter)
    BY <2>4
  <2>6. AddsUp(iter, v, ks)
    BY <2>3, <2>5
  <2> HIDE DEF E, v, iter
  <2>7. iter[ks] = g[ks]
    BY <1>1, <1>2, <2>2, <2>6, SumUnique
  <2> QED BY <2>1, <2>7
<1> HIDE DEF v
<1>4. \A s \in SUBSET E : g[s] \in Int /\ \A x \in s : g[s] = v[x] + g[s \ {x}]
  <2> HIDE DEF E
  <2>1. TakesOut(g, v, E)
    BY <1>1, <1>2, SumTakesOut
  <2> QED BY <2>1 DEF TakesOut
<1>5. \A ks \in EdgeSets : Weight(ks) \in Int
  BY <1>3, <1>4 DEF EdgeSets
<1>6. ASSUME NEW ks \in EdgeSets, NEW x \in ks
      PROVE  Weight(ks) = edges[x].len + Weight(ks \ {x})
  <2>1. ks \ {x} \in EdgeSets /\ x \in E /\ ks \in SUBSET E
    BY DEF EdgeSets
  <2>2. Weight(ks) = g[ks] /\ Weight(ks \ {x}) = g[ks \ {x}]
    BY <1>3, <2>1
  <2>3. v[x] = edges[x].len
    BY <2>1 DEF v
  <2> QED BY <1>4, <2>1, <2>2, <2>3
<1> QED BY <1>5, <1>6

\* A longer edge is exchanged for a shorter one: as many edges, and no more weight.
LEMMA WeightExchange ==
    ASSUME edges \in Seq(Edge), NEW ks \in EdgeSets, NEW f \in ks,
           NEW e \in 1 .. Len(edges), e \notin ks, edges[e].len <= edges[f].len
    PROVE  /\ (ks \ {f}) \union {e} \in EdgeSets
           /\ Weight((ks \ {f}) \union {e}) <= Weight(ks)
           /\ Cardinality((ks \ {f}) \union {e}) = Cardinality(ks)
<1> DEFINE ms == (ks \ {f}) \union {e}
<1>1. ms \in EdgeSets /\ e \in ms /\ ms \ {e} = ks \ {f} /\ ks \ {f} \in EdgeSets
  BY DEF EdgeSets
<1>2. f \in 1 .. Len(edges)
  BY DEF EdgeSets
<1>3. /\ Weight(ms) = edges[e].len + Weight(ks \ {f})
      /\ Weight(ks) = edges[f].len + Weight(ks \ {f})
      /\ Weight(ks \ {f}) \in Int
  <2> HIDE DEF ms
  <2>1. Weight(ms) = edges[e].len + Weight(ms \ {e})
    BY <1>1, WeightAddsUp
  <2>2. Weight(ks) = edges[f].len + Weight(ks \ {f}) /\ Weight(ks \ {f}) \in Int
    BY <1>1, WeightAddsUp
  <2> QED BY <1>1, <2>1, <2>2
<1>4. edges[e].len \in Int /\ edges[f].len \in Int
  BY <1>2, EdgesFinite
<1>5. Cardinality(ms) = Cardinality(ks)
  <2> DEFINE E == 1 .. Len(edges)
  <2>1. IsFiniteSet(E) /\ ks \in SUBSET E /\ ms \in SUBSET E
    BY <1>1, EdgesFinite DEF EdgeSets
  <2> HIDE DEF E, ms
  <2>2. Cardinality(ks \ {f}) = Cardinality(ks) - 1 /\ Cardinality(ks) \in Nat
    BY <2>1, OneLess
  <2>3. Cardinality(ms \ {e}) = Cardinality(ms) - 1 /\ Cardinality(ms) \in Nat
    BY <1>1, <2>1, OneLess
  <2>4. Cardinality(ms \ {e}) = Cardinality(ks \ {f})
    BY <1>1
  <2> QED BY <2>2, <2>3, <2>4
<1> HIDE DEF ms
<1>6. Weight(ms) <= Weight(ks)
  <2>1. Weight(ks \ {f}) \in Int
    BY <1>3
  <2> QED BY <1>3, <1>4, <2>1
<1> QED BY <1>1, <1>5, <1>6 DEF ms
-----------------------------------------------------------------------------
(* Connections. *)

End1(k) == edges[k].end[1]
End2(k) == edges[k].end[2]

\* No edge of ks leads out of c.
Closed(c, ks) == \A k \in ks : End1(k) \in c <=> End2(k) \in c

\* Nothing that ks does not cut apart parts u from v.
Same(u, v, ks) == \A c \in SUBSET Nodes : Closed(c, ks) => (u \in c <=> v \in c)

Spanning(ks) == \A c \in SUBSET Nodes : Closed(c, ks) => c = {} \/ c = Nodes

Hull(s, ks) == {m \in Nodes : \A c \in SUBSET Nodes : Closed(c, ks) /\ s \subseteq c => m \in c}

\* One round of Reach.
Round(s, ks) == s \union UNION {e \in Ends(ks) : e \intersect s # {}}

LEMMA RoundProperties ==
    ASSUME edges \in Seq(Edge), NEW ks \in EdgeSets, NEW s \in SUBSET Nodes
    PROVE  /\ Round(s, ks) \in SUBSET Nodes /\ s \subseteq Round(s, ks)
           /\ Round(s, ks) = s => Closed(s, ks)
           /\ \A c \in SUBSET Nodes : Closed(c, ks) /\ s \subseteq c => Round(s, ks) \subseteq c
<1>1. \A k \in ks : End1(k) \in Nodes /\ End2(k) \in Nodes
  BY EdgesFinite DEF EdgeSets, End1, End2
<1>2. \A k \in ks : {End1(k), End2(k)} \in Ends(ks)
  BY DEF Ends, End1, End2
<1>3. \A e \in Ends(ks) : \E k \in ks : e = {End1(k), End2(k)}
  BY DEF Ends, End1, End2
<1>4. \A m \in Round(s, ks) : m \in s \/ \E e \in Ends(ks) : e \intersect s # {} /\ m \in e
  BY DEF Round
<1>5. ASSUME NEW m \in Round(s, ks), m \notin s
      PROVE  \E k \in ks : /\ m = End1(k) \/ m = End2(k)
                           /\ End1(k) \in s \/ End2(k) \in s
  <2>1. PICK e \in Ends(ks) : e \intersect s # {} /\ m \in e
    BY <1>4, <1>5
  <2>2. PICK k \in ks : e = {End1(k), End2(k)}
    BY <1>3
  <2> QED BY <2>1, <2>2
<1>6. Round(s, ks) \in SUBSET Nodes /\ s \subseteq Round(s, ks)
  <2>1. s \subseteq Round(s, ks)
    BY DEF Round
  <2> QED BY <1>1, <1>5, <2>1
<1>7. ASSUME Round(s, ks) = s PROVE Closed(s, ks)
  <2>1. ASSUME NEW k \in ks, End1(k) \in s \/ End2(k) \in s
        PROVE  End1(k) \in s /\ End2(k) \in s
    <3> DEFINE e == {End1(k), End2(k)}
    <3>1. e \in Ends(ks) /\ e \intersect s # {}
      BY <1>2, <2>1
    <3>2. e \subseteq Round(s, ks)
      <4> HIDE DEF e
      <4> QED BY <3>1 DEF Round
    <3> QED BY <1>7, <3>2
  <2> QED BY <2>1 DEF Closed
<1>8. ASSUME NEW c \in SUBSET Nodes, Closed(c, ks), s \subseteq c
      PROVE  Round(s, ks) \subseteq c
  BY <1>5, <1>8 DEF Closed
<1> QED BY <1>6, <1>7, <1>8

LEMMA HullGrows ==
    ASSUME edges \in Seq(Edge), NEW ks \in EdgeSets, NEW s \in SUBSET Nodes
    PROVE  Hull(s, ks) = IF Round(s, ks) = s THEN s ELSE Hull(Round(s, ks), ks)
<1>1. /\ Round(s, ks) \in SUBSET Nodes /\ s \subseteq Round(s, ks)
      /\ Round(s, ks) = s => Closed(s, ks)
      /\ \A c \in SUBSET Nodes : Closed(c, ks) /\ s \subseteq c => Round(s, ks) \subseteq c
  BY RoundProperties
<1>2. CASE Round(s, ks) = s
  <2>1. Closed(s, ks)
    BY <1>1, <1>2
  <2>2. Hull(s, ks) = s
    BY <2>1 DEF Hull
  <2> QED BY <1>2, <2>2
<1>3. CASE Round(s, ks) # s
  <2>1. \A c \in SUBSET Nodes : Closed(c, ks) => (s \subseteq c <=> Round(s, ks) \subseteq c)
    BY <1>1
  <2>2. Hull(s, ks) = Hull(Round(s, ks), ks)
    BY <2>1 DEF Hull
  <2> QED BY <1>3, <2>2
<1> QED BY <1>2, <1>3

\* Reach computes the smallest set that no edge leads out of.
LEMMA ReachIsHull ==
    ASSUME edges \in Seq(Edge), NEW ks \in EdgeSets, NEW n \in Nodes
    PROVE  Reach(n, ks) = Hull({n}, ks)
<1> DEFINE Step(g) == [s \in SUBSET Nodes |-> IF Round(s, ks) = s THEN s ELSE g[Round(s, ks)]]
           Grow == CHOOSE g : g = Step(g)
           H == [s \in SUBSET Nodes |-> Hull(s, ks)]
<1>1. Reach(n, ks) = Grow[{n}]
  BY DEF Reach, Round
<1>2. \A s \in SUBSET Nodes : Round(s, ks) \in SUBSET Nodes /\ s \subseteq Round(s, ks)
  BY RoundProperties
<1>3. \A s \in SUBSET Nodes :
          H[s] = IF Round(s, ks) = s THEN s ELSE H[Round(s, ks)]
  BY <1>2, HullGrows
<1>4. H = Step(H)
  <2> HIDE DEF H
  <2>1. H = [s \in SUBSET Nodes |-> H[s]]
    BY DEF H
  <2> QED BY <1>3, <2>1
<1>5. Grow = Step(Grow)
  <2> HIDE DEF Step, H
  <2> QED BY <1>4
<1> HIDE DEF Grow
<1>6. \A s \in SUBSET Nodes :
          Grow[s] = IF Round(s, ks) = s THEN s ELSE Grow[Round(s, ks)]
  BY <1>5
<1> DEFINE D == {s \in SUBSET Nodes : Grow[s] # Hull(s, ks)}
<1>7. D = {}
  <2>1. SUFFICES ASSUME D # {} PROVE FALSE
    OBVIOUS
  <2> DEFINE Rest == {Nodes \ s : s \in D}
  <2>2. PICK t \in Rest : \A r \in Rest : Cardinality(t) <= Cardinality(r)
    <3>1. Rest \in SUBSET SUBSET Nodes /\ Rest # {}
      BY <2>1
    <3> HIDE DEF Rest
    <3> QED BY <3>1, NodesFinite, SmallestSet
  <2>3. PICK s \in D : t = Nodes \ s
    OBVIOUS
  <2> DEFINE q == Round(s, ks)
  <2>4. q # s /\ q \in D
    BY <1>2, <1>6, HullGrows
  <2>5. s \in SUBSET Nodes /\ q \in SUBSET Nodes /\ s \subseteq q
    BY <1>2
  <2>6. Cardinality(t) <= Cardinality(Nodes \ q)
    BY <2>2, <2>4
  <2> HIDE DEF q, D
  <2>7. Nodes \ q \in SUBSET t /\ Nodes \ q # t
    BY <2>3, <2>4, <2>5
  <2>8. t \in SUBSET Nodes
    BY <2>3
  <2>9. IsFiniteSet(t) /\ Cardinality(t) \in Nat /\ Cardinality(Nodes \ q) \in Nat
    BY <2>8, NodesFinite
  <2> DEFINE r == Nodes \ q
  <2>10. r \in SUBSET t /\ r # t /\ Cardinality(t) <= Cardinality(r) /\ Cardinality(r) \in Nat
    BY <2>6, <2>7, <2>9
  <2> HIDE DEF r
  <2>11. Cardinality(r) <= Cardinality(t) /\ (Cardinality(t) = Cardinality(r) => t = r)
    BY <2>9, <2>10, FS_Subset
  <2> QED BY <2>9, <2>10, <2>11
<1> QED BY <1>1, <1>7

LEMMA ConnectedIsSpanning ==
    ASSUME edges \in Seq(Edge), NEW ks \in EdgeSets
    PROVE  Connected(ks) <=> Spanning(ks)
<1>1. \A n \in Nodes : Reach(n, ks) = Hull({n}, ks)
  BY ReachIsHull
<1>2. ASSUME Connected(ks) PROVE Spanning(ks)
  BY <1>1, <1>2 DEF Connected, Spanning, Hull
<1>3. ASSUME Spanning(ks) PROVE Connected(ks)
  <2>1. ASSUME NEW n \in Nodes PROVE Hull({n}, ks) = Nodes
    <3>1. ASSUME NEW c \in SUBSET Nodes, Closed(c, ks), {n} \subseteq c PROVE c = Nodes
      BY <1>3, <3>1 DEF Spanning
    <3> QED BY <3>1 DEF Hull
  <2> QED BY <1>1, <2>1 DEF Connected
<1> QED BY <1>2, <1>3

-----------------------------------------------------------------------------
(* The exchange. *)

LEMMA SameProperties ==
    ASSUME NEW ks, NEW u \in Nodes, NEW v \in Nodes, NEW w \in Nodes
    PROVE  /\ Same(u, u, ks)
           /\ Same(u, v, ks) => Same(v, u, ks)
           /\ Same(u, v, ks) /\ Same(v, w, ks) => Same(u, w, ks)
           /\ \A ms : ks \subseteq ms /\ Same(u, v, ks) => Same(u, v, ms)
           /\ \A k \in ks : Same(End1(k), End2(k), ks)
           /\ Spanning(ks) => Same(u, v, ks)
<1>1. /\ Same(u, u, ks)
      /\ Same(u, v, ks) => Same(v, u, ks)
      /\ Same(u, v, ks) /\ Same(v, w, ks) => Same(u, w, ks)
      /\ \A k \in ks : Same(End1(k), End2(k), ks)
  BY DEF Same, Closed
<1>2. ASSUME NEW ms, ks \subseteq ms, Same(u, v, ks) PROVE Same(u, v, ms)
  BY <1>2 DEF Same, Closed
<1>3. Spanning(ks) => Same(u, v, ks)
  BY DEF Same, Spanning
<1> QED BY <1>1, <1>2, <1>3

\* What u is not parted from is closed.
LEMMA ComponentClosed ==
    ASSUME edges \in Seq(Edge), NEW ks \in EdgeSets, NEW u \in Nodes
    PROVE  Closed({m \in Nodes : Same(u, m, ks)}, ks)
<1>1. \A k \in ks : End1(k) \in Nodes /\ End2(k) \in Nodes
  BY EdgesFinite DEF EdgeSets, End1, End2
<1>2. ASSUME NEW k \in ks PROVE Same(u, End1(k), ks) <=> Same(u, End2(k), ks)
  <2>1. Same(End1(k), End2(k), ks)
    BY DEF Same, Closed
  <2> QED BY <2>1 DEF Same
<1> QED BY <1>1, <1>2 DEF Closed

\* An edge whose ends taken does not join may replace an edge of a connected set whose
\* ends taken does not join either.
LEMMA EdgeReplaced ==
    ASSUME edges \in Seq(Edge), NEW ks \in EdgeSets, Spanning(ks),
           NEW ts \in SUBSET ks, NEW e \in 1 .. Len(edges),
           ~Same(End1(e), End2(e), ts)
    PROVE  \E f \in ks : /\ f \notin ts
                         /\ ~Same(End1(f), End2(f), ts)
                         /\ Spanning((ks \ {f}) \union {e})
<1> DEFINE u == End1(e)
           v == End2(e)
           D == {ms \in SUBSET ks : ts \subseteq ms /\ Same(u, v, ms)}
           E == 1 .. Len(edges)
<1>1. IsFiniteSet(E) /\ ks \in SUBSET E
  BY EdgesFinite DEF EdgeSets
<1>2. \A k \in E : End1(k) \in Nodes /\ End2(k) \in Nodes
  BY EdgesFinite DEF End1, End2
<1>3. u \in Nodes /\ v \in Nodes
  BY <1>2
<1> HIDE DEF E, u, v
<1>4. ks \in D
  BY <1>3 DEF Same, Spanning
<1>5. PICK ms \in D : \A ns \in D : Cardinality(ms) <= Cardinality(ns)
  <2>1. D \in SUBSET SUBSET E /\ D # {}
    BY <1>1, <1>4
  <2> HIDE DEF D
  <2> QED BY <1>1, <2>1, SmallestSet
<1>6. ms \subseteq ks /\ ts \subseteq ms /\ Same(u, v, ms) /\ ms \in SUBSET E
  BY <1>1
<1>7. PICK f \in ms : f \notin ts
  <2>1. ms # ts
    BY <1>6 DEF u, v
  <2> QED BY <1>6, <2>1
<1> DEFINE ns == ms \ {f}
           x == End1(f)
           y == End2(f)
<1>8. ~Same(u, v, ns)
  <2>1. Cardinality(ns) = Cardinality(ms) - 1 /\ Cardinality(ms) \in Nat
    BY <1>1, <1>6, <1>7, OneLess
  <2>2. ns \notin D
    BY <1>5, <2>1
  <2> QED BY <1>6, <1>7, <2>2
<1>9. f \in ks /\ f \in E /\ x \in Nodes /\ y \in Nodes
  BY <1>2, <1>6, <1>7
<1> HIDE DEF D
<1>10. \A c \in SUBSET Nodes : Closed(c, ns) /\ (x \in c <=> y \in c) => Closed(c, ms)
  BY DEF Closed
<1>11. ~Same(x, y, ts)
  <2>1. SUFFICES ASSUME Same(x, y, ts) PROVE FALSE
    OBVIOUS
  <2>2. \A c \in SUBSET Nodes : Closed(c, ns) => Closed(c, ts)
    BY <1>6, <1>7 DEF Closed
  <2>3. \A c \in SUBSET Nodes : Closed(c, ns) => (x \in c <=> y \in c)
    BY <2>1, <2>2 DEF Same
  <2>4. Same(u, v, ns)
    BY <1>6, <1>10, <2>3 DEF Same
  <2> QED BY <1>8, <2>4
<1> DEFINE A == {m \in Nodes : Same(u, m, ns)}
           B == {m \in Nodes : Same(v, m, ns)}
<1>12. ns \in EdgeSets
  BY <1>6 DEF E, EdgeSets
<1>13. Closed(A, ns) /\ Closed(B, ns)
  <2> HIDE DEF ns
  <2> QED BY <1>3, <1>12, ComponentClosed
<1>14. /\ u \in A /\ v \notin A /\ v \in B /\ u \notin B
       /\ \A m \in Nodes : ~ (m \in A /\ m \in B)
  BY <1>3, <1>8 DEF Same
<1>15. /\ ~ (x \in A <=> y \in A)
       /\ ~ (x \in B <=> y \in B)
  <2>1. A \in SUBSET Nodes /\ B \in SUBSET Nodes
    OBVIOUS
  <2> HIDE DEF A, B, ns
  <2>2. ~Closed(A, ms) /\ ~Closed(B, ms)
    BY <1>6, <1>14, <2>1 DEF Same
  <2> QED BY <1>10, <1>13, <2>1, <2>2
<1>16. (Same(u, x, ns) /\ Same(v, y, ns)) \/ (Same(u, y, ns) /\ Same(v, x, ns))
  <2>1. (x \in A /\ y \in B) \/ (y \in A /\ x \in B)
    <3> HIDE DEF A, B
    <3> QED BY <1>9, <1>14, <1>15
  <2> QED BY <2>1
<1>17. ASSUME NEW c \in SUBSET Nodes, Closed(c, (ks \ {f}) \union {e})
       PROVE  c = {} \/ c = Nodes
  <2>1. Closed(c, ns) /\ Closed(c, ks \ {f}) /\ (u \in c <=> v \in c)
    BY <1>6, <1>17 DEF Closed, u, v
  <2>2. x \in c <=> y \in c
    BY <1>16, <2>1 DEF Same
  <2>3. Closed(c, ks)
    BY <2>1, <2>2 DEF Closed
  <2> QED BY <2>3 DEF Spanning
<1>18. Spanning((ks \ {f}) \union {e})
  BY <1>17 DEF Spanning
<1> QED BY <1>7, <1>9, <1>11, <1>18

-----------------------------------------------------------------------------
(* The edges taken are part of a best tree. *)

Joined(ts) == \A n \in Nodes : Same(n, Root[n], ts)

\* Every connected set of edges weighs as much as some that contains ts and has as many
\* edges, or more.
Promising(ts) ==
    \A ks \in EdgeSets :
        Spanning(ks) => \E ms \in EdgeSets : /\ Spanning(ms)
                                             /\ ts \subseteq ms
                                             /\ Weight(ms) <= Weight(ks)
                                             /\ Cardinality(ms) = Cardinality(ks)

MinInv ==
    /\ Sorted(edges)
    /\ Taken \subseteq 1 .. i
    /\ Cardinality(Taken) = Len(mst_indices)
    /\ \A k \in 1 .. i : Root[End1(k)] = Root[End2(k)]
    /\ Joined(Taken)
    /\ Promising(Taken)

LEMMA SortedLengths ==
    ASSUME edges \in Seq(Edge), Sorted(edges),
           NEW a \in 1 .. Len(edges), NEW b \in 1 .. Len(edges), a <= b
    PROVE  edges[a].len <= edges[b].len
<1> DEFINE D == {c \in 1 .. Len(edges) : a <= c /\ ~(edges[a].len <= edges[c].len)}
<1>1. SUFFICES ASSUME D # {} PROVE FALSE
  OBVIOUS
<1>2. Len(edges) \in Nat /\ \A k \in 1 .. Len(edges) : edges[k].len \in Int
  BY EdgesFinite
<1>3. PICK c \in D : \A d \in D : c <= d
  <2>1. D \in SUBSET Nat
    BY <1>2
  <2> HIDE DEF D
  <2> QED BY <1>1, <2>1, LeastElement
<1>4. c \in 1 .. Len(edges) /\ a <= c /\ ~(edges[a].len <= edges[c].len) /\ c # a
  BY <1>2
<1>5. c - 1 \in 1 .. Len(edges) - 1 /\ c - 1 \in 1 .. Len(edges) /\ a <= c - 1 /\ (c - 1) + 1 = c
  BY <1>2, <1>4
<1>6. c - 1 \notin D
  BY <1>2, <1>3, <1>4
<1>7. edges[a].len <= edges[c - 1].len
  BY <1>5, <1>6
<1>8. edges[c - 1].len <= edges[(c - 1) + 1].len
  BY <1>5 DEF Sorted
<1>9. edges[a].len \in Int /\ edges[c - 1].len \in Int /\ edges[c].len \in Int
  BY <1>2, <1>4, <1>5
<1> QED BY <1>4, <1>5, <1>7, <1>8, <1>9

\* What depends on the edges alone stays when they do.
LEMMA EdgesKept ==
    ASSUME edges' = edges
    PROVE  /\ EdgeSets' = EdgeSets
           /\ \A ks : Spanning(ks)' = Spanning(ks)
           /\ \A ks : Weight(ks)' = Weight(ks)
           /\ \A u, v, ks : Same(u, v, ks)' = Same(u, v, ks)
           /\ \A k : End1(k)' = End1(k) /\ End2(k)' = End2(k)
<1>1. EdgeSets' = EdgeSets /\ \A k : End1(k)' = End1(k) /\ End2(k)' = End2(k)
  BY DEF EdgeSets, End1, End2
<1>2. ASSUME NEW ks PROVE Spanning(ks)' = Spanning(ks)
  BY DEF Spanning, Closed, End1, End2
<1>3. ASSUME NEW ks PROVE Weight(ks)' = Weight(ks)
  BY DEF Weight, MapThenSumSet, MapThenFoldSet
<1>4. ASSUME NEW u, NEW v, NEW ks PROVE Same(u, v, ks)' = Same(u, v, ks)
  BY DEF Same, Closed, End1, End2
<1> QED BY <1>1, <1>2, <1>3, <1>4

LEMMA PromiseKept ==
    ASSUME edges' = edges, Promising(Taken')
    PROVE  Promising(Taken)'
BY EdgesKept DEF Promising

LEMMA JoinedNext ==
    ASSUME edges' = edges, \A n \in Nodes : Same(n, Root'[n], Taken')
    PROVE  Joined(Taken)'
BY EdgesKept DEF Joined

LEMMA MinInvStarted == Init => MinInv
<1> SUFFICES ASSUME Init PROVE MinInv
  OBVIOUS
<1>1. Sorted(edges) /\ i = 0 /\ mst_indices = << >> /\ parent = [n \in Nodes |-> n]
      /\ edges \in Seq(Edge)
  BY GraphsAssumption DEF Init
<1>2. Taken = {}
  BY <1>1 DEF Taken
<1>3. \A n \in Nodes : Root[n] = n
  BY <1>1, RootInvStarted DEF RootInv, Follows
<1>4. Joined(Taken)
  BY <1>3 DEF Joined, Same
<1>5. Promising(Taken)
  <2>1. \A ks \in EdgeSets : Weight(ks) <= Weight(ks)
    BY <1>1, WeightAddsUp
  <2> QED BY <1>2, <2>1 DEF Promising
<1>6. Cardinality(Taken) = Len(mst_indices)
  BY <1>1, <1>2, FS_EmptySet
<1> QED BY <1>1, <1>2, <1>4, <1>5, <1>6 DEF MinInv

\* The edge at hand, when the roots of its ends have been found.
LEMMA EdgeAtLink ==
    ASSUME IInv, RootInv, MinInv, pc = "link"
    PROVE  /\ edges \in Seq(Edge) /\ Len(edges) \in Nat /\ i \in Nat
           /\ i + 1 \in 1 .. Len(edges)
           /\ End1(i + 1) \in Nodes /\ End2(i + 1) \in Nodes
           /\ Root[End1(i + 1)] = p1 /\ Root[End2(i + 1)] = p2
           /\ p1 \in Nodes /\ p2 \in Nodes
<1>1. /\ edges \in Seq(Edge) /\ i \in 0 .. Len(edges) /\ i < Len(edges)
      /\ p1 \in Nodes /\ p2 \in Nodes /\ parent[p1] = p1 /\ parent[p2] = p2
  BY DEF IInv, TypeOK, EdgeAtHand, RootsFound
<1>2. Len(edges) \in Nat /\ i \in Nat /\ i + 1 \in 1 .. Len(edges)
  BY <1>1, EdgesFinite
<1>3. Root[p1] = p1 /\ Root[p2] = p2
  BY <1>1 DEF RootInv, Follows
<1>4. Root[End1(i + 1)] = p1 /\ Root[End2(i + 1)] = p2
  BY <1>3 DEF RootInv, End1, End2
<1>5. End1(i + 1) \in Nodes /\ End2(i + 1) \in Nodes
  BY <1>1, <1>2, EdgesFinite DEF End1, End2
<1> QED BY <1>1, <1>2, <1>4, <1>5

\* The edges taken join no two trees.
LEMMA TreesApart ==
    ASSUME IInv, RootInv, MinInv, pc = "link", p1 # p2
    PROVE  ~Same(End1(i + 1), End2(i + 1), Taken)
<1> DEFINE c == {n \in Nodes : Root[n] = p1}
<1>1. Taken \subseteq 1 .. i /\ \A k \in 1 .. i : Root[End1(k)] = Root[End2(k)]
  BY DEF MinInv
<1>2. /\ edges \in Seq(Edge) /\ i \in Nat /\ i + 1 \in 1 .. Len(edges) /\ Len(edges) \in Nat
      /\ End1(i + 1) \in c /\ End2(i + 1) \notin c
  BY EdgeAtLink
<1>3. \A k \in 1 .. i : End1(k) \in Nodes /\ End2(k) \in Nodes
  BY <1>2, EdgesFinite DEF End1, End2
<1>4. Closed(c, Taken)
  BY <1>1, <1>3 DEF Closed
<1> HIDE DEF c
<1>5. c \in SUBSET Nodes
  BY DEF c
<1> QED BY <1>2, <1>4, <1>5 DEF Same

\* The next edge that joins two trees keeps the promise: of a connected set without it, one
\* edge that has not been looked at, and so is not shorter, makes room for it.
LEMMA PromiseExtended ==
    ASSUME IInv, RootInv, MinInv, pc = "link", p1 # p2
    PROVE  Promising(Taken \union {i + 1})
<1> DEFINE e == i + 1
<1>1. /\ edges \in Seq(Edge) /\ Len(edges) \in Nat /\ i \in Nat /\ e \in 1 .. Len(edges)
  BY EdgeAtLink
<1>2. /\ Sorted(edges) /\ Taken \subseteq 1 .. i /\ Promising(Taken) /\ Joined(Taken)
      /\ \A k \in 1 .. i : Root[End1(k)] = Root[End2(k)]
  BY DEF MinInv
<1>3. ~Same(End1(e), End2(e), Taken)
  BY TreesApart
<1>4. \A k \in 1 .. i : Same(End1(k), End2(k), Taken)
  <2>1. \A k \in 1 .. i : End1(k) \in Nodes /\ End2(k) \in Nodes
    BY <1>1, EdgesFinite DEF End1, End2
  <2> QED BY <1>2, <2>1 DEF Joined, Same
<1> HIDE DEF e
<1>5. ASSUME NEW ks \in EdgeSets, Spanning(ks)
      PROVE  \E ns \in EdgeSets : /\ Spanning(ns) /\ Taken \union {e} \subseteq ns
                                  /\ Weight(ns) <= Weight(ks)
                                  /\ Cardinality(ns) = Cardinality(ks)
  <2>1. PICK ms \in EdgeSets : /\ Spanning(ms) /\ Taken \subseteq ms
                               /\ Weight(ms) <= Weight(ks)
                               /\ Cardinality(ms) = Cardinality(ks)
    BY <1>2, <1>5 DEF Promising
  <2>2. CASE e \in ms
    BY <2>1, <2>2
  <2>3. CASE e \notin ms
    <3>1. PICK f \in ms : /\ f \notin Taken /\ ~Same(End1(f), End2(f), Taken)
                          /\ Spanning((ms \ {f}) \union {e})
      <4>1. Taken \in SUBSET ms
        BY <2>1
      <4> QED BY <1>1, <1>3, <2>1, <4>1, EdgeReplaced
    <3>2. f \in 1 .. Len(edges)
      BY DEF EdgeSets
    <3>3. f \notin 1 .. i /\ f # e
      BY <1>4, <2>3, <3>1
    <3>4. e <= f
      BY <1>1, <3>2, <3>3 DEF e
    <3>5. edges[e].len <= edges[f].len
      BY <1>1, <1>2, <3>2, <3>4, SortedLengths
    <3> DEFINE ns == (ms \ {f}) \union {e}
    <3>6. ns \in EdgeSets /\ Weight(ns) <= Weight(ms) /\ Cardinality(ns) = Cardinality(ms)
      BY <1>1, <2>3, <3>5, WeightExchange
    <3>7. Taken \union {e} \subseteq ns /\ Spanning(ns)
      BY <2>1, <3>1
    <3> HIDE DEF ns
    <3>8. Weight(ns) \in Int /\ Weight(ms) \in Int /\ Weight(ks) \in Int
      BY <1>1, <3>6, WeightAddsUp
    <3>9. Weight(ns) <= Weight(ks)
      BY <2>1, <3>6, <3>8
    <3> QED BY <2>1, <3>6, <3>7, <3>9
  <2> QED BY <2>2, <2>3
<1>6. Promising(Taken \union {e})
  BY <1>5 DEF Promising
<1> QED BY <1>6 DEF e

LEMMA MinInvLink ==
    ASSUME IInv, RootInv, MinInv, Link
    PROVE  MinInv'
<1>1. /\ pc = "link" /\ p1 # p2 /\ edges' = edges /\ i' = i + 1
      /\ mst_indices' = Append(mst_indices, i)
  BY DEF Link
<1>2. /\ edges \in Seq(Edge) /\ Len(edges) \in Nat /\ i \in Nat /\ i + 1 \in 1 .. Len(edges)
      /\ End1(i + 1) \in Nodes /\ End2(i + 1) \in Nodes
      /\ Root[End1(i + 1)] = p1 /\ Root[End2(i + 1)] = p2
      /\ p1 \in Nodes /\ p2 \in Nodes
  BY <1>1, EdgeAtLink
<1>3. Taken' = Taken \union {i + 1}
  <2>1. mst_indices \in Seq(Nat) /\ Len(mst_indices) \in Nat
    BY LenProperties DEF IInv, TypeOK
  <2>2. /\ Len(mst_indices') = Len(mst_indices) + 1
        /\ \A k \in 1 .. Len(mst_indices) : mst_indices'[k] = mst_indices[k]
        /\ mst_indices'[Len(mst_indices) + 1] = i
    BY <1>1, <1>2, <2>1, AppendProperties
  <2> DEFINE L == Len(mst_indices)
  <2>3. 1 .. Len(mst_indices') = (1 .. L) \union {L + 1}
    BY <2>1, <2>2
  <2>4. Taken' = {mst_indices'[k] + 1 : k \in (1 .. L) \union {L + 1}}
    BY <2>3 DEF Taken
  <2>5. Taken = {mst_indices[k] + 1 : k \in 1 .. L}
    BY DEF Taken
  <2> HIDE DEF L
  <2>6. (\A k \in 1 .. L : mst_indices'[k] = mst_indices[k]) /\ mst_indices'[L + 1] = i
    BY <2>2 DEF L
  <2>7. {mst_indices'[k] + 1 : k \in (1 .. L) \union {L + 1}}
            = {mst_indices[k] + 1 : k \in 1 .. L} \union {i + 1}
    BY <2>6
  <2> QED BY <2>4, <2>5, <2>7
<1>4. Taken' \subseteq 1 .. i'
  <2>1. Taken \subseteq 1 .. i
    BY DEF MinInv
  <2> QED BY <1>1, <1>2, <1>3, <2>1
<1>5. /\ Lower \in Nodes /\ Upper \in Nodes
      /\ \A n \in Nodes : Root'[n] = IF Root[n] = Lower THEN Upper ELSE Root[n]
  BY Linked, RootsLinked DEF Roots
<1>6. (p1 = Lower /\ p2 = Upper) \/ (p1 = Upper /\ p2 = Lower)
  BY DEF Lower, Upper
<1> HIDE DEF Lower, Upper
<1>7. \A k \in 1 .. i' : Root'[End1(k)'] = Root'[End2(k)']
  <2>1. \A k \in 1 .. i : End1(k) \in Nodes /\ End2(k) \in Nodes
    BY <1>2, EdgesFinite DEF End1, End2
  <2>2. \A k \in 1 .. i : Root'[End1(k)] = Root'[End2(k)]
    BY <1>5, <2>1 DEF MinInv
  <2>3. Root'[End1(i + 1)] = Root'[End2(i + 1)]
    BY <1>2, <1>5, <1>6
  <2>4. \A k \in 1 .. i' : k \in 1 .. i \/ k = i + 1
    BY <1>1, <1>2
  <2> QED BY <1>1, <2>2, <2>3, <2>4, EdgesKept
<1>8. Joined(Taken)'
  <2>1. ASSUME NEW n \in Nodes PROVE Same(n, Root'[n], Taken \union {i + 1})
    <3> DEFINE ts == Taken \union {i + 1}
               u == End1(i + 1)
               v == End2(i + 1)
    <3>1. Joined(Taken)
      BY DEF MinInv
    <3>2. \A m \in Nodes : Same(m, Root[m], ts)
      BY <3>1 DEF Joined, Same, Closed
    <3>3. Same(u, v, ts)
      BY DEF Same, Closed
    <3> HIDE DEF ts, u, v
    <3>4. Same(u, p1, ts) /\ Same(v, p2, ts)
      BY <1>2, <3>2 DEF u, v
    <3>5. Same(Lower, Upper, ts)
      BY <1>6, <3>3, <3>4 DEF Same
    <3>6. Same(n, Root'[n], ts)
      <4>1. CASE Root[n] = Lower
        <5>1. Same(n, Lower, ts) /\ Root'[n] = Upper
          BY <1>5, <3>2, <4>1
        <5> QED BY <3>5, <5>1 DEF Same
      <4>2. CASE Root[n] # Lower
        BY <1>5, <3>2, <4>2
      <4> QED BY <4>1, <4>2
    <3> QED BY <3>6 DEF ts
  <2> QED BY <1>1, <1>3, <2>1, JoinedNext
<1>9. Promising(Taken)'
  <2>1. Promising(Taken')
    BY <1>1, <1>3, PromiseExtended
  <2> QED BY <1>1, <2>1, PromiseKept
<1>10. Sorted(edges)'
  BY <1>1 DEF MinInv, Sorted
<1>11. Cardinality(Taken') = Len(mst_indices')
  <2>1. Taken \subseteq 1 .. i /\ Cardinality(Taken) = Len(mst_indices)
    BY DEF MinInv
  <2>2. i + 1 \notin Taken /\ IsFiniteSet(1 .. i)
    BY <1>2, <2>1, FS_Interval
  <2>3. IsFiniteSet(Taken)
    BY <2>1, <2>2, FS_Subset
  <2>4. Cardinality(Taken \union {i + 1}) = Cardinality(Taken) + 1
    BY <2>2, <2>3, FS_AddElement
  <2>5. Len(mst_indices') = Len(mst_indices) + 1
    BY <1>1, <1>2, AppendProperties DEF IInv, TypeOK
  <2> QED BY <1>3, <2>1, <2>4, <2>5
<1> QED BY <1>4, <1>7, <1>8, <1>9, <1>10, <1>11 DEF MinInv

\* Steps that take no edge and leave the forest alone; Skip has looked at an edge inside
\* a tree.
LEMMA MinInvQuiet ==
    ASSUME IInv, RootInv, MinInv, UNCHANGED <<edges, parent, mst_indices>>,
           i' = i \/ Skip
    PROVE  MinInv'
<1>1. Root' = Root /\ Taken' = Taken
  BY DEF Root, Taken
<1>2. Joined(Taken)'
  <2>1. \A n \in Nodes : Same(n, Root'[n], Taken')
    BY <1>1 DEF MinInv, Joined
  <2> QED BY <2>1, JoinedNext
<1>3. Promising(Taken)'
  <2>1. Promising(Taken')
    BY <1>1 DEF MinInv
  <2> QED BY <2>1, PromiseKept
<1>4. Taken' \subseteq 1 .. i' /\ \A k \in 1 .. i' : Root'[End1(k)'] = Root'[End2(k)']
  <2>1. CASE i' = i
    BY <1>1, <2>1, EdgesKept DEF MinInv
  <2>2. CASE Skip
    <3>1. pc = "link" /\ p1 = p2 /\ i' = i + 1
      BY <2>2 DEF Skip
    <3>2. i \in Nat /\ Root[End1(i + 1)] = p1 /\ Root[End2(i + 1)] = p2
      BY <3>1, EdgeAtLink
    <3>3. \A k \in 1 .. i' : k \in 1 .. i \/ k = i + 1
      BY <3>1, <3>2
    <3>4. 1 .. i \subseteq 1 .. i'
      BY <3>1, <3>2
    <3>5. \A k \in 1 .. i' : Root[End1(k)] = Root[End2(k)]
      BY <3>1, <3>2, <3>3 DEF MinInv
    <3> QED BY <1>1, <3>4, <3>5, EdgesKept DEF MinInv
  <2> QED BY <2>1, <2>2
<1>5. Sorted(edges)'
  BY DEF MinInv, Sorted
<1>6. Cardinality(Taken') = Len(mst_indices')
  BY <1>1 DEF MinInv
<1> QED BY <1>2, <1>3, <1>4, <1>5, <1>6 DEF MinInv

LEMMA MinInvStepped == IInv /\ RootInv /\ MinInv /\ [Next]_vars => MinInv'
<1> SUFFICES ASSUME IInv, RootInv, MinInv, [Next]_vars PROVE MinInv'
  OBVIOUS
<1>1. CASE Finish \/ Overrun \/ NextEdge \/ Find1 \/ Find2 \/ UNCHANGED vars
  <2>1. UNCHANGED <<edges, parent, mst_indices>> /\ i' = i
    BY <1>1 DEF Finish, Overrun, NextEdge, Find1, Find2, vars
  <2> QED BY <2>1, MinInvQuiet
<1>2. CASE Skip
  <2>1. UNCHANGED <<edges, parent, mst_indices>>
    BY <1>2 DEF Skip
  <2> QED BY <1>2, <2>1, MinInvQuiet
<1>3. CASE Link
  BY <1>3, MinInvLink
<1> QED BY <1>1, <1>2, <1>3 DEF Next

\* The loop has ended with one tree.
Ended == pc = "done" => j = node_count - 1

LEMMA EndedStepped == IInv /\ Ended /\ [Next]_vars => Ended'
<1> SUFFICES ASSUME IInv, Ended, [Next]_vars PROVE Ended'
  OBVIOUS
<1>1. CASE Finish
  BY <1>1, NodeCountAssumption DEF Finish, Ended, IInv, TypeOK
<1>2. CASE NextEdge \/ Overrun \/ Find1 \/ Find2 \/ Skip \/ Link
  BY <1>2 DEF NextEdge, Overrun, Find1, Find2, Skip, Link, Ended
<1>3. CASE UNCHANGED vars
  BY <1>3 DEF vars, Ended
<1> QED BY <1>1, <1>2, <1>3 DEF Next

LEMMA EndIsMinimal ==
    ASSUME IInv, RootInv, MinInv, Ended
    PROVE  TreeIsMinimal
<1> SUFFICES ASSUME pc = "done"
             PROVE  /\ Connected(Taken)
                    /\ \A ks \in SUBSET (1 .. Len(edges)) :
                           Connected(ks) /\ Cardinality(ks) = node_count - 1
                               => Weight(Taken) <= Weight(ks)
  BY DEF TreeIsMinimal
<1>1. edges \in Seq(Edge) /\ Len(edges) \in Nat /\ i \in 0 .. Len(edges)
  BY EdgesFinite DEF IInv, TypeOK
<1>2. Taken \in EdgeSets
  BY <1>1 DEF MinInv, EdgeSets
<1>3. PICK r : Roots = {r}
  <2>1. Cardinality(Roots) = 1
    <3>1. Cardinality(Roots) = node_count - j /\ j = node_count - 1
      BY DEF IInv, OneTreeLessPerEdge, Ended
    <3> QED BY <3>1, NodeCountAssumption
  <2>2. Roots \in SUBSET Nodes
    BY DEF Roots
  <2>3. IsFiniteSet(Roots)
    BY <2>2, NodesFinite
  <2> QED BY <2>1, <2>3, FS_Singleton
<1>4. \A n \in Nodes : Root[n] = r
  BY <1>3 DEF RootInv
<1>5. Spanning(Taken)
  <2>1. \A n \in Nodes : Same(n, r, Taken)
    BY <1>4 DEF MinInv, Joined
  <2> QED BY <2>1 DEF Spanning, Same
<1>6. Connected(Taken)
  BY <1>1, <1>2, <1>5, ConnectedIsSpanning
<1>7. ASSUME NEW ks \in EdgeSets, Connected(ks), Cardinality(ks) = node_count - 1
      PROVE  Weight(Taken) <= Weight(ks)
  <2>1. Spanning(ks)
    BY <1>1, <1>7, ConnectedIsSpanning
  <2>2. PICK ms \in EdgeSets : /\ Taken \subseteq ms /\ Weight(ms) <= Weight(ks)
                               /\ Cardinality(ms) = Cardinality(ks)
    BY <1>7, <2>1 DEF MinInv, Promising
  <2>3. Cardinality(Taken) = node_count - 1
    BY DEF MinInv, IInv, OneTreeLessPerEdge, Ended
  <2>4. IsFiniteSet(ms)
    <3> DEFINE E == 1 .. Len(edges)
    <3>1. IsFiniteSet(E) /\ ms \in SUBSET E
      BY <1>1, EdgesFinite DEF EdgeSets
    <3> HIDE DEF E
    <3> QED BY <3>1, OneLess, FS_Subset
  <2>5. Taken = ms
    BY <1>7, <2>2, <2>3, <2>4, FS_Subset
  <2> QED BY <2>2, <2>5
<1> QED BY <1>6, <1>7 DEF EdgeSets

\* The loop has overrun with more than one tree, and looked at all edges.
Overran == pc = "overrun" => j < node_count - 1 /\ i = Len(edges)

LEMMA OverranStepped == IInv /\ Overran /\ [Next]_vars => Overran'
<1> SUFFICES ASSUME IInv, Overran, [Next]_vars PROVE Overran'
  OBVIOUS
<1>1. CASE Overrun
  <2>1. Len(edges) \in Nat /\ i \in 0 .. Len(edges)
    BY DEF IInv, TypeOK
  <2> QED BY <1>1, <2>1 DEF Overrun, Overran
<1>2. CASE Finish \/ NextEdge \/ Find1 \/ Find2 \/ Skip \/ Link
  BY <1>2 DEF Finish, NextEdge, Find1, Find2, Skip, Link, Overran
<1>3. CASE UNCHANGED vars
  BY <1>3 DEF vars, Overran
<1> QED BY <1>1, <1>2, <1>3 DEF Next

AllEdges == 1 .. Len(edges)

\* How the loop ends depends on the graph only.
EndFitsGraph == pc \in {"done", "overrun"} => pc = IF Connected(AllEdges) THEN "done" ELSE "overrun"

\* What connects a graph does so together with its other edges too.
LEMMA DoneIsConnected ==
    ASSUME IInv, RootInv, MinInv, Ended, pc = "done"
    PROVE  Connected(AllEdges)
<1>1. edges \in Seq(Edge) /\ Len(edges) \in Nat /\ i \in 0 .. Len(edges)
  BY EdgesFinite DEF IInv, TypeOK
<1>2. Taken \in EdgeSets /\ AllEdges \in EdgeSets /\ Taken \subseteq AllEdges
  BY <1>1 DEF MinInv, EdgeSets, AllEdges
<1>3. Connected(Taken)
  BY EndIsMinimal DEF TreeIsMinimal
<1>4. Spanning(Taken)
  BY <1>1, <1>2, <1>3, ConnectedIsSpanning
<1>5. \A c \in SUBSET Nodes : Closed(c, AllEdges) => Closed(c, Taken)
  BY <1>2 DEF Closed
<1>6. Spanning(AllEdges)
  BY <1>4, <1>5 DEF Spanning
<1> QED BY <1>1, <1>2, <1>6, ConnectedIsSpanning

\* Of two trees that are left when no edge is, none leads out of the first.
LEMMA OverrunIsDisconnected ==
    ASSUME IInv, RootInv, MinInv, Overran, pc = "overrun"
    PROVE  ~ Connected(AllEdges)
<1>1. edges \in Seq(Edge) /\ Len(edges) \in Nat /\ i = Len(edges)
  BY EdgesFinite DEF IInv, TypeOK, Overran
<1>2. AllEdges \in EdgeSets
  BY DEF EdgeSets, AllEdges
<1>3. PICK r \in Roots, q \in Roots : r # q
  <2>1. Cardinality(Roots) # 1 /\ Cardinality(Roots) # 0
    <3>1. Cardinality(Roots) = node_count - j /\ j < node_count - 1 /\ j \in Nat
      BY DEF IInv, TypeOK, OneTreeLessPerEdge, Overran
    <3> QED BY <3>1, NodeCountAssumption
  <2>2. IsFiniteSet(Roots)
    <3>1. Roots \in SUBSET Nodes
      BY DEF Roots
    <3> QED BY <3>1, NodesFinite
  <2>3. Roots # {} /\ \A x : Roots # {x}
    BY <2>1, <2>2, FS_EmptySet, FS_Singleton
  <2>4. PICK r \in Roots : TRUE
    BY <2>3
  <2>5. Roots # {r}
    BY <2>3
  <2>6. PICK q \in Roots : q # r
    BY <2>4, <2>5
  <2> QED BY <2>4, <2>6
<1>4. Closed(Tree(r), AllEdges)
  <2>1. ASSUME NEW k \in AllEdges  PROVE End1(k) \in Tree(r) <=> End2(k) \in Tree(r)
    <3>1. Root[End1(k)] = Root[End2(k)]
      BY <1>1, <2>1 DEF MinInv, AllEdges
    <3>2. End1(k) \in Nodes /\ End2(k) \in Nodes
      BY <1>1, <2>1, EdgesFinite DEF AllEdges, End1, End2
    <3> QED BY <3>1, <3>2 DEF Tree
  <2> QED BY <2>1 DEF Closed
<1>5. Tree(r) \in SUBSET Nodes /\ Tree(r) # {} /\ Tree(r) # Nodes
  <2>1. r \in Tree(r) /\ Root[r] = r /\ Root[q] = q
    BY TreesPartition
  <2>2. q \in Nodes /\ q \notin Tree(r)
    BY <1>3, <2>1 DEF Roots, Tree
  <2> QED BY <2>1, <2>2 DEF Tree
<1>6. ~ Spanning(AllEdges)
  BY <1>4, <1>5 DEF Spanning
<1> QED BY <1>1, <1>2, <1>6, ConnectedIsSpanning

LEMMA AllInvariants == Spec => [](IInv /\ RootInv /\ MinInv /\ Ended)
<1> DEFINE All == IInv /\ RootInv /\ MinInv /\ Ended
<1>1. Init => All
  BY Started, RootInvStarted, MinInvStarted DEF Init, Ended
<1>2. All /\ [Next]_vars => All'
  BY Stepped, RootInvStepped, MinInvStepped, EndedStepped
<1> QED BY <1>1, <1>2, PTL DEF Spec

-----------------------------------------------------------------------------
(* Theorems. *)

\* Every variable keeps its type: indices stay inside the edges, parents inside the nodes.
THEOREM TypeCorrect == Spec => []TypeOK
<1>1. IInv => TypeOK
  BY DEF IInv
<1> QED BY IInvHolds, <1>1, PTL

\* For every graph the ranks grow along the parents, so that the forest has no cycle and
\* every walk of find_canonical ends (Graph.cpp:56-85).
THEOREM ForestHasNoCycle == Spec => []RanksClimb
<1>1. IInv => RanksClimb
  BY DEF IInv
<1> QED BY IInvHolds, <1>1, PTL

\* For every graph each edge taken joins two trees, so that with node_count - 1 edges one
\* tree is left (kruskal.cpp:32-39).
THEOREM EdgesJoinTrees == Spec => []OneTreeLessPerEdge
<1>1. IInv => OneTreeLessPerEdge
  BY DEF IInv
<1> QED BY IInvHolds, <1>1, PTL

\* For every graph the program, with the trees of its forest as blocks, does what Blocks
\* says: it looks at the edges in order, takes those that join two blocks and joins them
\* (kruskal.cpp:32-43, Graph.cpp:56-85).
THEOREM ForestImplementsBlocks == Spec => ImplementsBlocks
<1>1. IInv /\ RootInv /\ [Next]_vars => [Abstract!Look]_(Abstract!vars)
  BY BlocksStepped
<1> QED BY <1>1, AllInvariants, BlocksStarted, PTL DEF Spec, ImplementsBlocks, Abstract!Spec

\* For every graph, when the loop ends, the edges taken connect all nodes, and no other
\* spanning tree weighs less (kruskal.cpp:28-43): the edges taken are always part of a
\* best tree, since an edge that joins two trees is no longer than any that could do so.
THEOREM TreesAreMinimal == Spec => []TreeIsMinimal
<1>1. IInv /\ RootInv /\ MinInv /\ Ended => TreeIsMinimal
  BY EndIsMinimal
<1> QED BY AllInvariants, <1>1, PTL

\* For every graph, when the loop is over it has returned if the graph is connected and
\* read past the last edge if it is not (kruskal.cpp:32): the part of EndsIffConnected that
\* does not say that the loop is over at some time.
THEOREM EndsAsGraphSays == Spec => []EndFitsGraph
<1>1. Init => Overran
  BY DEF Init, Overran
<1>2. IInv /\ RootInv /\ MinInv /\ Ended /\ Overran => EndFitsGraph
  BY DoneIsConnected, OverrunIsDisconnected DEF EndFitsGraph
<1> QED BY AllInvariants, <1>1, <1>2, OverranStepped, PTL DEF Spec
=============================================================================
