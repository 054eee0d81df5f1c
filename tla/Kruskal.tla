------------------------------ MODULE Kruskal ------------------------------
(***************************************************************************)
(* The minimum spanning tree program of CO759/A1 (package/code): the loop  *)
(* of get_kruskal_mst_indices (kruskal.cpp) over the sorted edges, and the *)
(* forest of Node (Graph.cpp) that represents the components, with union   *)
(* by rank and without path compression, as kruskal.cpp uses it.           *)
(*                                                                         *)
(* Edges and mst_indices count from 0 in the code; edges[i + 1] here is    *)
(* the code's edges[i], and end[1], end[2] are its end[0], end[1].         *)
(***************************************************************************)
EXTENDS Integers, Sequences, FiniteSets, FiniteSetsExt

CONSTANTS
    node_count,
    Graphs      \* the graphs the program may read: sequences of edges

Nodes == 0 .. node_count - 1
Edge == [end : [1 .. 2 -> Nodes], len : Int]

ASSUME NodeCountAssumption == node_count \in Nat \ {0}
ASSUME GraphsAssumption == Graphs \subseteq Seq(Edge)

VARIABLES
    edges,
    parent, rank,   \* of every Node
    i, j,
    p1, p2,
    mst_indices,
    pc              \* "next", "find1", "find2", "link", "done" or "overrun"

vars == <<edges, parent, rank, i, j, p1, p2, mst_indices, pc>>

\* Mutant: a comparison the other way round.
LongestFirst(g) == \A k \in 1 .. Len(g) - 1 : g[k].len >= g[k + 1].len

\* sort orders by length; edges of equal length may come in any order.
Sorted(g) == \A k \in 1 .. Len(g) - 1 : g[k].len <= g[k + 1].len

Init ==
    /\ edges \in {g \in Graphs : Sorted(g)}
    /\ parent = [n \in Nodes |-> n]
    /\ rank = [n \in Nodes |-> 0]
    /\ i = 0
    /\ j = 0
    /\ p1 = 0
    /\ p2 = 0
    /\ mst_indices = << >>
    /\ pc = "next"

\* Mutant: the loop waits for one edge too many.
FinishLate ==
    /\ pc = "next"
    /\ j >= node_count
    /\ pc' = "done"
    /\ UNCHANGED <<edges, parent, rank, i, j, p1, p2, mst_indices>>

\* The loop ends when the tree has its edges.
Finish ==
    /\ pc = "next"
    /\ j >= node_count - 1
    /\ pc' = "done"
    /\ UNCHANGED <<edges, parent, rank, i, j, p1, p2, mst_indices>>

NextEdge ==
    /\ pc = "next"
    /\ j < node_count - 1
    /\ i < Len(edges)
    /\ p1' = edges[i + 1].end[1]
    /\ p2' = edges[i + 1].end[2]
    /\ pc' = "find1"
    /\ UNCHANGED <<edges, parent, rank, i, j, mst_indices>>

\* The loop has no other end: past the last edge it reads outside the vector, and what
\* happens then is undefined.
Overrun ==
    /\ pc = "next"
    /\ j < node_count - 1
    /\ i >= Len(edges)
    /\ pc' = "overrun"
    /\ UNCHANGED <<edges, parent, rank, i, j, p1, p2, mst_indices>>

\* Mutant: the parent is taken for the canonical node.
FindParent1 ==
    /\ pc = "find1"
    /\ p1' = parent[p1]
    /\ pc' = "find2"
    /\ UNCHANGED <<edges, parent, rank, i, j, p2, mst_indices>>

\* find_canonical follows parents to the node that is its own.
Find1 ==
    /\ pc = "find1"
    /\ p1' = parent[p1]
    /\ pc' = IF parent[p1] = p1 THEN "find2" ELSE "find1"
    /\ UNCHANGED <<edges, parent, rank, i, j, p2, mst_indices>>

Find2 ==
    /\ pc = "find2"
    /\ p2' = parent[p2]
    /\ pc' = IF parent[p2] = p2 THEN "link" ELSE "find2"
    /\ UNCHANGED <<edges, parent, rank, i, j, p1, mst_indices>>

\* The edge closes a cycle.
Skip ==
    /\ pc = "link"
    /\ p1 = p2
    /\ i' = i + 1
    /\ pc' = "next"
    /\ UNCHANGED <<edges, parent, rank, j, p1, p2, mst_indices>>

\* Node::link swaps x and y if x has the higher rank; of equal ranks y's grows.
Lower == IF rank[p1] > rank[p2] THEN p2 ELSE p1
Upper == IF rank[p1] > rank[p2] THEN p1 ELSE p2

\* Mutant: ranks never grow.
LinkFlat ==
    /\ pc = "link"
    /\ p1 # p2
    /\ parent' = [parent EXCEPT ![Lower] = Upper]
    /\ mst_indices' = Append(mst_indices, i)
    /\ j' = j + 1
    /\ i' = i + 1
    /\ pc' = "next"
    /\ UNCHANGED <<edges, rank, p1, p2>>

\* The edge joins two trees: the root Lower goes under the root Upper.
Link ==
    /\ pc = "link"
    /\ p1 # p2
    /\ parent' = [parent EXCEPT ![Lower] = Upper]
    /\ rank' = IF rank[Lower] = rank[Upper] THEN [rank EXCEPT ![Upper] = @ + 1] ELSE rank
    /\ mst_indices' = Append(mst_indices, i)
    /\ j' = j + 1
    /\ i' = i + 1
    /\ pc' = "next"
    /\ UNCHANGED <<edges, p1, p2>>

Next == Finish \/ NextEdge \/ Overrun \/ Find1 \/ Find2 \/ Skip \/ Link

Spec == Init /\ [][Next]_vars

\* One sequential program: it takes its steps.
FairSpec == Spec /\ WF_vars(Next)

-----------------------------------------------------------------------------
(* Properties. *)

\* Types of the variables.
TypeOK ==
    /\ edges \in Seq(Edge)
    /\ parent \in [Nodes -> Nodes]
    /\ rank \in [Nodes -> Nat]
    /\ i \in 0 .. Len(edges)
    /\ j \in 0 .. node_count - 1
    /\ p1 \in Nodes
    /\ p2 \in Nodes
    /\ mst_indices \in Seq(Nat)
    /\ pc \in {"next", "find1", "find2", "link", "done", "overrun"}

Roots == {n \in Nodes : parent[n] = n}

\* Ranks grow from every node to its parent, across all links: a walk of find_canonical
\* (Graph.cpp:56-61) ends, and the forest has no cycle.
RanksClimb == \A n \in Nodes : parent[n] # n => rank[n] < rank[parent[n]]

\* Every edge taken joins two trees: the number of trees is what is left to join
\* (kruskal.cpp:36-39), so that the loop ends with one tree.
OneTreeLessPerEdge == Cardinality(Roots) = node_count - j /\ Len(mst_indices) = j

\* A node's canonical node, and the nodes connected by a set of edges.
Root[n \in Nodes] == IF parent[n] = n THEN n ELSE Root[parent[n]]
Ends(ks) == {{edges[k].end[1], edges[k].end[2]} : k \in ks}
Reach(n, ks) ==
    LET Grow[s \in SUBSET Nodes] ==
            LET t == s \union UNION {e \in Ends(ks) : e \intersect s # {}}
            IN  IF t = s THEN s ELSE Grow[t]
    IN  Grow[{n}]
Taken == {mst_indices[k] + 1 : k \in 1 .. Len(mst_indices)}

Connected(ks) == \A n \in Nodes : Reach(n, ks) = Nodes
Weight(ks) == MapThenSumSet(LAMBDA k : edges[k].len, ks)

\* The result connects the graph, and no other set of edges does so with less weight:
\* taking edges in order of length is right for every graph (kruskal.cpp:28-43).
TreeIsMinimal ==
    pc = "done" => /\ Connected(Taken)
                   /\ \A ks \in SUBSET (1 .. Len(edges)) :
                          Connected(ks) /\ Cardinality(ks) = node_count - 1
                              => Weight(Taken) <= Weight(ks)

\* The program returns for every connected graph, and reads past the last edge for every
\* other one (kruskal.cpp:32).
EndsIffConnected == <>(pc = IF Connected(1 .. Len(edges)) THEN "done" ELSE "overrun")

\* With the trees of the forest as blocks the program does what Blocks says.
Abstract == INSTANCE Blocks WITH
    blocks <- {{n \in Nodes : Root[n] = r} : r \in Roots}, looked <- i, taken <- mst_indices
ImplementsBlocks == Abstract!Spec
=============================================================================
