------------------------------- MODULE Blocks -------------------------------
(***************************************************************************)
(* What Kruskal's algorithm promises, without the forest that represents   *)
(* the components: edges are looked at in order, each one that joins two   *)
(* blocks is taken and joins them, and it ends when enough are taken.      *)
(***************************************************************************)
EXTENDS Integers, Sequences, FiniteSets

CONSTANT Nodes

VARIABLES
    edges,  \* the edges, in the order in which they are looked at
    blocks, \* the partition of the nodes
    looked, \* how many edges have been looked at
    taken   \* the indices of those taken

vars == <<edges, blocks, looked, taken>>

BlockOf(n) == CHOOSE b \in blocks : n \in b

Init == blocks = {{n} : n \in Nodes} /\ looked = 0 /\ taken = << >>

Look ==
    /\ Cardinality(blocks) > 1
    /\ looked < Len(edges)
    /\ looked' = looked + 1
    /\ LET a == BlockOf(edges[looked + 1].end[1])
           b == BlockOf(edges[looked + 1].end[2])
       IN  IF a = b
           THEN UNCHANGED <<blocks, taken>>
           ELSE /\ blocks' = (blocks \ {a, b}) \union {a \union b}
                /\ taken' = Append(taken, looked)
    /\ UNCHANGED edges

Spec == Init /\ [][Look]_vars
=============================================================================
