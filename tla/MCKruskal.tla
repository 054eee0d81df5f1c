------------------------------ MODULE MCKruskal ------------------------------
\* Kruskal for every graph of five nodes with MaxEdges edges, parallel edges and one loop
\* included, of which some are disconnected.  Nodes are numbered in the order in which
\* the edges name them: the program does not look at their numbers.  Every other edge
\* names the higher node first, and only the edges between them may be the loop.
EXTENDS Kruskal

CONSTANT MaxEdges

Lengths == {-1, 1}

Named(s) == UNION {{e[1], e[2]} : e \in {s[k] : k \in DOMAIN s}}
NextPairs(s) ==
    LET u == Cardinality(Named(s))
        Pair == {e \in [1 .. 2 -> Nodes] : e[1] < e[2] /\ e[1] <= u /\ e[2] <= Max({u, e[1] + 1})}
        Loop == {e \in [1 .. 2 -> Nodes] : e[1] = e[2] /\ e[1] <= u}
    IN  CASE Len(s) % 2 = 1 -> {[k \in 1 .. 2 |-> e[3 - k]] : e \in Pair}
          [] \A k \in DOMAIN s : s[k][1] # s[k][2] -> Pair \union Loop
          [] OTHER -> Pair
Pairs[m \in 0 .. MaxEdges] ==
    IF m = 0 THEN {<< >>} ELSE UNION {{Append(s, e) : e \in NextPairs(s)} : s \in Pairs[m - 1]}
SmallGraphs ==
    {[k \in 1 .. MaxEdges |-> [end |-> s[k], len |-> l[k]]] :
        s \in Pairs[MaxEdges], l \in [1 .. MaxEdges -> Lengths]}
=============================================================================
