------------------------------- MODULE Routing ------------------------------
(***************************************************************************)
(* The routing computation of CS456/A3/router.cpp: Dijkstra's algorithm    *)
(* over a link-state database, which during a flood knows only part of the *)
(* network.                                                                *)
(*                                                                         *)
(* A database maps each router to the entries [link, cost] it is known to  *)
(* have, in the order in which they came (struct circuit_DB); a router     *)
(* that networkDB does not contain has none.                               *)
(***************************************************************************)
EXTENDS Integers, Sequences, FiniteSets, FiniteSetsExt, SequencesExt

CONSTANTS
    Routers,    \* router ids, among 1 .. NBR_ROUTER
    Links,      \* link ids
    CircuitDB,  \* what the emulator gives each router: its own links, in order
    Infty       \* INFTY, larger than any cost of a path

ASSUME RoutersAssumption == Routers \subseteq Nat \ {0} /\ IsFiniteSet(Routers)
ASSUME InftyAssumption == Infty \in Nat

NoRouter == -1

Entry == [link : Links, cost : Nat]

ASSUME CircuitAssumption ==
    /\ CircuitDB \in [Routers -> Seq(Entry) \ {<< >>}]
    /\ \A r \in Routers : \A i, j \in DOMAIN CircuitDB[r] :
            CircuitDB[r][i].link = CircuitDB[r][j].link => i = j

OwnLinks(r) == {e.link : e \in ToSet(CircuitDB[r])}

\* A link has two ends.
ASSUME LinkAssumption ==
    \A l \in Links : \E r, q \in Routers :
        r # q /\ {p \in Routers : l \in OwnLinks(p)} = {r, q}

Known(db) == {v \in Routers : db[v] # << >>}

\* linkEndpoints: the routers known to be on a link.
Endpoints(db, link) == {v \in Known(db) : \E e \in ToSet(db[v]) : e.link = link}

\* Where among the entries of r1 those for links that lead to r2 are.
EntriesBetween(db, r1, r2) == {i \in DOMAIN db[r1] : r2 \in Endpoints(db, db[r1][i].link)}

IsAdjacent(db, r1, r2) ==
    {r1, r2} \subseteq Known(db) /\ EntriesBetween(db, r1, r2) # {}

\* The first of them counts.
CostForAdjacent(db, r1, r2) == db[r1][Min(EntriesBetween(db, r1, r2))].cost

-----------------------------------------------------------------------------
(* updateNetworkDB. *)

\* Mutant: an entry the database has already counts as changed.
ChangesAlways(entries, e) == TRUE

\* Does it change the entries of a router?
Changes(entries, e) == e \notin ToSet(entries)

\* Mutant: dBContains is not asked.
UpdatedAppending(entries, e) == Append(entries, e)

\* Mutant: a new entry gets the cost of the first one.
UpdatedCopyingCost(entries, e) ==
    IF \E f \in ToSet(entries) : f.link = e.link
    THEN [i \in DOMAIN entries |-> IF entries[i].link = e.link THEN e ELSE entries[i]]
    ELSE Append(entries, IF entries = << >> THEN e ELSE [e EXCEPT !.cost = entries[1].cost])

\* A new cost replaces the old one, a new link is added.
Updated(entries, e) ==
    IF \E f \in ToSet(entries) : f.link = e.link
    THEN [i \in DOMAIN entries |-> IF entries[i].link = e.link THEN e ELSE entries[i]]
    ELSE Append(entries, e)

-----------------------------------------------------------------------------
(* The loop of computeCostsToAllRouters: N is the set of that name, D the    *)
(* map from routers to pairs, as the set of its rows [to, via, cost].      *)

NoRow == [to |-> NoRouter, via |-> NoRouter, cost |-> Infty]

Start(db, source) ==
    [N |-> {source},
     D |-> {IF IsAdjacent(db, source, v)
            THEN [to |-> v, via |-> v, cost |-> CostForAdjacent(db, source, v)]
            ELSE [to |-> v, via |-> NoRouter, cost |-> Infty] : v \in Known(db)}]

\* The row of the w that is added to N: the nearest router outside, the smallest
\* such id; -1, which is no router, if none outside has a finite distance.
Nearest(c) ==
    LET reachable == {d \in c.D : d.to \notin c.N /\ d.cost < Infty}
        Before(d, e) == d.cost < e.cost \/ (d.cost = e.cost /\ d.to <= e.to)
    IN  IF reachable = {} THEN NoRow
        ELSE CHOOSE d \in reachable : \A e \in reachable : Before(d, e)

\* Mutant: the way behind w goes via w (the TODO of line 229).
AddNearestViaItself(db, c) ==
    LET w == Nearest(c)
        N == c.N \union {w.to}
        Through(v) == w.cost + CostForAdjacent(db, w.to, v)
    IN  [N |-> N,
         D |-> {IF d.to \notin N /\ IsAdjacent(db, w.to, d.to) /\ Through(d.to) < d.cost
                THEN [to |-> d.to, via |-> w.to, cost |-> Through(d.to)]
                ELSE d : d \in c.D}]

\* One round of the loop.
AddNearest(db, c) ==
    LET w == Nearest(c)
        N == c.N \union {w.to}
        Through(v) == w.cost + CostForAdjacent(db, w.to, v)
    IN  [N |-> N,
         D |-> {IF d.to \notin N /\ IsAdjacent(db, w.to, d.to) /\ Through(d.to) < d.cost
                THEN [to |-> d.to, via |-> w.via, cost |-> Through(d.to)]
                ELSE d : d \in c.D}]

\* Mutant: the routers are compared, not their numbers.
AllAddedByName(db, c) == Known(db) \subseteq c.N

AllAdded(db, c) == Cardinality(c.N) = Cardinality(Known(db))

\* Where the loop may stand after k rounds (one state, since a round is a
\* function).  A round that adds -1 again changes nothing, so if the loop has not
\* ended after as many rounds as there are routers, it never will.
Computation(db, source) ==
    LET after[k \in 0 .. Cardinality(Known(db))] ==
            IF k = 0 THEN {Start(db, source)}
            ELSE {IF AllAdded(db, c) THEN c ELSE AddNearest(db, c) : c \in after[k - 1]}
    IN  CHOOSE c \in after[Cardinality(Known(db))] : TRUE

\* The while loop ends, and what it returns.
LoopEnds(db, source) == AllAdded(db, Computation(db, source))
RIB(db, source) == Computation(db, source).D

-----------------------------------------------------------------------------
(* Reference: the cheapest walk, over links known at both ends. *)

LinkCosts(db, u, v) ==
    {e.cost : e \in {e \in ToSet(db[u]) : v \in Endpoints(db, e.link)}}

\* The cheapest walks from source of at most as many hops as there are routers,
\* as a set of [to, cost].
CheapestWalks(db, source) ==
    LET walks[k \in 0 .. Cardinality(Known(db))] ==
            IF k = 0 THEN {[to |-> v, cost |-> IF v = source THEN 0 ELSE Infty] : v \in Known(db)}
            ELSE LET shorter == walks[k - 1]
                     longer(v) == UNION {{w.cost + cost : cost \in LinkCosts(db, w.to, v)} :
                                            w \in {w \in shorter : w.cost < Infty}}
                 IN  {[w EXCEPT !.cost = Min({w.cost} \union longer(w.to))] : w \in shorter}
    IN  walks[Cardinality(Known(db))]

CheapestWalk(db, u, v) == (CHOOSE w \in CheapestWalks(db, u) : w.to = v).cost

-----------------------------------------------------------------------------
(* What the theorems about the loop ask of a network. *)

\* No two links join the same routers: getCostForAdjacent takes the first of
\* parallel links, not the cheaper one.
OneLinkEach ==
    \A r, q \in Routers : r # q => \A k, l \in OwnLinks(r) \intersect OwnLinks(q) : k = l

\* INFTY is above every cost.
CostsFinite == \A r \in Routers : \A e \in ToSet(CircuitDB[r]) : e.cost < Infty
=============================================================================
