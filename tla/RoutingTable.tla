---------------------------- MODULE RoutingTable ----------------------------
(***************************************************************************)
(* One router of CS456/A3/router.cpp on its own: a database that learns    *)
(* true entries of the network in whatever order, and the routing table    *)
(* that is computed after each of them.  Module Router implements this for *)
(* every router.                                                           *)
(***************************************************************************)
EXTENDS Routing

CONSTANT routerId

ASSUME RouterIdAssumption == routerId \in Routers

VARIABLES
    db,     \* networkDB
    stuck   \* computeCostsToAllRouters loops for ever

tableVars == <<db, stuck>>

TableInit ==
    /\ db = [q \in Routers |-> << >>]
    /\ stuck = FALSE

\* networkDB[routerId] = *routerCDB.
LearnOwn ==
    /\ db[routerId] = << >>
    /\ db' = [db EXCEPT ![routerId] = CircuitDB[routerId]]
    /\ UNCHANGED stuck

\* handleLSPDU for an entry that is news, up to the end of printRIB.
Learn(q, e) ==
    /\ db[routerId] # << >>
    /\ ~stuck
    /\ Changes(db[q], e)
    /\ db' = [db EXCEPT ![q] = Updated(@, e)]
    /\ stuck' = ~LoopEnds(db', routerId)

TableNext == LearnOwn \/ \E q \in Routers : \E e \in ToSet(CircuitDB[q]) : Learn(q, e)

TableSpec == TableInit /\ [][TableNext]_tableVars

-----------------------------------------------------------------------------
(* Properties. *)

\* The routing table is right for what is known, half a network included: the
\* costs are those of the cheapest walks, and via is a neighbour over which such
\* a walk starts (router.cpp:157-237).
TableIsShortest ==
    db[routerId] # << >> /\ ~stuck =>
        \A d \in {d \in RIB(db, routerId) : d.to # routerId} :
            /\ d.cost = CheapestWalk(db, routerId, d.to)
            /\ d.cost = Infty <=> d.via = NoRouter
            /\ d.cost # Infty =>
                \E c \in LinkCosts(db, routerId, d.via) : c + CheapestWalk(db, d.via, d.to) = d.cost

\* When the computation loops for ever: as soon as two known routers cannot be
\* reached, since -1 goes into the set N once (router.cpp:192-211).
StuckIffTwoUnreached ==
    LET unreached == {w \in CheapestWalks(db, routerId) : w.cost = Infty} IN
    db[routerId] # << >> => (stuck <=> Cardinality(unreached) >= 2)
=============================================================================
