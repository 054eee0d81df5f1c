---------------------------- MODULE RouterHistory ---------------------------
(***************************************************************************)
(* The routers of module Router with an auxiliary variable: what a router  *)
(* learnt too early, before the HELLO of a neighbour, to ever send it to   *)
(* that neighbour.                                                         *)
(***************************************************************************)
EXTENDS Router

CONSTANT observed   \* the router whose table is compared with RoutingTable

ASSUME ObservedAssumption == observed \in Routers

VARIABLE withheld   \* <<r, link, origin, e>>: r learnt origin's entry e before
                    \* a HELLO came over link

historyVars == <<vars, withheld>>

HistoryInit == Init /\ withheld = {}

AllEntries == UNION {ToSet(CircuitDB[r]) : r \in Routers}

NewlyWithheld ==
    {w \in Routers \X Links \X Routers \X AllEntries :
        LET r == w[1]  link == w[2]  o == w[3]  e == w[4] IN
            /\ link \in OwnLinks(r) \ myLinks[r]
            /\ e \in ToSet(networkDB'[r][o]) \ ToSet(networkDB[r][o])}

HistoryNext == Next /\ withheld' = withheld \union NewlyWithheld

HistorySpec == HistoryInit /\ [][HistoryNext]_historyVars

-----------------------------------------------------------------------------
\* When a flood without loss has ended, two neighbours agree: what one knows and
\* the other does not is what it learnt before the other's HELLO.  It is never
\* sent afterwards, since handleHello sends the router's own links only and
\* forwardPDU skips a link without HELLO (router.cpp:346-366, 431-459).
NeighboursAgree ==
    FloodIsOver =>
        \A d \in Directions : LET r == d[2]  q == Peer(d[1], r) IN
            \A o \in Routers \ {r} : \A e \in ToSet(networkDB[r][o]) \ ToSet(networkDB[q][o]) :
                <<r, d[1], o, e>> \in withheld

\* Whichever router is observed, its database and computation behave as RoutingTable
\* says of one router: it learns true entries only, keeps them, and stops when stuck
\* (router.cpp:475-495).
Table == INSTANCE RoutingTable
           WITH routerId <- observed, db <- networkDB[observed],
                stuck <- (status[observed] = "computing")
TableFollows == Table!TableSpec
=============================================================================
