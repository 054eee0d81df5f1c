------------------------------- MODULE Router -------------------------------
(***************************************************************************)
(* The link-state routers of CS456/A3/router.cpp and the network emulator  *)
(* nse-linux386 between them.  A router learns its own links, greets over  *)
(* each, answers a HELLO with its own links, and floods what is new to it, *)
(* computing its routing table on the way.                                 *)
(*                                                                         *)
(* The emulator hands over the packets of one link in the order they were  *)
(* sent and those of different links in any order; packets are UDP and up  *)
(* to MaxLost of them get lost.                                            *)
(***************************************************************************)
EXTENDS Routing

CONSTANT MaxLost  \* packets that may get lost

ASSUME MaxLostAssumption == MaxLost \in Nat

VARIABLES
    status,     \* "init": no circuit_DB yet; "running"; "computing": in
                \* computeCostsToAllRouters for ever
    networkDB,  \* each router's link-state database
    myLinks,    \* the links over which a router received a HELLO
    channel,    \* packets on a link towards a router
    lost        \* packets lost so far

vars == <<status, networkDB, myLinks, channel, lost>>

Hello == [type |-> "HELLO"]
Lspdu(router, e) == [type |-> "LSPDU", router |-> router, link |-> e.link, cost |-> e.cost]
Packet == {Hello} \union [type : {"LSPDU"}, router : Routers, link : Links, cost : Nat]

\* The directions of the links, as <<link, receiving router>>.
Directions == {d \in Links \X Routers : d[1] \in OwnLinks(d[2])}
Peer(link, r) == CHOOSE q \in Routers \ {r} : link \in OwnLinks(q)

\* Router r sends packets over each of the links; the other end gets them.
SentOver(chan, r, links, packets) ==
    [d \in Directions |-> IF d[1] \in links /\ d[2] # r THEN chan[d] \o packets ELSE chan[d]]

Init ==
    /\ status = [r \in Routers |-> "init"]
    /\ networkDB = [r \in Routers |-> [q \in Routers |-> << >>]]
    /\ myLinks = [r \in Routers |-> {}]
    /\ channel = [d \in Directions |-> << >>]
    /\ lost = 0

\* Mutant: the router greets over its first link only.
ReceiveCircuitDBGreetOnce(r) ==
    /\ status[r] = "init"
    /\ status' = [status EXCEPT ![r] = "running"]
    /\ networkDB' = [networkDB EXCEPT ![r][r] = CircuitDB[r]]
    /\ channel' = SentOver(channel, r, {CircuitDB[r][1].link}, <<Hello>>)
    /\ UNCHANGED <<myLinks, lost>>

\* The answer to INIT comes: recvCircuitDB, updateMyLinks, sendGreetings.
ReceiveCircuitDB(r) ==
    /\ status[r] = "init"
    /\ status' = [status EXCEPT ![r] = "running"]
    /\ networkDB' = [networkDB EXCEPT ![r][r] = CircuitDB[r]]
    /\ channel' = SentOver(channel, r, OwnLinks(r), <<Hello>>)
    /\ UNCHANGED <<myLinks, lost>>

\* Mutant: one LSPDU only.
OwnPdusFirst(r) == <<Lspdu(r, CircuitDB[r][1])>>

\* sendLSPUs: one LSPDU for each of the router's own links.
OwnPdus(r) == [i \in DOMAIN CircuitDB[r] |-> Lspdu(r, CircuitDB[r][i])]

\* handleHello: note it, and answer with the router's own links (sendLSPUs).
HandleHello(r, link) ==
    LET d == <<link, r>>
    IN  /\ status[r] = "running"
        /\ channel[d] # << >>
        /\ Head(channel[d]).type = "HELLO"
        /\ myLinks' = [myLinks EXCEPT ![r] = @ \union {link}]
        /\ channel' = SentOver([channel EXCEPT ![d] = Tail(@)], r, {link}, OwnPdus(r))
        /\ UNCHANGED <<status, networkDB, lost>>

\* Mutant: the test for the HELLO is the wrong way round.
ForwardLinksBefore(r, via) == (OwnLinks(r) \ myLinks[r]) \ {via}

\* forwardPDU: over the links with a HELLO, but not where it came from.
ForwardLinks(r, via) == (OwnLinks(r) \intersect myLinks[r]) \ {via}

\* Mutant: the router puts its own id in router_id, not only in sender.
ForwardedAsOwn(r, pdu) == [pdu EXCEPT !.router = r]

\* The PDU that is forwarded: sender and via are rewritten, the rest is kept.
Forwarded(r, pdu) == pdu

\* handleLSPDU: nothing if it is known; otherwise update, compute the routing
\* table (printRIB) and only then forward.
HandleLspdu(r, link) ==
    LET d == <<link, r>>
        pdu == Head(channel[d])
        e == [link |-> pdu.link, cost |-> pdu.cost]
        changed == Changes(networkDB[r][pdu.router], e)
        db == [networkDB[r] EXCEPT ![pdu.router] = Updated(@, e)]
        received == [channel EXCEPT ![d] = Tail(@)]
        forwards == changed /\ LoopEnds(db, r)
    IN  /\ status[r] = "running"
        /\ channel[d] # << >>
        /\ pdu.type = "LSPDU"
        /\ networkDB' = [networkDB EXCEPT ![r] = db]
        /\ status' = IF changed /\ ~LoopEnds(db, r) THEN [status EXCEPT ![r] = "computing"] ELSE status
        /\ channel' = IF forwards THEN SentOver(received, r, ForwardLinks(r, link), <<Forwarded(r, pdu)>>)
                                  ELSE received
        /\ UNCHANGED <<myLinks, lost>>

\* A packet is lost on the way to r.
Lose(r, link) ==
    LET d == <<link, r>>
    IN  /\ lost < MaxLost
        /\ channel[d] # << >>
        /\ lost' = lost + 1
        /\ channel' = [channel EXCEPT ![d] = Tail(@)]
        /\ UNCHANGED <<status, networkDB, myLinks>>

HandleMessage(r, link) == HandleHello(r, link) \/ HandleLspdu(r, link)

Next == \E r \in Routers :
            \/ ReceiveCircuitDB(r)
            \/ \E link \in OwnLinks(r) : HandleMessage(r, link) \/ Lose(r, link)

Spec == Init /\ [][Next]_vars

\* Every router is scheduled, and gets to the packets of each of its links: they
\* wait in one socket queue.
Fairness ==
    \A r \in Routers :
        /\ WF_vars(ReceiveCircuitDB(r))
        /\ \A link \in OwnLinks(r) : WF_vars(HandleMessage(r, link))

FairSpec == Spec /\ Fairness

-----------------------------------------------------------------------------
(* Properties. *)

\* Types of the variables; no entry of a database is doubled, so that nbr_link
\* stays inside linkcost[NBR_ROUTER] (router.cpp:410-413).
TypeOK ==
    /\ status \in [Routers -> {"init", "running", "computing"}]
    /\ networkDB \in [Routers -> [Routers -> Seq(Entry)]]
    /\ \A r, q \in Routers : Len(networkDB[r][q]) <= Len(CircuitDB[q])
    /\ myLinks \in [Routers -> SUBSET Links]
    /\ channel \in [Directions -> Seq(Packet)]
    /\ lost \in 0 .. MaxLost

\* What a router believes of another one is true, however many routers passed
\* it on and whatever was lost (router.cpp:387-459).
DatabaseIsTrue ==
    \A r, q \in Routers : ToSet(networkDB[r][q]) \subseteq ToSet(CircuitDB[q])

\* Every router has started, no packet was lost or is left, nobody is stuck.
FloodIsOver ==
    /\ \A r \in Routers : status[r] = "running"
    /\ \A d \in Directions : channel[d] = << >>
    /\ lost = 0

\* After a flood neighbours know all of each other's own links, whenever they
\* started: the HELLO of one is answered with all links of the other
\* (router.cpp:326-366).
NeighboursKnown ==
    FloodIsOver =>
        \A d \in Directions : LET r == d[2]  q == Peer(d[1], r) IN
            ToSet(networkDB[r][q]) = ToSet(CircuitDB[q])

\* The flood ends: nothing is forwarded for ever round a cycle of links, unless
\* a router is stuck and its packets stay (router.cpp:481-494).
FloodEnds == <>[](\A d \in Directions : status[d[2]] # "computing" => channel[d] = << >>)
=============================================================================
