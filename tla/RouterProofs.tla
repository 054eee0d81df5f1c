---------------------------- MODULE RouterProofs ----------------------------
(***************************************************************************)
(* What the flood of module Router keeps, for every network: databases are *)
(* well formed and true under any loss, and without loss neighbours come   *)
(* to know each other's links.  Then what Dijkstra's algorithm makes of a  *)
(* database, on every network without parallel links.                      *)
(***************************************************************************)
EXTENDS RouterHistory, RoutingTable, SequenceTheorems, FiniteSetTheorems, WellFoundedInduction, TLAPS

-----------------------------------------------------------------------------
(* Sequences of entries. *)

\* A circuit_DB names each link once.
LinksDiffer(entries) ==
    \A i, j \in DOMAIN entries : entries[i].link = entries[j].link => i = j

LEMMA ElementInToSet ==
    ASSUME NEW S, NEW s \in Seq(S), NEW x
    PROVE  x \in ToSet(s) <=> \E i \in 1 .. Len(s) : s[i] = x
PROOF BY DEF ToSet

\* What updateNetworkDB makes of the entries of a router.
LEMMA UpdatedKeepsShape ==
    ASSUME NEW entries \in Seq(Entry), NEW e \in Entry, LinksDiffer(entries)
    PROVE  /\ Updated(entries, e) \in Seq(Entry)
           /\ ToSet(Updated(entries, e)) \subseteq ToSet(entries) \union {e}
           /\ LinksDiffer(Updated(entries, e))
           /\ ~Changes(entries, e) => Updated(entries, e) = entries
PROOF
<1>1. CASE \E f \in ToSet(entries) : f.link = e.link
  <2> DEFINE new == [i \in DOMAIN entries |-> IF entries[i].link = e.link THEN e ELSE entries[i]]
  <2>1. Updated(entries, e) = new
    BY <1>1 DEF Updated
  <2>2. new \in Seq(Entry) /\ DOMAIN new = DOMAIN entries
    OBVIOUS
  <2>3. ToSet(new) \subseteq ToSet(entries) \union {e}
    BY DEF ToSet
  <2>4. LinksDiffer(new)
    BY DEF LinksDiffer
  <2>5. ASSUME ~Changes(entries, e)  PROVE new = entries
    <3>1. PICK k \in DOMAIN entries : entries[k] = e
      BY <2>5 DEF Changes, ToSet
    <3>2. \A i \in DOMAIN entries : new[i] = entries[i]
      BY <3>1 DEF LinksDiffer
    <3> HIDE DEF new
    <3>3. QED
      BY <2>2, <3>2
  <2>6. QED
    BY <2>1, <2>2, <2>3, <2>4, <2>5
<1>2. CASE ~\E f \in ToSet(entries) : f.link = e.link
  <2>1. Updated(entries, e) = Append(entries, e)
    BY <1>2 DEF Updated
  <2>2. Append(entries, e) \in Seq(Entry)
    OBVIOUS
  <2>3. ToSet(Append(entries, e)) \subseteq ToSet(entries) \union {e}
    BY DEF ToSet
  <2>4. LinksDiffer(Append(entries, e))
    <3>1. \A i \in DOMAIN entries : entries[i].link # e.link
      BY <1>2 DEF ToSet
    <3>2. QED
      BY <3>1 DEF LinksDiffer
  <2>5. Changes(entries, e)
    BY <1>2 DEF Changes
  <2>6. QED
    BY <2>1, <2>2, <2>3, <2>4, <2>5
<1>3. QED
  BY <1>1, <1>2

\* Entries that differ and are among those of another sequence are not more.
LEMMA NotMoreEntries ==
    ASSUME NEW s \in Seq(Entry), NEW t \in Seq(Entry),
           LinksDiffer(s), ToSet(s) \subseteq ToSet(t)
    PROVE  Len(s) <= Len(t)
PROOF
<1> DEFINE place == [i \in 1 .. Len(s) |-> CHOOSE j \in 1 .. Len(t) : t[j] = s[i]]
<1>1. \A i \in 1 .. Len(s) : place[i] \in 1 .. Len(t) /\ t[place[i]] = s[i]
  <2>1. \A i \in 1 .. Len(s) : \E j \in 1 .. Len(t) : t[j] = s[i]
    <3>1. \A i \in 1 .. Len(s) : s[i] \in ToSet(t)
      BY DEF ToSet
    <3>2. \A y \in ToSet(t) : \E j \in 1 .. Len(t) : t[j] = y
      BY DEF ToSet
    <3>3. QED
      BY <3>1, <3>2
  <2>2. QED
    BY <2>1
<1>2. place \in Injection(1 .. Len(s), 1 .. Len(t))
  <2>1. place \in [1 .. Len(s) -> 1 .. Len(t)]
    BY <1>1
  <2>2. \A i, j \in 1 .. Len(s) : place[i] = place[j] => i = j
    BY <1>1 DEF LinksDiffer
  <2> HIDE DEF place
  <2>3. QED
    BY <2>1, <2>2 DEF Injection, IsInjective
<1>3. Len(s) \in Nat /\ Len(t) \in Nat
  OBVIOUS
<1>4. /\ IsFiniteSet(1 .. Len(s)) /\ Cardinality(1 .. Len(s)) = Len(s)
      /\ IsFiniteSet(1 .. Len(t)) /\ Cardinality(1 .. Len(t)) = Len(t)
  <2>1. \A n \in Nat : IsFiniteSet(1 .. n) /\ Cardinality(1 .. n) = n
    BY FS_Interval
  <2>2. QED
    BY <1>3, <2>1
<1>5. QED
  BY <1>2, <1>4, FS_Injection

-----------------------------------------------------------------------------
(* What holds all along: the databases and the PDUs under way are true. *)

\* A HELLO, or an LSPDU about a link that its router has.
TruePacket ==
    {Hello} \union
    {p \in [type : {"LSPDU"}, router : Routers, link : Links, cost : Nat] :
        [link |-> p.link, cost |-> p.cost] \in ToSet(CircuitDB[p.router])}

FloodInv ==
    /\ status \in [Routers -> {"init", "running", "computing"}]
    /\ networkDB \in [Routers -> [Routers -> Seq(Entry)]]
    /\ \A r, q \in Routers : LinksDiffer(networkDB[r][q])
    /\ DatabaseIsTrue
    /\ myLinks \in [Routers -> SUBSET Links]
    /\ channel \in [Directions -> Seq(TruePacket)]
    /\ lost \in 0 .. MaxLost

LEMMA CircuitFacts ==
    ASSUME NEW r \in Routers
    PROVE  /\ CircuitDB[r] \in Seq(Entry)
           /\ LinksDiffer(CircuitDB[r])
           /\ ToSet(CircuitDB[r]) \subseteq Entry
           /\ OwnLinks(r) \subseteq Links
PROOF
<1>1. CircuitDB[r] \in Seq(Entry) /\ LinksDiffer(CircuitDB[r])
  BY CircuitAssumption DEF LinksDiffer
<1>2. ToSet(CircuitDB[r]) \subseteq Entry
  BY <1>1 DEF ToSet
<1>3. QED
  BY <1>1, <1>2 DEF OwnLinks, Entry

LEMMA TruePacketFacts ==
    /\ TruePacket \subseteq Packet
    /\ Hello \in TruePacket
    /\ \A r \in Routers : \A e \in ToSet(CircuitDB[r]) : Lspdu(r, e) \in TruePacket
    /\ \A r \in Routers : OwnPdus(r) \in Seq(TruePacket)
PROOF
<1>1. TruePacket \subseteq Packet /\ Hello \in TruePacket
  BY DEF TruePacket, Packet
<1>2. ASSUME NEW r \in Routers, NEW e \in ToSet(CircuitDB[r])
      PROVE  Lspdu(r, e) \in TruePacket
  <2>1. e \in Entry
    BY CircuitFacts
  <2>2. e = [link |-> e.link, cost |-> e.cost]
    BY <2>1 DEF Entry
  <2>3. QED
    BY <2>1, <2>2 DEF Lspdu, TruePacket, Entry
<1>3. ASSUME NEW r \in Routers
      PROVE  OwnPdus(r) \in Seq(TruePacket)
  <2>1. \A i \in DOMAIN CircuitDB[r] : CircuitDB[r][i] \in ToSet(CircuitDB[r])
    BY DEF ToSet
  <2>2. \A i \in DOMAIN CircuitDB[r] : Lspdu(r, CircuitDB[r][i]) \in TruePacket
    BY <1>2, <2>1
  <2>3. QED
    BY <2>2, CircuitFacts DEF OwnPdus
<1>4. QED
  BY <1>1, <1>2, <1>3

\* The head of a channel is a true packet, an LSPDU a true entry.
LEMMA ReceivedIsTrue ==
    ASSUME FloodInv, NEW d \in Directions, channel[d] # << >>
    PROVE  /\ Head(channel[d]) \in TruePacket
           /\ [channel EXCEPT ![d] = Tail(@)] \in [Directions -> Seq(TruePacket)]
           /\ Head(channel[d]).type = "LSPDU" =>
                 LET pdu == Head(channel[d]) IN
                    /\ pdu.router \in Routers
                    /\ pdu = Lspdu(pdu.router, [link |-> pdu.link, cost |-> pdu.cost])
                    /\ [link |-> pdu.link, cost |-> pdu.cost] \in ToSet(CircuitDB[pdu.router])
                    /\ [link |-> pdu.link, cost |-> pdu.cost] \in Entry
PROOF
<1>1. channel[d] \in Seq(TruePacket)
  BY DEF FloodInv
<1>2. Head(channel[d]) \in TruePacket /\ Tail(channel[d]) \in Seq(TruePacket)
  BY <1>1
<1>3. [channel EXCEPT ![d] = Tail(@)] \in [Directions -> Seq(TruePacket)]
  BY <1>2 DEF FloodInv
<1>4. QED
  BY <1>2, <1>3 DEF TruePacket, Hello, Entry, Lspdu

LEMMA SentOverType ==
    ASSUME NEW chan \in [Directions -> Seq(TruePacket)], NEW packets \in Seq(TruePacket),
           NEW r, NEW links
    PROVE  SentOver(chan, r, links, packets) \in [Directions -> Seq(TruePacket)]
PROOF
<1>1. \A d \in Directions : chan[d] \o packets \in Seq(TruePacket)
  OBVIOUS
<1>2. QED
  BY <1>1 DEF SentOver

LEMMA DirectionOf ==
    ASSUME NEW r \in Routers, NEW link \in OwnLinks(r)
    PROVE  <<link, r>> \in Directions /\ link \in Links
PROOF BY CircuitFacts DEF Directions

\* Of the two ends of a link, who is not the one is the other.
LEMMA LinkHasTwoEnds ==
    ASSUME NEW r \in Routers, NEW q \in Routers, r # q,
           NEW link \in OwnLinks(r) \intersect OwnLinks(q),
           NEW p \in Routers, link \in OwnLinks(p), p # q
    PROVE  p = r
PROOF
<1>1. link \in Links
  BY DirectionOf
<1>2. PICK a \in Routers, b \in Routers : {u \in Routers : link \in OwnLinks(u)} = {a, b}
  BY <1>1, LinkAssumption
<1>3. r \in {a, b} /\ q \in {a, b} /\ p \in {a, b}
  BY <1>2
<1>4. QED
  BY <1>3

LEMMA FloodInvInit == Init => FloodInv
PROOF
<1> SUFFICES ASSUME Init PROVE FloodInv
  OBVIOUS
<1>1. \A r, q \in Routers : networkDB[r][q] = << >>
  BY DEF Init
<1>2. DatabaseIsTrue /\ \A r, q \in Routers : LinksDiffer(networkDB[r][q])
  BY <1>1 DEF DatabaseIsTrue, LinksDiffer, ToSet
<1>3. QED
  BY <1>2, MaxLostAssumption DEF Init, FloodInv

LEMMA FloodInvNext == FloodInv /\ [Next]_vars => FloodInv'
PROOF
<1> SUFFICES ASSUME FloodInv, [Next]_vars PROVE FloodInv'
  OBVIOUS
<1>1. ASSUME NEW r \in Routers, ReceiveCircuitDB(r)
      PROVE  FloodInv'
  <2>1. \A p, q \in Routers : networkDB'[p][q] = IF p = r /\ q = r THEN CircuitDB[r] ELSE networkDB[p][q]
    BY <1>1 DEF ReceiveCircuitDB, FloodInv
  <2>2. networkDB' \in [Routers -> [Routers -> Seq(Entry)]]
    BY <1>1, CircuitFacts DEF ReceiveCircuitDB, FloodInv
  <2>3. \A p, q \in Routers : LinksDiffer(networkDB'[p][q])
    BY <2>1, CircuitFacts DEF FloodInv
  <2>4. DatabaseIsTrue'
    BY <2>1 DEF FloodInv, DatabaseIsTrue
  <2>5. <<Hello>> \in Seq(TruePacket)
    BY TruePacketFacts
  <2>6. channel' \in [Directions -> Seq(TruePacket)]
    BY <1>1, <2>5, SentOverType DEF ReceiveCircuitDB, FloodInv
  <2>7. QED
    BY <1>1, <2>2, <2>3, <2>4, <2>6 DEF ReceiveCircuitDB, FloodInv
<1>2. ASSUME NEW r \in Routers, NEW link \in OwnLinks(r), HandleHello(r, link)
      PROVE  FloodInv'
  <2>1. <<link, r>> \in Directions /\ link \in Links
    BY DirectionOf
  <2>2. channel' \in [Directions -> Seq(TruePacket)]
    BY <1>2, <2>1, ReceivedIsTrue, SentOverType, TruePacketFacts DEF HandleHello
  <2>3. myLinks' \in [Routers -> SUBSET Links]
    BY <1>2, <2>1 DEF HandleHello, FloodInv
  <2>4. UNCHANGED <<status, networkDB, lost>>
    BY <1>2 DEF HandleHello
  <2>5. QED
    BY <2>2, <2>3, <2>4 DEF FloodInv, DatabaseIsTrue
<1>3. ASSUME NEW r \in Routers, NEW link \in OwnLinks(r), HandleLspdu(r, link)
      PROVE  FloodInv'
  <2> DEFINE d == <<link, r>>
             pdu == Head(channel[d])
             o == pdu.router
             e == [link |-> pdu.link, cost |-> pdu.cost]
  <2>1. d \in Directions /\ channel[d] # << >> /\ pdu.type = "LSPDU"
    BY <1>3, DirectionOf DEF HandleLspdu
  <2>2. /\ pdu \in TruePacket
        /\ o \in Routers /\ e \in Entry /\ e \in ToSet(CircuitDB[o])
        /\ [channel EXCEPT ![d] = Tail(@)] \in [Directions -> Seq(TruePacket)]
    BY <2>1, ReceivedIsTrue
  <2>3. networkDB' = [networkDB EXCEPT ![r] = [networkDB[r] EXCEPT ![o] = Updated(@, e)]]
    BY <1>3 DEF HandleLspdu
  <2>4. <<Forwarded(r, pdu)>> \in Seq(TruePacket)
    BY <2>2 DEF Forwarded
  <2>5. channel' \in [Directions -> Seq(TruePacket)]
    BY <1>3, <2>2, <2>4, SentOverType DEF HandleLspdu
  <2>6. status' \in [Routers -> {"init", "running", "computing"}]
    BY <1>3 DEF HandleLspdu, FloodInv
  <2>7. UNCHANGED <<myLinks, lost>>
    BY <1>3 DEF HandleLspdu
  <2> HIDE DEF d, pdu, o, e
  <2>8. /\ Updated(networkDB[r][o], e) \in Seq(Entry)
        /\ LinksDiffer(Updated(networkDB[r][o], e))
        /\ ToSet(Updated(networkDB[r][o], e)) \subseteq ToSet(CircuitDB[o])
    <3>1. /\ networkDB[r][o] \in Seq(Entry) /\ LinksDiffer(networkDB[r][o])
          /\ ToSet(networkDB[r][o]) \subseteq ToSet(CircuitDB[o])
      BY <2>2 DEF FloodInv, DatabaseIsTrue
    <3>2. QED
      BY <2>2, <3>1, UpdatedKeepsShape
  <2>9. \A p, q \in Routers :
           networkDB'[p][q] = IF p = r /\ q = o THEN Updated(networkDB[r][o], e) ELSE networkDB[p][q]
    BY <2>2, <2>3 DEF FloodInv
  <2>10. networkDB' \in [Routers -> [Routers -> Seq(Entry)]]
    BY <2>2, <2>3, <2>8 DEF FloodInv
  <2>11. DatabaseIsTrue' /\ \A p, q \in Routers : LinksDiffer(networkDB'[p][q])
    BY <2>8, <2>9 DEF FloodInv, DatabaseIsTrue
  <2>12. QED
    BY <2>5, <2>6, <2>7, <2>10, <2>11 DEF FloodInv
<1>4. ASSUME NEW r \in Routers, NEW link \in OwnLinks(r), Lose(r, link)
      PROVE  FloodInv'
  <2>1. channel' \in [Directions -> Seq(TruePacket)]
    BY <1>4, DirectionOf, ReceivedIsTrue DEF Lose
  <2>2. lost' \in 0 .. MaxLost
    BY <1>4, MaxLostAssumption DEF Lose, FloodInv
  <2>3. QED
    BY <1>4, <2>1, <2>2 DEF Lose, FloodInv, DatabaseIsTrue
<1>5. CASE UNCHANGED vars
  BY <1>5 DEF vars, FloodInv, DatabaseIsTrue
<1>6. QED
  BY <1>1, <1>2, <1>3, <1>4, <1>5 DEF Next, HandleMessage

LEMMA FloodInvariance == Spec => []FloodInv
PROOF BY FloodInvInit, FloodInvNext, PTL DEF Spec

\* The variables have their types, and no database outgrows the circuit_DB it is
\* a copy of: linkcost[NBR_ROUTER] is never overrun (router.cpp:405-413).
THEOREM FloodTypeCorrect == Spec => []TypeOK
PROOF
<1>1. FloodInv => TypeOK
  <2> SUFFICES ASSUME FloodInv PROVE TypeOK
    OBVIOUS
  <2>1. \A r, q \in Routers : Len(networkDB[r][q]) <= Len(CircuitDB[q])
    BY CircuitFacts, NotMoreEntries DEF FloodInv, DatabaseIsTrue
  <2>2. \A d \in Directions : channel[d] \in Seq(Packet)
    BY TruePacketFacts DEF FloodInv
  <2>3. channel \in [Directions -> Seq(Packet)]
    BY <2>2 DEF FloodInv
  <2>4. QED
    BY <2>1, <2>3 DEF TypeOK, FloodInv
<1>2. QED
  BY <1>1, FloodInvariance, PTL

\* What routers believe of each other is true, on every network.
THEOREM DatabaseTruth == Spec => []DatabaseIsTrue
PROOF
<1>1. FloodInv => DatabaseIsTrue
  BY DEF FloodInv
<1>2. QED
  BY <1>1, FloodInvariance, PTL

-----------------------------------------------------------------------------
(* Neighbours: between the greeting of a router and its knowing the other    *)
(* end's links, either the HELLO is under way or the answer is.              *)

Answered(link, r, q) ==
    \/ Hello \in ToSet(channel[<<link, q>>])
    \/ \A e \in ToSet(CircuitDB[q]) :
          e \in ToSet(networkDB[r][q]) \/ Lspdu(q, e) \in ToSet(channel[<<link, r>>])

GreetingInv ==
    lost = 0 =>
        \A r, q \in Routers : \A link \in OwnLinks(r) \intersect OwnLinks(q) :
            r # q /\ status[r] # "init" => Answered(link, r, q)

\* Updating with a true entry forgets none and brings in the new one.
LEMMA UpdatedKeepsEntries ==
    ASSUME NEW r \in Routers, NEW entries \in Seq(Entry), LinksDiffer(entries),
           ToSet(entries) \subseteq ToSet(CircuitDB[r]), NEW e \in ToSet(CircuitDB[r])
    PROVE  ToSet(Updated(entries, e)) = ToSet(entries) \union {e}
PROOF
<1>1. \A f \in ToSet(CircuitDB[r]) : f.link = e.link => f = e
  BY CircuitFacts DEF ToSet, LinksDiffer
<1>2. CASE \E f \in ToSet(entries) : f.link = e.link
  <2>1. \A i \in DOMAIN entries : entries[i].link = e.link => entries[i] = e
    BY <1>1 DEF ToSet
  <2>2. Updated(entries, e) = entries
    BY <1>2, <2>1 DEF Updated
  <2>3. QED
    BY <1>1, <1>2, <2>2
<1>3. CASE ~\E f \in ToSet(entries) : f.link = e.link
  BY <1>3 DEF Updated, ToSet
<1>4. QED
  BY <1>2, <1>3

LEMMA Concatenated ==
    ASSUME NEW S, NEW s \in Seq(S), NEW t \in Seq(S)
    PROVE  ToSet(s \o t) = ToSet(s) \union ToSet(t)
PROOF
<1>1. \A i \in 1 .. Len(t) :
         Len(s) + i \in 1 .. Len(s \o t) /\ (s \o t)[Len(s) + i] = t[i]
  OBVIOUS
<1>2. ToSet(t) \subseteq ToSet(s \o t)
  <2>1. ASSUME NEW x \in ToSet(t)
        PROVE  x \in ToSet(s \o t)
    <3>1. PICK i \in 1 .. Len(t) : x = t[i]
      BY DEF ToSet
    <3>2. Len(s) + i \in DOMAIN (s \o t) /\ (s \o t)[Len(s) + i] = x
      BY <1>1, <3>1
    <3>3. QED
      BY <3>2 DEF ToSet
  <2>2. QED
    BY <2>1
<1>3. ToSet(s) \subseteq ToSet(s \o t)
  <2>1. \A i \in 1 .. Len(s) : i \in 1 .. Len(s \o t) /\ (s \o t)[i] = s[i]
    OBVIOUS
  <2>2. QED
    BY <2>1 DEF ToSet
<1>4. ToSet(s \o t) \subseteq ToSet(s) \union ToSet(t)
  BY DEF ToSet
<1>5. QED
  BY <1>2, <1>3, <1>4

\* What a step does to the content of channels: sending adds, and receiving
\* takes away the packet received.
LEMMA SentOverKeeps ==
    ASSUME NEW chan \in [Directions -> Seq(TruePacket)], NEW packets \in Seq(TruePacket),
           NEW r, NEW links, NEW d \in Directions
    PROVE  /\ ToSet(chan[d]) \subseteq ToSet(SentOver(chan, r, links, packets)[d])
           /\ d[1] \in links /\ d[2] # r
                 => ToSet(packets) \subseteq ToSet(SentOver(chan, r, links, packets)[d])
PROOF BY Concatenated DEF SentOver

LEMMA HeadAndTail ==
    ASSUME NEW S, NEW s \in Seq(S), s # << >>
    PROVE  ToSet(s) = ToSet(Tail(s)) \union {Head(s)}
PROOF
<1>1. \A i \in 1 .. Len(s) : i = 1 \/ (i - 1 \in 1 .. Len(Tail(s)) /\ Tail(s)[i - 1] = s[i])
  OBVIOUS
<1>2. ASSUME NEW x \in ToSet(s)
      PROVE  x \in ToSet(Tail(s)) \union {Head(s)}
  <2>1. PICK i \in 1 .. Len(s) : x = s[i]
    BY DEF ToSet
  <2>2. CASE i = 1
    BY <2>1, <2>2
  <2>3. CASE i # 1
    <3>1. i - 1 \in DOMAIN Tail(s) /\ Tail(s)[i - 1] = x
      BY <1>1, <2>1, <2>3
    <3>2. QED
      BY <3>1 DEF ToSet
  <2>4. QED
    BY <2>2, <2>3
<1>3. ToSet(Tail(s)) \union {Head(s)} \subseteq ToSet(s)
  <2>1. 1 \in 1 .. Len(s) /\ Head(s) = s[1]
    OBVIOUS
  <2>2. \A i \in 1 .. Len(Tail(s)) : i + 1 \in 1 .. Len(s) /\ Tail(s)[i] = s[i + 1]
    OBVIOUS
  <2>3. QED
    BY <2>1, <2>2 DEF ToSet
<1>4. QED
  BY <1>2, <1>3

\* A step that keeps the other packets and the entries keeps what is answered.
LEMMA AnsweredKept ==
    ASSUME NEW r \in Routers, NEW q \in Routers,
           NEW link \in OwnLinks(r) \intersect OwnLinks(q), Answered(link, r, q),
           ToSet(networkDB[r][q]) \subseteq ToSet(networkDB'[r][q]),
           Hello \in ToSet(channel[<<link, q>>]) => Hello \in ToSet(channel'[<<link, q>>]),
           \A e \in ToSet(CircuitDB[q]) :
              Lspdu(q, e) \in ToSet(channel[<<link, r>>])
                 => \/ Lspdu(q, e) \in ToSet(channel'[<<link, r>>])
                    \/ e \in ToSet(networkDB'[r][q])
    PROVE  Answered(link, r, q)'
PROOF BY DEF Answered

LEMMA GreetingInvNext == FloodInv /\ GreetingInv /\ [Next]_vars => GreetingInv'
PROOF
<1> SUFFICES ASSUME FloodInv, GreetingInv, [Next]_vars, lost' = 0,
                    NEW r \in Routers, NEW q \in Routers, r # q,
                    NEW link \in OwnLinks(r) \intersect OwnLinks(q),
                    status'[r] # "init"
             PROVE  Answered(link, r, q)'
  BY DEF GreetingInv
<1> DEFINE there == <<link, q>>
           back == <<link, r>>
<1>1. there \in Directions /\ back \in Directions
  BY DirectionOf
<1>2. channel \in [Directions -> Seq(TruePacket)]
  BY DEF FloodInv
<1>3. ASSUME NEW p \in Routers, ReceiveCircuitDB(p)
      PROVE  Answered(link, r, q)'
  <2>1. <<Hello>> \in Seq(TruePacket)
    BY TruePacketFacts
  <2>2. channel' = SentOver(channel, p, OwnLinks(p), <<Hello>>)
    BY <1>3 DEF ReceiveCircuitDB
  <2>3. CASE p = r
    <3>1. ToSet(<<Hello>>) \subseteq ToSet(channel'[there])
      BY <1>1, <1>2, <2>1, <2>2, <2>3, SentOverKeeps
    <3>2. Hello \in ToSet(<<Hello>>)
      BY DEF ToSet
    <3>3. QED
      BY <3>1, <3>2 DEF Answered
  <2>4. CASE p # r
    <3>1. lost = 0 /\ status[r] # "init"
      BY <1>3, <2>4 DEF ReceiveCircuitDB, FloodInv
    <3>2. Answered(link, r, q)
      BY <3>1 DEF GreetingInv
    <3>3. networkDB'[r][q] = networkDB[r][q]
      BY <1>3, <2>4 DEF ReceiveCircuitDB, FloodInv
    <3>4. /\ ToSet(channel[there]) \subseteq ToSet(channel'[there])
          /\ ToSet(channel[back]) \subseteq ToSet(channel'[back])
      BY <1>1, <1>2, <2>1, <2>2, SentOverKeeps
    <3>5. QED
      BY <3>2, <3>3, <3>4, AnsweredKept
  <2>5. QED
    BY <2>3, <2>4
<1>4. ASSUME NEW p \in Routers, NEW l \in OwnLinks(p), HandleMessage(p, l)
      PROVE  /\ lost = 0 /\ status[r] # "init" /\ Answered(link, r, q)
             /\ <<l, p>> \in Directions /\ channel[<<l, p>>] # << >>
             /\ channel[<<l, p>>] \in Seq(TruePacket)
             /\ [channel EXCEPT ![<<l, p>>] = Tail(@)] \in [Directions -> Seq(TruePacket)]
  <2>1. lost = 0 /\ (status[r] = "init" => status'[r] = "init")
    BY <1>4 DEF HandleMessage, HandleHello, HandleLspdu, FloodInv
  <2>2. Answered(link, r, q)
    BY <2>1 DEF GreetingInv
  <2>3. <<l, p>> \in Directions /\ channel[<<l, p>>] # << >>
    BY <1>4, DirectionOf DEF HandleMessage, HandleHello, HandleLspdu
  <2>4. QED
    BY <1>2, <2>1, <2>2, <2>3, ReceivedIsTrue
<1>5. ASSUME NEW p \in Routers, NEW l \in OwnLinks(p), HandleHello(p, l)
      PROVE  Answered(link, r, q)'
  <2> DEFINE d == <<l, p>>
             received == [channel EXCEPT ![d] = Tail(@)]
  <2>1. /\ Answered(link, r, q) /\ d \in Directions /\ channel[d] # << >>
        /\ channel[d] \in Seq(TruePacket)
        /\ received \in [Directions -> Seq(TruePacket)]
    BY <1>4, <1>5 DEF HandleMessage
  <2>2. /\ networkDB' = networkDB
        /\ channel' = SentOver(received, p, {l}, OwnPdus(p))
        /\ Head(channel[d]).type = "HELLO"
    BY <1>5 DEF HandleHello
  <2>3. OwnPdus(p) \in Seq(TruePacket)
    BY TruePacketFacts
  <2>4. CASE d = there
    <3>1. l = link /\ p = q
      BY <2>4
    <3>2. ToSet(OwnPdus(q)) \subseteq ToSet(channel'[back])
      BY <1>1, <2>1, <2>2, <2>3, <3>1, SentOverKeeps
    <3>3. \A e \in ToSet(CircuitDB[q]) : Lspdu(q, e) \in ToSet(OwnPdus(q))
      BY CircuitFacts DEF OwnPdus, ToSet
    <3>4. QED
      BY <3>2, <3>3 DEF Answered
  <2>5. CASE d # there
    <3>1. received[there] = channel[there]
      BY <1>1, <1>2, <2>5
    <3>2. ToSet(channel[there]) \subseteq ToSet(channel'[there])
      BY <1>1, <2>1, <2>2, <2>3, <3>1, SentOverKeeps
    <3>3. ToSet(channel[back]) \subseteq ToSet(received[back]) \union {Head(channel[d])}
      BY <1>1, <1>2, <2>1, HeadAndTail
    <3>4. ToSet(received[back]) \subseteq ToSet(channel'[back])
      BY <1>1, <2>1, <2>2, <2>3, SentOverKeeps
    <3>5. \A e : Lspdu(q, e) # Head(channel[d])
      BY <2>2 DEF Lspdu
    <3> HIDE DEF there, back, received, d
    <3>6. \A e : Lspdu(q, e) \in ToSet(channel[back]) => Lspdu(q, e) \in ToSet(channel'[back])
      BY <3>3, <3>4, <3>5
    <3>7. QED
      BY <2>1, <2>2, <3>2, <3>6, AnsweredKept DEF there, back
  <2>6. QED
    BY <2>4, <2>5
<1>6. ASSUME NEW p \in Routers, NEW l \in OwnLinks(p), HandleLspdu(p, l)
      PROVE  Answered(link, r, q)'
  <2> DEFINE d == <<l, p>>
             received == [channel EXCEPT ![d] = Tail(@)]
             pdu == Head(channel[d])
             o == pdu.router
             e == [link |-> pdu.link, cost |-> pdu.cost]
  <2>1. /\ Answered(link, r, q) /\ d \in Directions /\ channel[d] # << >>
        /\ channel[d] \in Seq(TruePacket)
        /\ received \in [Directions -> Seq(TruePacket)]
    BY <1>4, <1>6 DEF HandleMessage
  <2>2. pdu.type = "LSPDU"
    BY <1>6 DEF HandleLspdu
  <2>3. /\ pdu \in TruePacket /\ o \in Routers /\ pdu = Lspdu(o, e)
        /\ e \in ToSet(CircuitDB[o])
    BY <2>1, <2>2, ReceivedIsTrue
  <2>4. networkDB' = [networkDB EXCEPT ![p] = [networkDB[p] EXCEPT ![o] = Updated(@, e)]]
    BY <1>6 DEF HandleLspdu
  <2>5. \/ channel' = SentOver(received, p, ForwardLinks(p, l), <<Forwarded(p, pdu)>>)
        \/ channel' = received
    BY <1>6 DEF HandleLspdu
  <2>6. <<Forwarded(p, pdu)>> \in Seq(TruePacket)
    BY <2>3 DEF Forwarded
  <2>7. /\ ToSet(received[there]) \subseteq ToSet(channel'[there])
        /\ ToSet(received[back]) \subseteq ToSet(channel'[back])
    BY <1>1, <2>1, <2>5, <2>6, SentOverKeeps
  <2>8. /\ ToSet(channel[there]) \subseteq ToSet(received[there]) \union {pdu}
        /\ d = back \/ received[back] = channel[back]
        /\ ToSet(channel[back]) \subseteq ToSet(received[back]) \union {pdu}
    BY <1>1, <1>2, <2>1, HeadAndTail
  <2>9. Hello # pdu
    BY <2>2 DEF Hello
  <2> HIDE DEF d, received, pdu, o, e
  <2>10. ToSet(Updated(networkDB[p][o], e)) = ToSet(networkDB[p][o]) \union {e}
    <3>1. /\ networkDB[p][o] \in Seq(Entry) /\ LinksDiffer(networkDB[p][o])
          /\ ToSet(networkDB[p][o]) \subseteq ToSet(CircuitDB[o])
      BY <2>3 DEF FloodInv, DatabaseIsTrue
    <3>2. QED
      BY <2>3, <3>1, UpdatedKeepsEntries
  <2>11. networkDB'[r][q] = IF p = r /\ o = q THEN Updated(networkDB[p][o], e) ELSE networkDB[r][q]
    BY <2>3, <2>4 DEF FloodInv
  <2>12. ToSet(networkDB[r][q]) \subseteq ToSet(networkDB'[r][q])
    BY <2>10, <2>11
  <2>13. Hello \in ToSet(channel[there]) => Hello \in ToSet(channel'[there])
    BY <2>7, <2>8, <2>9
  <2>14. ASSUME NEW f \in ToSet(CircuitDB[q]), Lspdu(q, f) \in ToSet(channel[back])
         PROVE  Lspdu(q, f) \in ToSet(channel'[back]) \/ f \in ToSet(networkDB'[r][q])
    <3>1. CASE Lspdu(q, f) \in ToSet(received[back])
      BY <2>7, <3>1
    <3>2. CASE d = back /\ Lspdu(q, f) = pdu
      <4>1. p = r
        BY <3>2 DEF d, back
      <4>2. Lspdu(q, f) = Lspdu(o, e)
        BY <2>3, <3>2
      <4>3. q = o /\ f.link = e.link /\ f.cost = e.cost
        BY <4>2 DEF Lspdu
      <4>4. e \in Entry /\ f \in Entry
        BY <2>3, CircuitFacts
      <4>5. f = e
        BY <4>3, <4>4 DEF Entry
      <4>6. QED
        BY <2>10, <2>11, <4>1, <4>3, <4>5
    <3>3. QED
      BY <2>8, <2>14, <3>1, <3>2
  <2>15. QED
    BY <2>1, <2>12, <2>13, <2>14, AnsweredKept DEF there, back
<1>7. ASSUME NEW p \in Routers, NEW l \in OwnLinks(p), Lose(p, l)
      PROVE  FALSE
  BY <1>7 DEF Lose, FloodInv
<1>8. CASE UNCHANGED vars
  BY <1>8 DEF vars, GreetingInv, Answered
<1>9. QED
  BY <1>3, <1>5, <1>6, <1>7, <1>8 DEF Next, HandleMessage

\* On every network, a flood without loss leaves neighbours knowing all of each
\* other's own links, whatever the order in which the routers start and packets
\* of different links arrive (router.cpp:326-366, 461-495).
THEOREM NeighboursLearn == Spec => []NeighboursKnown
PROOF
<1>1. Init => GreetingInv
  BY DEF Init, GreetingInv
<1>2. FloodInv /\ GreetingInv => NeighboursKnown
  <2> SUFFICES ASSUME FloodInv, GreetingInv, FloodIsOver, NEW d \in Directions
               PROVE  ToSet(networkDB[d[2]][Peer(d[1], d[2])]) = ToSet(CircuitDB[Peer(d[1], d[2])])
    BY DEF NeighboursKnown
  <2> DEFINE link == d[1]
             r == d[2]
             q == Peer(link, r)
  <2>1. d = <<link, r>> /\ r \in Routers /\ link \in Links /\ link \in OwnLinks(r)
    BY DEF Directions
  <2>2. \E p \in Routers \ {r} : link \in OwnLinks(p)
    BY <2>1, LinkAssumption
  <2>3. q \in Routers /\ q # r /\ link \in OwnLinks(q)
    BY <2>2 DEF Peer
  <2>4. status[r] # "init" /\ lost = 0
    BY <2>1 DEF FloodIsOver
  <2>5. Answered(link, r, q)
    BY <2>1, <2>3, <2>4 DEF GreetingInv
  <2>6. <<link, q>> \in Directions /\ <<link, r>> \in Directions
    BY <2>1, <2>3, DirectionOf
  <2>7. channel[<<link, q>>] = << >> /\ channel[<<link, r>>] = << >>
    BY <2>6 DEF FloodIsOver
  <2>8. ToSet(channel[<<link, q>>]) = {} /\ ToSet(channel[<<link, r>>]) = {}
    BY <2>7 DEF ToSet
  <2> HIDE DEF q
  <2>9. ToSet(CircuitDB[q]) \subseteq ToSet(networkDB[r][q])
    BY <2>5, <2>8 DEF Answered
  <2>10. ToSet(networkDB[r][q]) \subseteq ToSet(CircuitDB[q])
    BY <2>1, <2>3 DEF FloodInv, DatabaseIsTrue
  <2>11. QED
    BY <2>9, <2>10 DEF q
<1>3. QED
  BY <1>1, <1>2, FloodInvariance, GreetingInvNext, PTL DEF Spec

-----------------------------------------------------------------------------
(* What one router knows, its neighbours come to know, or it is withheld.    *)

\* A router that has not started knows nothing, one that has knows its own links.
OwnLinksFirst ==
    \A r \in Routers :
        /\ status[r] = "init" => \A o \in Routers : networkDB[r][o] = << >>
        /\ status[r] # "init" => networkDB[r][r] = CircuitDB[r]

\* Who sends an LSPDU knows what it says.
SendersKnow ==
    \A r, q \in Routers : \A link \in OwnLinks(r) \intersect OwnLinks(q) :
        r # q => \A o \in Routers : \A e \in ToSet(CircuitDB[o]) :
            Lspdu(o, e) \in ToSet(channel[<<link, q>>]) => e \in ToSet(networkDB[r][o])

Handed(link, r, q, o, e) ==
    \/ e \in ToSet(networkDB[q][o])
    \/ Lspdu(o, e) \in ToSet(channel[<<link, q>>])
    \/ <<r, link, o, e>> \in withheld

\* What a router that is not stuck has learnt of a third one it has handed on.
HandedInv ==
    lost = 0 =>
        \A r, q \in Routers : \A link \in OwnLinks(r) \intersect OwnLinks(q) :
            r # q /\ status[r] # "computing" =>
                \A o \in Routers \ {r, q} : \A e \in ToSet(networkDB[r][o]) :
                    Handed(link, r, q, o, e)

LearningInv == FloodInv /\ OwnLinksFirst /\ SendersKnow

\* What a channel holds after a router has sent over some of its links.
LEMMA SentOverHolds ==
    ASSUME NEW chan, NEW d \in Directions, chan[d] \in Seq(TruePacket),
           NEW packets \in Seq(TruePacket), NEW r, NEW links
    PROVE  /\ d[1] \in links /\ d[2] # r
                 => ToSet(SentOver(chan, r, links, packets)[d]) = ToSet(chan[d]) \union ToSet(packets)
           /\ ~(d[1] \in links /\ d[2] # r) => SentOver(chan, r, links, packets)[d] = chan[d]
PROOF BY Concatenated DEF SentOver

\* An LSPDU and the entry it is about determine each other.
LEMMA LspduIsEntry ==
    ASSUME NEW o \in Routers, NEW e \in ToSet(CircuitDB[o]),
           NEW p \in Routers, NEW f \in ToSet(CircuitDB[p])
    PROVE  Lspdu(o, e) = Lspdu(p, f) <=> o = p /\ e = f
PROOF
<1>1. e \in Entry /\ f \in Entry
  BY CircuitFacts
<1>2. Lspdu(o, e) = Lspdu(p, f) => o = p /\ e.link = f.link /\ e.cost = f.cost
  BY DEF Lspdu
<1>3. QED
  BY <1>1, <1>2 DEF Entry

\* What handleLSPDU does: the entry is known afterwards, the PDU is gone, and if it
\* was news it went over all other links with a HELLO, unless the router is stuck.
LspduHandled(r, link, o, e) ==
    LET d == <<link, r>>
        news == e \notin ToSet(networkDB[r][o])
    IN  /\ d \in Directions
        /\ Lspdu(o, e) \in ToSet(channel[d])
        /\ status[r] = "running"
        /\ networkDB' = [networkDB EXCEPT ![r] = [networkDB[r] EXCEPT ![o] = Updated(@, e)]]
        /\ \A p, q \in Routers :
              ToSet(networkDB'[p][q]) =
                 IF p = r /\ q = o THEN ToSet(networkDB[r][o]) \union {e} ELSE ToSet(networkDB[p][q])
        /\ \A c \in Directions :
              /\ ToSet(channel[c]) \subseteq
                    ToSet(channel'[c]) \union (IF c = d THEN {Lspdu(o, e)} ELSE {})
              /\ ToSet(channel'[c]) \subseteq
                    ToSet(channel[c]) \union
                       (IF c[1] \in ForwardLinks(r, link) /\ c[2] # r THEN {Lspdu(o, e)} ELSE {})
              /\ news /\ status'[r] # "computing" /\ c[1] \in ForwardLinks(r, link) /\ c[2] # r
                    => Lspdu(o, e) \in ToSet(channel'[c])
        /\ \A p \in Routers : status'[p] = status[p] \/ (p = r /\ status'[p] = "computing")
        /\ UNCHANGED <<myLinks, lost>>

LEMMA LspduEffect ==
    ASSUME FloodInv, NEW r \in Routers, NEW link \in OwnLinks(r), HandleLspdu(r, link)
    PROVE  \E o \in Routers : \E e \in ToSet(CircuitDB[o]) : LspduHandled(r, link, o, e)
PROOF
<1> DEFINE d == <<link, r>>
           received == [channel EXCEPT ![d] = Tail(@)]
           pdu == Head(channel[d])
           o == pdu.router
           e == [link |-> pdu.link, cost |-> pdu.cost]
           learnt == [networkDB[r] EXCEPT ![o] = Updated(@, e)]
           sent == SentOver(received, r, ForwardLinks(r, link), <<Forwarded(r, pdu)>>)
<1>1. /\ d \in Directions /\ channel[d] # << >> /\ pdu.type = "LSPDU"
      /\ status[r] = "running"
      /\ UNCHANGED <<myLinks, lost>>
  BY DirectionOf DEF HandleLspdu
<1>2. /\ pdu \in TruePacket /\ o \in Routers /\ e \in ToSet(CircuitDB[o])
      /\ pdu = Lspdu(o, e)
      /\ received \in [Directions -> Seq(TruePacket)]
      /\ channel \in [Directions -> Seq(TruePacket)]
  BY <1>1, ReceivedIsTrue DEF FloodInv
<1>3. networkDB' = [networkDB EXCEPT ![r] = learnt]
  BY DEF HandleLspdu
<1>4. status' = IF Changes(networkDB[r][o], e) /\ ~LoopEnds(learnt, r)
                THEN [status EXCEPT ![r] = "computing"] ELSE status
  BY DEF HandleLspdu
<1>5. channel' = IF Changes(networkDB[r][o], e) /\ LoopEnds(learnt, r) THEN sent ELSE received
  BY DEF HandleLspdu
<1>6. ToSet(channel[d]) = ToSet(received[d]) \union {Lspdu(o, e)}
  BY <1>1, <1>2, HeadAndTail
<1>7. \A c \in Directions : c # d => received[c] = channel[c]
  BY <1>2
<1>8. <<Forwarded(r, pdu)>> = <<Lspdu(o, e)>> /\ <<Lspdu(o, e)>> \in Seq(TruePacket)
  BY <1>2 DEF Forwarded
<1>9. ToSet(<<Lspdu(o, e)>>) = {Lspdu(o, e)}
  BY DEF ToSet
<1>10. ASSUME NEW c \in Directions
       PROVE  /\ c[1] \in ForwardLinks(r, link) /\ c[2] # r
                    => ToSet(sent[c]) = ToSet(received[c]) \union {Lspdu(o, e)}
              /\ ~(c[1] \in ForwardLinks(r, link) /\ c[2] # r) => sent[c] = received[c]
  <2>1. sent = SentOver(received, r, ForwardLinks(r, link), <<Lspdu(o, e)>>)
    BY <1>8
  <2>2. received \in [Directions -> Seq(TruePacket)]
    BY <1>2
  <2> HIDE DEF received, sent, pdu, o, e
  <2> DEFINE packets == <<Lspdu(o, e)>>
             links == ForwardLinks(r, link)
  <2>3. packets \in Seq(TruePacket) /\ ToSet(packets) = {Lspdu(o, e)}
    BY <1>8, <1>9
  <2>4. sent = SentOver(received, r, links, packets)
    BY <2>1
  <2> HIDE DEF packets, links
  <2>5. /\ c[1] \in links /\ c[2] # r
              => ToSet(sent[c]) = ToSet(received[c]) \union ToSet(packets)
        /\ ~(c[1] \in links /\ c[2] # r) => sent[c] = received[c]
    <3>1. packets \in Seq(TruePacket) /\ c \in Directions /\ received[c] \in Seq(TruePacket)
      BY <1>10, <2>2, <2>3
    <3>2. QED
      BY <2>4, <3>1, SentOverHolds
  <2>6. QED
    BY <2>3, <2>5 DEF links
<1> HIDE DEF d, received, pdu, o, e, learnt, sent
<1>11. \A p, q \in Routers :
          networkDB'[p][q] = IF p = r /\ q = o THEN Updated(networkDB[r][o], e) ELSE networkDB[p][q]
  BY <1>2, <1>3 DEF FloodInv, learnt
<1>12. /\ networkDB[r][o] \in Seq(Entry) /\ LinksDiffer(networkDB[r][o])
       /\ ToSet(networkDB[r][o]) \subseteq ToSet(CircuitDB[o])
  BY <1>2 DEF FloodInv, DatabaseIsTrue
<1>13. ToSet(Updated(networkDB[r][o], e)) = ToSet(networkDB[r][o]) \union {e}
  BY <1>2, <1>12, UpdatedKeepsEntries
<1>14. \A p, q \in Routers :
          ToSet(networkDB'[p][q]) =
             IF p = r /\ q = o THEN ToSet(networkDB[r][o]) \union {e} ELSE ToSet(networkDB[p][q])
  BY <1>11, <1>13
<1>15. ASSUME NEW c \in Directions
       PROVE  /\ ToSet(channel[c]) \subseteq
                    ToSet(channel'[c]) \union (IF c = d THEN {Lspdu(o, e)} ELSE {})
              /\ ToSet(channel'[c]) \subseteq
                    ToSet(channel[c]) \union
                       (IF c[1] \in ForwardLinks(r, link) /\ c[2] # r THEN {Lspdu(o, e)} ELSE {})
  <2>1. CASE channel' = sent
    BY <1>6, <1>7, <1>10, <2>1
  <2>2. CASE channel' = received
    BY <1>6, <1>7, <2>2
  <2>3. QED
    BY <1>5, <2>1, <2>2
<1>16. ASSUME NEW c \in Directions, e \notin ToSet(networkDB[r][o]), status'[r] # "computing",
              c[1] \in ForwardLinks(r, link), c[2] # r
       PROVE  Lspdu(o, e) \in ToSet(channel'[c])
  <2>1. Changes(networkDB[r][o], e)
    BY <1>16 DEF Changes
  <2>2. LoopEnds(learnt, r)
    BY <1>4, <1>16, <2>1 DEF FloodInv
  <2>3. QED
    BY <1>5, <1>10, <1>16, <2>1, <2>2
<1>17. \A p \in Routers : status'[p] = status[p] \/ (p = r /\ status'[p] = "computing")
  BY <1>4 DEF FloodInv
<1>18. Lspdu(o, e) \in ToSet(channel[d])
  BY <1>6
<1>19. networkDB' = [networkDB EXCEPT ![r] = [networkDB[r] EXCEPT ![o] = Updated(@, e)]]
  BY <1>3 DEF learnt
<1>20. LspduHandled(r, link, o, e)
  BY <1>1, <1>14, <1>15, <1>16, <1>17, <1>18, <1>19 DEF LspduHandled, d
<1>21. QED
  BY <1>2, <1>20

\* What handleHello does to the channels: the HELLO goes, the own links come.
LEMMA HelloEffect ==
    ASSUME FloodInv, NEW r \in Routers, NEW link \in OwnLinks(r), HandleHello(r, link)
    PROVE  /\ status[r] = "running" /\ UNCHANGED <<status, networkDB, lost>>
           /\ \A c \in Directions :
                 /\ ToSet(channel[c]) \subseteq ToSet(channel'[c]) \union {Hello}
                 /\ ToSet(channel'[c]) \subseteq
                       ToSet(channel[c]) \union
                          (IF c[1] = link /\ c[2] # r
                           THEN {Lspdu(r, e) : e \in ToSet(CircuitDB[r])} ELSE {})
PROOF
<1> DEFINE d == <<link, r>>
           received == [channel EXCEPT ![d] = Tail(@)]
<1>1. /\ d \in Directions /\ channel[d] # << >> /\ Head(channel[d]).type = "HELLO"
      /\ status[r] = "running" /\ UNCHANGED <<status, networkDB, lost>>
      /\ channel' = SentOver(received, r, {link}, OwnPdus(r))
  BY DirectionOf DEF HandleHello
<1>2. /\ Head(channel[d]) \in TruePacket
      /\ received \in [Directions -> Seq(TruePacket)]
      /\ channel \in [Directions -> Seq(TruePacket)]
  BY <1>1, ReceivedIsTrue DEF FloodInv
<1>3. Head(channel[d]) = Hello
  BY <1>1, <1>2 DEF TruePacket
<1>4. ToSet(channel[d]) = ToSet(received[d]) \union {Hello}
  BY <1>1, <1>2, <1>3, HeadAndTail
<1>5. \A c \in Directions : c # d => received[c] = channel[c]
  BY <1>2
<1>6. ToSet(OwnPdus(r)) \subseteq {Lspdu(r, e) : e \in ToSet(CircuitDB[r])}
  BY DEF OwnPdus, ToSet
<1>7. OwnPdus(r) \in Seq(TruePacket)
  BY TruePacketFacts
<1>7a. received \in [Directions -> Seq(TruePacket)]
  BY <1>2
<1>7b. channel' = SentOver(received, r, {link}, OwnPdus(r))
  BY <1>1
<1>8. ASSUME NEW c \in Directions
      PROVE  /\ c[1] = link /\ c[2] # r
                   => ToSet(channel'[c]) = ToSet(received[c]) \union ToSet(OwnPdus(r))
             /\ ~(c[1] = link /\ c[2] # r) => channel'[c] = received[c]
  <2> HIDE DEF received
  <2> DEFINE sent == SentOver(received, r, {link}, OwnPdus(r))
  <2>1. /\ c[1] \in {link} /\ c[2] # r
              => ToSet(sent[c]) = ToSet(received[c]) \union ToSet(OwnPdus(r))
        /\ ~(c[1] \in {link} /\ c[2] # r) => sent[c] = received[c]
    <3>1. received[c] \in Seq(TruePacket)
      BY <1>7a, <1>8
    <3>2. QED
      BY <1>7, <1>8, <3>1, SentOverHolds
  <2> HIDE DEF sent
  <2>2. QED
    BY <1>7b, <2>1 DEF sent
<1> HIDE DEF d, received
<1>9. QED
  BY <1>1, <1>4, <1>5, <1>6, <1>8

\* What recvCircuitDB, updateMyLinks and sendGreetings do.
LEMMA StartEffect ==
    ASSUME FloodInv, OwnLinksFirst, NEW r \in Routers, ReceiveCircuitDB(r)
    PROVE  /\ status[r] = "init" /\ status'[r] = "running"
           /\ \A p \in Routers \ {r} : status'[p] = status[p]
           /\ UNCHANGED <<myLinks, lost>>
           /\ \A p, q \in Routers :
                 networkDB'[p][q] = IF p = r /\ q = r THEN CircuitDB[r] ELSE networkDB[p][q]
           /\ networkDB[r][r] = << >>
           /\ \A c \in Directions :
                 /\ ToSet(channel[c]) \subseteq ToSet(channel'[c])
                 /\ ToSet(channel'[c]) \subseteq ToSet(channel[c]) \union {Hello}
PROOF
<1>1. /\ status[r] = "init" /\ status' = [status EXCEPT ![r] = "running"]
      /\ networkDB' = [networkDB EXCEPT ![r][r] = CircuitDB[r]]
      /\ channel' = SentOver(channel, r, OwnLinks(r), <<Hello>>)
      /\ UNCHANGED <<myLinks, lost>>
  BY DEF ReceiveCircuitDB
<1>2. \A p, q \in Routers :
         networkDB'[p][q] = IF p = r /\ q = r THEN CircuitDB[r] ELSE networkDB[p][q]
  BY <1>1 DEF FloodInv
<1>3. <<Hello>> \in Seq(TruePacket) /\ ToSet(<<Hello>>) = {Hello}
  BY TruePacketFacts DEF ToSet
<1>4. ASSUME NEW c \in Directions
      PROVE  /\ ToSet(channel[c]) \subseteq ToSet(channel'[c])
             /\ ToSet(channel'[c]) \subseteq ToSet(channel[c]) \union {Hello}
  <2> DEFINE packets == <<Hello>>
             links == OwnLinks(r)
  <2>1. channel[c] \in Seq(TruePacket)
    BY <1>4 DEF FloodInv
  <2>2. channel' = SentOver(channel, r, links, packets)
    BY <1>1
  <2>3. packets \in Seq(TruePacket) /\ ToSet(packets) = {Hello}
    BY <1>3
  <2> HIDE DEF packets, links
  <2>4. /\ c[1] \in links /\ c[2] # r => ToSet(channel'[c]) = ToSet(channel[c]) \union ToSet(packets)
        /\ ~(c[1] \in links /\ c[2] # r) => channel'[c] = channel[c]
    <3>1. packets \in Seq(TruePacket)
      BY <2>3
    <3>2. QED
      BY <1>4, <2>1, <2>2, <3>1, SentOverHolds
  <2>5. QED
    BY <2>3, <2>4
<1>5. status'[r] = "running" /\ \A p \in Routers \ {r} : status'[p] = status[p]
  BY <1>1 DEF FloodInv
<1>6. QED
  BY <1>1, <1>2, <1>4, <1>5 DEF OwnLinksFirst

LEMMA OwnLinksFirstNext == FloodInv /\ OwnLinksFirst /\ [Next]_vars => OwnLinksFirst'
PROOF
<1> SUFFICES ASSUME FloodInv, OwnLinksFirst, [Next]_vars PROVE OwnLinksFirst'
  OBVIOUS
<1>1. ASSUME NEW r \in Routers, ReceiveCircuitDB(r)
      PROVE  OwnLinksFirst'
  BY <1>1, StartEffect DEF OwnLinksFirst
<1>2. ASSUME NEW r \in Routers, NEW link \in OwnLinks(r), HandleHello(r, link)
      PROVE  OwnLinksFirst'
  BY <1>2, HelloEffect DEF OwnLinksFirst
<1>3. ASSUME NEW r \in Routers, NEW link \in OwnLinks(r), HandleLspdu(r, link)
      PROVE  OwnLinksFirst'
  <2>1. PICK o \in Routers : \E e \in ToSet(CircuitDB[o]) : LspduHandled(r, link, o, e)
    BY <1>3, LspduEffect
  <2>2. PICK e \in ToSet(CircuitDB[o]) : LspduHandled(r, link, o, e)
    BY <2>1
  <2>3. status[r] = "running" /\ \A p \in Routers : status'[p] = "init" <=> status[p] = "init"
    BY <2>2 DEF LspduHandled
  <2>4. \A p, q \in Routers :
           networkDB'[p][q] = IF p = r /\ q = o THEN Updated(networkDB[r][o], e) ELSE networkDB[p][q]
    BY <2>2 DEF LspduHandled, FloodInv
  <2>5. o = r => Updated(networkDB[r][o], e) = networkDB[r][o]
    <3>1. SUFFICES ASSUME o = r PROVE Updated(networkDB[r][o], e) = networkDB[r][o]
      OBVIOUS
    <3>2. networkDB[r][o] = CircuitDB[o] /\ e \in Entry
      BY <2>3, <3>1, CircuitFacts DEF OwnLinksFirst
    <3>3. ~Changes(networkDB[r][o], e)
      BY <3>2 DEF Changes
    <3>4. networkDB[r][o] \in Seq(Entry) /\ LinksDiffer(networkDB[r][o])
      BY <3>2, CircuitFacts
    <3>5. QED
      BY <3>2, <3>3, <3>4, UpdatedKeepsShape
  <2>6. QED
    BY <2>3, <2>4, <2>5 DEF OwnLinksFirst
<1>4. ASSUME NEW r \in Routers, NEW link \in OwnLinks(r), Lose(r, link)
      PROVE  OwnLinksFirst'
  BY <1>4 DEF Lose, OwnLinksFirst
<1>5. CASE UNCHANGED vars
  BY <1>5 DEF vars, OwnLinksFirst
<1>6. QED
  BY <1>1, <1>2, <1>3, <1>4, <1>5 DEF Next, HandleMessage

LEMMA SendersKnowNext == LearningInv /\ [Next]_vars => SendersKnow'
PROOF
<1> SUFFICES ASSUME LearningInv, [Next]_vars,
                    NEW r \in Routers, NEW q \in Routers, r # q,
                    NEW link \in OwnLinks(r) \intersect OwnLinks(q),
                    NEW o \in Routers, NEW e \in ToSet(CircuitDB[o]),
                    Lspdu(o, e) \in ToSet(channel'[<<link, q>>])
             PROVE  e \in ToSet(networkDB'[r][o])
  BY DEF SendersKnow
<1> DEFINE there == <<link, q>>
<1>1. there \in Directions /\ Lspdu(o, e) # Hello
  BY DirectionOf DEF Lspdu, Hello
<1>2. Lspdu(o, e) \in ToSet(channel[there]) => e \in ToSet(networkDB[r][o])
  BY DEF LearningInv, SendersKnow
<1>3. ASSUME NEW p \in Routers, ReceiveCircuitDB(p)
      PROVE  e \in ToSet(networkDB'[r][o])
  <2>1. Lspdu(o, e) \in ToSet(channel[there])
    BY <1>1, <1>3, StartEffect DEF LearningInv
  <2>2. e \in ToSet(networkDB[r][o])
    BY <1>2, <2>1
  <2>3. networkDB'[r][o] = networkDB[r][o] \/ networkDB'[r][o] = CircuitDB[o]
    BY <1>3, StartEffect DEF LearningInv
  <2>4. QED
    BY <2>2, <2>3
<1>4. ASSUME NEW p \in Routers, NEW l \in OwnLinks(p), HandleHello(p, l)
      PROVE  e \in ToSet(networkDB'[r][o])
  <2>1. /\ status[p] = "running" /\ networkDB' = networkDB
        /\ ToSet(channel'[there]) \subseteq
              ToSet(channel[there]) \union
                 (IF l = link /\ q # p
                  THEN {Lspdu(p, f) : f \in ToSet(CircuitDB[p])} ELSE {})
    BY <1>1, <1>4, HelloEffect DEF LearningInv
  <2>2. CASE Lspdu(o, e) \in ToSet(channel[there])
    BY <1>2, <2>1, <2>2
  <2>3. CASE l = link /\ q # p /\ Lspdu(o, e) \in {Lspdu(p, f) : f \in ToSet(CircuitDB[p])}
    <3>1. PICK f \in ToSet(CircuitDB[p]) : Lspdu(o, e) = Lspdu(p, f)
      BY <2>3
    <3>2. o = p /\ e = f
      BY <3>1, LspduIsEntry
    <3>3. p = r
      BY <2>3, LinkHasTwoEnds
    <3>4. QED
      BY <2>1, <3>2, <3>3 DEF LearningInv, OwnLinksFirst
  <2>4. QED
    BY <2>1, <2>2, <2>3
<1>5. ASSUME NEW p \in Routers, NEW l \in OwnLinks(p), HandleLspdu(p, l)
      PROVE  e \in ToSet(networkDB'[r][o])
  <2>1. PICK ob \in Routers : \E f \in ToSet(CircuitDB[ob]) : LspduHandled(p, l, ob, f)
    BY <1>5, LspduEffect DEF LearningInv
  <2>2. PICK f \in ToSet(CircuitDB[ob]) : LspduHandled(p, l, ob, f)
    BY <2>1
  <2>3. /\ ToSet(networkDB[r][o]) \subseteq ToSet(networkDB'[r][o])
        /\ f \in ToSet(networkDB'[p][ob])
    BY <2>2 DEF LspduHandled
  <2>4. ToSet(channel'[there]) \subseteq
           ToSet(channel[there]) \union
              (IF link \in ForwardLinks(p, l) /\ q # p THEN {Lspdu(ob, f)} ELSE {})
    BY <1>1, <2>2 DEF LspduHandled
  <2>5. CASE Lspdu(o, e) \in ToSet(channel[there])
    BY <1>2, <2>3, <2>5
  <2>6. CASE link \in ForwardLinks(p, l) /\ q # p /\ Lspdu(o, e) = Lspdu(ob, f)
    <3>1. o = ob /\ e = f
      BY <2>6, LspduIsEntry
    <3>2. link \in OwnLinks(p)
      BY <2>6 DEF ForwardLinks
    <3>3. p = r
      BY <2>6, <3>2, LinkHasTwoEnds
    <3>4. QED
      BY <2>3, <3>1, <3>3
  <2>7. QED
    BY <2>4, <2>5, <2>6
<1>6. ASSUME NEW p \in Routers, NEW l \in OwnLinks(p), Lose(p, l)
      PROVE  e \in ToSet(networkDB'[r][o])
  <2> DEFINE d == <<l, p>>
  <2>1. /\ d \in Directions /\ channel[d] # << >> /\ channel' = [channel EXCEPT ![d] = Tail(@)]
        /\ networkDB' = networkDB
    BY <1>6, DirectionOf DEF Lose
  <2>2. channel[d] \in Seq(TruePacket)
    BY <2>1 DEF LearningInv, FloodInv
  <2>3. ToSet(Tail(channel[d])) \subseteq ToSet(channel[d])
    BY <2>1, <2>2, HeadAndTail
  <2> HIDE DEF d
  <2>4. ToSet(channel'[there]) \subseteq ToSet(channel[there])
    BY <1>1, <2>1, <2>3 DEF LearningInv, FloodInv
  <2>5. QED
    BY <1>2, <2>1, <2>4
<1>7. CASE UNCHANGED vars
  BY <1>2, <1>7 DEF vars
<1>8. QED
  BY <1>3, <1>4, <1>5, <1>6, <1>7 DEF Next, HandleMessage

\* Before the answer to INIT a router is silent and everything is as it was.
LEMMA LearningInvariance == Spec => []LearningInv
PROOF
<1>1. Init => LearningInv
  <2> SUFFICES ASSUME Init PROVE LearningInv
    OBVIOUS
  <2>1. OwnLinksFirst
    BY DEF Init, OwnLinksFirst
  <2>2. SendersKnow
    <3>1. \A d \in Directions : ToSet(channel[d]) = {}
      BY DEF Init, ToSet
    <3>2. QED
      BY <3>1, DirectionOf DEF SendersKnow
  <2>3. QED
    BY <2>1, <2>2, FloodInvInit DEF LearningInv
<1>2. LearningInv /\ [Next]_vars => LearningInv'
  BY FloodInvNext, OwnLinksFirstNext, SendersKnowNext DEF LearningInv
<1>3. QED
  BY <1>1, <1>2, PTL DEF Spec

LEMMA HandedInvNext ==
    LearningInv /\ HandedInv /\ [HistoryNext]_historyVars => HandedInv'
PROOF
<1> SUFFICES ASSUME LearningInv, HandedInv, [HistoryNext]_historyVars, lost' = 0,
                    NEW r \in Routers, NEW q \in Routers, r # q,
                    NEW link \in OwnLinks(r) \intersect OwnLinks(q),
                    status'[r] # "computing",
                    NEW o \in Routers \ {r, q}, NEW e \in ToSet(networkDB'[r][o])
             PROVE  Handed(link, r, q, o, e)'
  BY DEF HandedInv
<1> DEFINE there == <<link, q>>
<1>1. there \in Directions /\ FloodInv /\ OwnLinksFirst
  BY DirectionOf DEF LearningInv
<1>2. CASE UNCHANGED historyVars
  BY <1>2 DEF historyVars, vars, HandedInv, Handed
<1>3. ASSUME HistoryNext, lost = 0, status[r] # "computing", e \in ToSet(networkDB[r][o]),
             ToSet(networkDB[q][o]) \subseteq ToSet(networkDB'[q][o]),
             Lspdu(o, e) \in ToSet(channel[there])
                => Lspdu(o, e) \in ToSet(channel'[there]) \/ e \in ToSet(networkDB'[q][o])
      PROVE  Handed(link, r, q, o, e)'
  <2>1. Handed(link, r, q, o, e)
    BY <1>3 DEF HandedInv
  <2>2. withheld \subseteq withheld'
    BY <1>3 DEF HistoryNext
  <2>3. QED
    BY <1>3, <2>1, <2>2 DEF Handed
<1>4. ASSUME HistoryNext, NEW p \in Routers, ReceiveCircuitDB(p)
      PROVE  Handed(link, r, q, o, e)'
  <2>1. lost = 0 /\ status[r] # "computing"
    BY <1>1, <1>4, StartEffect
  <2>2. networkDB'[r][o] = networkDB[r][o]
    BY <1>1, <1>4, StartEffect
  <2>3. networkDB'[q][o] = networkDB[q][o]
    BY <1>1, <1>4, StartEffect
  <2>4. ToSet(channel[there]) \subseteq ToSet(channel'[there])
    BY <1>1, <1>4, StartEffect
  <2>5. QED
    BY <1>3, <1>4, <2>1, <2>2, <2>3, <2>4
<1>5. ASSUME HistoryNext, NEW p \in Routers, NEW l \in OwnLinks(p), HandleHello(p, l)
      PROVE  Handed(link, r, q, o, e)'
  <2>1. UNCHANGED <<status, networkDB, lost>>
    BY <1>1, <1>5, HelloEffect
  <2>2. ToSet(channel[there]) \subseteq ToSet(channel'[there]) \union {Hello}
    BY <1>1, <1>5, HelloEffect
  <2>3. Lspdu(o, e) # Hello
    BY DEF Lspdu, Hello
  <2>4. QED
    BY <1>3, <1>5, <2>1, <2>2, <2>3
<1>6. ASSUME HistoryNext, NEW p \in Routers, NEW l \in OwnLinks(p), HandleLspdu(p, l)
      PROVE  Handed(link, r, q, o, e)'
  <2>1. PICK ob \in Routers : \E f \in ToSet(CircuitDB[ob]) : LspduHandled(p, l, ob, f)
    BY <1>1, <1>6, LspduEffect
  <2>2. PICK f \in ToSet(CircuitDB[ob]) : LspduHandled(p, l, ob, f)
    BY <2>1
  <2>3. /\ lost = 0 /\ status[r] # "computing"
        /\ <<l, p>> \in Directions /\ Lspdu(ob, f) \in ToSet(channel[<<l, p>>])
        /\ \A u, v \in Routers :
              ToSet(networkDB'[u][v]) =
                 IF u = p /\ v = ob THEN ToSet(networkDB[p][ob]) \union {f} ELSE ToSet(networkDB[u][v])
    BY <2>2 DEF LspduHandled
  <2>4. CASE e \in ToSet(networkDB[r][o])
    <3>1. ToSet(networkDB[q][o]) \subseteq ToSet(networkDB'[q][o])
      BY <2>3
    <3>2. ASSUME Lspdu(o, e) \in ToSet(channel[there]), Lspdu(o, e) \notin ToSet(channel'[there])
          PROVE  e \in ToSet(networkDB'[q][o])
      <4>1. /\ ToSet(channel[there]) \subseteq
                  ToSet(channel'[there]) \union (IF there = <<l, p>> THEN {Lspdu(ob, f)} ELSE {})
        BY <1>1, <2>2 DEF LspduHandled
      <4>2. p = q /\ Lspdu(o, e) = Lspdu(ob, f)
        BY <3>2, <4>1
      <4>3. e \in ToSet(CircuitDB[o])
        BY <1>1, <2>4 DEF FloodInv, DatabaseIsTrue
      <4>4. o = ob /\ e = f
        BY <4>2, <4>3, LspduIsEntry
      <4>5. QED
        BY <2>3, <4>2, <4>4
    <3>3. QED
      BY <1>3, <1>6, <2>3, <2>4, <3>1, <3>2
  <2>5. CASE e \notin ToSet(networkDB[r][o])
    <3>1. r = p /\ o = ob /\ e = f
      BY <2>3, <2>5
    <3>2. CASE link \notin myLinks[r]
      <4>1. e \in AllEntries /\ link \in Links /\ e \in ToSet(networkDB'[r][o])
        BY <3>1, DirectionOf DEF AllEntries
      <4>2. <<r, link, o, e>> \in Routers \X Links \X Routers \X AllEntries
        BY <4>1
      <4>3. <<r, link, o, e>> \in NewlyWithheld
        BY <2>5, <3>2, <4>1, <4>2 DEF NewlyWithheld
      <4>4. QED
        BY <1>6, <4>3 DEF HistoryNext, Handed
    <3>3. CASE link = l
      <4>1. link \in OwnLinks(q) \intersect OwnLinks(r)
        OBVIOUS
      <4>2. Lspdu(o, e) \in ToSet(channel[<<link, r>>])
        BY <2>3, <3>1, <3>3
      <4>3. e \in ToSet(networkDB[q][o])
        BY <3>1, <4>1, <4>2 DEF LearningInv, SendersKnow
      <4>4. networkDB'[q][o] = networkDB[q][o]
        BY <1>1, <2>2, <3>1 DEF LspduHandled, FloodInv
      <4>5. QED
        BY <4>3, <4>4 DEF Handed
    <3>4. CASE link \in myLinks[r] /\ link # l
      <4>1. link \in ForwardLinks(r, l)
        BY <3>4 DEF ForwardLinks
      <4>2. there[1] \in ForwardLinks(p, l) /\ there[2] # p
        BY <3>1, <4>1
      <4>3. Lspdu(ob, f) \in ToSet(channel'[there])
        BY <1>1, <2>2, <2>5, <3>1, <4>2 DEF LspduHandled
      <4>4. QED
        BY <3>1, <4>3 DEF Handed
    <3>5. QED
      BY <3>2, <3>3, <3>4
  <2>6. QED
    BY <2>4, <2>5
<1>7. ASSUME NEW p \in Routers, NEW l \in OwnLinks(p), Lose(p, l)
      PROVE  FALSE
  BY <1>1, <1>7 DEF Lose, FloodInv
<1>8. QED
  BY <1>2, <1>4, <1>5, <1>6, <1>7 DEF HistoryNext, Next, HandleMessage

\* On every network, after a flood without loss one of two neighbours knows something
\* the other does not only if it learnt that before the other's HELLO, however many
\* routers forwarded it and in whatever order (router.cpp:346-366, 431-459, 475-495).
THEOREM NeighboursDifferByWithheld == HistorySpec => []NeighboursAgree
PROOF
<1>1. HistoryInit => HandedInv
  BY DEF HistoryInit, Init, HandedInv, ToSet
<1>2. HistorySpec => Spec
  <2>1. HistoryInit => Init
    BY DEF HistoryInit
  <2>2. [HistoryNext]_historyVars => [Next]_vars
    BY DEF HistoryNext, historyVars
  <2>3. QED
    BY <2>1, <2>2, PTL DEF HistorySpec, Spec
<1>3. HistorySpec => []HandedInv
  BY <1>1, <1>2, LearningInvariance, HandedInvNext, PTL DEF HistorySpec
<1>4. LearningInv /\ HandedInv => NeighboursAgree
  <2> SUFFICES ASSUME LearningInv, HandedInv, FloodIsOver, NEW d \in Directions,
                      NEW o \in Routers \ {d[2]},
                      NEW e \in ToSet(networkDB[d[2]][o]) \ ToSet(networkDB[Peer(d[1], d[2])][o])
               PROVE  <<d[2], d[1], o, e>> \in withheld
    BY DEF NeighboursAgree
  <2> DEFINE link == d[1]
             r == d[2]
             q == Peer(link, r)
  <2>1. d = <<link, r>> /\ r \in Routers /\ link \in Links /\ link \in OwnLinks(r)
    BY DEF Directions
  <2>2. \E p \in Routers \ {r} : link \in OwnLinks(p)
    BY <2>1, LinkAssumption
  <2>3. q \in Routers /\ q # r /\ link \in OwnLinks(q)
    BY <2>2 DEF Peer
  <2>4. status[r] = "running" /\ status[q] = "running" /\ lost = 0
    BY <2>1, <2>3 DEF FloodIsOver
  <2>5. o # q
    <3>1. ToSet(networkDB[r][q]) \subseteq ToSet(CircuitDB[q])
      BY <2>1, <2>3 DEF LearningInv, FloodInv, DatabaseIsTrue
    <3>2. networkDB[q][q] = CircuitDB[q]
      BY <2>3, <2>4 DEF LearningInv, OwnLinksFirst
    <3>3. QED
      BY <3>1, <3>2
  <2>6. <<link, q>> \in Directions
    BY <2>3, DirectionOf
  <2>7. ToSet(channel[<<link, q>>]) = {}
    BY <2>6 DEF FloodIsOver, ToSet
  <2> HIDE DEF link, r, q
  <2>8. Handed(link, r, q, o, e)
    BY <2>1, <2>3, <2>4, <2>5 DEF HandedInv, r, q, link
  <2>9. e \notin ToSet(networkDB[q][o])
    BY DEF r, q, link
  <2>10. QED
    BY <2>7, <2>8, <2>9 DEF Handed, r, link
<1>5. QED
  BY <1>2, <1>3, <1>4, LearningInvariance, PTL

\* Module RoutingTable computes what Router does.
LEMMA SameComputation ==
    ASSUME NEW base, NEW source
    PROVE  Table!LoopEnds(base, source) = LoopEnds(base, source)
PROOF
  BY DEF LoopEnds, AllAdded, Computation, AddNearest, Start, Nearest, NoRow, NoRouter, Known,
         Endpoints, EntriesBetween, IsAdjacent, CostForAdjacent, ToSet, Min, Cardinality,
         Table!LoopEnds, Table!AllAdded, Table!Computation, Table!AddNearest, Table!Start,
         Table!Nearest, Table!NoRow, Table!NoRouter, Table!Known, Table!Endpoints,
         Table!EntriesBetween, Table!IsAdjacent, Table!CostForAdjacent, Table!ToSet,
         Table!Min, Table!Cardinality

\* On every network each router's database and computation do what RoutingTable says
\* of a single router, so that what holds there for every order in which entries may
\* be learnt holds in every flood (router.cpp:475-495).
THEOREM TablesFollowRoutingTable == Spec => TableFollows
PROOF
<1>1. Init => Table!TableInit
  BY ObservedAssumption DEF Init, Table!TableInit
<1>2. LearningInv /\ [Next]_vars => [Table!TableNext]_Table!tableVars
  <2> SUFFICES ASSUME LearningInv, [Next]_vars
               PROVE  [Table!TableNext]_Table!tableVars
    OBVIOUS
  <2>1. FloodInv /\ OwnLinksFirst /\ observed \in Routers
    BY ObservedAssumption DEF LearningInv
  <2>2. SUFFICES ASSUME ~UNCHANGED Table!tableVars
                 PROVE  Table!TableNext
    OBVIOUS
  <2>3. ASSUME NEW r \in Routers, ReceiveCircuitDB(r)
        PROVE  Table!TableNext
    <3>1. r = observed
      BY <2>1, <2>2, <2>3 DEF ReceiveCircuitDB, FloodInv, Table!tableVars
    <3>2. /\ networkDB[r][r] = << >>
          /\ status[r] = "init" /\ status'[r] = "running"
      BY <2>1, <2>3, StartEffect
    <3>3. networkDB'[r] = [networkDB[r] EXCEPT ![r] = CircuitDB[r]]
      BY <2>1, <2>3 DEF ReceiveCircuitDB, FloodInv
    <3>4. Table!LearnOwn
      BY <3>1, <3>2, <3>3 DEF Table!LearnOwn
    <3>5. QED
      BY <3>4 DEF Table!TableNext
  <2>4. ASSUME NEW r \in Routers, NEW link \in OwnLinks(r), HandleHello(r, link)
        PROVE  FALSE
    BY <2>1, <2>2, <2>4, HelloEffect DEF Table!tableVars
  <2>5. ASSUME NEW r \in Routers, NEW link \in OwnLinks(r), HandleLspdu(r, link)
        PROVE  Table!TableNext
    <3> DEFINE pdu == Head(channel[<<link, r>>])
               o == pdu.router
               e == [link |-> pdu.link, cost |-> pdu.cost]
               base == [networkDB[r] EXCEPT ![o] = Updated(@, e)]
    <3>1. /\ <<link, r>> \in Directions /\ channel[<<link, r>>] # << >>
          /\ pdu.type = "LSPDU" /\ status[r] = "running"
          /\ networkDB' = [networkDB EXCEPT ![r] = base]
      BY <2>5, DirectionOf DEF HandleLspdu
    <3>2. status' = IF Changes(networkDB[r][o], e) /\ ~LoopEnds(base, r)
                    THEN [status EXCEPT ![r] = "computing"] ELSE status
      BY <2>5 DEF HandleLspdu
    <3>3. o \in Routers /\ e \in ToSet(CircuitDB[o]) /\ e \in Entry
      BY <2>1, <3>1, ReceivedIsTrue
    <3> HIDE DEF pdu, o, e
    <3>4. r = observed
      BY <2>1, <2>2, <3>1, <3>2 DEF FloodInv, Table!tableVars
    <3>5. networkDB'[r] = base
      BY <2>1, <3>1 DEF FloodInv
    <3>6. Changes(networkDB[r][o], e)
      <4>1. SUFFICES ASSUME ~Changes(networkDB[r][o], e) PROVE FALSE
        OBVIOUS
      <4>2. networkDB[r][o] \in Seq(Entry) /\ LinksDiffer(networkDB[r][o])
        BY <2>1, <3>3 DEF FloodInv
      <4>3. Updated(networkDB[r][o], e) = networkDB[r][o]
        BY <3>3, <4>1, <4>2, UpdatedKeepsShape
      <4>4. networkDB'[r] = networkDB[r] /\ status' = status
        BY <2>1, <3>2, <3>3, <3>5, <4>1, <4>3 DEF FloodInv
      <4>5. QED
        BY <2>2, <3>4, <4>4 DEF Table!tableVars
    <3>7. networkDB[r][r] # << >>
      BY <3>1, CircuitAssumption, <2>1 DEF OwnLinksFirst
    <3>8. (status'[r] = "computing") = ~LoopEnds(base, r)
      BY <2>1, <3>1, <3>2, <3>6 DEF FloodInv
    <3>9. /\ Table!Changes(networkDB[r][o], e)
          /\ Table!Updated(networkDB[r][o], e) = Updated(networkDB[r][o], e)
          /\ e \in Table!ToSet(CircuitDB[o])
      BY <3>3, <3>6 DEF Changes, Updated, ToSet, Table!Changes, Table!Updated, Table!ToSet
    <3>10. Table!LoopEnds(base, r) = LoopEnds(base, r)
      BY SameComputation
    <3>11. Table!Learn(o, e)
      BY <3>1, <3>4, <3>5, <3>7, <3>8, <3>9, <3>10 DEF Table!Learn
    <3>12. QED
      BY <3>3, <3>9, <3>11 DEF Table!TableNext
  <2>6. ASSUME NEW r \in Routers, NEW link \in OwnLinks(r), Lose(r, link)
        PROVE  FALSE
    BY <2>2, <2>6 DEF Lose, Table!tableVars
  <2>7. CASE UNCHANGED vars
    BY <2>2, <2>7 DEF vars, Table!tableVars
  <2>8. QED
    BY <2>3, <2>4, <2>5, <2>6, <2>7 DEF Next, HandleMessage
<1>3. QED
  BY <1>1, <1>2, LearningInvariance, PTL DEF Spec, TableFollows, Table!TableSpec

-----------------------------------------------------------------------------
(* Dijkstra's algorithm, on one database.  Of parallel links                 *)
(* getCostForAdjacent takes the first, not the cheapest: what follows is     *)
(* about databases without any.                                              *)

LEMMA LeastElement ==
    ASSUME NEW S \in SUBSET Nat, S # {}
    PROVE  \E x \in S : \A y \in S : x <= y
PROOF
<1> DEFINE R == {e \in Nat \X Nat : e[1] < e[2]}
<1>1. R = OpToRel(<, Nat)
  BY DEF OpToRel
<1>2. IsWellFoundedOn(R, Nat)
  BY <1>1, NatLessThanWellFounded
<1> HIDE DEF R
<1>3. \E x \in S : \A y \in S : ~ (<<y, x>> \in R)
  BY <1>2, WFMin
<1>4. \A x \in S : \A y \in S : ~ (<<y, x>> \in R) => x <= y
  BY DEF R
<1>5. QED
  BY <1>3, <1>4

LEMMA LeastIsMin ==
    ASSUME NEW S \in SUBSET Nat, S # {}
    PROVE  Min(S) \in S /\ \A y \in S : Min(S) <= y
PROOF
<1>1. \E x \in S : \A y \in S : x =< y
  BY LeastElement
<1>2. QED
  BY <1>1 DEF Min

\* All costs are below INFTY, and no two links lead from a router to the same other one.
Good(base) ==
    /\ base \in [Routers -> Seq(Entry)]
    /\ \A u \in Routers : \A e \in ToSet(base[u]) : e.cost < Infty
    /\ \A u, v \in Known(base) : u # v =>
           \A e, f \in ToSet(base[u]) :
               v \in Endpoints(base, e.link) /\ v \in Endpoints(base, f.link) => e = f

LEMMA KnownFacts ==
    ASSUME NEW base
    PROVE  /\ Known(base) \subseteq Routers /\ Known(base) \subseteq Nat \ {0}
           /\ NoRouter \notin Known(base)
           /\ IsFiniteSet(Known(base)) /\ Cardinality(Known(base)) \in Nat
           /\ Infty \in Nat
PROOF
<1>1. Known(base) \in SUBSET Routers
  BY DEF Known
<1>2. IsFiniteSet(Known(base)) /\ Cardinality(Known(base)) \in Nat
  BY <1>1, RoutersAssumption, FS_Subset, FS_CardinalityType
<1>3. NoRouter \notin Nat
  BY DEF NoRouter
<1>4. QED
  BY <1>1, <1>2, <1>3, RoutersAssumption, InftyAssumption

\* The cost that the computation takes from u to v is the only one there is.
LEMMA CostFacts ==
    ASSUME NEW base, Good(base), NEW u \in Known(base), NEW v \in Known(base)
    PROVE  /\ \A k \in LinkCosts(base, u, v) : k \in Nat /\ k < Infty
           /\ IsAdjacent(base, u, v) =>
                  CostForAdjacent(base, u, v) \in LinkCosts(base, u, v)
           /\ u # v => \A k \in LinkCosts(base, u, v) :
                           IsAdjacent(base, u, v) /\ k = CostForAdjacent(base, u, v)
PROOF
<1> DEFINE I == EntriesBetween(base, u, v)
           s == base[u]
<1>1. u \in Routers /\ s \in Seq(Entry)
  BY KnownFacts DEF Good
<1>2. /\ DOMAIN s = 1 .. Len(s) /\ Len(s) \in Nat
      /\ \A i \in DOMAIN s : s[i] \in Entry /\ s[i] \in ToSet(s)
  <2> HIDE DEF s
  <2>1. QED
    BY <1>1 DEF ToSet
<1>3. \A e \in ToSet(s) : \E i \in DOMAIN s : e = s[i]
  BY DEF ToSet
<1>4. \A e \in ToSet(s) : e.cost \in Nat /\ e.cost < Infty
  <2>1. \A e \in ToSet(s) : e.cost \in Nat
    <3> HIDE DEF s
    <3>1. QED
      BY <1>2, <1>3 DEF Entry
  <2>2. QED
    BY <1>1, <2>1 DEF Good
<1>5. \A k \in LinkCosts(base, u, v) :
          \E e \in ToSet(s) : v \in Endpoints(base, e.link) /\ k = e.cost
  BY DEF LinkCosts
<1>6. \A i \in I : i \in DOMAIN s /\ v \in Endpoints(base, s[i].link)
  BY DEF EntriesBetween
<1>7. \A i \in DOMAIN s : v \in Endpoints(base, s[i].link) => i \in I
  BY DEF EntriesBetween
<1>8. \A e \in ToSet(s) : v \in Endpoints(base, e.link) => e.cost \in LinkCosts(base, u, v)
  BY DEF LinkCosts
<1>9. u # v => \A e, f \in ToSet(s) :
          v \in Endpoints(base, e.link) /\ v \in Endpoints(base, f.link) => e = f
  BY DEF Good
<1>10. CostForAdjacent(base, u, v) = s[Min(I)].cost
  BY DEF CostForAdjacent
<1> HIDE DEF I, s
<1>11. I # {} => Min(I) \in I
  <2>1. I \in SUBSET Nat
    BY <1>2, <1>6
  <2>2. QED
    BY <2>1, LeastIsMin
<1>12. IsAdjacent(base, u, v) <=> I # {}
  BY DEF IsAdjacent, I
<1>13. IsAdjacent(base, u, v) => CostForAdjacent(base, u, v) \in LinkCosts(base, u, v)
  BY <1>2, <1>6, <1>8, <1>10, <1>11, <1>12
<1>14. ASSUME u # v, NEW k \in LinkCosts(base, u, v)
       PROVE  IsAdjacent(base, u, v) /\ k = CostForAdjacent(base, u, v)
  <2>1. PICK e \in ToSet(s) : v \in Endpoints(base, e.link) /\ k = e.cost
    BY <1>5
  <2>2. PICK i \in DOMAIN s : e = s[i]
    BY <1>3
  <2>3. i \in I
    BY <1>7, <2>1, <2>2
  <2>4. Min(I) \in DOMAIN s /\ v \in Endpoints(base, s[Min(I)].link) /\ s[Min(I)] \in ToSet(s)
    BY <1>2, <1>6, <1>11, <2>3
  <2>5. e = s[Min(I)]
    BY <1>9, <1>14, <2>1, <2>4
  <2>6. QED
    BY <1>10, <1>12, <2>1, <2>3, <2>5
<1>15. QED
  BY <1>4, <1>5, <1>13, <1>14

-----------------------------------------------------------------------------
(* The reference: walks of at most k hops. *)

FirstWalks(base, source) ==
    {[to |-> v, cost |-> IF v = source THEN 0 ELSE Infty] : v \in Known(base)}

Longer(base, rows, v) ==
    UNION {{w.cost + cost : cost \in LinkCosts(base, w.to, v)} : w \in {w \in rows : w.cost < Infty}}

OneHopMore(base, rows) ==
    {[w EXCEPT !.cost = Min({w.cost} \union Longer(base, rows, w.to))] : w \in rows}

\* walks[k] is what CheapestWalks computes in k steps.
Walking(walks, base, source) ==
    walks = [k \in 0 .. Cardinality(Known(base)) |->
                IF k = 0 THEN FirstWalks(base, source) ELSE OneHopMore(base, walks[k - 1])]

LEMMA WalkingExists ==
    ASSUME NEW base, NEW source
    PROVE  \E walks : /\ Walking(walks, base, source)
                      /\ CheapestWalks(base, source) = walks[Cardinality(Known(base))]
PROOF
<1> DEFINE K == Cardinality(Known(base))
           Value(g, k) == IF k = 0 THEN FirstWalks(base, source) ELSE OneHopMore(base, g[k - 1])
           Has(n) == \E g : \A k \in 0 .. n : g[k] = Value(g, k)
           B == {n \in Nat : ~Has(n)}
<1>1. K \in Nat
  BY KnownFacts
<1> HIDE DEF K
<1>2. Has(0)
  <2> DEFINE g == [k \in Nat |-> FirstWalks(base, source)]
  <2>1. \A k \in 0 .. 0 : g[k] = Value(g, k)
    OBVIOUS
  <2>2. QED
    BY <2>1
<1>3. ASSUME NEW n \in Nat, Has(n) PROVE Has(n + 1)
  <2>1. PICK g : \A k \in 0 .. n : g[k] = Value(g, k)
    BY <1>3
  <2> DEFINE h == [k \in Nat |-> IF k = n + 1 THEN OneHopMore(base, g[n]) ELSE g[k]]
  <2>2. ASSUME NEW k \in 0 .. n + 1 PROVE h[k] = Value(h, k)
    <3>1. CASE k = n + 1
      <4>1. k # 0 /\ k - 1 = n /\ n # n + 1 /\ k \in Nat
        BY <3>1
      <4>2. h[k] = OneHopMore(base, g[n]) /\ h[n] = g[n]
        BY <3>1, <4>1
      <4>3. QED
        BY <4>1, <4>2
    <3>2. CASE k # n + 1
      <4>1. k \in 0 .. n /\ k \in Nat
        BY <3>2
      <4>2. h[k] = g[k] /\ g[k] = Value(g, k)
        BY <2>1, <3>2, <4>1
      <4>3. k # 0 => k - 1 \in Nat /\ k - 1 # n + 1
        BY <4>1
      <4>4. k # 0 => h[k - 1] = g[k - 1]
        BY <4>3
      <4>5. QED
        BY <4>2, <4>4
    <3>3. QED
      BY <3>1, <3>2
  <2> HIDE DEF h
  <2>3. QED
    BY <2>2
<1> HIDE DEF Has
<1>4. B = {}
  <2>1. SUFFICES ASSUME B # {} PROVE FALSE
    OBVIOUS
  <2>2. PICK n \in B : \A m \in B : n <= m
    <3>1. B \in SUBSET Nat
      OBVIOUS
    <3> HIDE DEF B
    <3>2. QED
      BY <2>1, <3>1, LeastElement
  <2>3. n \in Nat /\ n # 0 /\ ~Has(n)
    BY <1>2
  <2>4. n - 1 \in Nat /\ n - 1 \notin B /\ (n - 1) + 1 = n
    BY <2>2, <2>3
  <2>5. Has((n - 1) + 1)
    BY <1>3, <2>4
  <2>6. QED
    BY <2>3, <2>4, <2>5
<1>5. PICK g : \A k \in 0 .. K : g[k] = Value(g, k)
  BY <1>1, <1>4 DEF Has
<1> DEFINE f == [k \in 0 .. K |-> g[k]]
           Step(walks) == [k \in 0 .. K |-> Value(walks, k)]
<1>6. f = Step(f)
  <2>1. ASSUME NEW k \in 0 .. K PROVE f[k] = Value(f, k)
    <3>1. k # 0 => k - 1 \in 0 .. K
      BY <1>1
    <3>2. k # 0 => f[k - 1] = g[k - 1]
      BY <3>1
    <3>3. QED
      BY <1>5, <3>2
  <2> HIDE DEF Value
  <2>2. f = [k \in 0 .. K |-> f[k]]
    OBVIOUS
  <2>3. QED
    BY <2>1, <2>2
<1> DEFINE walks == CHOOSE w : w = Step(w)
<1>7. walks = Step(walks)
  <2> HIDE DEF Step, f
  <2>1. QED
    BY <1>6
<1>8. CheapestWalks(base, source) = walks[K]
  BY DEF CheapestWalks, FirstWalks, OneHopMore, Longer, K
<1>9. Walking(walks, base, source)
  <2> HIDE DEF walks
  <2>1. QED
    BY <1>7 DEF Walking, K
<1>10. QED
  BY <1>8, <1>9 DEF K

WalkRows(base, f) == {[to |-> v, cost |-> f[v]] : v \in Known(base)}

\* g is one hop further than f.
OneHopFurther(base, f, g) ==
    /\ \A v \in Known(base) : g[v] <= f[v]
    /\ \A u, v \in Known(base) :
           f[u] < Infty => \A k \in LinkCosts(base, u, v) : g[v] <= f[u] + k
    /\ \A v \in Known(base) :
           \/ g[v] = f[v]
           \/ \E u \in Known(base) :
                  f[u] < Infty /\ \E k \in LinkCosts(base, u, v) : g[v] = f[u] + k

LEMMA WalkRowsInjective ==
    ASSUME NEW base, NEW f \in [Known(base) -> 0 .. Infty], NEW g \in [Known(base) -> 0 .. Infty],
           WalkRows(base, f) = WalkRows(base, g)
    PROVE  f = g
PROOF
<1>1. ASSUME NEW v \in Known(base) PROVE f[v] = g[v]
  <2> DEFINE row == [to |-> v, cost |-> f[v]]
  <2>1. row \in WalkRows(base, f)
    BY DEF WalkRows
  <2>2. PICK u \in Known(base) : row = [to |-> u, cost |-> g[u]]
    BY <2>1 DEF WalkRows
  <2>3. row.to = v /\ row.cost = f[v]
    OBVIOUS
  <2>4. row.to = u /\ row.cost = g[u]
    BY <2>2
  <2>5. QED
    BY <2>3, <2>4
<1>2. QED
  BY <1>1

LEMMA OneHopMoreRows ==
    ASSUME NEW base, Good(base), NEW f \in [Known(base) -> 0 .. Infty]
    PROVE  \E g \in [Known(base) -> 0 .. Infty] :
               OneHopMore(base, WalkRows(base, f)) = WalkRows(base, g) /\ OneHopFurther(base, f, g)
PROOF
<1> DEFINE V == Known(base)
           rows == WalkRows(base, f)
           row(v) == [to |-> v, cost |-> f[v]]
           C(v) == {f[v]} \union Longer(base, rows, v)
           g == [v \in V |-> Min(C(v))]
<1>1. \A v \in V : f[v] \in Nat /\ f[v] <= Infty
  BY KnownFacts
<1>2. \A u, v \in V : \A k \in LinkCosts(base, u, v) : k \in Nat
  BY CostFacts
<1>3. ASSUME NEW v \in V, NEW y
      PROVE  y \in Longer(base, rows, v) <=>
                 \E u \in V : f[u] < Infty /\ \E k \in LinkCosts(base, u, v) : y = f[u] + k
  <2>1. \A w \in rows : \E u \in V : w = row(u)
    BY DEF WalkRows
  <2>2. \A u \in V : row(u) \in rows
    BY DEF WalkRows
  <2>3. \A u \in V : row(u).to = u /\ row(u).cost = f[u]
    OBVIOUS
  <2>4. y \in Longer(base, rows, v) <=>
            \E w \in rows : w.cost < Infty /\ \E k \in LinkCosts(base, w.to, v) : y = w.cost + k
    <3> HIDE DEF rows
    <3>1. QED
      BY DEF Longer
  <2> HIDE DEF rows, row
  <2>5. QED
    BY <1>3, <2>1, <2>2, <2>3, <2>4
<1>4. ASSUME NEW v \in V
      PROVE  /\ g[v] \in Nat /\ g[v] <= Infty /\ g[v] <= f[v]
             /\ g[v] \in C(v) /\ \A y \in C(v) : g[v] <= y
  <2>1. \A y \in Longer(base, rows, v) : y \in Nat
    BY <1>1, <1>2, <1>3
  <2>2. C(v) \in SUBSET Nat /\ C(v) # {} /\ f[v] \in C(v)
    BY <1>1, <1>4, <2>1
  <2> HIDE DEF C
  <2>3. g[v] = Min(C(v))
    BY <1>4
  <2>4. g[v] \in C(v) /\ \A y \in C(v) : g[v] <= y
    BY <2>2, <2>3, LeastIsMin
  <2> HIDE DEF g
  <2>5. QED
    BY <1>1, <1>4, <2>2, <2>4, KnownFacts
<1>5. OneHopMore(base, rows) = WalkRows(base, g)
  <2> DEFINE F(w) == [w EXCEPT !.cost = Min({w.cost} \union Longer(base, rows, w.to))]
             new(v) == [to |-> v, cost |-> g[v]]
  <2>1. \A v \in V : F(row(v)) = new(v)
    OBVIOUS
  <2>2. OneHopMore(base, rows) = {F(w) : w \in rows}
    BY DEF OneHopMore
  <2>3. rows = {row(v) : v \in V}
    BY DEF WalkRows
  <2>4. WalkRows(base, g) = {new(v) : v \in V}
    BY DEF WalkRows
  <2> HIDE DEF F, row, new, rows, V
  <2>5. {F(w) : w \in {row(v) : v \in V}} = {F(row(v)) : v \in V}
    OBVIOUS
  <2>6. {F(row(v)) : v \in V} = {new(v) : v \in V}
    BY <2>1
  <2>7. QED
    BY <2>2, <2>3, <2>4, <2>5, <2>6
<1>6. OneHopFurther(base, f, g)
  <2>1. ASSUME NEW u \in V, NEW v \in V, f[u] < Infty, NEW k \in LinkCosts(base, u, v)
        PROVE  g[v] <= f[u] + k
    <3>1. f[u] + k \in Longer(base, rows, v)
      BY <1>3, <2>1
    <3> HIDE DEF g
    <3>2. QED
      BY <1>4, <3>1
  <2>2. ASSUME NEW v \in V
        PROVE  \/ g[v] = f[v]
               \/ \E u \in V : f[u] < Infty /\ \E k \in LinkCosts(base, u, v) : g[v] = f[u] + k
    <3> HIDE DEF g
    <3>1. g[v] = f[v] \/ g[v] \in Longer(base, rows, v)
      BY <1>4
    <3>2. QED
      BY <1>3, <3>1
  <2> HIDE DEF g
  <2>3. QED
    BY <1>4, <2>1, <2>2 DEF OneHopFurther
<1>7. g \in [V -> 0 .. Infty]
  <2>1. \A v \in V : g[v] \in 0 .. Infty
    <3> HIDE DEF g
    <3>1. QED
      BY <1>4, KnownFacts
  <2>2. QED
    BY <2>1
<1>8. QED
  <2> HIDE DEF g
  <2>1. QED
    BY <1>5, <1>6, <1>7

\* What the steps of CheapestWalks compute: W[k][v] is the cost of the cheapest
\* walk of at most k hops.
WalkTable(W, base, source) ==
    /\ \A k \in 0 .. Cardinality(Known(base)) : W[k] \in [Known(base) -> 0 .. Infty]
    /\ \A v \in Known(base) : W[0][v] = IF v = source THEN 0 ELSE Infty
    /\ \A k \in 0 .. Cardinality(Known(base)) : k # 0 => OneHopFurther(base, W[k - 1], W[k])
    /\ CheapestWalks(base, source) = WalkRows(base, W[Cardinality(Known(base))])

LEMMA WalkTableExists ==
    ASSUME NEW base, Good(base), NEW source
    PROVE  \E W : WalkTable(W, base, source)
PROOF
<1> DEFINE K == Cardinality(Known(base))
           F == [Known(base) -> 0 .. Infty]
           f0 == [v \in Known(base) |-> IF v = source THEN 0 ELSE Infty]
<1>1. K \in Nat
  BY KnownFacts
<1>2. PICK walks : Walking(walks, base, source) /\ CheapestWalks(base, source) = walks[K]
  BY WalkingExists
<1> DEFINE W == [k \in 0 .. K |-> CHOOSE f \in F : walks[k] = WalkRows(base, f)]
           B == {k \in 0 .. K : ~ \E f \in F : walks[k] = WalkRows(base, f)}
<1>3. walks[0] = WalkRows(base, f0) /\ f0 \in F
  <2>1. f0 \in F
    BY KnownFacts
  <2>2. 0 \in 0 .. K
    BY <1>1
  <2>3. walks[0] = FirstWalks(base, source)
    <3> HIDE DEF K
    <3>1. QED
      BY <1>2, <2>2 DEF Walking, K
  <2>4. FirstWalks(base, source) = WalkRows(base, f0)
    BY DEF FirstWalks, WalkRows
  <2>5. QED
    BY <2>1, <2>3, <2>4
<1>4. \A k \in 0 .. K : k # 0 => k - 1 \in 0 .. K /\ walks[k] = OneHopMore(base, walks[k - 1])
  <2>1. \A k \in 0 .. K : k # 0 => k - 1 \in 0 .. K
    BY <1>1
  <2>2. \A k \in 0 .. K : k # 0 => walks[k] = OneHopMore(base, walks[k - 1])
    BY <1>2 DEF Walking
  <2>3. QED
    BY <2>1, <2>2
<1> HIDE DEF K
<1>5. B = {}
  <2>1. SUFFICES ASSUME B # {} PROVE FALSE
    OBVIOUS
  <2>2. PICK n \in B : \A m \in B : n <= m
    <3>1. B \in SUBSET Nat
      BY <1>1
    <3> HIDE DEF B
    <3>2. QED
      BY <2>1, <3>1, LeastElement
  <2>3. n \in 0 .. K /\ n # 0 /\ ~ \E f \in F : walks[n] = WalkRows(base, f)
    BY <1>3
  <2>4. n - 1 \in 0 .. K /\ n - 1 \notin B
    <3>1. n - 1 \in 0 .. K /\ ~(n <= n - 1)
      BY <1>1, <2>3
    <3> HIDE DEF B
    <3>2. QED
      BY <2>2, <3>1
  <2>5. PICK f \in F : walks[n - 1] = WalkRows(base, f)
    BY <2>4
  <2>6. QED
    BY <1>4, <2>3, <2>5, OneHopMoreRows
<1>6. ASSUME NEW k \in 0 .. K PROVE W[k] \in F /\ walks[k] = WalkRows(base, W[k])
  <2>1. \E f \in F : walks[k] = WalkRows(base, f)
    BY <1>5
  <2> HIDE DEF F
  <2>2. QED
    BY <2>1
<1> HIDE DEF W
<1>7. ASSUME NEW k \in 0 .. K, k # 0 PROVE OneHopFurther(base, W[k - 1], W[k])
  <2>1. k - 1 \in 0 .. K /\ walks[k] = OneHopMore(base, walks[k - 1])
    BY <1>4, <1>7
  <2>2. W[k - 1] \in F /\ walks[k - 1] = WalkRows(base, W[k - 1])
    BY <1>6, <2>1
  <2>3. PICK g \in F : walks[k] = WalkRows(base, g) /\ OneHopFurther(base, W[k - 1], g)
    BY <2>1, <2>2, OneHopMoreRows
  <2>4. W[k] \in F /\ walks[k] = WalkRows(base, W[k])
    BY <1>6
  <2>5. g = W[k]
    BY <2>3, <2>4, WalkRowsInjective
  <2>6. QED
    BY <2>3, <2>5
<1>8. \A v \in Known(base) : W[0][v] = IF v = source THEN 0 ELSE Infty
  <2>1. 0 \in 0 .. K
    BY <1>1
  <2>2. W[0] \in F /\ WalkRows(base, W[0]) = WalkRows(base, f0)
    BY <1>3, <1>6, <2>1
  <2>3. W[0] = f0
    BY <1>3, <2>2, WalkRowsInjective
  <2>4. QED
    BY <2>3
<1>9. CheapestWalks(base, source) = WalkRows(base, W[K])
  <2>1. K \in 0 .. K
    BY <1>1
  <2>2. QED
    BY <1>2, <1>6, <2>1
<1>10. WalkTable(W, base, source)
  BY <1>6, <1>7, <1>8, <1>9 DEF WalkTable, K
<1>11. QED
  BY <1>10

CheapestBy(base, source) == CHOOSE W : WalkTable(W, base, source)

LEMMA CheapestByFacts ==
    ASSUME NEW base, Good(base), NEW source
    PROVE  /\ WalkTable(CheapestBy(base, source), base, source)
           /\ \A k \in 0 .. Cardinality(Known(base)) : \A v \in Known(base) :
                  /\ CheapestBy(base, source)[k][v] \in Nat
                  /\ CheapestBy(base, source)[k][v] <= Infty
PROOF
<1> DEFINE W == CheapestBy(base, source)
<1>1. WalkTable(W, base, source)
  BY WalkTableExists DEF CheapestBy
<1> HIDE DEF W
<1>2. \A k \in 0 .. Cardinality(Known(base)) : W[k] \in [Known(base) -> 0 .. Infty]
  BY <1>1 DEF WalkTable
<1>3. \A k \in 0 .. Cardinality(Known(base)) : \A v \in Known(base) : W[k][v] \in 0 .. Infty
  BY <1>2
<1>4. \A k \in 0 .. Cardinality(Known(base)) : \A v \in Known(base) :
          W[k][v] \in Nat /\ W[k][v] <= Infty
  BY <1>3, InftyAssumption
<1>5. QED
  BY <1>1, <1>4 DEF W

LEMMA CheapestWalkIs ==
    ASSUME NEW base, Good(base), NEW source, NEW v \in Known(base)
    PROVE  CheapestWalk(base, source, v)
               = CheapestBy(base, source)[Cardinality(Known(base))][v]
PROOF
<1> DEFINE f == CheapestBy(base, source)[Cardinality(Known(base))]
           rows == CheapestWalks(base, source)
           row(u) == [to |-> u, cost |-> f[u]]
<1>1. rows = WalkRows(base, f)
  BY CheapestByFacts DEF WalkTable
<1>2. CheapestWalk(base, source, v) = (CHOOSE w \in rows : w.to = v).cost
  BY DEF CheapestWalk
<1> HIDE DEF f, rows
<1>3. row(v) \in rows /\ row(v).to = v
  BY <1>1 DEF WalkRows
<1>4. \A w \in rows : w.to = v => w.cost = f[v]
  <2>1. ASSUME NEW w \in rows, w.to = v PROVE w.cost = f[v]
    <3>1. PICK u \in Known(base) : w = row(u)
      BY <1>1, <2>1 DEF WalkRows
    <3>2. w.to = u /\ w.cost = f[u]
      BY <3>1
    <3>3. QED
      BY <2>1, <3>2
  <2>2. QED
    BY <2>1
<1> HIDE DEF row
<1>5. \E w \in rows : w.to = v
  BY <1>3
<1>6. CheapestWalk(base, source, v) = f[v]
  BY <1>2, <1>4, <1>5
<1>7. QED
  BY <1>6 DEF f

\* More hops never cost more.
LEMMA MoreHops ==
    ASSUME NEW base, Good(base), NEW source, NEW v \in Known(base),
           NEW k \in 0 .. Cardinality(Known(base))
    PROVE  \A m \in 0 .. Cardinality(Known(base)) :
               k <= m => CheapestBy(base, source)[m][v] <= CheapestBy(base, source)[k][v]
PROOF
<1> DEFINE K == Cardinality(Known(base))
           W == CheapestBy(base, source)
           B == {m \in 0 .. K : k <= m /\ ~(W[m][v] <= W[k][v])}
<1>1. K \in Nat
  BY KnownFacts
<1>2. \A m \in 0 .. K : W[m][v] \in Nat
  BY CheapestByFacts
<1>3. \A m \in 0 .. K : m # 0 => W[m][v] <= W[m - 1][v]
  BY CheapestByFacts DEF WalkTable, OneHopFurther
<1>4. k \in 0 .. K
  OBVIOUS
<1> HIDE DEF K, W
<1>5. B = {}
  <2>1. SUFFICES ASSUME B # {} PROVE FALSE
    OBVIOUS
  <2>2. PICK n \in B : \A m \in B : n <= m
    <3>1. B \in SUBSET Nat
      BY <1>1
    <3> HIDE DEF B
    <3>2. QED
      BY <2>1, <3>1, LeastElement
  <2>3. n \in 0 .. K /\ k <= n /\ ~(W[n][v] <= W[k][v])
    OBVIOUS
  <2>4. n # k
    BY <1>2, <2>3
  <2>5. n # 0 /\ n - 1 \in 0 .. K /\ k <= n - 1 /\ ~(n <= n - 1)
    BY <1>1, <1>4, <2>3, <2>4
  <2>6. n - 1 \notin B
    <3> HIDE DEF B
    <3>1. QED
      BY <2>2, <2>5
  <2>7. W[n - 1][v] <= W[k][v]
    BY <2>5, <2>6
  <2>8. W[n][v] <= W[n - 1][v]
    BY <1>3, <2>3, <2>5
  <2>9. W[n][v] \in Nat /\ W[n - 1][v] \in Nat /\ W[k][v] \in Nat
    BY <1>2, <1>4, <2>3, <2>5
  <2>10. QED
    BY <2>3, <2>7, <2>8, <2>9
<1>6. QED
  BY <1>2, <1>4, <1>5 DEF K, W

\* Costs that no link can lower are at most those of the walks.
LEMMA NoWalkIsCheaper ==
    ASSUME NEW base, Good(base), NEW source \in Known(base),
           NEW p,
           \A v \in Known(base) : p[v] \in Nat /\ p[v] <= Infty,
           \A u, v \in Known(base) :
               p[u] < Infty => \A c \in LinkCosts(base, u, v) : p[v] <= p[u] + c
    PROVE  \A k \in 0 .. Cardinality(Known(base)) : \A v \in Known(base) :
               p[v] <= p[source] + CheapestBy(base, source)[k][v]
PROOF
<1> DEFINE K == Cardinality(Known(base))
           V == Known(base)
           W == CheapestBy(base, source)
           B == {k \in 0 .. K : \E v \in V : ~(p[v] <= p[source] + W[k][v])}
<1>1. K \in Nat /\ Infty \in Nat
  BY KnownFacts
<1>2. \A k \in 0 .. K : \A v \in V : W[k][v] \in Nat
  BY CheapestByFacts
<1>3. \A v \in V : W[0][v] = IF v = source THEN 0 ELSE Infty
  BY CheapestByFacts DEF WalkTable
<1>4. \A k \in 0 .. K : k # 0 => \A v \in V :
          \/ W[k][v] = W[k - 1][v]
          \/ \E u \in V : /\ W[k - 1][u] < Infty
                          /\ \E c \in LinkCosts(base, u, v) : W[k][v] = W[k - 1][u] + c
  BY CheapestByFacts DEF WalkTable, OneHopFurther
<1>5. \A u, v \in V : \A c \in LinkCosts(base, u, v) : c \in Nat
  BY CostFacts
<1>6. \A v \in V : p[v] \in Nat /\ p[v] <= Infty
  OBVIOUS
<1>7. \A u, v \in V : p[u] < Infty => \A c \in LinkCosts(base, u, v) : p[v] <= p[u] + c
  OBVIOUS
<1>8. source \in V
  OBVIOUS
<1> HIDE DEF K, W, V
<1>9. B = {}
  <2>1. SUFFICES ASSUME B # {} PROVE FALSE
    OBVIOUS
  <2>2. PICK n \in B : \A m \in B : n <= m
    <3>1. B \in SUBSET Nat
      BY <1>1
    <3> HIDE DEF B
    <3>2. QED
      BY <2>1, <3>1, LeastElement
  <2>3. n \in 0 .. K /\ \E v \in V : ~(p[v] <= p[source] + W[n][v])
    OBVIOUS
  <2>4. PICK v \in V : ~(p[v] <= p[source] + W[n][v])
    BY <2>3
  <2>5. p[v] \in Nat /\ p[source] \in Nat /\ p[v] <= Infty
    BY <1>6, <1>8, <2>4
  <2>6. n # 0
    BY <1>1, <1>3, <2>4, <2>5
  <2>7. n - 1 \in 0 .. K /\ ~(n <= n - 1)
    BY <1>1, <2>3, <2>6
  <2>8. n - 1 \notin B
    <3> HIDE DEF B
    <3>1. QED
      BY <2>2, <2>7
  <2>9. \A u \in V : p[u] <= p[source] + W[n - 1][u]
    BY <2>7, <2>8
  <2>10. PICK u \in V : /\ W[n - 1][u] < Infty
                        /\ \E c \in LinkCosts(base, u, v) : W[n][v] = W[n - 1][u] + c
    <3>1. W[n][v] # W[n - 1][v]
      BY <2>4, <2>9
    <3>2. QED
      BY <1>4, <2>3, <2>4, <2>6, <3>1
  <2>11. PICK c \in LinkCosts(base, u, v) : W[n][v] = W[n - 1][u] + c
    BY <2>10
  <2>12. c \in Nat /\ p[u] \in Nat /\ p[u] <= Infty /\ W[n - 1][u] \in Nat
    BY <1>2, <1>5, <1>6, <2>4, <2>7, <2>10, <2>11
  <2>13. p[u] <= p[source] + W[n - 1][u]
    BY <2>9, <2>10
  <2>14. p[u] < Infty => p[v] <= p[u] + c
    BY <1>7, <2>4, <2>10, <2>11
  <2>15. QED
    <3> DEFINE a == W[n - 1][u]
               b == W[n][v]
               x == p[u]
               y == p[v]
               z == p[source]
    <3>1. /\ a \in Nat /\ x \in Nat /\ y \in Nat /\ z \in Nat /\ c \in Nat
          /\ ~(y <= z + b) /\ b = a + c /\ x <= z + a /\ x <= Infty /\ y <= Infty
          /\ x < Infty => y <= x + c
      BY <2>4, <2>5, <2>11, <2>12, <2>13, <2>14
    <3> HIDE DEF a, b, x, y, z
    <3>2. QED
      BY <1>1, <3>1
<1>10. QED
  BY <1>9 DEF K, W, V

-----------------------------------------------------------------------------
(* A round of the loop, with D as two functions: x for via and d for cost. *)

DistanceRows(base, x, d) == {[to |-> v, via |-> x[v], cost |-> d[v]] : v \in Known(base)}

LEMMA NearestIsLeast ==
    ASSUME NEW base, NEW c, NEW d, NEW x,
           c.D = DistanceRows(base, x, d), \A v \in Known(base) : d[v] \in Nat
    PROVE  \/ /\ Nearest(c) = NoRow
              /\ \A v \in Known(base) \ c.N : ~(d[v] < Infty)
           \/ \E u \in Known(base) \ c.N :
                  /\ Nearest(c) = [to |-> u, via |-> x[u], cost |-> d[u]]
                  /\ d[u] < Infty
                  /\ \A v \in Known(base) \ c.N : d[v] < Infty => d[u] <= d[v]
PROOF
<1> DEFINE V == Known(base)
           row(v) == [to |-> v, via |-> x[v], cost |-> d[v]]
           R == {e \in c.D : e.to \notin c.N /\ e.cost < Infty}
           U == {v \in V : v \notin c.N /\ d[v] < Infty}
           Before(e, f) == e.cost < f.cost \/ (e.cost = f.cost /\ e.to <= f.to)
           best == CHOOSE e \in R : \A f \in R : Before(e, f)
<1>1. Nearest(c) = IF R = {} THEN NoRow ELSE best
  BY DEF Nearest
<1>2. V \subseteq Nat
  BY KnownFacts
<1>3. \A v \in V : row(v).to = v /\ row(v).cost = d[v]
  OBVIOUS
<1>4. \A e \in R : \E v \in U : e = row(v)
  <2>1. \A e \in c.D : \E v \in V : e = row(v)
    BY DEF DistanceRows
  <2> HIDE DEF row
  <2>2. QED
    BY <1>3, <2>1
<1>5. \A v \in U : row(v) \in R
  <2>1. \A v \in V : row(v) \in c.D
    BY DEF DistanceRows
  <2> HIDE DEF row
  <2>2. QED
    BY <1>3, <2>1
<1>6. CASE R = {}
  <2>1. U = {}
    <3> HIDE DEF U, R
    <3>1. QED
      BY <1>5, <1>6
  <2>2. \A v \in V \ c.N : ~(d[v] < Infty)
    BY <2>1
  <2>3. QED
    BY <1>1, <1>6, <2>2
<1>7. CASE R # {}
  <2>1. U # {}
    <3> HIDE DEF U, R
    <3>1. QED
      BY <1>4, <1>7
  <2>2. PICK least \in U : \A v \in U : d[least] <= d[v]
    <3> DEFINE S == {d[v] : v \in U}
    <3>1. S \in SUBSET Nat /\ S # {}
      BY <2>1
    <3> HIDE DEF S
    <3>2. PICK a \in S : \A b \in S : a <= b
      BY <3>1, LeastElement
    <3>3. QED
      BY <3>2 DEF S
  <2>3. PICK u \in U : d[u] = d[least] /\ \A v \in U : d[v] = d[least] => u <= v
    <3> DEFINE S == {v \in U : d[v] = d[least]}
    <3>1. S \in SUBSET Nat /\ S # {}
      BY <1>2, <2>2
    <3> HIDE DEF S
    <3>2. PICK a \in S : \A b \in S : a <= b
      BY <3>1, LeastElement
    <3>3. QED
      BY <3>2 DEF S
  <2>4. \A v \in U : d[v] \in Nat
    OBVIOUS
  <2> HIDE DEF row, R
  <2>5. \A v \in U : Before(row(u), row(v))
    <3>1. ASSUME NEW v \in U PROVE Before(row(u), row(v))
      <4>1. /\ row(u).to = u /\ row(u).cost = d[u] /\ row(v).to = v /\ row(v).cost = d[v]
            /\ d[u] \in Nat /\ d[v] \in Nat
        BY <1>3, <2>4, <3>1
      <4>2. d[u] <= d[v] /\ (d[v] = d[u] => u <= v)
        BY <2>2, <2>3, <3>1
      <4> HIDE DEF U
      <4>3. QED
        BY <4>1, <4>2
    <3>2. QED
      BY <3>1
  <2> HIDE DEF U, Before
  <2>6. row(u) \in R /\ \A f \in R : Before(row(u), f)
    BY <1>4, <1>5, <2>3, <2>5
  <2>7. best \in R /\ \A f \in R : Before(best, f)
    BY <2>6
  <2>8. PICK w \in U : best = row(w)
    BY <1>4, <2>7
  <2>9. w \in V /\ w \notin c.N /\ d[w] < Infty
    BY <2>8 DEF U
  <2>10. ASSUME NEW v \in U PROVE d[w] <= d[v]
    <3>1. Before(row(w), row(v))
      BY <1>5, <2>7, <2>8, <2>10
    <3>2. row(w).cost = d[w] /\ row(v).cost = d[v] /\ d[w] \in Nat /\ d[v] \in Nat
      BY <1>3, <2>4, <2>8, <2>10 DEF U
    <3>3. QED
      BY <3>1, <3>2 DEF Before
  <2>11. \A v \in V \ c.N : d[v] < Infty => d[w] <= d[v]
    BY <2>10 DEF U
  <2>12. Nearest(c) = row(w)
    BY <1>1, <1>7, <2>8
  <2>13. QED
    BY <2>9, <2>11, <2>12 DEF row
<1>8. QED
  BY <1>6, <1>7

\* What a round does that adds u.
LEMMA RoundAdds ==
    ASSUME NEW base, NEW c, NEW d, NEW x, c.D = DistanceRows(base, x, d),
           NEW u \in Known(base), Nearest(c) = [to |-> u, via |-> x[u], cost |-> d[u]]
    PROVE  \E d1, x1 :
               /\ AddNearest(base, c).N = c.N \union {u}
               /\ AddNearest(base, c).D = DistanceRows(base, x1, d1)
               /\ \A v \in Known(base) :
                      \/ /\ v \notin c.N \union {u} /\ IsAdjacent(base, u, v)
                         /\ d[u] + CostForAdjacent(base, u, v) < d[v]
                         /\ d1[v] = d[u] + CostForAdjacent(base, u, v) /\ x1[v] = x[u]
                      \/ /\ v \in c.N \union {u} \/ ~IsAdjacent(base, u, v)
                                 \/ ~(d[u] + CostForAdjacent(base, u, v) < d[v])
                         /\ d1[v] = d[v] /\ x1[v] = x[v]
PROOF
<1> DEFINE V == Known(base)
           w == Nearest(c)
           N == c.N \union {u}
           row(v) == [to |-> v, via |-> x[v], cost |-> d[v]]
           Nearer(v) == v \notin N /\ IsAdjacent(base, u, v)
                            /\ d[u] + CostForAdjacent(base, u, v) < d[v]
           d1 == [v \in V |-> IF Nearer(v) THEN d[u] + CostForAdjacent(base, u, v) ELSE d[v]]
           x1 == [v \in V |-> IF Nearer(v) THEN x[u] ELSE x[v]]
           New(e) == IF e.to \notin N /\ IsAdjacent(base, u, e.to)
                                /\ d[u] + CostForAdjacent(base, u, e.to) < e.cost
                     THEN [to |-> e.to, via |-> x[u], cost |-> d[u] + CostForAdjacent(base, u, e.to)]
                     ELSE e
           row1(v) == [to |-> v, via |-> x1[v], cost |-> d1[v]]
<1>1. w.to = u /\ w.via = x[u] /\ w.cost = d[u]
  OBVIOUS
<1>2. AddNearest(base, c).N = N /\ AddNearest(base, c).D = {New(e) : e \in c.D}
  BY <1>1 DEF AddNearest
<1>3. \A v \in V : New(row(v)) = row1(v)
  OBVIOUS
<1>4. c.D = {row(v) : v \in V} /\ DistanceRows(base, x1, d1) = {row1(v) : v \in V}
  BY DEF DistanceRows
<1>5. AddNearest(base, c).D = DistanceRows(base, x1, d1)
  <2> HIDE DEF New, row, row1, V, x1, d1
  <2>1. {New(e) : e \in {row(v) : v \in V}} = {New(row(v)) : v \in V}
    OBVIOUS
  <2>2. {New(row(v)) : v \in V} = {row1(v) : v \in V}
    BY <1>3
  <2>3. QED
    BY <1>2, <1>4, <2>1, <2>2
<1>6. ASSUME NEW v \in V
      PROVE  \/ /\ v \notin c.N \union {u} /\ IsAdjacent(base, u, v)
                /\ d[u] + CostForAdjacent(base, u, v) < d[v]
                /\ d1[v] = d[u] + CostForAdjacent(base, u, v) /\ x1[v] = x[u]
             \/ /\ v \in c.N \union {u} \/ ~IsAdjacent(base, u, v)
                        \/ ~(d[u] + CostForAdjacent(base, u, v) < d[v])
                /\ d1[v] = d[v] /\ x1[v] = x[v]
  <2>1. CASE Nearer(v)
    BY <2>1
  <2>2. CASE ~Nearer(v)
    BY <2>2
  <2>3. QED
    BY <2>1, <2>2
<1>7. QED
  <2> HIDE DEF d1, x1
  <2>1. QED
    BY <1>2, <1>5, <1>6

\* A round that finds no router within reach adds -1 and changes no distance.
LEMMA RoundAddsNone ==
    ASSUME NEW base, NEW c, NEW d, NEW x, c.D = DistanceRows(base, x, d), Nearest(c) = NoRow
    PROVE  AddNearest(base, c).N = c.N \union {NoRouter} /\ AddNearest(base, c).D = c.D
PROOF
<1> DEFINE New(e) == IF e.to \notin c.N \union {NoRouter} /\ IsAdjacent(base, NoRouter, e.to)
                                /\ Infty + CostForAdjacent(base, NoRouter, e.to) < e.cost
                     THEN [to |-> e.to, via |-> NoRouter,
                           cost |-> Infty + CostForAdjacent(base, NoRouter, e.to)]
                     ELSE e
           D1 == {New(e) : e \in c.D}
<1>1. NoRow.to = NoRouter /\ NoRow.via = NoRouter /\ NoRow.cost = Infty
  BY DEF NoRow
<1>2. AddNearest(base, c).N = c.N \union {NoRouter} /\ AddNearest(base, c).D = D1
  BY <1>1 DEF AddNearest
<1>3. \A v : ~IsAdjacent(base, NoRouter, v)
  BY KnownFacts DEF IsAdjacent
<1>4. \A e \in c.D : New(e) = e
  BY <1>3
<1>5. D1 = c.D
  <2> HIDE DEF New
  <2>1. QED
    BY <1>4
<1>6. QED
  BY <1>2, <1>5

-----------------------------------------------------------------------------
(* The invariant of the loop, where h routers have been added. *)

FromSource(source, d, v) == IF v = source THEN 0 ELSE d[v]

\* The routers in N are nearer than the others.
AddedAreNearer(base, source, N, d) ==
    \A u \in N \cap Known(base) :
        /\ FromSource(source, d, u) < Infty
        /\ \A v \in Known(base) \ N : FromSource(source, d, u) <= FromSource(source, d, v)

\* No link out of N lowers a distance.
AddedAreRelaxed(base, source, N, d) ==
    \A u \in N \cap Known(base) : \A v \in Known(base) : \A k \in LinkCosts(base, u, v) :
        FromSource(source, d, v) <= FromSource(source, d, u) + k

\* A distance is that of a walk of as many hops, which starts with a link to via.
WalkedTo(base, source, h, d, x, v) ==
    /\ x[v] \in Known(base)
    /\ CheapestBy(base, source)[h][v] <= d[v]
    /\ \E k \in LinkCosts(base, source, x[v]) :
           k + CheapestBy(base, x[v])[h - 1][v] <= d[v]

RoundInv(base, source, c, d, x) ==
    /\ c.D = DistanceRows(base, x, d)
    /\ source \in c.N /\ c.N \subseteq Known(base) \union {NoRouter}
    /\ \A v \in Known(base) : d[v] \in Nat /\ d[v] <= Infty
    /\ \A v \in Known(base) : v # source =>
           /\ d[v] = Infty => x[v] = NoRouter
           /\ d[v] < Infty => WalkedTo(base, source, Cardinality(c.N \cap Known(base)), d, x, v)
    /\ AddedAreNearer(base, source, c.N, d)
    /\ AddedAreRelaxed(base, source, c.N, d)
    /\ NoRouter \in c.N => Known(base) \ c.N # {} /\ \A v \in Known(base) \ c.N : d[v] = Infty

LEMMA InftyPositive ==
    ASSUME NEW base, Good(base), NEW v \in Known(base)
    PROVE  0 < Infty
PROOF
<1>1. base[v] \in Seq(Entry) /\ base[v] # << >> /\ v \in Routers
  BY DEF Good, Known
<1>2. 1 \in DOMAIN base[v] /\ base[v][1] \in Entry /\ base[v][1] \in ToSet(base[v])
  BY <1>1 DEF ToSet
<1>3. base[v][1].cost \in Nat /\ base[v][1].cost < Infty
  BY <1>1, <1>2 DEF Good, Entry
<1>4. QED
  BY <1>3, InftyAssumption

\* A walk, and one with one hop more.
LEMMA WalkOn ==
    ASSUME NEW base, Good(base), NEW source, NEW u \in Known(base), NEW v \in Known(base),
           NEW k \in LinkCosts(base, u, v),
           NEW h \in 0 .. Cardinality(Known(base)), h # 0,
           CheapestBy(base, source)[h - 1][u] < Infty
    PROVE  CheapestBy(base, source)[h][v] <= CheapestBy(base, source)[h - 1][u] + k
PROOF
<1>1. WalkTable(CheapestBy(base, source), base, source)
  BY CheapestByFacts
<1>2. OneHopFurther(base, CheapestBy(base, source)[h - 1], CheapestBy(base, source)[h])
  BY <1>1 DEF WalkTable
<1>3. QED
  BY <1>2 DEF OneHopFurther

LEMMA StartInv ==
    ASSUME NEW base, Good(base), NEW source \in Known(base)
    PROVE  /\ \E d, x : RoundInv(base, source, Start(base, source), d, x)
           /\ Cardinality(Start(base, source).N) = 1
PROOF
<1> DEFINE V == Known(base)
           c == Start(base, source)
           Near(v) == IsAdjacent(base, source, v)
           d == [v \in V |-> IF Near(v) THEN CostForAdjacent(base, source, v) ELSE Infty]
           x == [v \in V |-> IF Near(v) THEN v ELSE NoRouter]
           K == Cardinality(V)
<1>1. c.N = {source}
  BY DEF Start
<1>2. c.D = DistanceRows(base, x, d)
  <2> DEFINE row(v) == IF Near(v)
                       THEN [to |-> v, via |-> v, cost |-> CostForAdjacent(base, source, v)]
                       ELSE [to |-> v, via |-> NoRouter, cost |-> Infty]
             row1(v) == [to |-> v, via |-> x[v], cost |-> d[v]]
  <2>1. c.D = {row(v) : v \in V}
    BY DEF Start
  <2>2. DistanceRows(base, x, d) = {row1(v) : v \in V}
    BY DEF DistanceRows
  <2>3. \A v \in V : row(v) = row1(v)
    OBVIOUS
  <2> HIDE DEF row, row1, V, x, d, c
  <2>4. QED
    BY <2>1, <2>2, <2>3
<1>3. ASSUME NEW v \in V
      PROVE  /\ Near(v) => /\ d[v] = CostForAdjacent(base, source, v) /\ x[v] = v
                           /\ d[v] \in LinkCosts(base, source, v)
                           /\ d[v] \in Nat /\ d[v] < Infty
             /\ ~Near(v) => d[v] = Infty /\ x[v] = NoRouter
  <2>1. Near(v) => CostForAdjacent(base, source, v) \in LinkCosts(base, source, v)
    BY <1>3, CostFacts
  <2>2. \A k \in LinkCosts(base, source, v) : k \in Nat /\ k < Infty
    BY <1>3, CostFacts
  <2>3. QED
    BY <1>3, <2>1, <2>2
<1>4. 0 < Infty /\ Infty \in Nat /\ V \subseteq Nat /\ NoRouter \notin V /\ K \in Nat
  BY InftyPositive, KnownFacts
<1>5. source \in V
  OBVIOUS
<1> HIDE DEF d, x
<1>6. ASSUME NEW v \in V
      PROVE  d[v] \in Nat /\ d[v] <= Infty
  <2>1. QED
    BY <1>3, <1>4, <1>6
<1>7. Cardinality(c.N) = 1 /\ Cardinality(c.N \cap V) = 1
  <2>1. c.N \cap V = {source}
    BY <1>1, <1>5
  <2>2. QED
    BY <1>1, <2>1, FS_Singleton
<1>8. 0 \in 0 .. K /\ 1 \in 0 .. K /\ 1 # 0 /\ 1 - 1 = 0
  <2>1. IsFiniteSet(V) /\ {source} \in SUBSET V
    BY KnownFacts
  <2>2. Cardinality({source}) = 1 /\ Cardinality({source}) <= K
    BY <2>1, FS_Subset, FS_Singleton
  <2> HIDE DEF K
  <2>3. QED
    BY <1>4, <2>2
<1> HIDE DEF c, K
<1>9. ASSUME NEW v \in V, v # source, d[v] < Infty
      PROVE  WalkedTo(base, source, 1, d, x, v)
  <2>1. Near(v) /\ x[v] = v /\ d[v] \in LinkCosts(base, source, v) /\ d[v] \in Nat
    BY <1>3, <1>4, <1>9
  <2>2. CheapestBy(base, source)[0][source] = 0 /\ CheapestBy(base, v)[0][v] = 0
    BY <1>5, <1>9, CheapestByFacts DEF WalkTable
  <2>3. CheapestBy(base, source)[1][v] <= CheapestBy(base, source)[0][source] + d[v]
    <3> DEFINE h == 1
    <3>1. CheapestBy(base, source)[h - 1][source] = 0 /\ h \in 0 .. Cardinality(V) /\ h # 0
      BY <1>8, <2>2 DEF K
    <3> HIDE DEF h
    <3>2. CheapestBy(base, source)[h][v] <= CheapestBy(base, source)[h - 1][source] + d[v]
      BY <1>4, <1>5, <1>9, <2>1, <3>1, WalkOn
    <3>3. QED
      BY <1>8, <3>2 DEF h
  <2>4. CheapestBy(base, source)[1][v] <= d[v] /\ d[v] + CheapestBy(base, v)[1 - 1][v] <= d[v]
    BY <1>8, <2>1, <2>2, <2>3
  <2>5. QED
    BY <1>9, <2>1, <2>4 DEF WalkedTo
<1>10. AddedAreNearer(base, source, c.N, d)
  <2>1. FromSource(source, d, source) = 0
    BY DEF FromSource
  <2>2. \A v \in V : FromSource(source, d, v) \in Nat
    BY <1>6 DEF FromSource
  <2>3. \A u \in c.N : u = source
    BY <1>1
  <2>4. \A v \in V : 0 <= FromSource(source, d, v)
    BY <2>2
  <2>5. QED
    BY <1>4, <2>1, <2>3, <2>4 DEF AddedAreNearer
<1>11. AddedAreRelaxed(base, source, c.N, d)
  <2>1. ASSUME NEW v \in V, NEW k \in LinkCosts(base, source, v)
        PROVE  FromSource(source, d, v) <= FromSource(source, d, source) + k
    <3>1. k \in Nat
      BY <1>5, <2>1, CostFacts
    <3>2. v # source => d[v] = k
      BY <1>3, <1>5, <2>1, CostFacts
    <3>3. QED
      BY <3>1, <3>2 DEF FromSource
  <2>2. \A u \in c.N : u = source
    BY <1>1
  <2>3. QED
    BY <2>1, <2>2 DEF AddedAreRelaxed
<1>12. NoRouter \notin c.N
  BY <1>1, <1>4
<1>13. RoundInv(base, source, c, d, x)
  <2>1. ASSUME NEW v \in V, v # source
        PROVE  /\ d[v] = Infty => x[v] = NoRouter
               /\ d[v] < Infty => WalkedTo(base, source, Cardinality(c.N \cap V), d, x, v)
    <3>1. d[v] = Infty => ~Near(v)
      BY <1>3, <1>4, <2>1
    <3>2. QED
      BY <1>3, <1>7, <1>9, <2>1, <3>1
  <2>2. source \in c.N /\ c.N \subseteq V \union {NoRouter}
    BY <1>1, <1>5
  <2>3. QED
    BY <1>2, <1>6, <1>10, <1>11, <1>12, <2>1, <2>2 DEF RoundInv
<1>14. QED
  BY <1>7, <1>13 DEF c

LEMMA RoundKeepsNone ==
    ASSUME NEW base, Good(base), NEW source \in Known(base), NEW c, NEW d, NEW x,
           RoundInv(base, source, c, d, x), ~AllAdded(base, c), Nearest(c) = NoRow,
           \A v \in Known(base) \ c.N : ~(d[v] < Infty)
    PROVE  /\ RoundInv(base, source, AddNearest(base, c), d, x)
           /\ NoRouter \in AddNearest(base, c).N
PROOF
<1> DEFINE V == Known(base)
           c1 == AddNearest(base, c)
<1>1. c1.N = c.N \union {NoRouter} /\ c1.D = c.D
  BY RoundAddsNone DEF RoundInv
<1>2. NoRouter \notin V
  BY KnownFacts
<1> HIDE DEF c1
<1>3. c1.N \cap V = c.N \cap V /\ V \ c1.N = V \ c.N /\ NoRouter \in c1.N
  BY <1>1, <1>2
<1>4. V \ c.N # {}
  <2>1. CASE NoRouter \in c.N
    BY <2>1 DEF RoundInv
  <2>2. CASE NoRouter \notin c.N
    <3>1. c.N \subseteq V /\ c.N # V
      BY <2>2 DEF RoundInv, AllAdded
    <3>2. QED
      BY <3>1
  <2>3. QED
    BY <2>1, <2>2
<1>5. \A v \in V \ c.N : d[v] = Infty
  <2>1. \A v \in V : d[v] \in Nat /\ d[v] <= Infty
    BY DEF RoundInv
  <2>2. QED
    BY <2>1, InftyAssumption
<1>6. c1.D = DistanceRows(base, x, d) /\ source \in c1.N /\ c1.N \subseteq V \union {NoRouter}
  BY <1>1 DEF RoundInv
<1>7. AddedAreNearer(base, source, c1.N, d)
  BY <1>3 DEF RoundInv, AddedAreNearer
<1>8. AddedAreRelaxed(base, source, c1.N, d)
  BY <1>3 DEF RoundInv, AddedAreRelaxed
<1>9. \A v \in V : v # source =>
           /\ d[v] = Infty => x[v] = NoRouter
           /\ d[v] < Infty => WalkedTo(base, source, Cardinality(c1.N \cap V), d, x, v)
  BY <1>3 DEF RoundInv
<1>10. \A v \in V : d[v] \in Nat /\ d[v] <= Infty
  BY DEF RoundInv
<1>11. V \ c1.N # {} /\ \A v \in V \ c1.N : d[v] = Infty
  BY <1>3, <1>4, <1>5
<1>12. RoundInv(base, source, c1, d, x)
  BY <1>6, <1>7, <1>8, <1>9, <1>10, <1>11 DEF RoundInv
<1>13. QED
  BY <1>3, <1>12 DEF c1

LEMMA RoundKeepsOne ==
    ASSUME NEW base, Good(base), NEW source \in Known(base), NEW c, NEW d, NEW x,
           RoundInv(base, source, c, d, x), NEW u \in Known(base) \ c.N,
           Nearest(c) = [to |-> u, via |-> x[u], cost |-> d[u]], d[u] < Infty,
           \A v \in Known(base) \ c.N : d[v] < Infty => d[u] <= d[v]
    PROVE  /\ \E d1, x1 : RoundInv(base, source, AddNearest(base, c), d1, x1)
           /\ Cardinality(AddNearest(base, c).N) = Cardinality(c.N) + 1
           /\ Cardinality(c.N) \in Nat
PROOF
<1> DEFINE V == Known(base)
           c1 == AddNearest(base, c)
           K == Cardinality(V)
           h == Cardinality(c.N \cap V)
           g == Cardinality(c1.N \cap V)
<1>1. c.D = DistanceRows(base, x, d)
  BY DEF RoundInv
<1>2. PICK d1, x1 :
        /\ c1.N = c.N \union {u}
        /\ c1.D = DistanceRows(base, x1, d1)
        /\ \A v \in Known(base) :
               \/ /\ v \notin c.N \union {u} /\ IsAdjacent(base, u, v)
                  /\ d[u] + CostForAdjacent(base, u, v) < d[v]
                  /\ d1[v] = d[u] + CostForAdjacent(base, u, v) /\ x1[v] = x[u]
               \/ /\ v \in c.N \union {u} \/ ~IsAdjacent(base, u, v)
                          \/ ~(d[u] + CostForAdjacent(base, u, v) < d[v])
                  /\ d1[v] = d[v] /\ x1[v] = x[v]
  BY <1>1, RoundAdds
<1> HIDE DEF c1
<1>3. /\ source \in c.N /\ c.N \subseteq V \union {NoRouter}
      /\ \A v \in V : d[v] \in Nat /\ d[v] <= Infty
  BY DEF RoundInv
<1>4. u \in V /\ u \notin c.N /\ u # source /\ d[u] \in Nat
  BY <1>3
<1>5. Infty \in Nat /\ NoRouter \notin V /\ IsFiniteSet(V) /\ K \in Nat
  BY KnownFacts
<1>6. NoRouter \notin c.N
  <2>1. NoRouter \in c.N => d[u] = Infty
    BY DEF RoundInv
  <2>2. QED
    BY <1>4, <1>5, <2>1
<1>7. /\ c.N \subseteq V /\ c.N \cap V = c.N /\ c1.N \cap V = c.N \union {u}
      /\ V \ c1.N \subseteq V \ c.N
  BY <1>2, <1>3, <1>4, <1>6
<1>8. /\ Cardinality(c1.N) = Cardinality(c.N) + 1 /\ Cardinality(c.N) \in Nat
      /\ h \in 1 .. K /\ g = h + 1 /\ g \in 1 .. K
  <2>1. IsFiniteSet(c.N) /\ Cardinality(c.N) \in Nat
    BY <1>5, <1>7, FS_Subset, FS_CardinalityType
  <2>2. Cardinality(c.N \union {u}) = Cardinality(c.N) + 1
    BY <1>4, <2>1, FS_AddElement
  <2>3. Cardinality(c.N \union {u}) <= K /\ Cardinality(c.N \union {u}) \in Nat
    <3>1. c.N \union {u} \in SUBSET V
      BY <1>4, <1>7
    <3>2. Cardinality(c.N \union {u}) <= K
      BY <1>5, <3>1, FS_Subset
    <3>3. QED
      BY <2>1, <2>2, <3>2
  <2>4. Cardinality(c.N) # 0
    BY <1>3, <2>1, FS_EmptySet
  <2>5. h = Cardinality(c.N) /\ g = Cardinality(c.N \union {u}) /\ c1.N = c.N \union {u}
    BY <1>2, <1>7
  <2> HIDE DEF h, g, K
  <2>6. QED
    BY <1>5, <2>1, <2>2, <2>3, <2>4, <2>5
<1>9. ASSUME NEW v \in V
      PROVE  \/ /\ v \notin c1.N /\ v # u /\ v # source
                /\ CostForAdjacent(base, u, v) \in LinkCosts(base, u, v)
                /\ CostForAdjacent(base, u, v) \in Nat
                /\ d1[v] = d[u] + CostForAdjacent(base, u, v) /\ x1[v] = x[u]
                /\ d1[v] < d[v]
             \/ d1[v] = d[v] /\ x1[v] = x[v]
  <2>1. CASE d1[v] = d[v] /\ x1[v] = x[v]
    BY <2>1
  <2>2. CASE ~(d1[v] = d[v] /\ x1[v] = x[v])
    <3>1. /\ v \notin c1.N /\ IsAdjacent(base, u, v)
          /\ d[u] + CostForAdjacent(base, u, v) < d[v]
          /\ d1[v] = d[u] + CostForAdjacent(base, u, v) /\ x1[v] = x[u]
      BY <1>2, <1>9, <2>2
    <3>2. v # u /\ v # source
      BY <1>2, <1>3, <3>1
    <3>3. /\ CostForAdjacent(base, u, v) \in LinkCosts(base, u, v)
          /\ CostForAdjacent(base, u, v) \in Nat
      BY <1>4, <1>9, <3>1, CostFacts
    <3>4. QED
      BY <3>1, <3>2, <3>3
  <2>3. QED
    BY <2>1, <2>2
<1>10. \A v \in V : d1[v] \in Nat /\ d1[v] <= d[v] /\ d1[v] <= Infty
  <2>1. ASSUME NEW v \in V PROVE d1[v] \in Nat /\ d1[v] <= d[v] /\ d1[v] <= Infty
    <3>1. d[v] \in Nat /\ d[v] <= Infty
      BY <1>3, <2>1
    <3>2. QED
      BY <1>4, <1>5, <1>9, <2>1, <3>1
  <2>2. QED
    BY <2>1
<1>11. \A v \in V : v \in c1.N => d1[v] = d[v]
  BY <1>9
<1>12. \A v \in V : /\ FromSource(source, d, v) \in Nat /\ FromSource(source, d1, v) \in Nat
                    /\ FromSource(source, d1, v) <= FromSource(source, d, v)
                    /\ v \in c1.N => FromSource(source, d1, v) = FromSource(source, d, v)
  BY <1>3, <1>10, <1>11 DEF FromSource
<1>13. FromSource(source, d, u) = d[u]
  BY <1>4 DEF FromSource
<1>14. ASSUME NEW v \in V, v \notin c.N
       PROVE  FromSource(source, d, v) = d[v] /\ d[u] <= d[v] /\ d[u] <= d1[v]
  <2>1. v # source /\ d[v] \in Nat /\ d[v] <= Infty
    BY <1>3, <1>14
  <2>2. d[v] < Infty => d[u] <= d[v]
    BY <1>14
  <2>3. d[u] <= d[v]
    BY <1>4, <1>5, <2>1, <2>2
  <2>4. d[u] <= d1[v]
    BY <1>4, <1>9, <1>14, <2>1, <2>3
  <2>5. QED
    BY <2>1, <2>3, <2>4 DEF FromSource
<1>15. AddedAreNearer(base, source, c1.N, d1)
  <2>1. ASSUME NEW w \in c1.N \cap V
        PROVE  /\ FromSource(source, d1, w) < Infty
               /\ FromSource(source, d1, w) <= d[u]
    <3>1. CASE w = u
      <4>1. FromSource(source, d1, w) = d[u]
        BY <1>12, <1>13, <2>1, <3>1
      <4>2. QED
        BY <1>4, <4>1
    <3>2. CASE w # u
      <4>1. w \in c.N \cap V
        BY <1>2, <2>1, <3>2
      <4>2. /\ FromSource(source, d, w) < Infty
            /\ FromSource(source, d, w) <= FromSource(source, d, u)
        BY <1>4, <4>1 DEF RoundInv, AddedAreNearer
      <4>3. QED
        BY <1>12, <1>13, <2>1, <4>2
    <3>3. QED
      BY <3>1, <3>2
  <2>2. ASSUME NEW v \in V \ c1.N
        PROVE  FromSource(source, d1, v) = d1[v] /\ d[u] <= d1[v] /\ d1[v] \in Nat
    <3>1. v \in V /\ v \notin c.N /\ v # source
      BY <1>2, <1>3, <2>2
    <3>2. QED
      BY <1>10, <1>14, <3>1 DEF FromSource
  <2>3. ASSUME NEW w \in c1.N \cap V, NEW v \in V \ c1.N
        PROVE  FromSource(source, d1, w) <= FromSource(source, d1, v)
    <3>1. FromSource(source, d1, w) <= d[u] /\ FromSource(source, d1, w) \in Nat
      BY <1>12, <2>1, <2>3
    <3>2. FromSource(source, d1, v) = d1[v] /\ d[u] <= d1[v] /\ d1[v] \in Nat
      BY <2>2, <2>3
    <3>3. QED
      BY <1>4, <3>1, <3>2
  <2>4. QED
    BY <2>1, <2>3 DEF AddedAreNearer
<1>16. AddedAreRelaxed(base, source, c1.N, d1)
  <2>1. ASSUME NEW w \in c1.N \cap V, NEW v \in V, NEW k \in LinkCosts(base, w, v)
        PROVE  FromSource(source, d1, v) <= FromSource(source, d1, w) + k
    <3>1. k \in Nat /\ w \in V /\ w \in c1.N
      BY <2>1, CostFacts
    <3>2. /\ FromSource(source, d1, w) = FromSource(source, d, w)
          /\ FromSource(source, d, w) \in Nat /\ FromSource(source, d, v) \in Nat
          /\ FromSource(source, d1, v) \in Nat
          /\ FromSource(source, d1, v) <= FromSource(source, d, v)
      BY <1>12, <2>1, <3>1
    <3>3. CASE w # u
      <4>1. w \in c.N \cap V
        BY <1>2, <2>1, <3>3
      <4>2. FromSource(source, d, v) <= FromSource(source, d, w) + k
        BY <2>1, <4>1 DEF RoundInv, AddedAreRelaxed
      <4>3. QED
        BY <3>1, <3>2, <4>2
    <3>4. CASE w = u /\ v \in c1.N
      <4>1. FromSource(source, d, v) <= FromSource(source, d, u)
        <5>1. CASE v = u
          BY <3>2, <5>1
        <5>2. CASE v # u
          <6>1. v \in c.N \cap V
            BY <1>2, <2>1, <3>4, <5>2
          <6>2. QED
            BY <1>4, <6>1 DEF RoundInv, AddedAreNearer
        <5>3. QED
          BY <5>1, <5>2
      <4>2. QED
        BY <3>1, <3>2, <3>4, <4>1
    <3>5. CASE w = u /\ v \notin c1.N
      <4>1. v # u /\ v # source /\ v \notin c.N \union {u}
        BY <1>2, <1>3, <3>5
      <4>2. IsAdjacent(base, u, v) /\ k = CostForAdjacent(base, u, v)
        BY <1>4, <2>1, <3>5, <4>1, CostFacts
      <4>3. d1[v] <= d[u] + k
        <5>1. d[v] \in Nat
          BY <1>3, <2>1
        <5> DEFINE cost == CostForAdjacent(base, u, v)
        <5>2. \/ d[u] + cost < d[v] /\ d1[v] = d[u] + cost
              \/ ~(d[u] + cost < d[v]) /\ d1[v] = d[v]
          BY <1>2, <2>1, <4>1, <4>2
        <5>3. k = cost
          BY <4>2
        <5> HIDE DEF cost
        <5>4. QED
          BY <1>4, <3>1, <5>1, <5>2, <5>3
      <4>4. FromSource(source, d1, v) = d1[v] /\ FromSource(source, d1, w) = d[u]
        BY <1>13, <3>2, <3>5, <4>1 DEF FromSource
      <4>5. QED
        BY <4>3, <4>4
    <3>6. QED
      BY <3>3, <3>4, <3>5
  <2>2. QED
    BY <2>1 DEF AddedAreRelaxed
<1> HIDE DEF h, g, K
<1>17. h \in 0 .. K /\ g \in 0 .. K /\ h - 1 \in 0 .. K /\ g - 1 = h /\ h <= g /\ h - 1 <= h
       /\ h # 0 /\ g # 0
  BY <1>5, <1>8
<1>18. \A v \in V : v # source =>
           /\ d[v] = Infty => x[v] = NoRouter
           /\ d[v] < Infty => WalkedTo(base, source, h, d, x, v)
  BY DEF RoundInv, h
<1>19. \A y, v : \A k \in 0 .. K : v \in V =>
          CheapestBy(base, y)[k][v] \in Nat /\ CheapestBy(base, y)[k][v] <= Infty
  BY CheapestByFacts DEF K
<1>20. ASSUME NEW v \in V, v # source, d1[v] < Infty
       PROVE  WalkedTo(base, source, g, d1, x1, v)
  <2>1. CASE d1[v] = d[v] /\ x1[v] = x[v]
    <3>1. WalkedTo(base, source, h, d, x, v)
      BY <1>18, <1>20, <2>1
    <3>2. PICK k \in LinkCosts(base, source, x[v]) : k + CheapestBy(base, x[v])[h - 1][v] <= d[v]
      BY <3>1 DEF WalkedTo
    <3>3. x[v] \in V /\ CheapestBy(base, source)[h][v] <= d[v]
      BY <3>1 DEF WalkedTo
    <3>4. CheapestBy(base, source)[g][v] <= CheapestBy(base, source)[h][v]
      BY <1>17, <1>20, MoreHops DEF K
    <3>5. CheapestBy(base, x[v])[h][v] <= CheapestBy(base, x[v])[h - 1][v]
      BY <1>17, <1>20, MoreHops DEF K
    <3>6. k \in Nat
      BY <1>3, <3>2, <3>3, CostFacts
    <3>7. /\ CheapestBy(base, source)[g][v] \in Nat /\ CheapestBy(base, source)[h][v] \in Nat
          /\ CheapestBy(base, x[v])[h][v] \in Nat /\ CheapestBy(base, x[v])[h - 1][v] \in Nat
      BY <1>17, <1>19, <1>20
    <3>8. d[v] \in Nat
      BY <1>3, <1>20
    <3>9. CheapestBy(base, source)[g][v] <= d1[v]
      BY <2>1, <3>3, <3>4, <3>7, <3>8
    <3>10. k + CheapestBy(base, x[v])[h][v] <= d1[v]
      BY <2>1, <3>2, <3>5, <3>6, <3>7, <3>8
    <3>11. k \in LinkCosts(base, source, x1[v]) /\ k + CheapestBy(base, x1[v])[g - 1][v] <= d1[v]
      BY <1>17, <2>1, <3>2, <3>10
    <3>12. x1[v] \in V
      BY <2>1, <3>3
    <3>13. QED
      BY <3>9, <3>11, <3>12 DEF WalkedTo
  <2>2. CASE ~(d1[v] = d[v] /\ x1[v] = x[v])
    <3> DEFINE cost == CostForAdjacent(base, u, v)
    <3>1. /\ cost \in LinkCosts(base, u, v) /\ cost \in Nat
          /\ d1[v] = d[u] + cost /\ x1[v] = x[u]
      BY <1>9, <1>20, <2>2
    <3>2. WalkedTo(base, source, h, d, x, u)
      BY <1>4, <1>18
    <3>3. PICK k \in LinkCosts(base, source, x[u]) : k + CheapestBy(base, x[u])[h - 1][u] <= d[u]
      BY <3>2 DEF WalkedTo
    <3>4. x[u] \in V /\ CheapestBy(base, source)[h][u] <= d[u]
      BY <3>2 DEF WalkedTo
    <3>5. k \in Nat
      BY <1>3, <3>3, <3>4, CostFacts
    <3> HIDE DEF cost
    <3>6. /\ CheapestBy(base, source)[h][u] \in Nat /\ CheapestBy(base, x[u])[h - 1][u] \in Nat
          /\ CheapestBy(base, source)[g][v] \in Nat /\ CheapestBy(base, x[u])[h][v] \in Nat
      BY <1>4, <1>17, <1>19, <1>20
    <3>7. CheapestBy(base, source)[h][u] < Infty /\ CheapestBy(base, x[u])[h - 1][u] < Infty
      BY <1>4, <1>5, <3>3, <3>4, <3>5, <3>6
    <3>8. CheapestBy(base, source)[g][v] <= CheapestBy(base, source)[g - 1][u] + cost
      BY <1>4, <1>17, <1>20, <3>1, <3>7, WalkOn DEF K
    <3>9. CheapestBy(base, x[u])[h][v] <= CheapestBy(base, x[u])[h - 1][u] + cost
      BY <1>4, <1>17, <1>20, <3>1, <3>7, WalkOn DEF K
    <3>10. CheapestBy(base, source)[g][v] <= d1[v]
      BY <1>4, <1>17, <3>1, <3>4, <3>6, <3>8
    <3>11. k + CheapestBy(base, x[u])[h][v] <= d1[v]
      BY <1>4, <3>1, <3>3, <3>5, <3>6, <3>9
    <3>12. k \in LinkCosts(base, source, x1[v]) /\ k + CheapestBy(base, x1[v])[g - 1][v] <= d1[v]
      BY <1>17, <3>1, <3>3, <3>11
    <3>13. x1[v] \in V
      BY <3>1, <3>4
    <3>14. QED
      BY <3>10, <3>12, <3>13 DEF WalkedTo
  <2>3. QED
    BY <2>1, <2>2
<1>21. ASSUME NEW v \in V, v # source, d1[v] = Infty
       PROVE  x1[v] = NoRouter
  <2>1. d[v] \in Nat /\ d[v] <= Infty
    BY <1>3, <1>21
  <2>2. d1[v] = d[v] /\ x1[v] = x[v]
    BY <1>5, <1>9, <1>21, <2>1
  <2>3. QED
    BY <1>18, <1>21, <2>2
<1>22. NoRouter \notin c1.N
  BY <1>2, <1>4, <1>5, <1>6
<1>23. source \in c1.N /\ c1.N \subseteq V \union {NoRouter}
  BY <1>2, <1>3, <1>4
<1>24. RoundInv(base, source, c1, d1, x1)
  <2>1. \A v \in V : v # source =>
           /\ d1[v] = Infty => x1[v] = NoRouter
           /\ d1[v] < Infty => WalkedTo(base, source, Cardinality(c1.N \cap V), d1, x1, v)
    BY <1>20, <1>21 DEF g
  <2>2. c1.D = DistanceRows(base, x1, d1)
    BY <1>2
  <2>3. QED
    BY <1>10, <1>15, <1>16, <1>22, <1>23, <2>1, <2>2 DEF RoundInv
<1>25. QED
  BY <1>8, <1>24 DEF c1

-----------------------------------------------------------------------------
(* The loop: as many rounds as there are routers. *)

OneRound(base, c) == IF AllAdded(base, c) THEN c ELSE AddNearest(base, c)

Rounds(after, base, source) ==
    after = [k \in 0 .. Cardinality(Known(base)) |->
                IF k = 0 THEN {Start(base, source)} ELSE {OneRound(base, c) : c \in after[k - 1]}]

LEMMA RoundsExist ==
    ASSUME NEW base, NEW source
    PROVE  \E after : /\ Rounds(after, base, source)
                      /\ Computation(base, source)
                             = CHOOSE c \in after[Cardinality(Known(base))] : TRUE
PROOF
<1> DEFINE K == Cardinality(Known(base))
           Value(g, k) == IF k = 0 THEN {Start(base, source)}
                          ELSE {OneRound(base, c) : c \in g[k - 1]}
           Has(n) == \E g : \A k \in 0 .. n : g[k] = Value(g, k)
           B == {n \in Nat : ~Has(n)}
<1>1. K \in Nat
  BY KnownFacts
<1> HIDE DEF K
<1>2. Has(0)
  <2> DEFINE g == [k \in Nat |-> {Start(base, source)}]
  <2>1. \A k \in 0 .. 0 : g[k] = Value(g, k)
    OBVIOUS
  <2>2. QED
    BY <2>1
<1>3. ASSUME NEW n \in Nat, Has(n) PROVE Has(n + 1)
  <2>1. PICK g : \A k \in 0 .. n : g[k] = Value(g, k)
    BY <1>3
  <2> DEFINE h == [k \in Nat |-> IF k = n + 1 THEN {OneRound(base, c) : c \in g[n]} ELSE g[k]]
  <2>2. ASSUME NEW k \in 0 .. n + 1 PROVE h[k] = Value(h, k)
    <3>1. CASE k = n + 1
      <4>1. k # 0 /\ k - 1 = n /\ n # n + 1 /\ k \in Nat
        BY <3>1
      <4>2. h[k] = {OneRound(base, c) : c \in g[n]} /\ h[n] = g[n]
        BY <3>1, <4>1
      <4>3. QED
        BY <4>1, <4>2
    <3>2. CASE k # n + 1
      <4>1. k \in 0 .. n /\ k \in Nat
        BY <3>2
      <4>2. h[k] = g[k] /\ g[k] = Value(g, k)
        BY <2>1, <3>2, <4>1
      <4>3. k # 0 => k - 1 \in Nat /\ k - 1 # n + 1
        BY <4>1
      <4>4. k # 0 => h[k - 1] = g[k - 1]
        BY <4>3
      <4>5. QED
        BY <4>2, <4>4
    <3>3. QED
      BY <3>1, <3>2
  <2> HIDE DEF h
  <2>3. QED
    BY <2>2
<1> HIDE DEF Has
<1>4. B = {}
  <2>1. SUFFICES ASSUME B # {} PROVE FALSE
    OBVIOUS
  <2>2. PICK n \in B : \A m \in B : n <= m
    <3>1. B \in SUBSET Nat
      OBVIOUS
    <3> HIDE DEF B
    <3>2. QED
      BY <2>1, <3>1, LeastElement
  <2>3. n \in Nat /\ n # 0 /\ ~Has(n)
    BY <1>2
  <2>4. n - 1 \in Nat /\ n - 1 \notin B /\ (n - 1) + 1 = n
    BY <2>2, <2>3
  <2>5. Has((n - 1) + 1)
    BY <1>3, <2>4
  <2>6. QED
    BY <2>3, <2>4, <2>5
<1>5. PICK g : \A k \in 0 .. K : g[k] = Value(g, k)
  BY <1>1, <1>4 DEF Has
<1> DEFINE f == [k \in 0 .. K |-> g[k]]
           Step(after) == [k \in 0 .. K |-> Value(after, k)]
<1>6. f = Step(f)
  <2>1. ASSUME NEW k \in 0 .. K PROVE f[k] = Value(f, k)
    <3>1. k # 0 => k - 1 \in 0 .. K
      BY <1>1
    <3>2. k # 0 => f[k - 1] = g[k - 1]
      BY <3>1
    <3>3. QED
      BY <1>5, <3>2
  <2> HIDE DEF Value
  <2>2. f = [k \in 0 .. K |-> f[k]]
    OBVIOUS
  <2>3. QED
    BY <2>1, <2>2
<1> DEFINE after == CHOOSE a : a = Step(a)
<1>7. after = Step(after)
  <2> HIDE DEF Step, f
  <2>1. QED
    BY <1>6
<1>8. Computation(base, source) = CHOOSE c \in after[K] : TRUE
  BY DEF Computation, OneRound, K
<1>9. Rounds(after, base, source)
  <2> HIDE DEF after
  <2>1. QED
    BY <1>7 DEF Rounds, K
<1>10. QED
  <2> HIDE DEF after
  <2>1. QED
    BY <1>8, <1>9 DEF K

\* Where the loop stands after k rounds.
After(base, source, k, c) ==
    /\ \E d, x : RoundInv(base, source, c, d, x)
    /\ AllAdded(base, c) \/ NoRouter \in c.N \/ Cardinality(c.N) = k + 1

LEMMA OneRoundKeeps ==
    ASSUME NEW base, Good(base), NEW source \in Known(base), NEW k \in Nat, NEW c,
           After(base, source, k, c)
    PROVE  After(base, source, k + 1, OneRound(base, c))
PROOF
<1>1. PICK d, x : RoundInv(base, source, c, d, x)
  BY DEF After
<1>2. CASE AllAdded(base, c)
  BY <1>1, <1>2 DEF After, OneRound
<1>3. CASE ~AllAdded(base, c)
  <2>1. OneRound(base, c) = AddNearest(base, c)
    BY <1>3 DEF OneRound
  <2>2. \A v \in Known(base) : d[v] \in Nat /\ d[v] <= Infty
    BY <1>1 DEF RoundInv
  <2>3. \/ /\ Nearest(c) = NoRow
           /\ \A v \in Known(base) \ c.N : ~(d[v] < Infty)
        \/ \E u \in Known(base) \ c.N :
               /\ Nearest(c) = [to |-> u, via |-> x[u], cost |-> d[u]]
               /\ d[u] < Infty
               /\ \A v \in Known(base) \ c.N : d[v] < Infty => d[u] <= d[v]
    <3>1. c.D = DistanceRows(base, x, d)
      BY <1>1 DEF RoundInv
    <3>2. QED
      BY <2>2, <3>1, NearestIsLeast
  <2>4. CASE Nearest(c) = NoRow /\ \A v \in Known(base) \ c.N : ~(d[v] < Infty)
    <3>1. /\ RoundInv(base, source, AddNearest(base, c), d, x)
          /\ NoRouter \in AddNearest(base, c).N
      BY <1>1, <1>3, <2>4, RoundKeepsNone
    <3>2. QED
      BY <2>1, <3>1 DEF After
  <2>5. ASSUME NEW u \in Known(base) \ c.N,
               Nearest(c) = [to |-> u, via |-> x[u], cost |-> d[u]],
               d[u] < Infty,
               \A v \in Known(base) \ c.N : d[v] < Infty => d[u] <= d[v]
        PROVE  After(base, source, k + 1, AddNearest(base, c))
    <3>1. /\ \E d1, x1 : RoundInv(base, source, AddNearest(base, c), d1, x1)
          /\ Cardinality(AddNearest(base, c).N) = Cardinality(c.N) + 1
          /\ Cardinality(c.N) \in Nat
      BY <1>1, <2>5, RoundKeepsOne
    <3>2. NoRouter \notin c.N
      <4>1. NoRouter \in c.N => d[u] = Infty
        BY <1>1, <2>5 DEF RoundInv
      <4>2. d[u] # Infty
        BY <2>2, <2>5, InftyAssumption
      <4>3. QED
        BY <4>1, <4>2
    <3>3. Cardinality(c.N) = k + 1
      BY <1>3, <3>2 DEF After
    <3>4. Cardinality(AddNearest(base, c).N) = k + 1 + 1
      BY <3>1, <3>3
    <3>5. QED
      BY <3>1, <3>4 DEF After
  <2>6. QED
    BY <2>1, <2>3, <2>4, <2>5
<1>4. QED
  BY <1>2, <1>3

\* A loop that has not ended after as many rounds never will.
LEMMA ComputationDone ==
    ASSUME NEW base, Good(base), NEW source \in Known(base)
    PROVE  \E d, x : /\ RoundInv(base, source, Computation(base, source), d, x)
                     /\ \/ AllAdded(base, Computation(base, source))
                        \/ NoRouter \in Computation(base, source).N
PROOF
<1> DEFINE K == Cardinality(Known(base))
<1>1. K \in Nat /\ 0 \in 0 .. K /\ K \in 0 .. K
  BY KnownFacts
<1>2. PICK after : /\ Rounds(after, base, source)
                   /\ Computation(base, source) = CHOOSE c \in after[K] : TRUE
  BY RoundsExist
<1>3. after[0] = {Start(base, source)}
  <2> DEFINE A == after
  <2>1. A = [k \in 0 .. K |-> IF k = 0 THEN {Start(base, source)}
                               ELSE {OneRound(base, c) : c \in A[k - 1]}]
    BY <1>2 DEF Rounds
  <2> HIDE DEF A, K
  <2>2. A[0] = {Start(base, source)}
    BY <1>1, <2>1
  <2>3. QED
    BY <2>2 DEF A
<1>4. \A k \in 0 .. K : k # 0 => after[k] = {OneRound(base, c) : c \in after[k - 1]}
  BY <1>2 DEF Rounds
<1> DEFINE Stands(k) == \E c : after[k] = {c} /\ After(base, source, k, c)
           B == {k \in 0 .. K : ~Stands(k)}
<1> HIDE DEF K
<1>5. Stands(0)
  <2>1. After(base, source, 0, Start(base, source))
    BY StartInv DEF After
  <2>2. QED
    BY <1>3, <2>1
<1>6. ASSUME NEW k \in 0 .. K, k # 0, Stands(k - 1) PROVE Stands(k)
  <2>1. PICK c : after[k - 1] = {c} /\ After(base, source, k - 1, c)
    BY <1>6
  <2>2. after[k] = {OneRound(base, c)}
    BY <1>4, <1>6, <2>1
  <2>3. k - 1 \in Nat /\ (k - 1) + 1 = k
    BY <1>1, <1>6
  <2>4. After(base, source, (k - 1) + 1, OneRound(base, c))
    BY <2>1, <2>3, OneRoundKeeps
  <2>5. QED
    BY <2>2, <2>3, <2>4
<1> HIDE DEF Stands
<1>7. B = {}
  <2>1. SUFFICES ASSUME B # {} PROVE FALSE
    OBVIOUS
  <2>2. PICK n \in B : \A m \in B : n <= m
    <3>1. B \in SUBSET Nat
      BY <1>1
    <3> HIDE DEF B
    <3>2. QED
      BY <2>1, <3>1, LeastElement
  <2>3. n \in 0 .. K /\ n # 0 /\ ~Stands(n)
    BY <1>5
  <2>4. n - 1 \in 0 .. K /\ ~(n <= n - 1)
    BY <1>1, <2>3
  <2>5. n - 1 \notin B
    <3> HIDE DEF B
    <3>1. QED
      BY <2>2, <2>4
  <2>6. Stands(n - 1)
    BY <2>4, <2>5
  <2>7. QED
    BY <1>6, <2>3, <2>6
<1>8. PICK c : after[K] = {c} /\ After(base, source, K, c)
  BY <1>1, <1>7 DEF Stands
<1>9. Computation(base, source) = c
  BY <1>2, <1>8
<1>10. PICK d, x : RoundInv(base, source, c, d, x)
  BY <1>8 DEF After
<1>11. AllAdded(base, c) \/ NoRouter \in c.N
  <2>1. SUFFICES ASSUME NoRouter \notin c.N, Cardinality(c.N) = K + 1 PROVE FALSE
    BY <1>8 DEF After
  <2>2. c.N \in SUBSET Known(base)
    BY <1>10, <2>1 DEF RoundInv
  <2>3. Cardinality(c.N) <= K
    BY <2>2, KnownFacts, FS_Subset DEF K
  <2>4. QED
    BY <1>1, <2>1, <2>3
<1>12. QED
  BY <1>9, <1>10, <1>11

UnreachedRows(base, source) == {w \in CheapestWalks(base, source) : w.cost = Infty}

\* A loop that is done has the cheapest walks.
LEMMA DoneIsCheapest ==
    ASSUME NEW base, Good(base), NEW source \in Known(base), NEW c, NEW d, NEW x,
           RoundInv(base, source, c, d, x), AllAdded(base, c) \/ NoRouter \in c.N
    PROVE  /\ \A v \in Known(base) : CheapestWalk(base, source, v) = FromSource(source, d, v)
           /\ \A v \in Known(base) : v # source /\ d[v] < Infty =>
                  /\ x[v] \in Known(base)
                  /\ \E k \in LinkCosts(base, source, x[v]) :
                         k + CheapestWalk(base, x[v], v) = d[v]
           /\ \A v \in Known(base) : v \notin c.N <=> FromSource(source, d, v) = Infty
PROOF
<1> DEFINE V == Known(base)
           K == Cardinality(V)
           h == Cardinality(c.N \cap V)
           p == [v \in V |-> FromSource(source, d, v)]
<1>1. Infty \in Nat /\ 0 < Infty /\ NoRouter \notin V /\ IsFiniteSet(V) /\ K \in Nat
  BY KnownFacts, InftyPositive
<1>2. /\ source \in V /\ source \in c.N /\ c.N \subseteq V \union {NoRouter}
      /\ \A v \in V : d[v] \in Nat /\ d[v] <= Infty
  BY DEF RoundInv
<1>3. \A v \in V : p[v] = FromSource(source, d, v) /\ p[v] \in Nat /\ p[v] <= Infty
  BY <1>1, <1>2 DEF FromSource
<1>4. p[source] = 0 /\ \A v \in V : v # source => p[v] = d[v]
  BY <1>2 DEF FromSource
<1>5. \A v \in V : v \notin c.N => p[v] = Infty
  <2>1. CASE NoRouter \in c.N
    <3>1. \A v \in V \ c.N : d[v] = Infty
      BY <2>1 DEF RoundInv
    <3>2. QED
      BY <1>2, <1>4, <3>1
  <2>2. CASE NoRouter \notin c.N
    <3>1. c.N \subseteq V /\ Cardinality(c.N) = K
      BY <1>2, <2>2 DEF AllAdded
    <3>2. c.N = V
      BY <1>1, <3>1, FS_Subset
    <3>3. QED
      BY <3>2
  <2>3. QED
    BY <2>1, <2>2
<1>6. \A v \in V : v \in c.N => p[v] < Infty
  BY <1>3 DEF RoundInv, AddedAreNearer
<1>7. \A u, v \in V : p[u] < Infty => \A k \in LinkCosts(base, u, v) : p[v] <= p[u] + k
  <2>1. ASSUME NEW u \in V, NEW v \in V, p[u] < Infty, NEW k \in LinkCosts(base, u, v)
        PROVE  p[v] <= p[u] + k
    <3>1. u \in c.N \cap V
      BY <1>1, <1>5, <2>1
    <3>2. FromSource(source, d, v) <= FromSource(source, d, u) + k
      BY <2>1, <3>1 DEF RoundInv, AddedAreRelaxed
    <3>3. QED
      BY <1>3, <2>1, <3>2
  <2>2. QED
    BY <2>1
<1>8. h \in 1 .. K
  <2>1. c.N \cap V \in SUBSET V /\ c.N \cap V # {}
    BY <1>2
  <2>2. IsFiniteSet(c.N \cap V) /\ h \in Nat /\ h <= K
    BY <1>1, <2>1, FS_Subset, FS_CardinalityType
  <2>3. h # 0
    BY <2>1, <2>2, FS_EmptySet
  <2> HIDE DEF h, K
  <2>4. QED
    BY <1>1, <2>2, <2>3
<1> HIDE DEF p, h, K
<1>9. h \in 0 .. K /\ h - 1 \in 0 .. K /\ K \in 0 .. K /\ h <= K /\ h - 1 <= K
  BY <1>1, <1>8
<1>10. \A y, v : \A k \in 0 .. K : v \in V => CheapestBy(base, y)[k][v] \in Nat
  BY CheapestByFacts DEF K
<1>11. \A v \in V : CheapestWalk(base, source, v) = CheapestBy(base, source)[K][v]
  BY CheapestWalkIs DEF K
<1>12. \A y \in V : \A v \in V : p[v] <= p[y] + CheapestBy(base, y)[K][v]
  <2>1. ASSUME NEW y \in V
        PROVE  \A k \in 0 .. K : \A v \in V : p[v] <= p[y] + CheapestBy(base, y)[k][v]
    <3>1. \A v \in V : p[v] \in Nat /\ p[v] <= Infty
      BY <1>3
    <3>2. QED
      BY <1>7, <2>1, <3>1, NoWalkIsCheaper DEF K
  <2>2. QED
    BY <1>9, <2>1
<1>13. ASSUME NEW v \in V, v # source, d[v] < Infty
       PROVE  /\ x[v] \in V
              /\ CheapestBy(base, source)[K][v] <= d[v]
              /\ \E k \in LinkCosts(base, source, x[v]) : k + CheapestWalk(base, x[v], v) = d[v]
  <2>1. WalkedTo(base, source, h, d, x, v)
    BY <1>13 DEF RoundInv, h
  <2>2. PICK k \in LinkCosts(base, source, x[v]) : k + CheapestBy(base, x[v])[h - 1][v] <= d[v]
    BY <2>1 DEF WalkedTo
  <2>3. x[v] \in V /\ CheapestBy(base, source)[h][v] <= d[v]
    BY <2>1 DEF WalkedTo
  <2>4. /\ CheapestBy(base, source)[K][v] <= CheapestBy(base, source)[h][v]
        /\ CheapestBy(base, x[v])[K][v] <= CheapestBy(base, x[v])[h - 1][v]
    BY <1>9, <1>13, MoreHops DEF K
  <2>5. /\ CheapestBy(base, source)[K][v] \in Nat /\ CheapestBy(base, source)[h][v] \in Nat
        /\ CheapestBy(base, x[v])[K][v] \in Nat /\ CheapestBy(base, x[v])[h - 1][v] \in Nat
    BY <1>9, <1>10, <1>13
  <2>6. k \in Nat
    BY <1>2, <2>2, <2>3, CostFacts
  <2>7. p[v] = d[v] /\ d[v] \in Nat /\ p[x[v]] \in Nat
    BY <1>2, <1>3, <1>4, <1>13, <2>3
  <2>8. p[x[v]] <= k
    <3>1. p[x[v]] <= p[source] + k
      BY <1>1, <1>2, <1>4, <1>7, <2>2, <2>3
    <3>2. QED
      BY <1>4, <2>6, <2>7, <3>1
  <2>9. p[v] <= p[x[v]] + CheapestBy(base, x[v])[K][v]
    BY <1>12, <1>13, <2>3
  <2>10. k + CheapestBy(base, x[v])[K][v] = d[v]
    BY <2>2, <2>4, <2>5, <2>6, <2>7, <2>8, <2>9
  <2>11. CheapestWalk(base, x[v], v) = CheapestBy(base, x[v])[K][v]
    BY <1>13, CheapestWalkIs DEF K
  <2>12. CheapestBy(base, source)[K][v] <= d[v]
    BY <2>3, <2>4, <2>5, <2>7
  <2>13. QED
    BY <2>2, <2>3, <2>10, <2>11, <2>12
<1>14. ASSUME NEW v \in V PROVE CheapestWalk(base, source, v) = p[v]
  <2> DEFINE a == CheapestBy(base, source)[K][v]
  <2>1. a \in Nat /\ p[v] \in Nat /\ p[v] <= Infty
    BY <1>3, <1>9, <1>10, <1>14
  <2>2. p[v] <= a
    <3>1. p[v] <= p[source] + a
      BY <1>2, <1>12, <1>14
    <3>2. QED
      BY <1>4, <2>1, <3>1
  <2>3. a <= Infty
    BY <1>9, <1>14, CheapestByFacts DEF K
  <2>4. a <= p[v]
    <3>1. CASE v = source
      <4>1. CheapestBy(base, source)[0][source] = 0
        BY <1>2, CheapestByFacts DEF WalkTable
      <4>2. 0 \in 0 .. K /\ 0 <= K
        BY <1>1
      <4>3. a <= CheapestBy(base, source)[0][source]
        BY <1>2, <1>9, <3>1, <4>2, MoreHops DEF K
      <4>4. QED
        BY <1>4, <3>1, <4>1, <4>3
    <3>2. CASE v # source /\ d[v] < Infty
      BY <1>4, <1>13, <1>14, <3>2
    <3>3. CASE v # source /\ ~(d[v] < Infty)
      BY <1>1, <1>2, <1>4, <1>14, <2>3, <3>3
    <3>4. QED
      BY <3>1, <3>2, <3>3
  <2> HIDE DEF a
  <2>5. p[v] = a
    BY <2>1, <2>2, <2>4
  <2>6. QED
    BY <1>11, <1>14, <2>5 DEF a
<1>15. \A v \in V : v \notin c.N <=> p[v] = Infty
  <2>1. \A v \in V : v \in c.N => p[v] # Infty
    BY <1>1, <1>3, <1>6
  <2>2. QED
    BY <1>5, <2>1
<1>16. QED
  BY <1>3, <1>13, <1>14, <1>15

LEMMA TableIsRight ==
    ASSUME NEW base, Good(base), NEW source \in Known(base)
    PROVE  \A e \in RIB(base, source) : e.to # source =>
               /\ e.cost = CheapestWalk(base, source, e.to)
               /\ e.cost = Infty <=> e.via = NoRouter
               /\ e.cost # Infty =>
                      \E k \in LinkCosts(base, source, e.via) :
                          k + CheapestWalk(base, e.via, e.to) = e.cost
PROOF
<1>1. PICK d, x : /\ RoundInv(base, source, Computation(base, source), d, x)
                  /\ \/ AllAdded(base, Computation(base, source))
                     \/ NoRouter \in Computation(base, source).N
  BY ComputationDone
<1>2. RIB(base, source) = DistanceRows(base, x, d)
  BY <1>1 DEF RIB, RoundInv
<1>3. ASSUME NEW e \in RIB(base, source), e.to # source
      PROVE  /\ e.cost = CheapestWalk(base, source, e.to)
             /\ e.cost = Infty <=> e.via = NoRouter
             /\ e.cost # Infty =>
                    \E k \in LinkCosts(base, source, e.via) :
                        k + CheapestWalk(base, e.via, e.to) = e.cost
  <2>1. PICK v \in Known(base) : e = [to |-> v, via |-> x[v], cost |-> d[v]]
    BY <1>2, <1>3 DEF DistanceRows
  <2>2. e.to = v /\ e.via = x[v] /\ e.cost = d[v] /\ v # source
    BY <1>3, <2>1
  <2>3. d[v] \in Nat /\ d[v] <= Infty /\ (d[v] = Infty => x[v] = NoRouter)
    BY <1>1, <2>2 DEF RoundInv
  <2>4. CheapestWalk(base, source, v) = d[v]
    <3>1. CheapestWalk(base, source, v) = FromSource(source, d, v)
      BY <1>1, DoneIsCheapest
    <3>2. QED
      BY <2>2, <3>1 DEF FromSource
  <2>5. d[v] # Infty =>
            /\ x[v] \in Known(base)
            /\ \E k \in LinkCosts(base, source, x[v]) : k + CheapestWalk(base, x[v], v) = d[v]
    <3>1. d[v] # Infty => d[v] < Infty
      BY <2>3, InftyAssumption
    <3>2. QED
      BY <1>1, <2>2, <3>1, DoneIsCheapest
  <2>6. NoRouter \notin Known(base)
    BY KnownFacts
  <2>7. d[v] = Infty <=> x[v] = NoRouter
    BY <2>3, <2>5, <2>6
  <2>8. QED
    BY <2>2, <2>4, <2>5, <2>7
<1>4. QED
  BY <1>3

LEMMA LoopEndsIff ==
    ASSUME NEW base, Good(base), NEW source \in Known(base)
    PROVE  /\ LoopEnds(base, source) <=> ~(Cardinality(UnreachedRows(base, source)) >= 2)
           /\ Known(base) = {source} => LoopEnds(base, source)
PROOF
<1> DEFINE V == Known(base)
           c == Computation(base, source)
           far == V \ c.N
           row(v) == [to |-> v, cost |-> CheapestBy(base, source)[Cardinality(V)][v]]
           K == Cardinality(V)
<1>1. PICK d, x : RoundInv(base, source, c, d, x) /\ (AllAdded(base, c) \/ NoRouter \in c.N)
  BY ComputationDone
<1>2. /\ source \in c.N /\ c.N \subseteq V \union {NoRouter}
      /\ NoRouter \in c.N => far # {}
  BY <1>1 DEF RoundInv
<1>3. LoopEnds(base, source) <=> Cardinality(c.N) = K
  BY DEF LoopEnds, AllAdded
<1>4. NoRouter \in c.N \/ Cardinality(c.N) = K
  BY <1>1 DEF AllAdded
<1>5. \A v \in V : v \in far <=> row(v).cost = Infty
  <2>1. \A v \in V : v \notin c.N <=> FromSource(source, d, v) = Infty
    BY <1>1, DoneIsCheapest
  <2>2. \A v \in V : CheapestWalk(base, source, v) = FromSource(source, d, v)
    BY <1>1, DoneIsCheapest
  <2>3. \A v \in V : CheapestWalk(base, source, v) = row(v).cost
    BY CheapestWalkIs
  <2> HIDE DEF row, c
  <2>4. QED
    BY <2>1, <2>2, <2>3
<1>6. CheapestWalks(base, source) = {row(v) : v \in V}
  BY CheapestByFacts DEF WalkTable, WalkRows
<1>7. NoRouter \notin V /\ IsFiniteSet(V) /\ K \in Nat
  BY KnownFacts
<1>8. Cardinality(UnreachedRows(base, source)) = Cardinality(far)
  <2> DEFINE U == UnreachedRows(base, source)
  <2>1. U = {row(v) : v \in far}
    <3>1. U = {w \in {row(v) : v \in V} : w.cost = Infty}
      BY <1>6 DEF UnreachedRows
    <3> HIDE DEF row, c, U
    <3>2. QED
      BY <1>5, <3>1
  <2>2. \A v : row(v).to = v
    OBVIOUS
  <2> DEFINE f == [v \in far |-> row(v)]
  <2>3. f \in Bijection(far, U)
    <3>1. f \in [far -> U]
      <4> HIDE DEF row, far
      <4>1. QED
        BY <2>1
    <3>2. \A a, b \in far : f[a] = f[b] => a = b
      <4> HIDE DEF row, far
      <4>1. QED
        BY <2>2
    <3>3. \A w \in U : \E v \in far : f[v] = w
      <4> HIDE DEF row, far
      <4>1. QED
        BY <2>1
    <3> HIDE DEF f, U, far
    <3>4. QED
      BY <3>1, <3>2, <3>3 DEF Bijection, Injection, Surjection, IsInjective
  <2>4. IsFiniteSet(far)
    BY <1>7, FS_Subset
  <2> HIDE DEF f, U, far
  <2>5. QED
    BY <2>3, <2>4, FS_Bijection DEF ExistsBijection, U
<1>9. Cardinality(far) \in Nat /\ IsFiniteSet(far) /\ Cardinality(far) = K - Cardinality(c.N \cap V)
      /\ Cardinality(c.N \cap V) \in Nat
  <2>1. far = V \ (c.N \cap V) /\ c.N \cap V \in SUBSET V
    OBVIOUS
  <2>2. IsFiniteSet(far) /\ IsFiniteSet(c.N \cap V)
    BY <1>7, <2>1, FS_Subset
  <2>3. Cardinality(far) \in Nat /\ Cardinality(c.N \cap V) \in Nat
    BY <2>2, FS_CardinalityType
  <2>4. Cardinality(V \ (c.N \cap V)) = Cardinality(V) - Cardinality(V \cap (c.N \cap V))
    BY <1>7, FS_Difference
  <2>5. V \cap (c.N \cap V) = c.N \cap V
    OBVIOUS
  <2>6. QED
    BY <2>1, <2>2, <2>3, <2>4, <2>5
<1>10. CASE NoRouter \in c.N
  <2>1. c.N = (c.N \cap V) \union {NoRouter} /\ NoRouter \notin c.N \cap V
    BY <1>2, <1>7, <1>10
  <2>2. IsFiniteSet(c.N \cap V)
    BY <1>7, FS_Subset
  <2>3. Cardinality(c.N) = Cardinality(c.N \cap V) + 1
    BY <2>1, <2>2, FS_AddElement
  <2>4. Cardinality(far) # 0
    BY <1>2, <1>9, <1>10, FS_EmptySet
  <2>5. Cardinality(c.N) = K <=> ~(Cardinality(far) >= 2)
    <3> HIDE DEF K, far, c
    <3>1. QED
      BY <1>7, <1>9, <2>3, <2>4
  <2>6. V # {source}
    BY <1>2, <1>10
  <2>7. QED
    BY <1>3, <1>8, <2>5, <2>6
<1>11. CASE NoRouter \notin c.N
  <2>1. c.N \cap V = c.N /\ Cardinality(c.N) = K
    BY <1>2, <1>4, <1>11
  <2>2. Cardinality(far) = 0
    <3> HIDE DEF K, far, c
    <3>1. QED
      BY <1>7, <1>9, <2>1
  <2>3. ~(Cardinality(far) >= 2)
    BY <2>2
  <2>4. QED
    BY <1>3, <1>8, <2>1, <2>3
<1>12. QED
  BY <1>10, <1>11

-----------------------------------------------------------------------------
(* The routing tables. *)

LEMMA TrueIsGood ==
    ASSUME OneLinkEach, CostsFinite, NEW base \in [Routers -> Seq(Entry)],
           \A q \in Routers : ToSet(base[q]) \subseteq ToSet(CircuitDB[q])
    PROVE  Good(base)
PROOF
<1>1. \A u \in Routers : \A e \in ToSet(base[u]) : e \in ToSet(CircuitDB[u])
  OBVIOUS
<1>2. \A u \in Routers : \A e \in ToSet(base[u]) : e.cost < Infty
  BY <1>1 DEF CostsFinite
<1>3. \A u \in Routers : \A e \in ToSet(base[u]) : e.link \in OwnLinks(u)
  BY <1>1 DEF OwnLinks
<1>4. \A v \in Known(base) : v \in Routers
  BY DEF Known
<1>5. ASSUME NEW u \in Known(base), NEW v \in Known(base), u # v,
             NEW e \in ToSet(base[u]), NEW f \in ToSet(base[u]),
             v \in Endpoints(base, e.link), v \in Endpoints(base, f.link)
      PROVE  e = f
  <2>1. e.link \in OwnLinks(u) /\ f.link \in OwnLinks(u)
    BY <1>3, <1>4, <1>5
  <2>2. e.link \in OwnLinks(v) /\ f.link \in OwnLinks(v)
    <3>1. /\ \E g \in ToSet(base[v]) : g.link = e.link
          /\ \E g \in ToSet(base[v]) : g.link = f.link
      BY <1>5 DEF Endpoints
    <3>2. QED
      BY <1>3, <1>4, <1>5, <3>1
  <2>3. e.link = f.link
    BY <1>4, <1>5, <2>1, <2>2 DEF OneLinkEach
  <2>4. PICK i \in DOMAIN CircuitDB[u] : CircuitDB[u][i] = e
    BY <1>1, <1>4, <1>5 DEF ToSet
  <2>5. PICK j \in DOMAIN CircuitDB[u] : CircuitDB[u][j] = f
    BY <1>1, <1>4, <1>5 DEF ToSet
  <2>6. i = j
    BY <1>4, <1>5, <2>3, <2>4, <2>5, CircuitAssumption
  <2>7. QED
    BY <2>4, <2>5, <2>6
<1>6. QED
  BY <1>2, <1>5 DEF Good

\* Routing tables in every flood, whatever is lost: what a router has in its RIB
\* when it forwards an LSPDU is right for what it knows (router.cpp:157-237).
TablesAreShortest ==
    \A r \in Routers : status[r] # "init" =>
        \A e \in RIB(networkDB[r], r) : e.to # r =>
            /\ e.cost = CheapestWalk(networkDB[r], r, e.to)
            /\ e.cost = Infty <=> e.via = NoRouter
            /\ e.cost # Infty =>
                   \E k \in LinkCosts(networkDB[r], r, e.via) :
                       k + CheapestWalk(networkDB[r], e.via, e.to) = e.cost

\* Dijkstra's loop is right on every network without parallel links, in every flood.
THEOREM FloodsGiveShortestTables ==
    ASSUME OneLinkEach, CostsFinite
    PROVE  Spec => []TablesAreShortest
PROOF
<1>1. LearningInv => TablesAreShortest
  <2> SUFFICES ASSUME LearningInv, NEW r \in Routers, status[r] # "init"
               PROVE  \A e \in RIB(networkDB[r], r) : e.to # r =>
                          /\ e.cost = CheapestWalk(networkDB[r], r, e.to)
                          /\ e.cost = Infty <=> e.via = NoRouter
                          /\ e.cost # Infty =>
                                 \E k \in LinkCosts(networkDB[r], r, e.via) :
                                     k + CheapestWalk(networkDB[r], e.via, e.to) = e.cost
    BY DEF TablesAreShortest
  <2> DEFINE base == networkDB[r]
  <2>1. /\ base \in [Routers -> Seq(Entry)]
        /\ \A q \in Routers : ToSet(base[q]) \subseteq ToSet(CircuitDB[q])
    BY DEF LearningInv, FloodInv, DatabaseIsTrue
  <2>2. r \in Known(base)
    BY CircuitAssumption DEF LearningInv, OwnLinksFirst, Known
  <2> HIDE DEF base
  <2>3. Good(base)
    BY <2>1, TrueIsGood
  <2>4. QED
    BY <2>2, <2>3, TableIsRight DEF base
<1>2. QED
  BY <1>1, LearningInvariance, PTL

TableInv ==
    /\ db \in [Routers -> Seq(Entry)]
    /\ \A q \in Routers : LinksDiffer(db[q]) /\ ToSet(db[q]) \subseteq ToSet(CircuitDB[q])
    /\ db[routerId] = << >> => ~stuck /\ \A q \in Routers : db[q] = << >>
    /\ db[routerId] # << >> => (stuck <=> ~LoopEnds(db, routerId))

LEMMA TableInvInit == TableInit => TableInv
PROOF
<1>1. SUFFICES ASSUME TableInit PROVE TableInv
  OBVIOUS
<1>2. << >> \in Seq(Entry) /\ LinksDiffer(<< >>) /\ ToSet(<< >>) = {}
  BY DEF LinksDiffer, ToSet
<1>3. db \in [Routers -> Seq(Entry)] /\ ~stuck /\ \A q \in Routers : db[q] = << >>
  BY <1>1, <1>2 DEF TableInit
<1>4. QED
  BY <1>2, <1>3, RouterIdAssumption DEF TableInv

LEMMA TableInvNext ==
    ASSUME OneLinkEach, CostsFinite
    PROVE  TableInv /\ [TableNext]_tableVars => TableInv'
PROOF
<1> SUFFICES ASSUME TableInv, [TableNext]_tableVars
             PROVE  TableInv'
  OBVIOUS
<1>1. ASSUME LearnOwn PROVE TableInv'
  <2>1. /\ CircuitDB[routerId] \in Seq(Entry) /\ CircuitDB[routerId] # << >>
        /\ LinksDiffer(CircuitDB[routerId])
    BY RouterIdAssumption, CircuitAssumption DEF LinksDiffer
  <2>2. /\ db' = [db EXCEPT ![routerId] = CircuitDB[routerId]]
        /\ ~stuck' /\ \A q \in Routers : db[q] = << >>
    BY <1>1 DEF LearnOwn, TableInv
  <2> DEFINE base == db'
  <2>3. base \in [Routers -> Seq(Entry)]
    BY <2>1, <2>2, RouterIdAssumption DEF TableInv
  <2>4. /\ base[routerId] = CircuitDB[routerId]
        /\ \A q \in Routers : q # routerId => base[q] = db[q] /\ base[q] = << >>
    BY <2>2, RouterIdAssumption DEF TableInv
  <2>5. \A q \in Routers : LinksDiffer(base[q]) /\ ToSet(base[q]) \subseteq ToSet(CircuitDB[q])
    BY <2>1, <2>4 DEF TableInv
  <2> HIDE DEF base
  <2>6. Known(base) = {routerId}
    BY <2>1, <2>4, RouterIdAssumption DEF Known
  <2>7. LoopEnds(base, routerId)
    BY <2>3, <2>5, <2>6, TrueIsGood, LoopEndsIff
  <2>8. base[routerId] # << >>
    BY <2>1, <2>4
  <2>9. QED
    BY <2>2, <2>3, <2>5, <2>7, <2>8 DEF TableInv, base
<1>2. ASSUME NEW q \in Routers, NEW e \in ToSet(CircuitDB[q]), Learn(q, e) PROVE TableInv'
  <2>1. /\ db' = [db EXCEPT ![q] = Updated(db[q], e)]
        /\ db[routerId] # << >> /\ stuck' = ~LoopEnds(db', routerId)
    BY <1>2 DEF Learn
  <2>2. e \in Entry /\ db[q] \in Seq(Entry) /\ LinksDiffer(db[q])
    <3>1. CircuitDB[q] \in Seq(Entry)
      BY CircuitAssumption
    <3>2. QED
      BY <3>1 DEF TableInv, ToSet
  <2>3. /\ Updated(db[q], e) \in Seq(Entry) /\ LinksDiffer(Updated(db[q], e))
        /\ ToSet(Updated(db[q], e)) = ToSet(db[q]) \union {e}
    <3>1. Updated(db[q], e) \in Seq(Entry) /\ LinksDiffer(Updated(db[q], e))
      BY <2>2, UpdatedKeepsShape
    <3>2. q \in Routers /\ e \in ToSet(CircuitDB[q]) /\ ToSet(db[q]) \subseteq ToSet(CircuitDB[q])
      BY <1>2 DEF TableInv
    <3>3. ToSet(Updated(db[q], e)) = ToSet(db[q]) \union {e}
      BY <2>2, <3>2, UpdatedKeepsEntries
    <3>4. QED
      BY <3>1, <3>3
  <2>4. Updated(db[q], e) # << >>
    BY <2>3 DEF ToSet
  <2> DEFINE base == db'
  <2>5. base \in [Routers -> Seq(Entry)]
    BY <2>1, <2>3 DEF TableInv
  <2>6. \A p \in Routers : base[p] = IF p = q THEN Updated(db[q], e) ELSE db[p]
    BY <2>1 DEF TableInv
  <2>7. \A p \in Routers : LinksDiffer(base[p]) /\ ToSet(base[p]) \subseteq ToSet(CircuitDB[p])
    BY <2>3, <2>6 DEF TableInv
  <2>8. base[routerId] # << >>
    BY <2>1, <2>4, <2>6, RouterIdAssumption
  <2> HIDE DEF base
  <2>9. stuck' <=> ~LoopEnds(base, routerId)
    BY <2>1 DEF base
  <2>10. QED
    BY <2>5, <2>7, <2>8, <2>9 DEF TableInv, base
<1>3. CASE UNCHANGED tableVars
  BY <1>3 DEF TableInv, tableVars
<1>4. QED
  BY <1>1, <1>2, <1>3 DEF TableNext

LEMMA TableInvariance ==
    ASSUME OneLinkEach, CostsFinite
    PROVE  TableSpec => []TableInv
PROOF
  BY TableInvInit, TableInvNext, PTL DEF TableSpec

LEMMA TableInvGood ==
    ASSUME OneLinkEach, CostsFinite, TableInv, db[routerId] # << >>
    PROVE  Good(db) /\ routerId \in Known(db)
PROOF
  BY TrueIsGood, RouterIdAssumption DEF TableInv, Known

\* On every network without parallel links, and in whatever order its entries are
\* learnt, the routing table has the cheapest walks over what is known, and via
\* begins such a walk (router.cpp:157-237).
THEOREM TableIsAlwaysShortest ==
    ASSUME OneLinkEach, CostsFinite
    PROVE  TableSpec => []TableIsShortest
PROOF
<1>1. TableInv => TableIsShortest
  BY TableInvGood, TableIsRight DEF TableIsShortest
<1>2. QED
  BY <1>1, TableInvariance, PTL

\* There the computation loops for ever exactly when two of the known routers
\* cannot be reached (router.cpp:192-211).
THEOREM StuckExactlyWhenTwoUnreached ==
    ASSUME OneLinkEach, CostsFinite
    PROVE  TableSpec => []StuckIffTwoUnreached
PROOF
<1>1. TableInv => StuckIffTwoUnreached
  <2>1. SUFFICES ASSUME TableInv, db[routerId] # << >>
                 PROVE  stuck <=> Cardinality(UnreachedRows(db, routerId)) >= 2
    BY DEF StuckIffTwoUnreached, UnreachedRows
  <2>2. LoopEnds(db, routerId) <=> ~(Cardinality(UnreachedRows(db, routerId)) >= 2)
    BY <2>1, TableInvGood, LoopEndsIff
  <2>3. QED
    BY <2>1, <2>2 DEF TableInv
<1>2. QED
  BY <1>1, TableInvariance, PTL
=============================================================================
