--------------------------- MODULE MCRoutingTable ---------------------------
(* One router's database on the networks of Topologies. *)
EXTENDS RoutingTable, Topologies

\* The network is one of those the theorems about the routing table are about.
ASSUME NetworkAssumption == OneLinkEach /\ CostsFinite
=============================================================================
