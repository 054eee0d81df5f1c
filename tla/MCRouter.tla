------------------------------ MODULE MCRouter ------------------------------
(* The routers on the networks of Topologies. *)
EXTENDS Router, Topologies
=============================================================================
