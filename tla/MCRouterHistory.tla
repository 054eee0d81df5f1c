--------------------------- MODULE MCRouterHistory --------------------------
(* The routers and what they withhold on the networks of Topologies. *)
EXTENDS RouterHistory, Topologies
=============================================================================
