---------------------------- MODULE MCRemoteCalls ----------------------------
(* Two servers with different functions, and the clients. *)
EXTENDS RemoteCalls, TLC
CONSTANTS s1, s2, f, g
TwoServers == (s1 :> <<f, g>>) @@ (s2 :> <<g>>)
=============================================================================
