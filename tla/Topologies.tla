----------------------------- MODULE Topologies -----------------------------
(* Networks to run the routers of CS456/A3 on, as the circuit databases the   *)
(* emulator hands out.  The order of a router's links is the order in which   *)
(* it announces them.                                                         *)
EXTENDS Integers, Sequences, TLC

LOCAL On(link, cost) == [link |-> link, cost |-> cost]

\* 1-2 by link 1, 2-3 by link 2, 3-1 by link 3.
Triangle == 1 :> <<On(1, 1), On(3, 5)>> @@ 2 :> <<On(1, 1), On(2, 2)>> @@ 3 :> <<On(2, 2), On(3, 5)>>

\* 1-2-3-4.
Path == 1 :> <<On(1, 1)>> @@ 2 :> <<On(1, 1), On(2, 2)>> @@ 3 :> <<On(2, 2), On(3, 3)>> @@ 4 :> <<On(3, 3)>>

\* NBR_ROUTER routers: the cycle 1-2-3-4-5 with a dear link 5-1 and the dear
\* shortcut 1-3.
Pentagon ==
    1 :> <<On(6, 4), On(1, 1), On(5, 7)>> @@ 2 :> <<On(1, 1), On(2, 2)>> @@
    3 :> <<On(2, 2), On(3, 1), On(6, 4)>> @@ 4 :> <<On(3, 1), On(4, 1)>> @@ 5 :> <<On(5, 7), On(4, 1)>>

\* Two links between the same two routers.
Parallel == 1 :> <<On(1, 5), On(2, 1)>> @@ 2 :> <<On(1, 5), On(2, 1)>>
=============================================================================
