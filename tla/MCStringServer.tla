--------------------------- MODULE MCStringServer ---------------------------
(* Clients of the string server, and how many lines each of them has to read: the *)
(* others only come, take a slot and leave.                                       *)
EXTENDS StringServer
CONSTANTS c1, c2, c3
OneWithLines == [c \in Clients |-> IF c = c1 THEN 2 ELSE 0]
=============================================================================
