------------------------------ MODULE Picture ------------------------------
(***************************************************************************)
(* What rendering promises, whatever divides the work: pixels are painted, *)
(* each of them once, and the picture is saved when all are painted.       *)
(***************************************************************************)
CONSTANT Pixels

VARIABLES
    painted,
    repainted,  \* was a pixel painted over?
    saved

vars == <<painted, repainted, saved>>

Init == painted = {} /\ repainted = FALSE /\ saved = FALSE

Paint(p) ==
    p \notin painted /\ painted' = painted \union {p} /\ UNCHANGED <<repainted, saved>>

Save == ~saved /\ painted = Pixels /\ saved' = TRUE /\ UNCHANGED <<painted, repainted>>

Next == (\E p \in Pixels : Paint(p)) \/ Save

Spec == Init /\ [][Next]_vars

\* The picture is finished.
FairSpec == Spec /\ WF_vars(Next)
=============================================================================
