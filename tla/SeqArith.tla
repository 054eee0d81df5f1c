------------------------------ MODULE SeqArith ------------------------------
(***************************************************************************)
(* Sequence-number arithmetic of the Go-Back-N file transfer (CS456/A2).   *)
(* A packet carries a number modulo SeqNumModulo; the sender rebuilds the  *)
(* unwrapped position of an ACK from it with Java's remainder operator.    *)
(***************************************************************************)
EXTENDS Integers

CONSTANT SeqNumModulo   \* packet.SeqNumModulo, 32 in the program

ASSUME ModuloAssumption == SeqNumModulo \in Nat \ {0}

\* Java's %: truncated division, so the result takes the sign of the dividend.
JavaRem(a) == IF a < 0 THEN -((-a) % SeqNumModulo) ELSE a % SeqNumModulo

\* packet(Type, SeqNum, data) stores SeqNum % SeqNumModulo, sign and all.
SeqNum(n) == JavaRem(n)

\* Numbers a packet on the wire may carry: -1 is what the receiver sends when
\* it repeats an ACK just after its expected number wrapped to 0.
SeqNums == -1 .. SeqNumModulo - 1

\* Mutant: the distance without the second + 32, % 32.
AckDistanceSigned(newSeqNum, lastConfirmedChunk) ==
    JavaRem(newSeqNum - JavaRem(lastConfirmedChunk))

\* How far an ACK numbered newSeqNum moves lastConfirmedChunk.
AckDistance(newSeqNum, lastConfirmedChunk) ==
    JavaRem(JavaRem(newSeqNum - JavaRem(lastConfirmedChunk)) + SeqNumModulo)
=============================================================================
