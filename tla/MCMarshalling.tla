---------------------------- MODULE MCMarshalling ----------------------------
(* Overloads that differ in one respect each, as server.c builds them. *)
EXTENDS Marshalling

Arg(io, type, length) == (IF io >= 2 THEN io - 4 ELSE io) * 1073741824 + type * 65536 + length
Output == 1
Input == 2
InOut == 3
Sig(args) == [name |-> 1, argTypes |-> args]

Overloads ==
    {Sig(<< >>), [name |-> 2, argTypes |-> << >>]}
    \union {Sig(<<Arg(io, 3, 0)>>) : io \in {Input, Output, InOut}}
    \union {Sig(<<Arg(InOut, type, n)>>) : type \in {1, 5}, n \in 0 .. 3}
    \union {Sig(<<Arg(Input, 1, n), Arg(Output, 2, m)>>) : n \in 0 .. 2, m \in 1 .. 2}
    \union {Sig(<<Arg(Output, 2, 1), Arg(Input, 1, 2)>>), Sig(<<Arg(Input, 4, 2), Arg(Output, 6, 1), Arg(InOut, 3, 0)>>)}

StringLength(s) == IF s = 2 THEN 3 ELSE 2
=============================================================================
