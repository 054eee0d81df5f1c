----------------------------- MODULE Signatures -----------------------------
(***************************************************************************)
(* The signatures of remote procedures (CS454/A3, Database.cpp and rpc.h): *)
(* the bits of an argument type and the order of FunctionSignature, by     *)
(* which the std::maps of binder and servers find an overload.             *)
(***************************************************************************)
EXTENDS Integers, Sequences

CONSTANT Names      \* of functions, as numbers in the order of strcmp

ASSUME NamesAssumption == Names \subseteq Int

\* The fields of an argument type: \div and % are the shifts and masks of the code, also
\* for a negative number.
IOBits(a) == (a \div 1073741824) % 4
DataType(a) == (a \div 65536) % 256
ArrayLength(a) == a % 65536

\* An argument type is an int, negative if bit 31 is set, with the number of a data type:
\* for any other the code throws.  0 is none, it ends an array of argument types.
ArgType == {a \in Int : DataType(a) \in 1 .. 6}
Signature == [name : Names, argTypes : Seq(ArgType)]

IsOutput(a) == IOBits(a) \in {1, 3}
IsInput(a) == IOBits(a) \in {2, 3}

\* Mutant: lengths are left as they are.
UnchangedLength(a) == a

\* Basically make array length 0 or 1
NormalizeArrayLength(a) == IF ArrayLength(a) > 0 THEN a - ArrayLength(a) + 1 ELSE a

\* What operator< looks at, one after the other.
IO(a) == IOBits(NormalizeArrayLength(a))
Type(a) == DataType(NormalizeArrayLength(a))
IsArray(a) == NormalizeArrayLength(a) % 2

ArgEqual(a, b) == IO(a) = IO(b) /\ Type(a) = Type(b) /\ IsArray(a) = IsArray(b)

ArgLess(a, b) ==
    \/ IO(a) < IO(b)
    \/ IO(a) = IO(b) /\ Type(a) < Type(b)
    \/ IO(a) = IO(b) /\ Type(a) = Type(b) /\ IsArray(a) < IsArray(b)

\* The loop over the argument types: the first difference decides.
ArgsLess(s, t) ==
    \E i \in DOMAIN s :
        /\ ArgLess(s[i], t[i])
        /\ \A j \in 1 .. i - 1 : ArgEqual(s[j], t[j])

\* FunctionSignature::operator<
Less(s, t) ==
    \/ s.name < t.name
    \/ s.name = t.name /\ Len(s.argTypes) < Len(t.argTypes)
    \/ /\ s.name = t.name
       /\ Len(s.argTypes) = Len(t.argTypes)
       /\ ArgsLess(s.argTypes, t.argTypes)

\* How a std::map compares keys.
SameKey(s, t) == ~Less(s, t) /\ ~Less(t, s)

-----------------------------------------------------------------------------
\* Two signatures are of the same overload when the arguments agree in direction, in
\* type and in being an array or not (Database.cpp:22, 42-75; server.c:33-36).
SameOverload(s, t) ==
    /\ s.name = t.name
    /\ Len(s.argTypes) = Len(t.argTypes)
    /\ \A i \in DOMAIN s.argTypes : LET a == s.argTypes[i]  b == t.argTypes[i] IN
           /\ IsOutput(a) <=> IsOutput(b)
           /\ IsInput(a) <=> IsInput(b)
           /\ DataType(a) = DataType(b)
           /\ ArrayLength(a) = 0 <=> ArrayLength(b) = 0
=============================================================================
