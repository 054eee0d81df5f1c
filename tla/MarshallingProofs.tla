------------------------- MODULE MarshallingProofs -------------------------
(***************************************************************************)
(* FunctionSignature::operator< is an order a std::map can work with, and  *)
(* its keys are the overloads; what is written into a message is read out  *)
(* of it; calls run the right overload and pass arguments by value-result: *)
(* for all signatures, of any length, and all lengths of names.            *)
(*                                                                         *)
(* Fields lie one behind the other (Lies, Holds): Serialize lays them so   *)
(* (Written), and each reader, given where its field starts, returns what  *)
(* lies there and where the next one starts (IdMessage to ArgsMessage).    *)
(* CallInv then follows one message at a time through the programs.        *)
(***************************************************************************)
EXTENDS Marshalling, WellFoundedInduction, FiniteSetTheorems, TLAPS

-----------------------------------------------------------------------------
(* One argument type. *)

\* What operator< looks at, as one number.
Rank(a) == 14 * IO(a) + 2 * Type(a) + IsArray(a)

\* Quotient and remainder, and that there are no others.
LEMMA Divided ==
    ASSUME NEW m \in Nat \ {0}, NEW a \in Int
    PROVE  /\ a \div m \in Int
           /\ a % m \in Int /\ 0 <= a % m /\ a % m < m
           /\ a = (a \div m) * m + (a % m)
OBVIOUS

LEMMA Composed ==
    ASSUME NEW m \in Nat \ {0}, NEW a \in Int, NEW q \in Int, NEW r \in Int,
           0 <= r, r < m, a = q * m + r
    PROVE  a \div m = q /\ a % m = r
<1> DEFINE p == a \div m
           s == a % m
<1>1. p \in Int /\ s \in Int /\ 0 <= s /\ s < m /\ a = p * m + s
  BY Divided
<1> HIDE DEF p, s
<1>2. ASSUME NEW x \in Int, NEW y \in Int, x < y PROVE x * m + m <= y * m
  <2> DEFINE d == y - x - 1
  <2>1. d \in Nat
    BY <1>2
  <2>2. d * m >= 0
    BY <2>1
  <2>3. y * m = (x + 1 + d) * m
    BY <2>1
  <2>4. (x + 1 + d) * m = x * m + m + d * m
    BY <2>1
  <2> QED BY <2>2, <2>3, <2>4
<1>3. p * m \in Int /\ q * m \in Int
  BY <1>1
<1>4. CASE p < q
  BY <1>1, <1>2, <1>3, <1>4
<1>5. CASE q < p
  BY <1>1, <1>2, <1>3, <1>5
<1>6. CASE p = q
  BY <1>1, <1>3, <1>6
<1> QED BY <1>1, <1>4, <1>5, <1>6 DEF p, s

\* The lower 16 bits have no influence on the others, and end in their own last bit.
LEMMA LowerBits ==
    ASSUME NEW q \in Int, NEW v \in Int, 0 <= v, v < 65536
    PROVE  /\ (q * 65536 + v) \div 65536 = q
           /\ (q * 65536 + v) % 65536 = v
           /\ (q * 65536 + v) \div 1073741824 = q \div 16384
           /\ v < 2 => (q * 65536 + v) % 2 = v
<1> DEFINE n == q * 65536 + v
           p == q \div 16384
           r == q % 16384
<1>1. n \in Int
  OBVIOUS
<1>2. n \div 65536 = q /\ n % 65536 = v
  BY <1>1, Composed
<1>3. p \in Int /\ r \in Int /\ 0 <= r /\ r < 16384 /\ q = p * 16384 + r
  BY Divided
<1> HIDE DEF p, r
<1>4. n = p * 1073741824 + (r * 65536 + v)
  BY <1>3
<1>5. r * 65536 + v \in Int /\ 0 <= r * 65536 + v /\ r * 65536 + v < 1073741824
  BY <1>3
<1>6. n \div 1073741824 = p
  <2> HIDE DEF n
  <2> DEFINE u == r * 65536 + v
  <2>1. u \in Int /\ 0 <= u /\ u < 1073741824 /\ n = p * 1073741824 + u
    BY <1>4, <1>5
  <2> HIDE DEF u
  <2> QED BY <1>1, <1>3, <2>1, Composed
<1>7. ASSUME v < 2 PROVE n % 2 = v
  <2>1. n = (q * 32768) * 2 + v /\ q * 32768 \in Int
    OBVIOUS
  <2> HIDE DEF n
  <2> QED BY <1>1, <1>7, <2>1, Composed
<1> QED BY <1>2, <1>6, <1>7 DEF n, p

\* Making the array length 0 or 1 leaves the other bits of an int alone.
LEMMA LengthReplaced ==
    ASSUME NEW a \in Int
    PROVE  /\ NormalizeArrayLength(a) \div 65536 = a \div 65536
           /\ NormalizeArrayLength(a) \div 1073741824 = a \div 1073741824
           /\ NormalizeArrayLength(a) % 2 = IF ArrayLength(a) = 0 THEN 0 ELSE 1
<1> DEFINE n == NormalizeArrayLength(a)
           q == a \div 65536
           r == ArrayLength(a)
           v == IF r = 0 THEN 0 ELSE 1
<1>1. q \in Int /\ r \in Int /\ 0 <= r /\ r < 65536 /\ a = q * 65536 + r
  BY Divided DEF ArrayLength
<1>2. n = IF r > 0 THEN a - r + 1 ELSE a
  BY DEF NormalizeArrayLength
<1> HIDE DEF n, q, r
<1>3. v \in Int /\ 0 <= v /\ v < 2
  OBVIOUS
<1>4. n = q * 65536 + v
  BY <1>1, <1>2
<1> HIDE DEF v
<1>5. n \div 65536 = q /\ n \div 1073741824 = q \div 16384 /\ n % 2 = v
  <2>1. v < 65536
    BY <1>3
  <2> QED BY <1>1, <1>3, <1>4, <2>1, LowerBits
<1>6. a \div 65536 = q /\ a \div 1073741824 = q \div 16384
  BY <1>1, LowerBits
<1> QED BY <1>5, <1>6 DEF n, r, v

LEMMA Normalized ==
    ASSUME NEW a \in ArgType
    PROVE  /\ IO(a) = IOBits(a) /\ IO(a) \in 0 .. 3
           /\ Type(a) = DataType(a) /\ Type(a) \in 1 .. 6
           /\ IsArray(a) = IF ArrayLength(a) = 0 THEN 0 ELSE 1
<1>1. a \in Int /\ DataType(a) \in 1 .. 6
  BY DEF ArgType
<1> DEFINE n == NormalizeArrayLength(a)
<1>2. /\ n \div 65536 = a \div 65536
      /\ n \div 1073741824 = a \div 1073741824
      /\ n % 2 = IF ArrayLength(a) = 0 THEN 0 ELSE 1
  BY <1>1, LengthReplaced
<1> HIDE DEF n
<1>3. IOBits(n) = IOBits(a) /\ DataType(n) = DataType(a)
  BY <1>2 DEF IOBits, DataType
<1>4. IOBits(a) \in 0 .. 3
  <2>1. a \div 1073741824 \in Int
    BY <1>1, Divided
  <2> QED BY <2>1, Divided DEF IOBits
<1> QED BY <1>1, <1>2, <1>3, <1>4 DEF n, IO, Type, IsArray

\* The order on argument types is that of their ranks.
LEMMA Ranked ==
    ASSUME NEW a \in ArgType, NEW b \in ArgType
    PROVE  /\ Rank(a) \in Nat
           /\ ArgLess(a, b) <=> Rank(a) < Rank(b)
           /\ ArgEqual(a, b) <=> Rank(a) = Rank(b)
<1>1. /\ IO(a) \in 0 .. 3 /\ Type(a) \in 1 .. 6 /\ IsArray(a) \in 0 .. 1
      /\ IO(b) \in 0 .. 3 /\ Type(b) \in 1 .. 6 /\ IsArray(b) \in 0 .. 1
  BY Normalized
<1> QED BY <1>1 DEF Rank, ArgLess, ArgEqual

\* Two argument types have the same rank exactly when they mean the same.
LEMMA SameArg ==
    ASSUME NEW a \in ArgType, NEW b \in ArgType
    PROVE  ArgEqual(a, b) <=>
               /\ IsOutput(a) <=> IsOutput(b)
               /\ IsInput(a) <=> IsInput(b)
               /\ DataType(a) = DataType(b)
               /\ ArrayLength(a) = 0 <=> ArrayLength(b) = 0
<1>1. IOBits(a) \in 0 .. 3 /\ IOBits(b) \in 0 .. 3
  BY Normalized
<1>2. IOBits(a) = IOBits(b) <=> (IsOutput(a) <=> IsOutput(b)) /\ (IsInput(a) <=> IsInput(b))
  BY <1>1 DEF IsOutput, IsInput
<1>3. IsArray(a) = IsArray(b) <=> (ArrayLength(a) = 0 <=> ArrayLength(b) = 0)
  BY Normalized
<1>4. ArgEqual(a, b) <=>
        IOBits(a) = IOBits(b) /\ DataType(a) = DataType(b) /\ IsArray(a) = IsArray(b)
  BY Normalized DEF ArgEqual
<1> QED BY <1>2, <1>3, <1>4

-----------------------------------------------------------------------------
(* The first difference. *)

LEMMA LeastElement ==
    ASSUME NEW S \in SUBSET Nat, S # {}
    PROVE  \E x \in S : \A y \in S : x <= y
<1> DEFINE R == {e \in Nat \X Nat : e[1] < e[2]}
<1>1. R = OpToRel(<, Nat)
  BY DEF OpToRel
<1>2. IsWellFoundedOn(R, Nat)
  BY <1>1, NatLessThanWellFounded
<1> HIDE DEF R
<1>3. \E x \in S : \A y \in S : ~ (<<y, x>> \in R)
  BY <1>2, WFMin
<1>4. \A x \in S : \A y \in S : ~ (<<y, x>> \in R) => x <= y
  BY DEF R
<1> QED BY <1>3, <1>4

LEMMA Members ==
    ASSUME NEW s \in Seq(ArgType)
    PROVE  Len(s) \in Nat /\ DOMAIN s = 1 .. Len(s) /\ \A i \in 1 .. Len(s) : s[i] \in ArgType
OBVIOUS

\* Of two different lists of the same length one is less.
LEMMA FirstDifference ==
    ASSUME NEW s \in Seq(ArgType), NEW t \in Seq(ArgType), Len(s) = Len(t),
           ~ \A i \in DOMAIN s : ArgEqual(s[i], t[i])
    PROVE  ArgsLess(s, t) \/ ArgsLess(t, s)
<1> DEFINE D == {i \in 1 .. Len(s) : ~ArgEqual(s[i], t[i])}
<1>1. D \in SUBSET Nat /\ D # {}
  BY Members
<1>2. PICK i \in D : \A j \in D : i <= j
  BY <1>1, LeastElement
<1>3. i \in 1 .. Len(s) /\ s[i] \in ArgType /\ t[i] \in ArgType
  BY <1>2, Members
<1>4. ArgLess(s[i], t[i]) \/ ArgLess(t[i], s[i])
  BY <1>2, <1>3, Ranked
<1>5. ASSUME NEW j \in 1 .. i - 1
      PROVE  ArgEqual(s[j], t[j]) /\ ArgEqual(t[j], s[j])
  <2>1. j \in 1 .. Len(s) /\ j < i
    BY <1>3, Members
  <2>2. ArgEqual(s[j], t[j])
    BY <1>2, <1>3, <2>1, Members
  <2> QED BY <2>2 DEF ArgEqual
<1>6. i \in DOMAIN s /\ i \in DOMAIN t
  BY <1>3, Members
<1> QED BY <1>4, <1>5, <1>6 DEF ArgsLess

\* Of two lists of the same length at most one is less, and neither if they are alike.
LEMMA OneWay ==
    ASSUME NEW s \in Seq(ArgType), NEW t \in Seq(ArgType), Len(s) = Len(t), ArgsLess(s, t)
    PROVE  ~ArgsLess(t, s) /\ ~ \A i \in DOMAIN s : ArgEqual(s[i], t[i])
<1>1. PICK i \in 1 .. Len(s) :
          ArgLess(s[i], t[i]) /\ \A j \in 1 .. i - 1 : ArgEqual(s[j], t[j])
  BY Members DEF ArgsLess
<1>2. i \in Nat /\ s[i] \in ArgType /\ t[i] \in ArgType
  BY Members
<1>3. ~ArgEqual(s[i], t[i]) /\ ~ArgEqual(t[i], s[i]) /\ ~ArgLess(t[i], s[i])
  BY <1>1, <1>2, Ranked
<1>4. ASSUME NEW k \in 1 .. Len(s), ArgLess(t[k], s[k]),
             \A j \in 1 .. k - 1 : ArgEqual(t[j], s[j])
      PROVE  FALSE
  <2>1. t[k] \in ArgType /\ s[k] \in ArgType /\ k \in Nat
    BY Members
  <2>2. ~ArgEqual(s[k], t[k])
    BY <1>4, <2>1, Ranked
  <2>3. k < i => k \in 1 .. i - 1
    BY <1>2, <2>1
  <2>4. i < k => i \in 1 .. k - 1
    BY <1>2, <2>1
  <2>5. k < i \/ i < k \/ i = k
    BY <1>2, <2>1
  <2> QED BY <1>1, <1>3, <1>4, <2>2, <2>3, <2>4, <2>5
<1>5. ~ArgsLess(t, s)
  BY <1>4, Members DEF ArgsLess
<1> QED BY <1>3, <1>5, Members

LEMMA ArgsTransitive ==
    ASSUME NEW s \in Seq(ArgType), NEW t \in Seq(ArgType), NEW u \in Seq(ArgType),
           Len(s) = Len(t), Len(t) = Len(u), ArgsLess(s, t), ArgsLess(t, u)
    PROVE  ArgsLess(s, u)
<1>1. PICK i \in 1 .. Len(s) :
          ArgLess(s[i], t[i]) /\ \A j \in 1 .. i - 1 : ArgEqual(s[j], t[j])
  BY Members DEF ArgsLess
<1>2. PICK k \in 1 .. Len(s) :
          ArgLess(t[k], u[k]) /\ \A j \in 1 .. k - 1 : ArgEqual(t[j], u[j])
  BY Members DEF ArgsLess
<1> DEFINE f == IF i < k THEN i ELSE k
<1>3. f \in 1 .. Len(s) /\ f <= i /\ f <= k /\ i \in Nat /\ k \in Nat /\ f \in Nat
  BY Members
<1>4. ArgLess(s[f], u[f])
  <2>1. s[f] \in ArgType /\ t[f] \in ArgType /\ u[f] \in ArgType
    BY <1>3, Members
  <2>2. f = i \/ f \in 1 .. i - 1
    BY <1>3, Members
  <2>3. f = k \/ f \in 1 .. k - 1
    BY <1>3, Members
  <2>4. f = i \/ f = k
    OBVIOUS
  <2> HIDE DEF f
  <2>5. Rank(s[f]) <= Rank(t[f]) /\ Rank(t[f]) <= Rank(u[f])
    <3>1. ArgLess(s[f], t[f]) \/ ArgEqual(s[f], t[f])
      BY <1>1, <2>2
    <3>2. ArgLess(t[f], u[f]) \/ ArgEqual(t[f], u[f])
      BY <1>2, <2>3
    <3>3. Rank(s[f]) \in Nat /\ Rank(t[f]) \in Nat /\ Rank(u[f]) \in Nat
      BY <2>1, Ranked
    <3>4. Rank(s[f]) < Rank(t[f]) \/ Rank(s[f]) = Rank(t[f])
      BY <2>1, <3>1, Ranked
    <3>5. Rank(t[f]) < Rank(u[f]) \/ Rank(t[f]) = Rank(u[f])
      BY <2>1, <3>2, Ranked
    <3> QED BY <3>3, <3>4, <3>5
  <2>6. Rank(s[f]) < Rank(t[f]) \/ Rank(t[f]) < Rank(u[f])
    BY <1>1, <1>2, <2>1, <2>4, Ranked
  <2>7. Rank(s[f]) \in Nat /\ Rank(t[f]) \in Nat /\ Rank(u[f]) \in Nat
    BY <2>1, Ranked
  <2>8. Rank(s[f]) < Rank(u[f])
    BY <2>5, <2>6, <2>7
  <2> QED BY <2>1, <2>8, Ranked
<1>5. ASSUME NEW j \in 1 .. f - 1 PROVE ArgEqual(s[j], u[j])
  <2>1. j \in 1 .. i - 1 /\ j \in 1 .. k - 1
    BY <1>3, Members
  <2>2. ArgEqual(s[j], t[j]) /\ ArgEqual(t[j], u[j])
    BY <1>1, <1>2, <2>1
  <2> QED BY <2>2 DEF ArgEqual
<1>6. f \in DOMAIN s
  BY <1>3, Members
<1> HIDE DEF f
<1> QED BY <1>4, <1>5, <1>6 DEF ArgsLess

-----------------------------------------------------------------------------
(* Overloads. *)

\* Two signatures are the same key of the maps in the binder and the servers exactly
\* when they are of the same overload (Database.cpp:35-80, server.c:33-36).
THEOREM KeysAreOverloads ==
    ASSUME NEW s \in Signature, NEW t \in Signature
    PROVE  SameKey(s, t) <=> SameOverload(s, t)
<1> DEFINE S == s.argTypes
           T == t.argTypes
           Alike == \A i \in DOMAIN S : ArgEqual(S[i], T[i])
<1>1. s.name \in Int /\ t.name \in Int /\ S \in Seq(ArgType) /\ T \in Seq(ArgType)
  BY NamesAssumption DEF Signature
<1> HIDE DEF S, T
<1>2. Len(S) \in Nat /\ Len(T) \in Nat
  BY <1>1, Members
<1>3. SameKey(s, t) <=>
        s.name = t.name /\ Len(S) = Len(T) /\ ~ArgsLess(S, T) /\ ~ArgsLess(T, S)
  BY <1>1, <1>2 DEF SameKey, Less, S, T
<1>4. Len(S) = Len(T) => (Alike <=> ~ArgsLess(S, T) /\ ~ArgsLess(T, S))
  <2> SUFFICES ASSUME Len(S) = Len(T)
               PROVE  Alike <=> ~ArgsLess(S, T) /\ ~ArgsLess(T, S)
    OBVIOUS
  <2>1. ~Alike => ArgsLess(S, T) \/ ArgsLess(T, S)
    BY <1>1, FirstDifference
  <2>2. ArgsLess(S, T) => ~Alike
    BY <1>1, OneWay
  <2>3. ArgsLess(T, S) => ~Alike
    <3>1. ArgsLess(T, S) => ~ \A i \in DOMAIN T : ArgEqual(T[i], S[i])
      BY <1>1, OneWay
    <3>2. Alike => \A i \in DOMAIN T : ArgEqual(T[i], S[i])
      BY <1>1, Members DEF ArgEqual
    <3> QED BY <3>1, <3>2
  <2> QED BY <2>1, <2>2, <2>3
<1>5. SameOverload(s, t) <=> s.name = t.name /\ Len(S) = Len(T) /\ Alike
  <2>1. Len(S) = Len(T) => \A i \in DOMAIN S : S[i] \in ArgType /\ T[i] \in ArgType
    BY <1>1, Members
  <2>2. Len(S) = Len(T) =>
          (Alike <=> \A i \in DOMAIN S :
              /\ IsOutput(S[i]) <=> IsOutput(T[i])
              /\ IsInput(S[i]) <=> IsInput(T[i])
              /\ DataType(S[i]) = DataType(T[i])
              /\ ArrayLength(S[i]) = 0 <=> ArrayLength(T[i]) = 0)
    BY <2>1, SameArg
  <2> QED BY <2>2 DEF SameOverload, S, T
<1> QED BY <1>3, <1>4, <1>5

\* operator< is a strict order, as std::map requires of a comparison: with the theorem
\* before, whose relation is an equivalence, a strict weak one (Database.cpp:35-80).
THEOREM LessIsStrictOrder ==
    /\ \A s \in Signature : ~Less(s, s)
    /\ \A s, t, u \in Signature : Less(s, t) /\ Less(t, u) => Less(s, u)
<1>1. ASSUME NEW s \in Signature PROVE ~Less(s, s)
  <2>1. s.name \in Int /\ s.argTypes \in Seq(ArgType)
    BY NamesAssumption DEF Signature
  <2>2. ~ArgsLess(s.argTypes, s.argTypes)
    BY <2>1, OneWay
  <2> QED BY <2>1, <2>2, Members DEF Less
<1>2. ASSUME NEW s \in Signature, NEW t \in Signature, NEW u \in Signature,
             Less(s, t), Less(t, u)
      PROVE  Less(s, u)
  <2>1. /\ s.name \in Int /\ t.name \in Int /\ u.name \in Int
        /\ s.argTypes \in Seq(ArgType) /\ t.argTypes \in Seq(ArgType)
        /\ u.argTypes \in Seq(ArgType)
    BY NamesAssumption DEF Signature
  <2>2. Len(s.argTypes) \in Nat /\ Len(t.argTypes) \in Nat /\ Len(u.argTypes) \in Nat
    BY <2>1, Members
  <2>3. /\ Len(s.argTypes) = Len(t.argTypes) /\ Len(t.argTypes) = Len(u.argTypes)
        /\ ArgsLess(s.argTypes, t.argTypes) /\ ArgsLess(t.argTypes, u.argTypes)
        => ArgsLess(s.argTypes, u.argTypes)
    BY <2>1, ArgsTransitive
  <2> QED BY <1>2, <2>1, <2>2, <2>3 DEF Less
<1> QED BY <1>1, <1>2

-----------------------------------------------------------------------------
(* Folds. *)

LEMMA LastIsMax ==
    ASSUME NEW S, NEW k \in S, \A j \in S : j \in Nat /\ j <= k
    PROVE  Max(S) = k
<1>1. k \in Nat /\ \A y \in S : k >= y
  OBVIOUS
<1>2. \A x \in S : (\A y \in S : x >= y) => x = k
  BY <1>1
<1> QED BY <1>1, <1>2 DEF Max

LEMMA GreatestInSet ==
    ASSUME NEW n \in Nat, NEW S \in SUBSET (1 .. n), S # {}
    PROVE  Max(S) \in S
<1> DEFINE U == {n - k : k \in S}
<1>1. U \in SUBSET Nat /\ U # {}
  <2>1. \A k \in S : n - k \in Nat
    OBVIOUS
  <2> QED BY <2>1
<1>2. PICK u \in U : \A v \in U : u <= v
  <2> HIDE DEF U
  <2> QED BY <1>1, LeastElement
<1>3. PICK k \in S : u = n - k
  OBVIOUS
<1>4. \A j \in S : k >= j
  <2>1. ASSUME NEW j \in S PROVE k >= j
    <3>1. n - j \in U
      BY <2>1
    <3>2. u <= n - j
      BY <1>2, <3>1
    <3> QED BY <1>3, <2>1, <3>2
  <2> QED BY <2>1
<1> QED BY <1>3, <1>4 DEF Max

\* The initial segments are those of which a fold from the left is made.
LEMMA Segments ==
    ASSUME NEW k \in Nat
    PROVE  /\ 1 .. 0 = {}
           /\ k # 0 => /\ 1 .. k # {} /\ Max(1 .. k) = k /\ k - 1 \in Nat
                       /\ (1 .. k) \ {k} = 1 .. (k - 1)
<1>1. ASSUME k # 0 PROVE k \in 1 .. k /\ \A j \in 1 .. k : j \in Nat /\ j <= k
  BY <1>1
<1>2. k # 0 => Max(1 .. k) = k
  BY <1>1, LastIsMax
<1>3. k # 0 => (1 .. k) \ {k} = 1 .. (k - 1)
  OBVIOUS
<1>4. k # 0 => 1 .. k # {} /\ k - 1 \in Nat
  BY <1>1
<1>5. 1 .. 0 = {}
  OBVIOUS
<1> QED BY <1>2, <1>3, <1>4, <1>5

\* f[s] is the fold of the part s of 1 .. n.
Folds(f, n, first, op) ==
    \A s \in SUBSET (1 .. n) : f[s] = IF s = {} THEN first ELSE op[<<f[s \ {Max(s)}], Max(s)>>]

LEMMA FoldExists ==
    ASSUME NEW n \in Nat, NEW S, NEW first \in S, NEW op \in [S \X (1 .. n) -> S]
    PROVE  \E f \in [SUBSET (1 .. n) -> S] : Folds(f, n, first, op)
<1> DEFINE Value(f, s) == IF s = {} THEN first ELSE op[<<f[s \ {Max(s)}], Max(s)>>]
           Has(k) == \E f \in [SUBSET (1 .. k) -> S] : \A s \in SUBSET (1 .. k) : f[s] = Value(f, s)
           B == {k \in 0 .. n : ~Has(k)}
<1>1. Has(0)
  <2> DEFINE f == [s \in SUBSET (1 .. 0) |-> first]
  <2>1. \A s \in SUBSET (1 .. 0) : s = {}
    BY Segments
  <2>2. \A s \in SUBSET (1 .. 0) : f[s] = Value(f, s)
    BY <2>1
  <2>3. f \in [SUBSET (1 .. 0) -> S]
    OBVIOUS
  <2> QED BY <2>2, <2>3
<1>2. ASSUME NEW k \in 1 .. n, Has(k - 1) PROVE Has(k)
  <2>1. PICK g \in [SUBSET (1 .. (k - 1)) -> S] : \A s \in SUBSET (1 .. (k - 1)) : g[s] = Value(g, s)
    BY <1>2
  <2> DEFINE P == SUBSET (1 .. k)
             Q == SUBSET (1 .. (k - 1))
             h == [s \in P |-> IF k \in s THEN op[<<g[s \ {k}], k>>] ELSE g[s]]
  <2>2. \A s \in P : (k \in s => s \ {k} \in Q /\ k \notin s \ {k}) /\ (k \notin s => s \in Q)
    OBVIOUS
  <2>3. \A s \in Q : s \in P /\ k \notin s
    OBVIOUS
  <2>4. \A s \in P : k \in s => Max(s) = k
    <3>1. ASSUME NEW s \in P, k \in s PROVE \A j \in s : j \in Nat /\ j <= k
      BY <3>1
    <3> QED BY <3>1, LastIsMax
  <2> HIDE DEF P, Q
  <2>5. h \in [P -> S]
    <3>1. \A s \in P : h[s] \in S
      BY <2>1, <2>2 DEF Q
    <3> QED BY <3>1
  <2>6. ASSUME NEW s \in P PROVE h[s] = Value(h, s)
    <3>1. CASE k \in s
      <4>1. s \ {k} \in Q /\ s \ {k} \in P /\ k \notin s \ {k} /\ s # {} /\ Max(s) = k
        BY <2>2, <2>3, <2>4, <2>6, <3>1
      <4>2. h[s \ {k}] = g[s \ {k}] /\ h[s] = op[<<g[s \ {k}], k>>]
        BY <2>6, <3>1, <4>1
      <4> HIDE DEF h
      <4> QED BY <4>1, <4>2
    <3>2. CASE k \notin s
      <4>1. s \in Q /\ s \ {Max(s)} \in P /\ k \notin s \ {Max(s)}
        BY <2>2, <2>6, <3>2 DEF P
      <4>2. h[s] = g[s] /\ g[s] = Value(g, s) /\ h[s \ {Max(s)}] = g[s \ {Max(s)}]
        BY <2>1, <2>6, <3>2, <4>1 DEF Q
      <4> HIDE DEF h
      <4> QED BY <4>2
    <3> QED BY <3>1, <3>2
  <2> HIDE DEF h
  <2> QED BY <2>5, <2>6 DEF P
<1> HIDE DEF Has
<1>3. B = {}
  <2>1. SUFFICES ASSUME B # {} PROVE FALSE
    OBVIOUS
  <2>2. PICK k \in B : \A m \in B : k <= m
    <3>1. B \in SUBSET Nat
      OBVIOUS
    <3> HIDE DEF B
    <3> QED BY <2>1, <3>1, LeastElement
  <2>3. k \in 0 .. n /\ k # 0 /\ ~Has(k)
    BY <1>1
  <2>4. k \in 1 .. n /\ k - 1 \in 0 .. n /\ ~(k <= k - 1)
    BY <2>3
  <2>5. k - 1 \notin B
    <3> HIDE DEF B
    <3> QED BY <2>2, <2>4
  <2> QED BY <1>2, <2>3, <2>4, <2>5
<1>4. Has(n)
  BY <1>3
<1> QED BY <1>4 DEF Has, Folds

-----------------------------------------------------------------------------
(* Fields, one behind the other. *)

FieldOf(V) == [size : Nat \ {0}, value : V]

\* The fields fs are in data from offset s to offset e; off[k] is where the k-th ends.
Lies(data, fs, off) ==
    /\ \A k \in 0 .. Len(fs) : off[k] \in Nat
    /\ \A k \in 1 .. Len(fs) : /\ off[k] = off[k - 1] + fs[k].size
                               /\ off[k - 1] \in DOMAIN data
                               /\ data[off[k - 1]] = fs[k].value

Holds(data, fs, s, e) == \E off : Lies(data, fs, off) /\ off[0] = s /\ off[Len(fs)] = e

LEMMA HoldsNat ==
    ASSUME NEW V, NEW fs \in Seq(FieldOf(V)), NEW data, NEW s, NEW e, Holds(data, fs, s, e)
    PROVE  s \in Nat /\ e \in Nat
<1>1. PICK off : Lies(data, fs, off) /\ off[0] = s /\ off[Len(fs)] = e
  BY DEF Holds
<1>2. Len(fs) \in Nat /\ 0 \in 0 .. Len(fs) /\ Len(fs) \in 0 .. Len(fs)
  OBVIOUS
<1> QED BY <1>1, <1>2 DEF Lies

LEMMA HoldsConcat ==
    ASSUME NEW V, NEW fs \in Seq(FieldOf(V)), NEW gs \in Seq(FieldOf(V)),
           NEW data, NEW s, NEW e, Holds(data, fs \o gs, s, e)
    PROVE  \E mid \in Nat : Holds(data, fs, s, mid) /\ Holds(data, gs, mid, e)
<1> DEFINE n == Len(fs)
           m == Len(gs)
           hs == fs \o gs
<1>1. /\ n \in Nat /\ m \in Nat /\ Len(hs) = n + m
      /\ \A k \in 1 .. n : hs[k] = fs[k]
      /\ \A k \in 1 .. m : hs[n + k] = gs[k]
  OBVIOUS
<1>2. PICK off : Lies(data, hs, off) /\ off[0] = s /\ off[Len(hs)] = e
  BY DEF Holds
<1>3. /\ \A k \in 0 .. n + m : off[k] \in Nat
      /\ \A k \in 1 .. n + m : /\ off[k] = off[k - 1] + hs[k].size
                               /\ off[k - 1] \in DOMAIN data
                               /\ data[off[k - 1]] = hs[k].value
  BY <1>1, <1>2 DEF Lies
<1> DEFINE off2 == [k \in 0 .. m |-> off[n + k]]
<1> HIDE DEF n, m, hs
<1>4. /\ \A k \in 0 .. n : off[k] \in Nat
      /\ \A k \in 1 .. n : /\ off[k] = off[k - 1] + fs[k].size
                           /\ off[k - 1] \in DOMAIN data
                           /\ data[off[k - 1]] = fs[k].value
  <2>1. \A k \in 0 .. n : k \in 0 .. n + m
    BY <1>1
  <2>2. \A k \in 1 .. n : k \in 1 .. n + m /\ hs[k] = fs[k]
    BY <1>1
  <2> QED BY <1>3, <2>1, <2>2
<1>5. /\ \A k \in 0 .. m : off2[k] \in Nat
      /\ \A k \in 1 .. m : /\ off2[k] = off2[k - 1] + gs[k].size
                           /\ off2[k - 1] \in DOMAIN data
                           /\ data[off2[k - 1]] = gs[k].value
  <2>1. ASSUME NEW k \in 0 .. m PROVE n + k \in 0 .. n + m /\ off2[k] = off[n + k]
    BY <1>1
  <2>2. ASSUME NEW k \in 1 .. m
        PROVE  /\ n + k \in 1 .. n + m /\ k \in 0 .. m /\ k - 1 \in 0 .. m
               /\ (n + k) - 1 = n + (k - 1) /\ hs[n + k] = gs[k]
    BY <1>1
  <2> HIDE DEF off2
  <2>3. \A k \in 0 .. m : off2[k] \in Nat
    BY <1>3, <2>1
  <2>4. ASSUME NEW k \in 1 .. m
        PROVE  /\ off2[k] = off2[k - 1] + gs[k].size
               /\ off2[k - 1] \in DOMAIN data
               /\ data[off2[k - 1]] = gs[k].value
    <3>1. off2[k] = off[n + k] /\ off2[k - 1] = off[n + (k - 1)]
      BY <2>1, <2>2, <2>4
    <3>2. /\ off[n + k] = off[(n + k) - 1] + hs[n + k].size
          /\ off[(n + k) - 1] \in DOMAIN data
          /\ data[off[(n + k) - 1]] = hs[n + k].value
      BY <1>3, <2>2, <2>4
    <3>3. (n + k) - 1 = n + (k - 1) /\ hs[n + k] = gs[k]
      BY <2>2, <2>4
    <3> QED BY <3>1, <3>2, <3>3
  <2> QED BY <2>3, <2>4
<1>6. off2[0] = off[n] /\ off2[m] = e /\ off[n] \in Nat
  <2>1. 0 \in 0 .. m /\ m \in 0 .. m /\ n + 0 = n /\ n \in 0 .. n
    BY <1>1
  <2>2. off[n + m] = e
    BY <1>1, <1>2
  <2> QED BY <1>4, <2>1, <2>2
<1> HIDE DEF off2
<1>7. Holds(data, fs, s, off[n])
  BY <1>2, <1>4 DEF Holds, Lies, n
<1>8. Holds(data, gs, off[n], e)
  BY <1>5, <1>6 DEF Holds, Lies, m
<1> QED BY <1>6, <1>7, <1>8

LEMMA HoldsOne ==
    ASSUME NEW data, NEW size \in Nat, NEW value, NEW s, NEW e, Holds(data, Field(size, value), s, e)
    PROVE  s \in Nat /\ s \in DOMAIN data /\ At(data, s) = value /\ e = s + size
<1> DEFINE fs == Field(size, value)
<1>1. Len(fs) = 1 /\ fs[1].size = size /\ fs[1].value = value
  BY DEF Field
<1>2. PICK off : Lies(data, fs, off) /\ off[0] = s /\ off[1] = e
  BY <1>1 DEF Holds
<1> HIDE DEF fs
<1>3. 1 \in 1 .. 1 /\ 0 \in 0 .. 1 /\ 1 - 1 = 0
  OBVIOUS
<1>4. off[1] = off[0] + fs[1].size /\ off[0] \in DOMAIN data /\ data[off[0]] = fs[1].value
  BY <1>1, <1>2, <1>3 DEF Lies
<1>5. off[0] \in Nat
  BY <1>1, <1>2, <1>3 DEF Lies
<1> QED BY <1>1, <1>2, <1>4, <1>5 DEF At

-----------------------------------------------------------------------------
(* FlattenSeq. *)

Flattening(fl, seqs) ==
    fl = [i \in 1 .. Len(seqs) |-> IF i = 1 THEN seqs[i] ELSE fl[i - 1] \o seqs[i]]

LEMMA FlattensTo ==
    ASSUME NEW T, NEW seqs \in Seq(Seq(T)), Len(seqs) # 0
    PROVE  \E fl \in [1 .. Len(seqs) -> Seq(T)] :
               Flattening(fl, seqs) /\ FlattenSeq(seqs) = fl[Len(seqs)]
<1> DEFINE n == Len(seqs)
           Value(g, i) == IF i = 1 THEN seqs[i] ELSE g[i - 1] \o seqs[i]
           Has(k) == \E g \in [1 .. k -> Seq(T)] : \A i \in 1 .. k : g[i] = Value(g, i)
           B == {k \in 0 .. n : ~Has(k)}
<1>1. n \in Nat /\ n # 0 /\ \A i \in 1 .. n : seqs[i] \in Seq(T)
  OBVIOUS
<1> HIDE DEF n
<1>2. Has(0)
  <2>1. 1 .. 0 = {}
    OBVIOUS
  <2>2. [i \in 1 .. 0 |-> << >>] \in [1 .. 0 -> Seq(T)]
    BY <2>1
  <2> QED BY <2>1, <2>2
<1>3. ASSUME NEW k \in 1 .. n, Has(k - 1) PROVE Has(k)
  <2>1. PICK g \in [1 .. (k - 1) -> Seq(T)] : \A i \in 1 .. (k - 1) : g[i] = Value(g, i)
    BY <1>3
  <2> DEFINE new == IF k = 1 THEN seqs[k] ELSE g[k - 1] \o seqs[k]
             h == [i \in 1 .. k |-> IF i = k THEN new ELSE g[i]]
  <2>2. new \in Seq(T)
    <3>1. seqs[k] \in Seq(T)
      BY <1>1, <1>3
    <3>2. k # 1 => g[k - 1] \in Seq(T)
      <4>1. k # 1 => k - 1 \in 1 .. (k - 1)
        OBVIOUS
      <4> QED BY <2>1, <4>1
    <3> QED BY <3>1, <3>2
  <2>3. \A i \in 1 .. k : i # k => i \in 1 .. (k - 1)
    OBVIOUS
  <2>4. \A i \in 1 .. k : i # 1 => i - 1 \in 1 .. k /\ i - 1 \in 1 .. (k - 1) /\ i - 1 # k
    OBVIOUS
  <2>5. h \in [1 .. k -> Seq(T)]
    <3> HIDE DEF new
    <3> QED BY <2>1, <2>2, <2>3
  <2>6. ASSUME NEW i \in 1 .. k PROVE h[i] = Value(h, i)
    <3>1. i # 1 => h[i - 1] = g[i - 1]
      BY <2>4, <2>6
    <3>2. i # k => h[i] = g[i] /\ g[i] = Value(g, i)
      BY <2>1, <2>3, <2>6
    <3>3. i = k => h[i] = Value(g, i)
      BY <2>6
    <3> HIDE DEF h
    <3> QED BY <3>1, <3>2, <3>3
  <2> HIDE DEF h
  <2> QED BY <2>5, <2>6
<1> HIDE DEF Has
<1>4. B = {}
  <2>1. SUFFICES ASSUME B # {} PROVE FALSE
    OBVIOUS
  <2>2. PICK k \in B : \A m \in B : k <= m
    <3>1. B \in SUBSET Nat
      BY <1>1
    <3> HIDE DEF B
    <3> QED BY <2>1, <3>1, LeastElement
  <2>3. k \in 0 .. n /\ k # 0 /\ ~Has(k)
    BY <1>2
  <2>4. k \in 1 .. n /\ k - 1 \in 0 .. n /\ ~(k <= k - 1)
    BY <1>1, <2>3
  <2>5. k - 1 \notin B
    <3> HIDE DEF B
    <3> QED BY <2>2, <2>4
  <2> QED BY <1>3, <2>3, <2>4, <2>5
<1>5. PICK g \in [1 .. n -> Seq(T)] : \A i \in 1 .. n : g[i] = Value(g, i)
  <2>1. Has(n)
    BY <1>1, <1>4
  <2> QED BY <2>1 DEF Has
<1> DEFINE Step(f) == [i \in 1 .. n |-> Value(f, i)]
           fl == CHOOSE f : f = Step(f)
<1>6. g = Step(g)
  BY <1>5
<1>7. fl = Step(fl)
  <2> HIDE DEF Step
  <2> QED BY <1>6
<1>8. FlattenSeq(seqs) = fl[n]
  BY <1>1 DEF FlattenSeq, n
<1> HIDE DEF fl
<1>9. \A i \in 1 .. n : fl[i] = g[i]
  <2> DEFINE C == {i \in 1 .. n : fl[i] # g[i]}
  <2>1. SUFFICES ASSUME C # {} PROVE FALSE
    OBVIOUS
  <2>2. PICK i \in C : \A m \in C : i <= m
    <3>1. C \in SUBSET Nat
      BY <1>1
    <3> HIDE DEF C
    <3> QED BY <2>1, <3>1, LeastElement
  <2>3. i \in 1 .. n /\ fl[i] # g[i]
    OBVIOUS
  <2>4. fl[i] = Value(fl, i) /\ g[i] = Value(g, i)
    BY <1>5, <1>7, <2>3
  <2>5. i # 1 => i - 1 \in 1 .. n /\ ~(i <= i - 1)
    BY <1>1, <2>3
  <2>6. i # 1 => fl[i - 1] = g[i - 1]
    <3>1. i # 1 => i - 1 \notin C
      <4> HIDE DEF C
      <4> QED BY <2>2, <2>5
    <3> QED BY <2>5, <3>1
  <2> QED BY <2>3, <2>4, <2>6
<1>10. fl \in [1 .. n -> Seq(T)]
  <2>1. fl = [i \in 1 .. n |-> fl[i]]
    BY <1>7
  <2>2. \A i \in 1 .. n : fl[i] \in Seq(T)
    BY <1>5, <1>9
  <2> QED BY <2>1, <2>2
<1>11. Flattening(fl, seqs)
  BY <1>7 DEF Flattening, n
<1> QED BY <1>8, <1>10, <1>11 DEF n

LEMMA FlattenType ==
    ASSUME NEW T, NEW seqs \in Seq(Seq(T))
    PROVE  FlattenSeq(seqs) \in Seq(T)
<1>1. CASE Len(seqs) = 0
  <2>1. seqs = << >> /\ FlattenSeq(seqs) = seqs
    BY <1>1 DEF FlattenSeq
  <2>2. << >> \in Seq(T)
    OBVIOUS
  <2> HIDE DEF FlattenSeq
  <2>3. FlattenSeq(seqs) = << >>
    BY <2>1
  <2> QED BY <2>2, <2>3
<1>2. CASE Len(seqs) # 0
  <2>1. PICK fl \in [1 .. Len(seqs) -> Seq(T)] : FlattenSeq(seqs) = fl[Len(seqs)]
    BY <1>2, FlattensTo
  <2>2. Len(seqs) \in 1 .. Len(seqs)
    BY <1>2
  <2> QED BY <2>1, <2>2
<1> QED BY <1>1, <1>2

\* What holds several sequences of fields holds each, one behind the other.
LEMMA HoldsFlatten ==
    ASSUME NEW V, NEW seqs \in Seq(Seq(FieldOf(V))), NEW data, NEW s, NEW e,
           Holds(data, FlattenSeq(seqs), s, e)
    PROVE  \E pos \in [0 .. Len(seqs) -> Nat] :
               /\ pos[0] = s /\ pos[Len(seqs)] = e
               /\ \A i \in 1 .. Len(seqs) : Holds(data, seqs[i], pos[i - 1], pos[i])
<1> DEFINE n == Len(seqs)
           F == FieldOf(V)
<1>1. n \in Nat /\ \A i \in 1 .. n : seqs[i] \in Seq(F)
  OBVIOUS
<1>2. CASE n = 0
  <2>1. seqs = << >> /\ FlattenSeq(seqs) = << >> /\ << >> \in Seq(F) /\ Len(<< >>) = 0
    BY <1>2 DEF FlattenSeq
  <2>2. s = e /\ s \in Nat
    BY <2>1, HoldsNat DEF Holds
  <2> DEFINE pos == [k \in 0 .. 0 |-> s]
  <2>3. pos \in [0 .. n -> Nat] /\ pos[0] = s /\ pos[n] = e
    BY <1>2, <2>2
  <2>4. \A i \in 1 .. n : FALSE
    BY <1>2
  <2> HIDE DEF pos
  <2> QED BY <2>3, <2>4
<1>3. CASE n # 0
  <2>1. PICK fl \in [1 .. n -> Seq(F)] : Flattening(fl, seqs) /\ FlattenSeq(seqs) = fl[n]
    BY <1>3, FlattensTo
  <2>2. \A i \in 1 .. n : fl[i] = IF i = 1 THEN seqs[i] ELSE fl[i - 1] \o seqs[i]
    BY <2>1 DEF Flattening
  <2>3. \A i \in 1 .. n : fl[i] \in Seq(F)
    BY <2>1
  <2> DEFINE Parts(k, pos, y) ==
                 /\ \A i \in 0 .. k : pos[i] \in Nat
                 /\ pos[0] = s /\ pos[k] = y
                 /\ \A i \in 1 .. k : Holds(data, seqs[i], pos[i - 1], pos[i])
             Apart(k) == \A y : Holds(data, fl[k], s, y) => \E pos : Parts(k, pos, y)
             B == {k \in 1 .. n : ~Apart(k)}
  <2> HIDE DEF n, F
  <2>4. Apart(1)
    <3>1. ASSUME NEW y, Holds(data, fl[1], s, y) PROVE \E pos : Parts(1, pos, y)
      <4>1. 1 \in 1 .. n /\ fl[1] = seqs[1] /\ fl[1] \in Seq(F)
        <5>1. 1 \in 1 .. n
          BY <1>1, <1>3
        <5> QED BY <2>2, <2>3, <5>1
      <4>2. s \in Nat /\ y \in Nat
        BY <3>1, <4>1, HoldsNat DEF F
      <4> DEFINE pos == [i \in 0 .. 1 |-> IF i = 0 THEN s ELSE y]
      <4>3. pos[0] = s /\ pos[1] = y
        OBVIOUS
      <4>4. (\A i \in 0 .. 1 : i = 0 \/ i = 1) /\ (\A i \in 1 .. 1 : i = 1) /\ 1 - 1 = 0
        OBVIOUS
      <4> HIDE DEF pos
      <4>5. \A i \in 0 .. 1 : pos[i] \in Nat
        BY <4>2, <4>3, <4>4
      <4>6. \A i \in 1 .. 1 : Holds(data, seqs[i], pos[i - 1], pos[i])
        BY <3>1, <4>1, <4>3, <4>4
      <4> QED BY <4>3, <4>5, <4>6
    <3> QED BY <3>1
  <2>5. ASSUME NEW k \in 2 .. n, Apart(k - 1) PROVE Apart(k)
    <3>1. ASSUME NEW y, Holds(data, fl[k], s, y) PROVE \E pos : Parts(k, pos, y)
      <4>1. k \in 1 .. n /\ k # 1 /\ k - 1 \in 1 .. n /\ k - 1 \in Nat /\ k \in Nat
        BY <1>1, <2>5
      <4>2. fl[k] = fl[k - 1] \o seqs[k] /\ fl[k - 1] \in Seq(F) /\ seqs[k] \in Seq(F)
        BY <1>1, <2>2, <2>3, <4>1
      <4>3. PICK mid \in Nat : Holds(data, fl[k - 1], s, mid) /\ Holds(data, seqs[k], mid, y)
        BY <3>1, <4>2, HoldsConcat DEF F
      <4>4. y \in Nat
        BY <4>2, <4>3, HoldsNat DEF F
      <4>5. PICK p : Parts(k - 1, p, mid)
        BY <2>5, <4>3
      <4> DEFINE pos == [i \in 0 .. k |-> IF i = k THEN y ELSE p[i]]
      <4>6. \A i \in 0 .. k : i # k => i \in 0 .. (k - 1)
        OBVIOUS
      <4>7. /\ pos[k] = y /\ \A i \in 0 .. (k - 1) : pos[i] = p[i]
            /\ 0 \in 0 .. (k - 1) /\ k - 1 \in 0 .. (k - 1)
        BY <4>1
      <4> HIDE DEF pos
      <4>8. \A i \in 0 .. k : pos[i] \in Nat
        BY <4>4, <4>5, <4>6, <4>7
      <4>9. ASSUME NEW i \in 1 .. k PROVE Holds(data, seqs[i], pos[i - 1], pos[i])
        <5>1. CASE i = k
          BY <4>3, <4>5, <4>7, <5>1
        <5>2. CASE i # k
          <6>1. i \in 1 .. (k - 1) /\ i \in 0 .. (k - 1) /\ i - 1 \in 0 .. (k - 1)
            BY <4>9, <5>2
          <6> QED BY <4>5, <4>7, <6>1
        <5> QED BY <5>1, <5>2
      <4>10. pos[0] = s
        BY <4>5, <4>7
      <4> QED BY <4>7, <4>8, <4>9, <4>10
    <3> QED BY <3>1
  <2> HIDE DEF Apart
  <2>6. B = {}
    <3>1. SUFFICES ASSUME B # {} PROVE FALSE
      OBVIOUS
    <3>2. PICK k \in B : \A m \in B : k <= m
      <4>1. B \in SUBSET Nat
        BY <1>1
      <4> HIDE DEF B
      <4> QED BY <3>1, <4>1, LeastElement
    <3>3. k \in 1 .. n /\ k # 1 /\ ~Apart(k)
      BY <2>4
    <3>4. k \in 2 .. n /\ k - 1 \in 1 .. n /\ ~(k <= k - 1)
      BY <1>1, <3>3
    <3>5. k - 1 \notin B
      <4> HIDE DEF B
      <4> QED BY <3>2, <3>4
    <3> QED BY <2>5, <3>3, <3>4, <3>5
  <2>7. PICK p : Parts(n, p, e)
    <3>1. n \in 1 .. n
      BY <1>1, <1>3
    <3>2. Apart(n)
      BY <2>6, <3>1
    <3>3. Holds(data, fl[n], s, e)
      BY <2>1
    <3> QED BY <3>2, <3>3 DEF Apart
  <2> DEFINE pos == [i \in 0 .. n |-> p[i]]
  <2>8. \A i \in 0 .. n : pos[i] = p[i]
    OBVIOUS
  <2>9. pos \in [0 .. n -> Nat]
    BY <2>7
  <2> HIDE DEF pos
  <2>10. \A i \in 1 .. n : i \in 0 .. n /\ i - 1 \in 0 .. n
    BY <1>1
  <2>11. 0 \in 0 .. n /\ n \in 0 .. n
    BY <1>1
  <2> QED BY <2>7, <2>8, <2>9, <2>10, <2>11 DEF n
<1> QED BY <1>2, <1>3

-----------------------------------------------------------------------------
(* Sizes. *)

LEMMA ArgFacts ==
    ASSUME NEW a \in ArgType
    PROVE  /\ Count(a) \in Nat \ {0} /\ Width(a) \in Nat \ {0}
           /\ SizeOfArg(a) \in Nat /\ SizeOfArg(a) = Width(a) * Count(a)
           /\ a \in Int /\ a # 0
<1>1. a \in Int /\ DataType(a) \in 1 .. 6
  BY DEF ArgType
<1>2. Count(a) \in Nat \ {0}
  <2>1. ArrayLength(a) \in Int /\ 0 <= ArrayLength(a)
    BY <1>1, Divided DEF ArrayLength
  <2> QED BY <2>1 DEF Count
<1>3. Width(a) \in Nat \ {0}
  <2>1. /\ DataType(a) = 1 \/ DataType(a) = 2 \/ DataType(a) = 3
              \/ DataType(a) = 4 \/ DataType(a) = 5 \/ DataType(a) = 6
    BY <1>1
  <2> QED BY <2>1 DEF Width
<1>4. a # 0
  <2>1. DataType(0) = 0
    <3>1. 0 \div 65536 = 0 /\ 0 % 256 = 0
      OBVIOUS
    <3> QED BY <3>1 DEF DataType
  <2> QED BY <1>1, <2>1
<1>5. SizeOfArg(a) = Width(a) * Count(a)
  BY DEF SizeOfArg
<1>6. \A x, y \in Nat : x * y \in Nat
  OBVIOUS
<1> QED BY <1>1, <1>2, <1>3, <1>4, <1>5, <1>6

\* The room an argument takes in a message.
Room(type, a) == IF Goes(type, a) THEN SizeOfArg(a) ELSE 0

LEMMA SizeSteps ==
    ASSUME NEW argTypes \in Seq(ArgType), NEW type
    PROVE  \E z : /\ z[0] = 0 /\ z[Len(argTypes)] = SizeOfArgs(argTypes, type)
                  /\ \A i \in 0 .. Len(argTypes) : z[i] \in Nat
                  /\ \A i \in 1 .. Len(argTypes) : z[i] = z[i - 1] + Room(type, argTypes[i])
<1> DEFINE n == Len(argTypes)
           D == 1 .. n
           Value(f, s) ==
               IF s = {} THEN 0
               ELSE IF Goes(type, argTypes[Max(s)])
                    THEN f[s \ {Max(s)}] + SizeOfArg(argTypes[Max(s)])
                    ELSE f[s \ {Max(s)}]
           Step(f) == [s \in SUBSET D |-> Value(f, s)]
           iter == CHOOSE f : f = Step(f)
<1>1. n \in Nat /\ \A i \in D : argTypes[i] \in ArgType
  OBVIOUS
<1>2. DOMAIN argTypes = D
  OBVIOUS
<1>3. SizeOfArgs(argTypes, type) = iter[D]
  <2>1. SizeOfArgs(argTypes, type) =
          LET it == CHOOSE f : f = [s \in SUBSET DOMAIN argTypes |-> Value(f, s)]
          IN it[DOMAIN argTypes]
    BY DEF SizeOfArgs, FoldLeft, MapThenFoldSet
  <2> QED BY <1>2, <2>1
<1> HIDE DEF n
<1>4. \A i \in D : Room(type, argTypes[i]) \in Nat
  BY <1>1, ArgFacts DEF Room
<1>5. \E f : f = Step(f)
  <2> DEFINE op == [p \in Nat \X D |-> p[1] + Room(type, argTypes[p[2]])]
  <2>1. op \in [Nat \X D -> Nat]
    BY <1>4
  <2>2. \A w \in Nat : \A i \in D : op[<<w, i>>] = w + Room(type, argTypes[i])
    OBVIOUS
  <2> HIDE DEF op
  <2>3. PICK f \in [SUBSET D -> Nat] : Folds(f, n, 0, op)
    <3>1. 0 \in Nat
      OBVIOUS
    <3> QED BY <1>1, <2>1, <3>1, FoldExists
  <2>4. ASSUME NEW s \in SUBSET D, s # {} PROVE Max(s) \in D
    BY <1>1, <2>4, GreatestInSet
  <2>5. ASSUME NEW s \in SUBSET D PROVE f[s] = Value(f, s)
    <3>1. CASE s = {}
      BY <2>3, <3>1 DEF Folds
    <3>2. CASE s # {}
      <4>1. Max(s) \in D /\ f[s \ {Max(s)}] \in Nat
        BY <2>3, <2>4, <2>5, <3>2
      <4>2. f[s] = f[s \ {Max(s)}] + Room(type, argTypes[Max(s)])
        BY <2>2, <2>3, <2>5, <3>2, <4>1 DEF Folds
      <4> DEFINE w == f[s \ {Max(s)}]
                 a == argTypes[Max(s)]
      <4>3. w \in Nat /\ f[s] = w + Room(type, a)
        BY <4>1, <4>2
      <4>4. Value(f, s) = IF Goes(type, a) THEN w + SizeOfArg(a) ELSE w
        BY <3>2
      <4> HIDE DEF w, a, Value
      <4> QED BY <4>3, <4>4 DEF Room
    <3> QED BY <3>1, <3>2
  <2>6. f = Step(f)
    BY <2>5
  <2> QED BY <2>6
<1>6. iter = Step(iter)
  <2> HIDE DEF Step
  <2> QED BY <1>5
<1> HIDE DEF iter
<1>7. \A s \in SUBSET D : iter[s] = Value(iter, s)
  BY <1>6
<1> DEFINE z == [i \in 0 .. n |-> iter[1 .. i]]
<1>8. z[0] = 0 /\ z[n] = iter[D]
  <2>1. 0 \in 0 .. n /\ n \in 0 .. n
    BY <1>1
  <2>2. iter[{}] = 0
    <3>1. {} \in SUBSET D
      OBVIOUS
    <3>2. iter[{}] = Value(iter, {})
      BY <1>7, <3>1
    <3> QED BY <3>2
  <2>3. 1 .. 0 = {}
    OBVIOUS
  <2> QED BY <2>1, <2>2, <2>3
<1>9. ASSUME NEW i \in D
      PROVE  i - 1 \in 0 .. n /\ i \in 0 .. n /\
             z[i] = IF Goes(type, argTypes[i]) THEN z[i - 1] + SizeOfArg(argTypes[i]) ELSE z[i - 1]
  <2>1. i \in Nat /\ i # 0 /\ i \in 0 .. n /\ i - 1 \in 0 .. n /\ 1 .. i \in SUBSET D
    BY <1>1
  <2>2. 1 .. i # {} /\ Max(1 .. i) = i /\ (1 .. i) \ {i} = 1 .. (i - 1)
    BY <2>1, Segments
  <2>3. iter[1 .. i] = Value(iter, 1 .. i)
    BY <1>7, <2>1
  <2> QED BY <2>1, <2>2, <2>3
<1> HIDE DEF z
<1>10. \A i \in 0 .. n : z[i] \in Nat
  <2> DEFINE B == {i \in 0 .. n : z[i] \notin Nat}
  <2>1. SUFFICES ASSUME B # {} PROVE FALSE
    OBVIOUS
  <2>2. PICK i \in B : \A m \in B : i <= m
    <3>1. B \in SUBSET Nat
      BY <1>1
    <3> HIDE DEF B
    <3> QED BY <2>1, <3>1, LeastElement
  <2>3. i \in D /\ z[i] \notin Nat
    BY <1>1, <1>8
  <2>4. i - 1 \in 0 .. n /\ ~(i <= i - 1)
    BY <1>1, <2>3
  <2>5. i - 1 \notin B
    <3> HIDE DEF B
    <3> QED BY <2>2, <2>4
  <2>6. z[i - 1] \in Nat
    BY <2>4, <2>5
  <2>7. SizeOfArg(argTypes[i]) \in Nat
    BY <1>1, <2>3, ArgFacts
  <2> QED BY <1>9, <2>3, <2>6, <2>7
<1>11. \A i \in D : z[i] = z[i - 1] + Room(type, argTypes[i])
  BY <1>9, <1>10 DEF Room
<1> QED BY <1>3, <1>8, <1>10, <1>11 DEF n

-----------------------------------------------------------------------------
(* Writing. *)

\* What Serialize does with one field.
WriteField(w, f) ==
    [data |-> [o \in DOMAIN w.data \union {w.end} |-> IF o = w.end THEN f.value ELSE w.data[o]],
     end |-> w.end + f.size]

Nothing == [data |-> << >>, end |-> 0]

\* st[i] is what Serialize has after i fields.
LEMMA WriteSteps ==
    ASSUME NEW m, NEW V, Contents(m).fields \in Seq(FieldOf(V))
    PROVE  \E st : /\ st[0] = Nothing
                   /\ \A i \in 1 .. Len(Contents(m).fields) :
                          st[i] = WriteField(st[i - 1], Contents(m).fields[i])
                   /\ Serialize(m) = [type |-> m.type, length |-> Contents(m).length,
                                      data |-> st[Len(Contents(m).fields)].data,
                                      end |-> st[Len(Contents(m).fields)].end]
<1> DEFINE fs == Contents(m).fields
           n == Len(fs)
           D == 1 .. n
           S == [data : UNION {[X -> V] : X \in SUBSET Nat}, end : Nat]
           Value(f, s) == IF s = {} THEN Nothing ELSE WriteField(f[s \ {Max(s)}], fs[Max(s)])
           Step(f) == [s \in SUBSET D |-> Value(f, s)]
           iter == CHOOSE f : f = Step(f)
<1>1. fs \in Seq(FieldOf(V)) /\ DOMAIN fs = D
  OBVIOUS
<1>2. Serialize(m) = [type |-> m.type, length |-> Contents(m).length,
                      data |-> iter[D].data, end |-> iter[D].end]
  <2>1. Serialize(m) =
          LET it == CHOOSE f : f = [s \in SUBSET DOMAIN fs |-> Value(f, s)]
              w == it[DOMAIN fs]
          IN  [type |-> m.type, length |-> Contents(m).length, data |-> w.data, end |-> w.end]
    BY DEF Serialize, FoldLeft, MapThenFoldSet, WriteField, Nothing
  <2> HIDE DEF fs, n, Value
  <2> QED BY <1>1, <2>1
<1> HIDE DEF fs, S
<1>3. n \in Nat /\ \A i \in D : fs[i] \in FieldOf(V)
  BY <1>1
<1> HIDE DEF n
<1>4. \A w \in S : \A f \in FieldOf(V) : WriteField(w, f) \in S
  <2>1. ASSUME NEW w \in S, NEW f \in FieldOf(V) PROVE WriteField(w, f) \in S
    <3>1. w.end \in Nat /\ f.size \in Nat /\ f.value \in V
      BY <2>1 DEF S, FieldOf
    <3>2. PICK X \in SUBSET Nat : w.data \in [X -> V]
      BY <2>1 DEF S
    <3> DEFINE Y == X \union {w.end}
               d == [o \in DOMAIN w.data \union {w.end} |-> IF o = w.end THEN f.value ELSE w.data[o]]
    <3>3. Y \in SUBSET Nat /\ d \in [Y -> V]
      BY <3>1, <3>2
    <3>4. w.end + f.size \in Nat
      BY <3>1
    <3>5. WriteField(w, f) = [data |-> d, end |-> w.end + f.size]
      BY DEF WriteField
    <3> HIDE DEF d, Y
    <3> QED BY <3>3, <3>4, <3>5 DEF S
  <2> QED BY <2>1
<1>5. Nothing \in S
  <2>1. << >> \in [{} -> V]
    OBVIOUS
  <2> QED BY <2>1 DEF Nothing, S
<1>6. \E f : f = Step(f)
  <2> DEFINE op == [p \in S \X D |-> WriteField(p[1], fs[p[2]])]
  <2>1. op \in [S \X D -> S]
    BY <1>3, <1>4
  <2>2. \A w \in S : \A i \in D : op[<<w, i>>] = WriteField(w, fs[i])
    OBVIOUS
  <2> HIDE DEF op
  <2>3. PICK f \in [SUBSET D -> S] : Folds(f, n, Nothing, op)
    BY <1>3, <1>5, <2>1, FoldExists
  <2>4. ASSUME NEW s \in SUBSET D, s # {} PROVE Max(s) \in D
    BY <1>3, <2>4, GreatestInSet
  <2>5. ASSUME NEW s \in SUBSET D PROVE f[s] = Value(f, s)
    <3>1. CASE s = {}
      BY <2>3, <3>1 DEF Folds
    <3>2. CASE s # {}
      <4>1. Max(s) \in D /\ f[s \ {Max(s)}] \in S
        BY <2>3, <2>4, <2>5, <3>2
      <4>2. f[s] = WriteField(f[s \ {Max(s)}], fs[Max(s)])
        BY <2>2, <2>3, <2>5, <3>2, <4>1 DEF Folds
      <4> QED BY <3>2, <4>2
    <3> QED BY <3>1, <3>2
  <2>6. f = Step(f)
    BY <2>5
  <2> QED BY <2>6
<1>7. iter = Step(iter)
  <2> HIDE DEF Step
  <2> QED BY <1>6
<1> HIDE DEF iter
<1>8. \A s \in SUBSET D : iter[s] = Value(iter, s)
  BY <1>7
<1> DEFINE st == [i \in 0 .. n |-> iter[1 .. i]]
<1>9. st[0] = Nothing /\ st[n] = iter[D]
  <2>1. 0 \in 0 .. n /\ n \in 0 .. n
    BY <1>3
  <2>2. iter[{}] = Nothing
    <3>1. {} \in SUBSET D
      OBVIOUS
    <3>2. iter[{}] = Value(iter, {})
      BY <1>8, <3>1
    <3> QED BY <3>2
  <2>3. 1 .. 0 = {}
    OBVIOUS
  <2> QED BY <2>1, <2>2, <2>3
<1>10. ASSUME NEW i \in D
       PROVE  st[i] = WriteField(st[i - 1], fs[i])
  <2>1. i \in Nat /\ i # 0 /\ i \in 0 .. n /\ i - 1 \in 0 .. n /\ 1 .. i \in SUBSET D
    BY <1>3
  <2>2. 1 .. i # {} /\ Max(1 .. i) = i /\ (1 .. i) \ {i} = 1 .. (i - 1)
    BY <2>1, Segments
  <2>3. iter[1 .. i] = Value(iter, 1 .. i)
    BY <1>8, <2>1
  <2> QED BY <2>1, <2>2, <2>3
<1> HIDE DEF st
<1>11. Serialize(m) = [type |-> m.type, length |-> Contents(m).length,
                       data |-> st[n].data, end |-> st[n].end]
  BY <1>2, <1>9
<1> QED BY <1>9, <1>10, <1>11 DEF n, fs

LEMMA Written ==
    ASSUME NEW m, NEW V, Contents(m).fields \in Seq(FieldOf(V))
    PROVE  \E data, e :
               /\ Serialize(m) = [type |-> m.type, length |-> Contents(m).length,
                                  data |-> data, end |-> e]
               /\ IsFiniteSet(DOMAIN data) /\ Holds(data, Contents(m).fields, 0, e)
<1> DEFINE fs == Contents(m).fields
           n == Len(fs)
<1>1. n \in Nat /\ \A i \in 1 .. n : fs[i].size \in Nat \ {0}
  <2>1. fs \in Seq(FieldOf(V))
    OBVIOUS
  <2> HIDE DEF fs
  <2>2. n \in Nat /\ \A i \in 1 .. n : fs[i] \in FieldOf(V)
    BY <2>1
  <2> QED BY <2>2 DEF FieldOf
<1>2. PICK st : /\ st[0] = Nothing
                /\ \A i \in 1 .. n : st[i] = WriteField(st[i - 1], fs[i])
                /\ Serialize(m) = [type |-> m.type, length |-> Contents(m).length,
                                   data |-> st[n].data, end |-> st[n].end]
  BY WriteSteps
<1> DEFINE off == [i \in 0 .. n |-> st[i].end]
<1> HIDE DEF fs, n
<1>3. off[0] = 0 /\ st[0].data = << >>
  <2>1. 0 \in 0 .. n
    BY <1>1
  <2> QED BY <1>2, <2>1 DEF Nothing
<1>4. ASSUME NEW i \in 1 .. n
      PROVE  /\ i - 1 \in 0 .. n /\ i \in 0 .. n /\ off[i] = off[i - 1] + fs[i].size
             /\ DOMAIN st[i].data = DOMAIN st[i - 1].data \union {off[i - 1]}
             /\ st[i].data[off[i - 1]] = fs[i].value
             /\ \A o \in DOMAIN st[i - 1].data :
                    o # off[i - 1] => st[i].data[o] = st[i - 1].data[o]
  <2>1. i - 1 \in 0 .. n /\ i \in 0 .. n
    BY <1>1
  <2>2. st[i] = WriteField(st[i - 1], fs[i]) /\ st[i - 1].end = off[i - 1] /\ st[i].end = off[i]
    BY <1>2, <2>1
  <2> HIDE DEF off
  <2> QED BY <2>1, <2>2 DEF WriteField
<1> HIDE DEF off
<1> DEFINE Good2(k) ==
        /\ \A j \in 0 .. k : off[j] \in Nat /\ off[j] <= off[k]
        /\ DOMAIN st[k].data = {off[j - 1] : j \in 1 .. k}
        /\ \A j \in 1 .. k : off[j - 1] < off[k] /\ st[k].data[off[j - 1]] = fs[j].value
           B == {k \in 0 .. n : ~Good2(k)}
<1>5. Good2(0)
  <2>1. \A j \in 0 .. 0 : j = 0
    OBVIOUS
  <2>2. \A j \in 1 .. 0 : FALSE
    OBVIOUS
  <2>3. DOMAIN st[0].data = {}
    BY <1>3
  <2>4. {off[j - 1] : j \in 1 .. 0} = {}
    BY <2>2
  <2> QED BY <1>3, <2>1, <2>2, <2>3, <2>4
<1>6. ASSUME NEW k \in 1 .. n, Good2(k - 1) PROVE Good2(k)
  <2>1. /\ k \in Nat /\ k # 0 /\ k - 1 \in 0 .. (k - 1)
        /\ \A j \in 0 .. k : j = k \/ j \in 0 .. (k - 1)
        /\ \A j \in 1 .. k : (j = k \/ j \in 1 .. (k - 1)) /\ j - 1 \in 0 .. (k - 1)
    BY <1>1
  <2>2. fs[k].size \in Nat \ {0} /\ off[k] = off[k - 1] + fs[k].size /\ off[k - 1] \in Nat
    BY <1>1, <1>4, <1>6, <2>1
  <2>3. off[k] \in Nat /\ off[k - 1] < off[k]
    BY <2>2
  <2>4. \A j \in 0 .. k : off[j] \in Nat /\ off[j] <= off[k]
    <3>1. ASSUME NEW j \in 0 .. k PROVE off[j] \in Nat /\ off[j] <= off[k]
      <4>1. CASE j = k
        BY <2>3, <4>1
      <4>2. CASE j \in 0 .. (k - 1)
        <5>1. off[j] \in Nat /\ off[j] <= off[k - 1]
          BY <1>6, <4>2
        <5> QED BY <2>2, <2>3, <5>1
      <4> QED BY <2>1, <4>1, <4>2
    <3> QED BY <3>1
  <2>5. ASSUME NEW j \in 1 .. k
        PROVE  off[j - 1] < off[k] /\ st[k].data[off[j - 1]] = fs[j].value
    <3>1. CASE j = k
      BY <1>4, <2>3, <3>1
    <3>2. CASE j \in 1 .. (k - 1)
      <4>1. off[j - 1] < off[k - 1] /\ st[k - 1].data[off[j - 1]] = fs[j].value
        BY <1>6, <3>2
      <4>2. off[j - 1] \in DOMAIN st[k - 1].data
        BY <1>6, <3>2
      <4>3. off[j - 1] \in Nat
        BY <2>1, <2>4, <2>5
      <4>4. off[j - 1] # off[k - 1] /\ off[j - 1] < off[k]
        BY <2>2, <2>3, <4>1, <4>3
      <4>5. st[k].data[off[j - 1]] = st[k - 1].data[off[j - 1]]
        BY <1>4, <4>2, <4>4
      <4> QED BY <4>1, <4>4, <4>5
    <3> QED BY <2>1, <3>1, <3>2
  <2>6. DOMAIN st[k].data = {off[j - 1] : j \in 1 .. k}
    <3>1. DOMAIN st[k].data = {off[j - 1] : j \in 1 .. (k - 1)} \union {off[k - 1]}
      BY <1>4, <1>6
    <3>2. \A j : j \in 1 .. k <=> j \in 1 .. (k - 1) \/ j = k
      BY <2>1
    <3> QED BY <3>1, <3>2
  <2> QED BY <2>4, <2>5, <2>6
<1> HIDE DEF Good2
<1>7. B = {}
  <2>1. SUFFICES ASSUME B # {} PROVE FALSE
    OBVIOUS
  <2>2. PICK k \in B : \A j \in B : k <= j
    <3>1. B \in SUBSET Nat
      BY <1>1
    <3> HIDE DEF B
    <3> QED BY <2>1, <3>1, LeastElement
  <2>3. k \in 1 .. n /\ ~Good2(k)
    <3>1. k \in 0 .. n /\ k # 0
      BY <1>5
    <3> QED BY <3>1
  <2>4. k - 1 \in 0 .. n /\ ~(k <= k - 1)
    BY <1>1, <2>3
  <2>5. k - 1 \notin B
    <3> HIDE DEF B
    <3> QED BY <2>2, <2>4
  <2> QED BY <1>6, <2>3, <2>4, <2>5
<1>8. Good2(n)
  <2>1. n \in 0 .. n
    BY <1>1
  <2> QED BY <1>7, <2>1
<1> DEFINE data == st[n].data
<1>9. IsFiniteSet(DOMAIN data)
  <2> DEFINE R == {off[j - 1] : j \in 1 .. n}
             f == [j \in 1 .. n |-> off[j - 1]]
  <2>1. IsFiniteSet(1 .. n)
    BY <1>1, FS_Interval
  <2>2. IsFiniteSet(R)
    <3>1. f \in [1 .. n -> R] /\ \A y \in R : \E j \in 1 .. n : f[j] = y
      OBVIOUS
    <3> HIDE DEF f, R
    <3>2. f \in Surjection(1 .. n, R)
      BY <3>1 DEF Surjection
    <3> QED BY <2>1, <3>2, FS_Surjection
  <2> QED BY <1>8, <2>2 DEF Good2
<1>10. Lies(data, fs, off)
  <2>1. \A k \in 0 .. n : off[k] \in Nat
    BY <1>8 DEF Good2
  <2>2. \A k \in 1 .. n : off[k] = off[k - 1] + fs[k].size
    BY <1>4
  <2>3. \A k \in 1 .. n : off[k - 1] \in DOMAIN data /\ data[off[k - 1]] = fs[k].value
    BY <1>8 DEF Good2
  <2> QED BY <2>1, <2>2, <2>3 DEF Lies, n
<1>11. off[n] = st[n].end
  <2>1. n \in 0 .. n
    BY <1>1
  <2> QED BY <2>1 DEF off
<1>12. Holds(data, fs, 0, off[n])
  BY <1>3, <1>10 DEF Holds, n
<1> HIDE DEF data
<1>13. Serialize(m) = [type |-> m.type, length |-> Contents(m).length, data |-> data, end |-> off[n]]
  BY <1>2, <1>11 DEF data
<1> QED BY <1>9, <1>12, <1>13 DEF fs

-----------------------------------------------------------------------------
(* Reading the types of the arguments. *)

LEMMA FieldType ==
    ASSUME NEW V, NEW size \in Nat \ {0}, NEW value \in V
    PROVE  Field(size, value) \in Seq(FieldOf(V))
<1>1. [size |-> size, value |-> value] \in FieldOf(V)
  BY DEF FieldOf
<1> QED BY <1>1 DEF Field

LEMMA ArgTypesFieldsType ==
    ASSUME NEW V, Int \subseteq V, NEW argTypes \in Seq(ArgType)
    PROVE  /\ [i \in DOMAIN argTypes |-> IntField(argTypes[i])] \in Seq(Seq(FieldOf(V)))
           /\ FlattenSeq([i \in DOMAIN argTypes |-> IntField(argTypes[i])]) \in Seq(FieldOf(V))
           /\ IntField(0) \in Seq(FieldOf(V))
           /\ ArgTypesFields(argTypes) \in Seq(FieldOf(V))
<1> DEFINE seqs == [i \in DOMAIN argTypes |-> IntField(argTypes[i])]
<1>1. \A a \in Int : IntField(a) \in Seq(FieldOf(V))
  BY FieldType DEF IntField
<1>2. seqs \in Seq(Seq(FieldOf(V)))
  <2>1. Len(argTypes) \in Nat /\ DOMAIN argTypes = 1 .. Len(argTypes)
    OBVIOUS
  <2>2. \A i \in DOMAIN argTypes : argTypes[i] \in Int
    BY Members DEF ArgType
  <2>3. seqs \in [1 .. Len(argTypes) -> Seq(FieldOf(V))]
    BY <1>1, <2>1, <2>2
  <2> HIDE DEF seqs
  <2> QED BY <2>1, <2>3
<1> HIDE DEF seqs
<1>3. FlattenSeq(seqs) \in Seq(FieldOf(V))
  BY <1>2, FlattenType
<1>4. IntField(0) \in Seq(FieldOf(V))
  BY <1>1
<1>5. ArgTypesFields(argTypes) = FlattenSeq(seqs) \o IntField(0)
  BY DEF ArgTypesFields, seqs
<1>6. FlattenSeq(seqs) \o IntField(0) \in Seq(FieldOf(V))
  BY <1>3, <1>4
<1> QED BY <1>2, <1>3, <1>4, <1>5, <1>6 DEF seqs

\* The int behind i others.
LEMMA ArgTypesLie ==
    ASSUME NEW argTypes \in Seq(ArgType), NEW data, NEW s, NEW e,
           Holds(data, ArgTypesFields(argTypes), s, e)
    PROVE  /\ s \in Nat /\ e = s + 4 * (Len(argTypes) + 1)
           /\ \A i \in 1 .. Len(argTypes) : /\ s + 4 * (i - 1) \in DOMAIN data
                                            /\ At(data, s + 4 * (i - 1)) = argTypes[i]
           /\ At(data, s + 4 * Len(argTypes)) = 0
<1> DEFINE n == Len(argTypes)
           seqs == [i \in DOMAIN argTypes |-> IntField(argTypes[i])]
<1>1. n \in Nat /\ DOMAIN argTypes = 1 .. n
  OBVIOUS
<1>2. /\ seqs \in Seq(Seq(FieldOf(Int))) /\ FlattenSeq(seqs) \in Seq(FieldOf(Int))
      /\ IntField(0) \in Seq(FieldOf(Int))
  BY ArgTypesFieldsType
<1>3. Len(seqs) = n /\ \A i \in 1 .. n : seqs[i] = IntField(argTypes[i])
  BY <1>1
<1>4. PICK mid \in Nat : Holds(data, FlattenSeq(seqs), s, mid) /\ Holds(data, IntField(0), mid, e)
  <2>1. Holds(data, FlattenSeq(seqs) \o IntField(0), s, e)
    BY DEF ArgTypesFields
  <2> HIDE DEF seqs
  <2> QED BY <1>2, <2>1, HoldsConcat
<1> HIDE DEF n, seqs
<1>5. PICK pos \in [0 .. n -> Nat] :
          /\ pos[0] = s /\ pos[n] = mid
          /\ \A i \in 1 .. n : Holds(data, seqs[i], pos[i - 1], pos[i])
  BY <1>2, <1>3, <1>4, HoldsFlatten
<1>6. s \in Nat
  <2>1. 0 \in 0 .. n
    BY <1>1
  <2> QED BY <1>5, <2>1
<1>7. ASSUME NEW i \in 1 .. n
      PROVE  /\ pos[i - 1] \in DOMAIN data /\ At(data, pos[i - 1]) = argTypes[i]
             /\ pos[i] = pos[i - 1] + 4
  BY <1>3, <1>5, HoldsOne DEF IntField
<1>8. \A i \in 0 .. n : pos[i] = s + 4 * i
  <2> DEFINE B == {i \in 0 .. n : pos[i] # s + 4 * i}
  <2>1. SUFFICES ASSUME B # {} PROVE FALSE
    OBVIOUS
  <2>2. PICK i \in B : \A j \in B : i <= j
    <3>1. B \in SUBSET Nat
      BY <1>1
    <3> HIDE DEF B
    <3> QED BY <2>1, <3>1, LeastElement
  <2>3. i \in 0 .. n /\ i # 0
    BY <1>5, <1>6
  <2>4. i \in 1 .. n /\ i - 1 \in 0 .. n /\ ~(i <= i - 1)
    BY <1>1, <2>3
  <2>5. i - 1 \notin B
    <3> HIDE DEF B
    <3> QED BY <2>2, <2>4
  <2>6. pos[i - 1] = s + 4 * (i - 1)
    BY <2>4, <2>5
  <2>7. pos[i] = s + 4 * i
    BY <1>1, <1>6, <1>7, <2>4, <2>6
  <2> QED BY <2>7
<1>9. \A i \in 1 .. n : /\ s + 4 * (i - 1) \in DOMAIN data
                        /\ At(data, s + 4 * (i - 1)) = argTypes[i]
  <2>1. ASSUME NEW i \in 1 .. n
        PROVE  /\ s + 4 * (i - 1) \in DOMAIN data
               /\ At(data, s + 4 * (i - 1)) = argTypes[i]
    <3>1. i - 1 \in 0 .. n
      BY <1>1
    <3>2. pos[i - 1] = s + 4 * (i - 1)
      BY <1>8, <3>1
    <3> QED BY <1>7, <3>2
  <2> QED BY <2>1
<1>10. At(data, mid) = 0 /\ e = mid + 4
  BY <1>4, HoldsOne DEF IntField
<1>11. mid = s + 4 * n
  <2>1. n \in 0 .. n
    BY <1>1
  <2> QED BY <1>5, <1>8, <2>1
<1>12. e = s + 4 * (n + 1)
  BY <1>1, <1>6, <1>10, <1>11
<1> QED BY <1>6, <1>9, <1>10, <1>11, <1>12 DEF n

LEMMA ArgTypesRead ==
    ASSUME NEW argTypes \in Seq(ArgType), NEW data, IsFiniteSet(DOMAIN data), NEW r, NEW e,
           Holds(data, ArgTypesFields(argTypes), r.index, e)
    PROVE  /\ ReadArgTypes(data, r) = [msg |-> [r.msg EXCEPT !.argTypes = argTypes], index |-> e]
           /\ e = r.index + 4 * (Len(argTypes) + 1) /\ r.index \in Nat
<1> DEFINE s == r.index
           N == Len(argTypes)
           Ends(n) == /\ At(data, s + 4 * n) \in {0, None}
                      /\ \A i \in 0 .. n - 1 : At(data, s + 4 * i) \notin {0, None}
           C == 0 .. Cardinality(DOMAIN data)
           n == CHOOSE n \in C : Ends(n)
<1>1. /\ s \in Nat /\ e = s + 4 * (N + 1) /\ N \in Nat
      /\ \A i \in 1 .. N : /\ s + 4 * (i - 1) \in DOMAIN data
                           /\ At(data, s + 4 * (i - 1)) = argTypes[i]
      /\ At(data, s + 4 * N) = 0
  BY ArgTypesLie
<1>2. \A i \in 1 .. N : argTypes[i] \in Int /\ argTypes[i] # 0 /\ argTypes[i] # None
  BY Members, ArgFacts, NoneAssumption
<1>3. ReadArgTypes(data, r) =
          [msg |-> [r.msg EXCEPT !.argTypes = [i \in 1 .. n |-> At(data, s + 4 * (i - 1))]],
           index |-> s + 4 * (n + 1)]
  BY DEF ReadArgTypes
<1>4. argTypes = [i \in 1 .. N |-> argTypes[i]]
  OBVIOUS
<1> HIDE DEF s, N
<1>5. \A i \in 0 .. N - 1 : At(data, s + 4 * i) \notin {0, None}
  <2>1. ASSUME NEW i \in 0 .. N - 1 PROVE At(data, s + 4 * i) \notin {0, None}
    <3>1. i + 1 \in 1 .. N /\ (i + 1) - 1 = i
      BY <1>1
    <3>2. At(data, s + 4 * i) = argTypes[i + 1]
      BY <1>1, <3>1
    <3> QED BY <1>2, <3>1, <3>2
  <2> QED BY <2>1
<1>6. Ends(N)
  BY <1>1, <1>5
<1>7. N \in C
  <2> DEFINE f == [i \in 1 .. N |-> s + 4 * (i - 1)]
  <2>1. f \in [1 .. N -> DOMAIN data]
    BY <1>1
  <2>2. \A i, j \in 1 .. N : f[i] = f[j] => i = j
    BY <1>1
  <2> HIDE DEF f
  <2>3. f \in Injection(1 .. N, DOMAIN data)
    BY <2>1, <2>2 DEF Injection, IsInjective
  <2>4. IsFiniteSet(1 .. N) /\ Cardinality(1 .. N) = N
    <3>1. \A k \in Nat : IsFiniteSet(1 .. k) /\ Cardinality(1 .. k) = k
      <4>1. ASSUME NEW k \in Nat PROVE IsFiniteSet(1 .. k) /\ Cardinality(1 .. k) = k
        <5>1. k \in Int /\ 1 \in Int
          OBVIOUS
        <5>2. IsFiniteSet(1 .. k) /\ Cardinality(1 .. k) = IF 1 > k THEN 0 ELSE k - 1 + 1
          BY <5>1, FS_Interval
        <5> QED BY <5>2
      <4> QED BY <4>1
    <3> QED BY <1>1, <3>1
  <2>5. Cardinality(1 .. N) <= Cardinality(DOMAIN data)
    BY <2>3, FS_Injection
  <2>6. Cardinality(DOMAIN data) \in Nat
    BY FS_CardinalityType
  <2> QED BY <1>1, <2>4, <2>5, <2>6
<1>8. ASSUME NEW x \in C, Ends(x) PROVE x = N
  <2>1. x \in Nat
    <3>1. Cardinality(DOMAIN data) \in Nat
      BY FS_CardinalityType
    <3> QED BY <3>1
  <2>2. CASE x < N
    <3>1. x \in 0 .. N - 1
      BY <1>1, <2>1, <2>2
    <3> QED BY <1>5, <1>8, <3>1
  <2>3. CASE N < x
    <3>1. N \in 0 .. x - 1
      BY <1>1, <2>1, <2>3
    <3> QED BY <1>1, <1>8, <3>1
  <2> QED BY <1>1, <2>1, <2>2, <2>3
<1> HIDE DEF Ends, C
<1>9. n = N
  BY <1>6, <1>7, <1>8
<1> HIDE DEF n
<1>10. [i \in 1 .. n |-> At(data, s + 4 * (i - 1))] = argTypes
  <2>1. \A i \in 1 .. N : At(data, s + 4 * (i - 1)) = argTypes[i]
    BY <1>1
  <2> QED BY <1>4, <1>9, <2>1
<1> QED BY <1>1, <1>3, <1>9, <1>10 DEF s, N

-----------------------------------------------------------------------------
(* Reading the arguments. *)

LEMMA Multiple ==
    ASSUME NEW w \in Nat, NEW k \in Nat, k # 0
    PROVE  (k - 1) * w + w = k * w /\ (k - 1) * w \in Nat /\ k * w \in Nat
<1> DEFINE d == k - 1
<1>1. d \in Nat /\ k = d + 1
  OBVIOUS
<1>2. (d + 1) * w = d * w + w
  BY <1>1
<1>3. d * w \in Nat
  BY <1>1
<1> HIDE DEF d
<1>4. k * w = d * w + w
  BY <1>1, <1>2
<1>5. k * w \in Nat
  BY <1>3, <1>4
<1> QED BY <1>3, <1>4, <1>5 DEF d

Elements(a, arg) == [k \in 1 .. Count(a) |-> [size |-> Width(a), value |-> arg[k]]]

\* The memory of an argument, with its values in V.
ArgOf(V, a) == [1 .. Count(a) -> V]

LEMMA ElementsType ==
    ASSUME NEW V, NEW a \in ArgType, NEW arg \in ArgOf(V, a)
    PROVE  /\ Elements(a, arg) \in Seq(FieldOf(V)) /\ Len(Elements(a, arg)) = Count(a)
           /\ \A k \in 1 .. Count(a) : /\ Elements(a, arg)[k].size = Width(a)
                                       /\ Elements(a, arg)[k].value = arg[k]
<1>1. Count(a) \in Nat /\ Width(a) \in Nat \ {0}
  BY ArgFacts
<1>2. \A k \in 1 .. Count(a) : [size |-> Width(a), value |-> arg[k]] \in FieldOf(V)
  BY <1>1 DEF FieldOf, ArgOf
<1>3. Elements(a, arg) \in [1 .. Count(a) -> FieldOf(V)]
  BY <1>2 DEF Elements, ArgOf
<1>4. \A k \in 1 .. Count(a) : Elements(a, arg)[k] = [size |-> Width(a), value |-> arg[k]]
  BY DEF Elements
<1> DEFINE c == Count(a)
           es == Elements(a, arg)
<1> HIDE DEF c, es
<1>5. es \in Seq(FieldOf(V)) /\ Len(es) = c
  <2>1. c \in Nat /\ es \in [1 .. c -> FieldOf(V)]
    BY <1>1, <1>3 DEF c, es
  <2> QED BY <2>1
<1> QED BY <1>4, <1>5 DEF c, es

\* What is in the place of an argument.
Copied(data, a, p) == [k \in 1 .. Count(a) |-> At(data, p + (k - 1) * Width(a))]

LEMMA ArgRead ==
    ASSUME NEW V, NEW a \in ArgType, NEW arg \in ArgOf(V, a),
           NEW data, NEW p, NEW e, Holds(data, Elements(a, arg), p, e)
    PROVE  /\ p \in Nat /\ e = p + SizeOfArg(a)
           /\ Copied(data, a, p) = arg
<1> DEFINE fs == Elements(a, arg)
           c == Count(a)
           w == Width(a)
<1>1. c \in Nat /\ w \in Nat /\ SizeOfArg(a) = w * c
  BY ArgFacts
<1>2. /\ fs \in Seq(FieldOf(V)) /\ Len(fs) = c
      /\ \A k \in 1 .. c : fs[k].size = w /\ fs[k].value = arg[k]
  BY ElementsType
<1>3. PICK off : Lies(data, fs, off) /\ off[0] = p /\ off[c] = e
  BY <1>2 DEF Holds
<1> HIDE DEF fs, c, w
<1>4. /\ \A k \in 0 .. c : off[k] \in Nat
      /\ \A k \in 1 .. c : /\ off[k] = off[k - 1] + w
                           /\ off[k - 1] \in DOMAIN data
                           /\ data[off[k - 1]] = arg[k]
  BY <1>2, <1>3 DEF Lies
<1>5. p \in Nat
  <2>1. 0 \in 0 .. c
    BY <1>1
  <2> QED BY <1>3, <1>4, <2>1
<1>6. \A k \in 0 .. c : off[k] = p + k * w
  <2> DEFINE B == {k \in 0 .. c : off[k] # p + k * w}
  <2>1. SUFFICES ASSUME B # {} PROVE FALSE
    OBVIOUS
  <2>2. PICK k \in B : \A j \in B : k <= j
    <3>1. B \in SUBSET Nat
      BY <1>1
    <3> HIDE DEF B
    <3> QED BY <2>1, <3>1, LeastElement
  <2>3. k \in 0 .. c /\ off[k] # p + k * w
    OBVIOUS
  <2>4. 0 * w = 0
    BY <1>1
  <2>5. k # 0
    BY <1>3, <1>5, <2>3, <2>4
  <2>6. k \in Nat /\ k \in 1 .. c /\ k - 1 \in 0 .. c /\ ~(k <= k - 1)
    BY <1>1, <2>3, <2>5
  <2>7. k - 1 \notin B
    <3> HIDE DEF B
    <3> QED BY <2>2, <2>6
  <2>8. off[k - 1] = p + (k - 1) * w
    BY <2>6, <2>7
  <2>9. (k - 1) * w + w = k * w /\ (k - 1) * w \in Nat /\ k * w \in Nat
    BY <1>1, <2>5, <2>6, Multiple
  <2>10. off[k] = off[k - 1] + w
    BY <1>4, <2>6
  <2> DEFINE x == (k - 1) * w
             y == k * w
  <2>11. off[k] = p + x + w /\ x + w = y /\ x \in Nat /\ y \in Nat /\ off[k] # p + y
    BY <2>3, <2>8, <2>9, <2>10
  <2> HIDE DEF x, y
  <2> QED BY <1>1, <1>5, <2>11
<1>7. \A k \in 1 .. c : At(data, p + (k - 1) * w) = arg[k]
  <2>1. ASSUME NEW k \in 1 .. c PROVE At(data, p + (k - 1) * w) = arg[k]
    <3>1. k - 1 \in 0 .. c
      BY <1>1, <2>1
    <3>2. off[k - 1] = p + (k - 1) * w
      BY <1>6, <3>1
    <3>3. off[k - 1] \in DOMAIN data /\ data[off[k - 1]] = arg[k]
      BY <1>4, <2>1
    <3> QED BY <3>2, <3>3 DEF At
  <2> QED BY <2>1
<1>8. e = p + c * w
  <2>1. c \in 0 .. c
    BY <1>1
  <2> QED BY <1>3, <1>6, <2>1
<1>9. c * w = w * c
  BY <1>1
<1>10. arg = [k \in 1 .. c |-> arg[k]]
  BY DEF c, ArgOf
<1>11. [k \in 1 .. c |-> At(data, p + (k - 1) * w)] = arg
  BY <1>7, <1>10
<1> QED BY <1>1, <1>5, <1>8, <1>9, <1>11 DEF c, w, Copied

\* What the reader has of an argument: the one that was sent, or unwritten memory.
Arrived(type, a, arg) == IF Goes(type, a) THEN arg ELSE Fresh(a)

\* What ReadArgs does with one argument.
ReadArg(data, type, q, a) ==
    [args |-> Append(q.args,
         IF Goes(type, a) THEN Copied(data, a, q.index) ELSE Fresh(a)),
     index |-> IF Goes(type, a) THEN q.index + SizeOfArg(a) ELSE q.index]

\* st[i] is what ReadArgs has after i arguments.
Reads(data, r, type, st) ==
    /\ st[0] = [args |-> << >>, index |-> r.index]
    /\ \A i \in 1 .. Len(r.msg.argTypes) :
           st[i] = ReadArg(data, type, st[i - 1], r.msg.argTypes[i])
    /\ ReadArgs(data, r, type) = [msg |-> [r.msg EXCEPT !.args = st[Len(r.msg.argTypes)].args],
                                 index |-> st[Len(r.msg.argTypes)].index]

LEMMA ReadSteps ==
    ASSUME NEW data, NEW r, NEW type, r.msg.argTypes \in Seq(ArgType), r.index \in Nat
    PROVE  \E st : Reads(data, r, type, st)
<1> DEFINE as == r.msg.argTypes
           n == Len(as)
           D == 1 .. n
           first == [args |-> << >>, index |-> r.index]
           V == {data[o] : o \in DOMAIN data} \union {None}
           X == UNION {[1 .. k -> V] : k \in Nat}
           S == [args : Seq(X), index : Nat]
           Value(f, s) == IF s = {} THEN first ELSE ReadArg(data, type, f[s \ {Max(s)}], as[Max(s)])
           Step(f) == [s \in SUBSET D |-> Value(f, s)]
           iter == CHOOSE f : f = Step(f)
<1>1. n \in Nat /\ DOMAIN as = D /\ \A i \in D : as[i] \in ArgType
  BY Members
<1>2. ReadArgs(data, r, type) =
          [msg |-> [r.msg EXCEPT !.args = iter[D].args], index |-> iter[D].index]
  <2>1. ReadArgs(data, r, type) =
          LET it == CHOOSE f : f = [s \in SUBSET DOMAIN as |-> Value(f, s)]
              last == it[DOMAIN as]
          IN  [msg |-> [r.msg EXCEPT !.args = last.args], index |-> last.index]
    BY DEF ReadArgs, FoldLeft, MapThenFoldSet, ReadArg, Copied
  <2> HIDE DEF as, n, Value
  <2> QED BY <1>1, <2>1
<1>3. r.index \in Nat
  OBVIOUS
<1> HIDE DEF as, n
<1>4. first \in S
  <2>1. << >> \in Seq(X)
    OBVIOUS
  <2> HIDE DEF X
  <2> QED BY <1>3, <2>1
<1>5. ASSUME NEW q \in S, NEW a \in ArgType PROVE ReadArg(data, type, q, a) \in S
  <2> DEFINE new == IF Goes(type, a) THEN Copied(data, a, q.index) ELSE Fresh(a)
             idx == IF Goes(type, a) THEN q.index + SizeOfArg(a) ELSE q.index
  <2>1. Count(a) \in Nat /\ SizeOfArg(a) \in Nat
    BY <1>5, ArgFacts
  <2>2. \A o : At(data, o) \in V
    BY DEF At
  <2>3. None \in V
    OBVIOUS
  <2>4. q.args \in Seq(X) /\ q.index \in Nat
    BY <1>5
  <2> HIDE DEF V
  <2>5. new \in [1 .. Count(a) -> V]
    BY <2>2, <2>3 DEF Fresh, Copied
  <2> HIDE DEF new
  <2>6. new \in X
    BY <2>1, <2>5
  <2>7. idx \in Nat
    BY <2>1, <2>4
  <2> HIDE DEF X, idx
  <2>8. Append(q.args, new) \in Seq(X)
    BY <2>4, <2>6
  <2>9. ReadArg(data, type, q, a) = [args |-> Append(q.args, new), index |-> idx]
    BY DEF ReadArg, new, idx
  <2> QED BY <2>7, <2>8, <2>9
<1> HIDE DEF S, first
<1>6. \E f : f = Step(f)
  <2> DEFINE op == [p \in S \X D |-> ReadArg(data, type, p[1], as[p[2]])]
  <2>1. op \in [S \X D -> S]
    BY <1>1, <1>5
  <2>2. \A w \in S : \A i \in D : op[<<w, i>>] = ReadArg(data, type, w, as[i])
    OBVIOUS
  <2> HIDE DEF op
  <2>3. PICK f \in [SUBSET D -> S] : Folds(f, n, first, op)
    BY <1>1, <1>4, <2>1, FoldExists
  <2>4. ASSUME NEW s \in SUBSET D, s # {} PROVE Max(s) \in D
    BY <1>1, <2>4, GreatestInSet
  <2>5. ASSUME NEW s \in SUBSET D PROVE f[s] = Value(f, s)
    <3>1. CASE s = {}
      BY <2>3, <3>1 DEF Folds
    <3>2. CASE s # {}
      <4>1. Max(s) \in D /\ f[s \ {Max(s)}] \in S
        BY <2>3, <2>4, <2>5, <3>2
      <4>2. f[s] = ReadArg(data, type, f[s \ {Max(s)}], as[Max(s)])
        BY <2>2, <2>3, <2>5, <3>2, <4>1 DEF Folds
      <4> QED BY <3>2, <4>2
    <3> QED BY <3>1, <3>2
  <2>6. f = Step(f)
    BY <2>5
  <2> QED BY <2>6
<1>7. iter = Step(iter)
  <2> HIDE DEF Step
  <2> QED BY <1>6
<1> HIDE DEF iter
<1>8. \A s \in SUBSET D : iter[s] = Value(iter, s)
  BY <1>7
<1> DEFINE st == [i \in 0 .. n |-> iter[1 .. i]]
<1>9. st[0] = first /\ st[n] = iter[D]
  <2>1. 0 \in 0 .. n /\ n \in 0 .. n
    BY <1>1
  <2>2. iter[{}] = first
    <3>1. {} \in SUBSET D
      OBVIOUS
    <3>2. iter[{}] = Value(iter, {})
      BY <1>8, <3>1
    <3> QED BY <3>2
  <2>3. 1 .. 0 = {}
    OBVIOUS
  <2> QED BY <2>1, <2>2, <2>3
<1>10. ASSUME NEW i \in D
       PROVE  st[i] = ReadArg(data, type, st[i - 1], as[i])
  <2>1. i \in Nat /\ i # 0 /\ i \in 0 .. n /\ i - 1 \in 0 .. n /\ 1 .. i \in SUBSET D
    BY <1>1
  <2>2. 1 .. i # {} /\ Max(1 .. i) = i /\ (1 .. i) \ {i} = 1 .. (i - 1)
    BY <2>1, Segments
  <2>3. iter[1 .. i] = Value(iter, 1 .. i)
    BY <1>8, <2>1
  <2> QED BY <2>1, <2>2, <2>3
<1> HIDE DEF st
<1>11. ReadArgs(data, r, type) = [msg |-> [r.msg EXCEPT !.args = st[n].args], index |-> st[n].index]
  BY <1>2, <1>9
<1> QED BY <1>9, <1>10, <1>11 DEF n, as, first, Reads

\* The arguments that go have their elements.
Goods(V, argTypes, args, type) ==
    \A i \in 1 .. Len(argTypes) :
        Goes(type, argTypes[i]) => args[i] \in ArgOf(V, argTypes[i])

Elementss(argTypes, args, type) ==
    [i \in 1 .. Len(argTypes) |->
        IF Goes(type, argTypes[i]) THEN Elements(argTypes[i], args[i]) ELSE << >>]

LEMMA ArgFieldsType ==
    ASSUME NEW V, NEW argTypes \in Seq(ArgType), NEW args, NEW type,
           Goods(V, argTypes, args, type)
    PROVE  /\ ArgFields(argTypes, args, type) = FlattenSeq(Elementss(argTypes, args, type))
           /\ Elementss(argTypes, args, type) \in Seq(Seq(FieldOf(V)))
           /\ Len(Elementss(argTypes, args, type)) = Len(argTypes)
           /\ ArgFields(argTypes, args, type) \in Seq(FieldOf(V))
<1> DEFINE n == Len(argTypes)
           es == Elementss(argTypes, args, type)
           F == Seq(FieldOf(V))
<1>1. n \in Nat /\ DOMAIN argTypes = 1 .. n /\ \A i \in 1 .. n : argTypes[i] \in ArgType
  BY Members
<1>2. ArgFields(argTypes, args, type) = FlattenSeq(es)
  <2>1. es = [i \in DOMAIN argTypes |->
                 IF Goes(type, argTypes[i])
                 THEN [k \in 1 .. Count(argTypes[i]) |->
                          [size |-> Width(argTypes[i]), value |-> args[i][k]]]
                 ELSE << >>]
    BY <1>1 DEF Elementss, Elements
  <2> QED BY <2>1 DEF ArgFields
<1>3. ASSUME NEW i \in 1 .. n
      PROVE  (IF Goes(type, argTypes[i]) THEN Elements(argTypes[i], args[i]) ELSE << >>) \in F
  <2>1. << >> \in F
    OBVIOUS
  <2>2. argTypes[i] \in ArgType
    BY <1>1, <1>3
  <2>3. Goes(type, argTypes[i]) => Elements(argTypes[i], args[i]) \in F
    BY <1>3, <2>2, ElementsType DEF Goods
  <2> QED BY <2>1, <2>3
<1> HIDE DEF F
<1>4. es \in [1 .. n -> F]
  BY <1>3 DEF Elementss
<1> HIDE DEF n, es
<1>5. es \in Seq(F) /\ Len(es) = n
  BY <1>1, <1>4
<1>6. FlattenSeq(es) \in F
  BY <1>5, FlattenType DEF F
<1> QED BY <1>2, <1>5, <1>6 DEF es, n, F

LEMMA HoldsNone ==
    ASSUME NEW data, NEW s, NEW e, Holds(data, << >>, s, e)
    PROVE  e = s
<1>1. Len(<< >>) = 0
  OBVIOUS
<1> QED BY <1>1 DEF Holds

\* What the reader has of all of them.
AllArrived(type, argTypes, args) ==
    [i \in 1 .. Len(argTypes) |-> Arrived(type, argTypes[i], args[i])]

WithArgs(r, args, e) == [msg |-> [r.msg EXCEPT !.args = args], index |-> e]

LEMMA ArgsRead ==
    ASSUME NEW V, NEW argTypes \in Seq(ArgType), NEW args, NEW type,
           Goods(V, argTypes, args, type), NEW data, NEW r, NEW e, r.msg.argTypes = argTypes,
           Holds(data, ArgFields(argTypes, args, type), r.index, e)
    PROVE  /\ ReadArgs(data, r, type) = WithArgs(r, AllArrived(type, argTypes, args), e)
           /\ e = r.index + SizeOfArgs(argTypes, type) /\ r.index \in Nat
<1> DEFINE n == Len(argTypes)
           es == Elementss(argTypes, args, type)
           p == r.index
<1>1. n \in Nat /\ \A i \in 1 .. n : argTypes[i] \in ArgType
  BY Members
<1>2. /\ ArgFields(argTypes, args, type) = FlattenSeq(es)
      /\ es \in Seq(Seq(FieldOf(V))) /\ Len(es) = n
  BY ArgFieldsType
<1>3. \A i \in 1 .. n :
          es[i] = IF Goes(type, argTypes[i]) THEN Elements(argTypes[i], args[i]) ELSE << >>
  BY DEF Elementss
<1> HIDE DEF es
<1>4. PICK pos \in [0 .. n -> Nat] :
          /\ pos[0] = p /\ pos[n] = e
          /\ \A i \in 1 .. n : Holds(data, es[i], pos[i - 1], pos[i])
  BY <1>2, HoldsFlatten
<1>5. p \in Nat
  <2>1. 0 \in 0 .. n
    BY <1>1
  <2> QED BY <1>4, <2>1
<1>6. ASSUME NEW i \in 1 .. n
      PROVE  /\ i - 1 \in 0 .. n /\ i \in 0 .. n /\ pos[i - 1] \in Nat
             /\ pos[i] = pos[i - 1] + Room(type, argTypes[i])
             /\ Goes(type, argTypes[i]) =>
                    Copied(data, argTypes[i], pos[i - 1]) = args[i]
  <2>1. i - 1 \in 0 .. n /\ i \in 0 .. n /\ pos[i - 1] \in Nat
    BY <1>1, <1>4, <1>6
  <2>2. argTypes[i] \in ArgType
    BY <1>1, <1>6
  <2>3. CASE Goes(type, argTypes[i])
    <3>1. Holds(data, Elements(argTypes[i], args[i]), pos[i - 1], pos[i])
      BY <1>3, <1>4, <1>6, <2>3
    <3>2. args[i] \in ArgOf(V, argTypes[i])
      BY <1>6, <2>3 DEF Goods
    <3>3. /\ pos[i] = pos[i - 1] + SizeOfArg(argTypes[i])
          /\ Copied(data, argTypes[i], pos[i - 1]) = args[i]
      <4> DEFINE a == argTypes[i]
                 arg == args[i]
                 s == pos[i - 1]
                 t == pos[i]
      <4>1. a \in ArgType /\ arg \in ArgOf(V, a) /\ Holds(data, Elements(a, arg), s, t)
        BY <2>2, <3>1, <3>2
      <4> HIDE DEF a, arg, s, t
      <4>2. /\ t = s + SizeOfArg(a)
            /\ Copied(data, a, s) = arg
        BY <4>1, ArgRead
      <4> QED BY <4>2 DEF a, arg, s, t
    <3> QED BY <2>1, <2>3, <3>3 DEF Room
  <2>4. CASE ~Goes(type, argTypes[i])
    <3>1. pos[i] = pos[i - 1]
      BY <1>3, <1>4, <1>6, <2>4, HoldsNone
    <3>2. Room(type, argTypes[i]) = 0
      BY <2>4 DEF Room
    <3>3. pos[i] = pos[i - 1] + Room(type, argTypes[i])
      BY <2>1, <3>1, <3>2
    <3> QED BY <2>1, <2>4, <3>3
  <2> QED BY <2>3, <2>4
<1>7. e = p + SizeOfArgs(argTypes, type)
  <2>1. PICK z : /\ z[0] = 0 /\ z[n] = SizeOfArgs(argTypes, type)
                 /\ \A i \in 0 .. n : z[i] \in Nat
                 /\ \A i \in 1 .. n : z[i] = z[i - 1] + Room(type, argTypes[i])
    BY SizeSteps
  <2> DEFINE B == {i \in 0 .. n : pos[i] # p + z[i]}
  <2>2. B = {}
    <3>1. SUFFICES ASSUME B # {} PROVE FALSE
      OBVIOUS
    <3>2. PICK i \in B : \A j \in B : i <= j
      <4>1. B \in SUBSET Nat
        BY <1>1
      <4> HIDE DEF B
      <4> QED BY <3>1, <4>1, LeastElement
    <3>3. i \in 0 .. n /\ pos[i] # p + z[i]
      OBVIOUS
    <3>4. i # 0
      BY <1>4, <1>5, <2>1, <3>3
    <3>5. i \in 1 .. n /\ i - 1 \in 0 .. n /\ ~(i <= i - 1)
      BY <1>1, <3>3, <3>4
    <3>6. i - 1 \notin B
      <4> HIDE DEF B
      <4> QED BY <3>2, <3>5
    <3>7. pos[i - 1] = p + z[i - 1]
      BY <3>5, <3>6
    <3>8. z[i - 1] \in Nat /\ z[i] \in Nat /\ z[i] = z[i - 1] + Room(type, argTypes[i])
      BY <2>1, <3>3, <3>5
    <3>9. pos[i] = pos[i - 1] + Room(type, argTypes[i])
      BY <1>6, <3>5
    <3>10. argTypes[i] \in ArgType
      BY <1>1, <3>5
    <3>11. Room(type, argTypes[i]) \in Nat
      BY <3>10, ArgFacts DEF Room
    <3> DEFINE x == Room(type, argTypes[i])
    <3>12. /\ x \in Nat /\ pos[i] = pos[i - 1] + x /\ z[i] = z[i - 1] + x
           /\ pos[i - 1] = p + z[i - 1] /\ z[i - 1] \in Nat /\ pos[i] # p + z[i]
      BY <3>3, <3>7, <3>8, <3>9, <3>11
    <3> HIDE DEF x, p
    <3> QED BY <1>5, <3>12
  <2>3. n \in 0 .. n
    BY <1>1
  <2>4. pos[n] = p + z[n]
    BY <2>2, <2>3
  <2> QED BY <1>4, <2>1, <2>4
<1>8. PICK st : /\ st[0] = [args |-> << >>, index |-> p]
                /\ \A i \in 1 .. n : st[i] = ReadArg(data, type, st[i - 1], argTypes[i])
                /\ ReadArgs(data, r, type) =
                       [msg |-> [r.msg EXCEPT !.args = st[n].args], index |-> st[n].index]
  <2>1. r.msg.argTypes \in Seq(ArgType) /\ r.index \in Nat
    BY <1>5
  <2>2. PICK st : Reads(data, r, type, st)
    BY <2>1, ReadSteps
  <2>3. r.msg.argTypes = argTypes
    OBVIOUS
  <2> QED BY <2>2, <2>3 DEF Reads
<1> DEFINE Got(k) == [i \in 1 .. k |-> Arrived(type, argTypes[i], args[i])]
           Has(k) == st[k] = [args |-> Got(k), index |-> pos[k]]
           C == {k \in 0 .. n : ~Has(k)}
<1>9. Has(0)
  <2>1. 1 .. 0 = {}
    OBVIOUS
  <2>2. Got(0) = << >>
    BY <2>1
  <2> QED BY <1>4, <1>8, <2>2
<1>10. ASSUME NEW k \in 1 .. n, Has(k - 1) PROVE Has(k)
  <2> DEFINE a == argTypes[k]
             new == Arrived(type, a, args[k])
  <2>1. k - 1 \in Nat /\ k \in Nat /\ (k - 1) + 1 = k
    BY <1>1
  <2>2. st[k - 1].args = Got(k - 1) /\ st[k - 1].index = pos[k - 1]
    BY <1>10
  <2>3. st[k] = ReadArg(data, type, st[k - 1], a)
    BY <1>8, <1>10
  <2>4. st[k] = [args |-> Append(Got(k - 1), new), index |-> pos[k]]
    <3>1. CASE Goes(type, a)
      <4>1. Copied(data, a, pos[k - 1]) = args[k]
        BY <1>6, <1>10, <3>1
      <4>2. pos[k] = pos[k - 1] + SizeOfArg(a)
        BY <1>6, <1>10, <3>1 DEF Room
      <4>3. new = args[k]
        BY <3>1 DEF Arrived
      <4> HIDE DEF Got, a, new
      <4> QED BY <2>2, <2>3, <3>1, <4>1, <4>2, <4>3 DEF ReadArg
    <3>2. CASE ~Goes(type, a)
      <4>1. pos[k] = pos[k - 1]
        <5>1. Room(type, a) = 0
          BY <3>2 DEF Room
        <5>2. pos[k] = pos[k - 1] + Room(type, a) /\ pos[k - 1] \in Nat
          BY <1>6, <1>10
        <5>3. pos[k] = pos[k - 1] + 0
          BY <5>1, <5>2
        <5> QED BY <5>2, <5>3
      <4>2. new = Fresh(a)
        BY <3>2 DEF Arrived
      <4> HIDE DEF Got, a, new
      <4> QED BY <2>2, <2>3, <3>2, <4>1, <4>2 DEF ReadArg
    <3> QED BY <3>1, <3>2
  <2>5. Append(Got(k - 1), new) = Got(k)
    <3> DEFINE f == [i \in Nat |-> Arrived(type, argTypes[i], args[i])]
               m == k - 1
    <3>1. Got(k - 1) = [i \in 1 .. m |-> f[i]] /\ new = f[k]
      BY <2>1
    <3>2. Got(k) = [i \in 1 .. k |-> f[i]]
      BY <2>1
    <3> HIDE DEF Got, new, f
    <3>3. m \in Nat /\ k = m + 1
      BY <2>1
    <3> HIDE DEF m
    <3>4. Append([i \in 1 .. m |-> f[i]], f[k]) = [i \in 1 .. k |-> f[i]]
      BY <3>3
    <3> QED BY <3>1, <3>2, <3>4
  <2> QED BY <2>4, <2>5
<1> HIDE DEF Has
<1>11. C = {}
  <2>1. SUFFICES ASSUME C # {} PROVE FALSE
    OBVIOUS
  <2>2. PICK k \in C : \A j \in C : k <= j
    <3>1. C \in SUBSET Nat
      BY <1>1
    <3> HIDE DEF C
    <3> QED BY <2>1, <3>1, LeastElement
  <2>3. k \in 0 .. n /\ ~Has(k)
    OBVIOUS
  <2>4. k \in 1 .. n /\ k - 1 \in 0 .. n /\ ~(k <= k - 1)
    BY <1>1, <1>9, <2>3
  <2>5. k - 1 \notin C
    <3> HIDE DEF C
    <3> QED BY <2>2, <2>4
  <2> QED BY <1>10, <2>3, <2>4, <2>5
<1>12. Has(n)
  <2>1. n \in 0 .. n
    BY <1>1
  <2> QED BY <1>11, <2>1
<1>13. ReadArgs(data, r, type) = [msg |-> [r.msg EXCEPT !.args = Got(n)], index |-> e]
  BY <1>4, <1>8, <1>12 DEF Has
<1>14. Got(n) = AllArrived(type, argTypes, args)
  BY DEF AllArrived
<1> HIDE DEF Got
<1> QED BY <1>5, <1>7, <1>13, <1>14 DEF n, p, WithArgs

-----------------------------------------------------------------------------
(* Messages. *)

Message(type, id, port, name, argTypes, args, code) ==
    [type |-> type, serverIdentifier |-> id, port |-> port, name |-> name,
     argTypes |-> argTypes, args |-> args, reasonCode |-> code]

Reader(m, i) == [msg |-> m, index |-> i]

\* A string and an int, and what the readers of single fields do.
LEMMA StringAt ==
    ASSUME NEW x, NEW data, NEW s, NEW e, Strlen(x) \in Nat, Holds(data, StringField(x), s, e)
    PROVE  s \in Nat /\ At(data, s) = x /\ e = s + Strlen(x) + 1
<1> DEFINE size == Strlen(x) + 1
<1>1. size \in Nat \ {0} /\ Holds(data, Field(size, x), s, e)
  BY DEF StringField
<1> HIDE DEF size
<1>2. s \in Nat /\ At(data, s) = x /\ e = s + size
  BY <1>1, HoldsOne
<1> QED BY <1>2 DEF size

LEMMA IntAt ==
    ASSUME NEW x, NEW data, NEW s, NEW e, Holds(data, IntField(x), s, e)
    PROVE  s \in Nat /\ At(data, s) = x /\ e = s + 4
<1> DEFINE size == 4
<1>1. size \in Nat \ {0} /\ Holds(data, Field(size, x), s, e)
  BY DEF IntField
<1> HIDE DEF size
<1>2. s \in Nat /\ At(data, s) = x /\ e = s + size
  BY <1>1, HoldsOne
<1> QED BY <1>2 DEF size

LEMMA IdMessage ==
    ASSUME NEW type, NEW id, NEW port, NEW name, NEW argTypes, NEW args, NEW code,
           NEW x, NEW data, NEW s, NEW e, Strlen(x) \in Nat, Holds(data, StringField(x), s, e)
    PROVE  ReadServerIdentifier(data, Reader(Message(type, id, port, name, argTypes, args, code), s)) =
               Reader(Message(type, x, port, name, argTypes, args, code), e)
<1> DEFINE r == Reader(Message(type, id, port, name, argTypes, args, code), s)
<1>1. r.index = s /\ r.msg = Message(type, id, port, name, argTypes, args, code)
  BY DEF Reader
<1> HIDE DEF r
<1>2. At(data, s) = x /\ e = s + Strlen(x) + 1
  BY StringAt
<1> QED BY <1>1, <1>2 DEF ReadServerIdentifier, Reader, Message, r

LEMMA NameMessage ==
    ASSUME NEW type, NEW id, NEW port, NEW name, NEW argTypes, NEW args, NEW code,
           NEW x, NEW data, NEW s, NEW e, Strlen(x) \in Nat, Holds(data, StringField(x), s, e)
    PROVE  ReadName(data, Reader(Message(type, id, port, name, argTypes, args, code), s)) =
               Reader(Message(type, id, port, x, argTypes, args, code), e)
<1> DEFINE r == Reader(Message(type, id, port, name, argTypes, args, code), s)
<1>1. r.index = s /\ r.msg = Message(type, id, port, name, argTypes, args, code)
  BY DEF Reader
<1> HIDE DEF r
<1>2. At(data, s) = x /\ e = s + Strlen(x) + 1
  BY StringAt
<1> QED BY <1>1, <1>2 DEF ReadName, Reader, Message, r

LEMMA PortMessage ==
    ASSUME NEW type, NEW id, NEW port, NEW name, NEW argTypes, NEW args, NEW code,
           NEW x, NEW data, NEW s, NEW e, Holds(data, IntField(x), s, e)
    PROVE  ReadPort(data, Reader(Message(type, id, port, name, argTypes, args, code), s)) =
               Reader(Message(type, id, x, name, argTypes, args, code), e)
<1> DEFINE r == Reader(Message(type, id, port, name, argTypes, args, code), s)
<1>1. r.index = s /\ r.msg = Message(type, id, port, name, argTypes, args, code)
  BY DEF Reader
<1> HIDE DEF r
<1>2. At(data, s) = x /\ e = s + 4
  BY IntAt
<1> QED BY <1>1, <1>2 DEF ReadPort, Reader, Message, r

LEMMA ReasonMessage ==
    ASSUME NEW type, NEW id, NEW port, NEW name, NEW argTypes, NEW args, NEW code,
           NEW x, NEW data, NEW s, NEW e, Holds(data, IntField(x), s, e)
    PROVE  ReadReasonCode(data, Reader(Message(type, id, port, name, argTypes, args, code), s)) =
               Reader(Message(type, id, port, name, argTypes, args, x), e)
<1> DEFINE r == Reader(Message(type, id, port, name, argTypes, args, code), s)
<1>1. r.index = s /\ r.msg = Message(type, id, port, name, argTypes, args, code)
  BY DEF Reader
<1> HIDE DEF r
<1>2. At(data, s) = x /\ e = s + 4
  BY IntAt
<1> QED BY <1>1, <1>2 DEF ReadReasonCode, Reader, Message, r

LEMMA ArgTypesMessage ==
    ASSUME NEW type, NEW id, NEW port, NEW name, NEW old, NEW args, NEW code,
           NEW argTypes \in Seq(ArgType), NEW data, IsFiniteSet(DOMAIN data), NEW s, NEW e,
           Holds(data, ArgTypesFields(argTypes), s, e)
    PROVE  /\ ReadArgTypes(data, Reader(Message(type, id, port, name, old, args, code), s)) =
                 Reader(Message(type, id, port, name, argTypes, args, code), e)
           /\ e = s + 4 * (Len(argTypes) + 1) /\ s \in Nat
<1> DEFINE r == Reader(Message(type, id, port, name, old, args, code), s)
<1>1. r.index = s /\ r.msg = Message(type, id, port, name, old, args, code)
  BY DEF Reader
<1> HIDE DEF r
<1>2. /\ ReadArgTypes(data, r) = [msg |-> [r.msg EXCEPT !.argTypes = argTypes], index |-> e]
      /\ e = r.index + 4 * (Len(argTypes) + 1) /\ r.index \in Nat
  BY <1>1, ArgTypesRead
<1> QED BY <1>1, <1>2 DEF Reader, Message, r

LEMMA ArgsMessage ==
    ASSUME NEW V, NEW type, NEW id, NEW port, NEW name, NEW old, NEW code,
           NEW argTypes \in Seq(ArgType), NEW args, NEW way, Goods(V, argTypes, args, way),
           NEW data, NEW s, NEW e, Holds(data, ArgFields(argTypes, args, way), s, e)
    PROVE  /\ ReadArgs(data, Reader(Message(type, id, port, name, argTypes, old, code), s), way) =
                 Reader(Message(type, id, port, name, argTypes,
                                AllArrived(way, argTypes, args), code), e)
           /\ e = s + SizeOfArgs(argTypes, way) /\ s \in Nat
<1> DEFINE r == Reader(Message(type, id, port, name, argTypes, old, code), s)
           got == AllArrived(way, argTypes, args)
<1>1. r.index = s /\ r.msg = Message(type, id, port, name, argTypes, old, code)
  BY DEF Reader
<1>2. r.msg.argTypes = argTypes
  BY <1>1 DEF Message
<1> HIDE DEF r, got
<1>3. Holds(data, ArgFields(argTypes, args, way), r.index, e)
  BY <1>1
<1>4. /\ ReadArgs(data, r, way) = WithArgs(r, got, e)
      /\ e = r.index + SizeOfArgs(argTypes, way) /\ r.index \in Nat
  BY <1>2, <1>3, ArgsRead DEF got
<1> QED BY <1>1, <1>4 DEF Reader, Message, r, got, WithArgs

New(type) == Reader(Message(type, None, 0, None, << >>, << >>, 0), 0)
Wire(type, length, data, e) == [type |-> type, length |-> length, data |-> data, end |-> e]

LEMMA Reading ==
    ASSUME NEW type, NEW length, NEW data, NEW e
    PROVE  LET w == Wire(type, length, data, e) IN
           /\ type = "REGISTER" =>
                  CreateFromBytes(w) =
                      ReadArgTypes(data, ReadName(data, ReadPort(data,
                          ReadServerIdentifier(data, New(type)))))
           /\ type = "LOC_REQUEST" =>
                  CreateFromBytes(w) = ReadArgTypes(data, ReadName(data, New(type)))
           /\ type = "LOC_SUCCESS" =>
                  CreateFromBytes(w) = ReadPort(data, ReadServerIdentifier(data, New(type)))
           /\ type \in {"EXECUTE", "EXECUTE_SUCCESS"} =>
                  CreateFromBytes(w) = ReadArgs(data, ReadArgTypes(data, ReadName(data, New(type))), type)
           /\ type \in {"REGISTER_SUCCESS", "LOC_FAILURE", "EXECUTE_FAILURE"} =>
                  CreateFromBytes(w) = ReadReasonCode(data, New(type))
<1> DEFINE w == Wire(type, length, data, e)
           first == [msg |-> [EmptyMessage EXCEPT !.type = w.type], index |-> 0]
<1>1. w.type = type /\ w.data = data
  BY DEF Wire
<1> HIDE DEF w
<1>2. first = New(type)
  BY <1>1 DEF EmptyMessage, New, Reader, Message
<1>3. CreateFromBytes(w) =
        CASE w.type = "REGISTER" ->
                 ReadArgTypes(w.data, ReadName(w.data, ReadPort(w.data,
                     ReadServerIdentifier(w.data, first))))
          [] w.type = "LOC_REQUEST" -> ReadArgTypes(w.data, ReadName(w.data, first))
          [] w.type = "LOC_SUCCESS" -> ReadPort(w.data, ReadServerIdentifier(w.data, first))
          [] w.type \in {"EXECUTE", "EXECUTE_SUCCESS"} ->
                 ReadArgs(w.data, ReadArgTypes(w.data, ReadName(w.data, first)), w.type)
          [] OTHER -> ReadReasonCode(w.data, first)
  BY DEF CreateFromBytes
<1> HIDE DEF first
<1> QED BY <1>1, <1>2, <1>3 DEF w

\* What is sent of a message, and how it is read again: what MessagesSurvive says of a
\* message under way.
Arrives(m) ==
    /\ Serialize(m).end = Serialize(m).length
    /\ CreateFromBytes(Serialize(m)) = [msg |-> Transmitted(m), index |-> Serialize(m).length]

LEMMA NoArgs ==
    ASSUME NEW type, NEW id, NEW port, NEW name, NEW argTypes, NEW code
    PROVE  Transmitted(Message(type, id, port, name, argTypes, << >>, code)) =
               Message(type, id, port, name, argTypes, << >>, code)
<1> DEFINE m == Message(type, id, port, name, argTypes, << >>, code)
           got == [i \in DOMAIN m.args |->
                      IF Goes(m.type, m.argTypes[i]) THEN m.args[i] ELSE Fresh(m.argTypes[i])]
<1>1. m.args = << >>
  BY DEF Message
<1>2. Transmitted(m) = [m EXCEPT !.args = got]
  BY DEF Transmitted
<1> HIDE DEF m
<1>3. got = << >>
  <2>1. DOMAIN m.args = {}
    BY <1>1
  <2> QED BY <2>1
<1> HIDE DEF got
<1>4. [m EXCEPT !.args = << >>] = m
  BY <1>1 DEF Message, m
<1> QED BY <1>2, <1>3, <1>4 DEF m

LEMMA RegisterArrives ==
    ASSUME NEW name \in Names, NEW argTypes \in Seq(ArgType)
    PROVE  Arrives(Message("REGISTER", Server, Port, name, argTypes, << >>, 0))
<1> DEFINE m == Message("REGISTER", Server, Port, name, argTypes, << >>, 0)
           V == Int \union {Server, Port, name}
           F == Seq(FieldOf(V))
           f1 == StringField(Server)
           f2 == IntField(Port)
           f3 == StringField(name)
           f4 == ArgTypesFields(argTypes)
           l1 == Strlen(Server) + 1
           l3 == Strlen(name) + 1
           l4 == 4 * (Len(argTypes) + 1)
<1>1. Strlen(Server) \in Nat /\ Strlen(name) \in Nat /\ Len(argTypes) \in Nat
  BY StrlenAssumption
<1>2. l1 \in Nat \ {0} /\ l3 \in Nat \ {0} /\ l4 \in Nat
  BY <1>1
<1>3. f1 \in F /\ f2 \in F /\ f3 \in F /\ f4 \in F
  <2>1. Server \in V /\ Port \in V /\ name \in V /\ Int \subseteq V /\ 4 \in Nat \ {0}
    OBVIOUS
  <2> HIDE DEF V, l1, l3
  <2>2. Field(l1, Server) \in F /\ Field(4, Port) \in F /\ Field(l3, name) \in F
    BY <1>2, <2>1, FieldType
  <2>3. f4 \in F
    BY <2>1, ArgTypesFieldsType
  <2> QED BY <2>2, <2>3 DEF StringField, IntField, l1, l3
<1>4. m.type = "REGISTER" /\ m.serverIdentifier = Server /\ m.port = Port /\ m.name = name
      /\ m.argTypes = argTypes
  BY DEF Message
<1> HIDE DEF m
<1>5. Contents(m).fields = ((f1 \o f2) \o f3) \o f4 /\ Contents(m).length = l1 + 4 + l3 + l4
  <2>1. Contents(m) = [length |-> Strlen(Server) + 1 + 4 + Strlen(name) + 1 + 4 * (Len(argTypes) + 1),
                       fields |-> ((f1 \o f2) \o f3) \o f4]
    BY <1>4 DEF Contents
  <2> DEFINE length == Strlen(Server) + 1 + 4 + Strlen(name) + 1 + 4 * (Len(argTypes) + 1)
             fields == ((f1 \o f2) \o f3) \o f4
  <2>2. length = l1 + 4 + l3 + l4
    BY <1>1
  <2> HIDE DEF length, fields, l1, l3, l4
  <2>3. Contents(m).fields = fields /\ Contents(m).length = length
    BY <2>1 DEF length, fields
  <2> QED BY <2>2, <2>3 DEF fields
<1> HIDE DEF F, f1, f2, f3, f4, V
<1>6. f1 \o f2 \in F /\ (f1 \o f2) \o f3 \in F /\ ((f1 \o f2) \o f3) \o f4 \in F
  BY <1>3 DEF F
<1>7. PICK data, e : /\ Serialize(m) = Wire(m.type, Contents(m).length, data, e)
                     /\ IsFiniteSet(DOMAIN data) /\ Holds(data, Contents(m).fields, 0, e)
  BY <1>5, <1>6, Written DEF F, Wire
<1>8. PICK p3 \in Nat : Holds(data, (f1 \o f2) \o f3, 0, p3) /\ Holds(data, f4, p3, e)
  BY <1>3, <1>5, <1>6, <1>7, HoldsConcat DEF F
<1>9. PICK p2 \in Nat : Holds(data, f1 \o f2, 0, p2) /\ Holds(data, f3, p2, p3)
  BY <1>3, <1>6, <1>8, HoldsConcat DEF F
<1>10. PICK p1 \in Nat : Holds(data, f1, 0, p1) /\ Holds(data, f2, p1, p2)
  BY <1>3, <1>9, HoldsConcat DEF F
<1>11. /\ p1 = 0 + l1
       /\ ReadServerIdentifier(data, New(m.type)) =
              Reader(Message(m.type, Server, 0, None, << >>, << >>, 0), p1)
  <2>1. p1 = 0 + l1
    BY <1>1, <1>10, StringAt DEF f1
  <2> HIDE DEF l1, m
  <2> QED BY <1>1, <1>10, <2>1, IdMessage DEF New, f1
<1>12. /\ p2 = p1 + 4
       /\ ReadPort(data, Reader(Message(m.type, Server, 0, None, << >>, << >>, 0), p1)) =
              Reader(Message(m.type, Server, Port, None, << >>, << >>, 0), p2)
  <2>1. p2 = p1 + 4
    BY <1>10, IntAt DEF f2
  <2>2. Holds(data, IntField(Port), p1, p2)
    BY <1>10 DEF f2
  <2> QED BY <2>1, <2>2, PortMessage
<1>13. /\ p3 = p2 + l3
       /\ ReadName(data, Reader(Message(m.type, Server, Port, None, << >>, << >>, 0), p2)) =
              Reader(Message(m.type, Server, Port, name, << >>, << >>, 0), p3)
  <2>1. p3 = p2 + l3
    BY <1>1, <1>9, StringAt DEF f3
  <2> HIDE DEF l3, m
  <2> QED BY <1>1, <1>9, <2>1, NameMessage DEF f3
<1>14. /\ e = p3 + l4
       /\ ReadArgTypes(data, Reader(Message(m.type, Server, Port, name, << >>, << >>, 0), p3)) =
              Reader(Message(m.type, Server, Port, name, argTypes, << >>, 0), e)
  BY <1>7, <1>8, ArgTypesMessage DEF f4
<1>15. CreateFromBytes(Serialize(m)) = Reader(m, e)
  <2>1. CreateFromBytes(Wire(m.type, Contents(m).length, data, e)) =
          ReadArgTypes(data, ReadName(data, ReadPort(data, ReadServerIdentifier(data, New(m.type)))))
    BY <1>4, Reading
  <2>2. m = Message(m.type, Server, Port, name, argTypes, << >>, 0)
    BY <1>4 DEF m
  <2> QED BY <1>7, <1>11, <1>12, <1>13, <1>14, <2>1, <2>2
<1>16. e = Contents(m).length
  <2> HIDE DEF l1, l3, l4
  <2> QED BY <1>2, <1>5, <1>11, <1>12, <1>13, <1>14
<1>17. Serialize(m).end = e /\ Serialize(m).length = e
  BY <1>7, <1>16 DEF Wire
<1>18. Transmitted(m) = m
  BY NoArgs DEF m
<1> QED BY <1>15, <1>17, <1>18 DEF Arrives, Reader, m

LEMMA LookupArrives ==
    ASSUME NEW name \in Names, NEW argTypes \in Seq(ArgType)
    PROVE  Arrives(Message("LOC_REQUEST", None, 0, name, argTypes, << >>, 0))
<1> DEFINE m == Message("LOC_REQUEST", None, 0, name, argTypes, << >>, 0)
           F == Seq(FieldOf(Int))
           f1 == StringField(name)
           f2 == ArgTypesFields(argTypes)
           l1 == Strlen(name) + 1
           l2 == 4 * (Len(argTypes) + 1)
<1>1. Strlen(name) \in Nat /\ Len(argTypes) \in Nat
  BY StrlenAssumption
<1>2. l1 \in Nat \ {0} /\ l2 \in Nat
  BY <1>1
<1>3. f1 \in F /\ f2 \in F
  <2>1. name \in Int /\ Int \subseteq Int
    BY NamesAssumption
  <2> HIDE DEF l1
  <2>2. Field(l1, name) \in F
    BY <1>2, <2>1, FieldType
  <2>3. f2 \in F
    BY <2>1, ArgTypesFieldsType
  <2> QED BY <2>2, <2>3 DEF StringField, l1
<1>4. m.type = "LOC_REQUEST" /\ m.name = name /\ m.argTypes = argTypes
  BY DEF Message
<1> HIDE DEF m
<1>5. Contents(m).fields = f1 \o f2 /\ Contents(m).length = l1 + l2
  <2>1. Contents(m) = [length |-> Strlen(name) + 1 + 4 * (Len(argTypes) + 1), fields |-> f1 \o f2]
    BY <1>4 DEF Contents
  <2> DEFINE length == Strlen(name) + 1 + 4 * (Len(argTypes) + 1)
             fields == f1 \o f2
  <2>2. length = l1 + l2
    BY <1>1
  <2> HIDE DEF length, fields, l1, l2
  <2>3. Contents(m).fields = fields /\ Contents(m).length = length
    BY <2>1 DEF length, fields
  <2> QED BY <2>2, <2>3 DEF fields
<1> HIDE DEF F, f1, f2
<1>6. f1 \o f2 \in F
  BY <1>3 DEF F
<1>7. PICK data, e : /\ Serialize(m) = Wire(m.type, Contents(m).length, data, e)
                     /\ IsFiniteSet(DOMAIN data) /\ Holds(data, Contents(m).fields, 0, e)
  BY <1>5, <1>6, Written DEF F, Wire
<1>8. PICK p1 \in Nat : Holds(data, f1, 0, p1) /\ Holds(data, f2, p1, e)
  BY <1>3, <1>5, <1>7, HoldsConcat DEF F
<1>9. /\ p1 = 0 + l1
      /\ ReadName(data, New(m.type)) = Reader(Message(m.type, None, 0, name, << >>, << >>, 0), p1)
  <2>1. p1 = 0 + l1
    BY <1>1, <1>8, StringAt DEF f1
  <2> HIDE DEF l1, m
  <2> QED BY <1>1, <1>8, <2>1, NameMessage DEF New, f1
<1>10. /\ e = p1 + l2
       /\ ReadArgTypes(data, Reader(Message(m.type, None, 0, name, << >>, << >>, 0), p1)) =
              Reader(Message(m.type, None, 0, name, argTypes, << >>, 0), e)
  BY <1>7, <1>8, ArgTypesMessage DEF f2
<1>11. CreateFromBytes(Serialize(m)) = Reader(m, e)
  <2>1. CreateFromBytes(Wire(m.type, Contents(m).length, data, e)) =
          ReadArgTypes(data, ReadName(data, New(m.type)))
    BY <1>4, Reading
  <2>2. m = Message(m.type, None, 0, name, argTypes, << >>, 0)
    BY <1>4 DEF m
  <2> QED BY <1>7, <1>9, <1>10, <2>1, <2>2
<1>12. e = Contents(m).length
  <2> HIDE DEF l1, l2
  <2> QED BY <1>2, <1>5, <1>9, <1>10
<1>13. Serialize(m).end = e /\ Serialize(m).length = e
  BY <1>7, <1>12 DEF Wire
<1>14. Transmitted(m) = m
  BY NoArgs DEF m
<1> QED BY <1>11, <1>13, <1>14 DEF Arrives, Reader, m

LEMMA LocationArrives ==
    Arrives(Message("LOC_SUCCESS", Server, Port, None, << >>, << >>, 0))
<1> DEFINE m == Message("LOC_SUCCESS", Server, Port, None, << >>, << >>, 0)
           F == Seq(FieldOf({Server, Port}))
           f1 == StringField(Server)
           f2 == IntField(Port)
           l1 == Strlen(Server) + 1
<1>1. Strlen(Server) \in Nat
  BY StrlenAssumption
<1>2. l1 \in Nat \ {0}
  BY <1>1
<1>3. f1 \in F /\ f2 \in F
  <2>1. Server \in {Server, Port} /\ Port \in {Server, Port} /\ 4 \in Nat \ {0}
    OBVIOUS
  <2> HIDE DEF l1
  <2>2. Field(l1, Server) \in F /\ Field(4, Port) \in F
    BY <1>2, <2>1, FieldType
  <2> QED BY <2>2 DEF StringField, IntField, l1
<1>4. m.type = "LOC_SUCCESS" /\ m.serverIdentifier = Server /\ m.port = Port
  BY DEF Message
<1> HIDE DEF m
<1>5. Contents(m).fields = f1 \o f2 /\ Contents(m).length = l1 + 4
  <2>1. Contents(m) = [length |-> Strlen(Server) + 1 + 4, fields |-> f1 \o f2]
    BY <1>4 DEF Contents
  <2> HIDE DEF f1, f2
  <2> QED BY <2>1
<1> HIDE DEF F, f1, f2
<1>6. f1 \o f2 \in F
  BY <1>3 DEF F
<1>7. PICK data, e : /\ Serialize(m) = Wire(m.type, Contents(m).length, data, e)
                     /\ IsFiniteSet(DOMAIN data) /\ Holds(data, Contents(m).fields, 0, e)
  BY <1>5, <1>6, Written DEF F, Wire
<1>8. PICK p1 \in Nat : Holds(data, f1, 0, p1) /\ Holds(data, f2, p1, e)
  BY <1>3, <1>5, <1>7, HoldsConcat DEF F
<1>9. /\ p1 = 0 + l1
      /\ ReadServerIdentifier(data, New(m.type)) =
             Reader(Message(m.type, Server, 0, None, << >>, << >>, 0), p1)
  <2>1. p1 = 0 + l1
    BY <1>1, <1>8, StringAt DEF f1
  <2> HIDE DEF l1, m
  <2> QED BY <1>1, <1>8, <2>1, IdMessage DEF New, f1
<1>10. /\ e = p1 + 4
       /\ ReadPort(data, Reader(Message(m.type, Server, 0, None, << >>, << >>, 0), p1)) =
              Reader(Message(m.type, Server, Port, None, << >>, << >>, 0), e)
  <2>1. e = p1 + 4
    BY <1>8, IntAt DEF f2
  <2>2. Holds(data, IntField(Port), p1, e)
    BY <1>8 DEF f2
  <2> QED BY <2>1, <2>2, PortMessage
<1>11. CreateFromBytes(Serialize(m)) = Reader(m, e)
  <2>1. CreateFromBytes(Wire(m.type, Contents(m).length, data, e)) =
          ReadPort(data, ReadServerIdentifier(data, New(m.type)))
    BY <1>4, Reading
  <2>2. m = Message(m.type, Server, Port, None, << >>, << >>, 0)
    BY <1>4 DEF m
  <2> QED BY <1>7, <1>9, <1>10, <2>1, <2>2
<1>12. e = Contents(m).length
  <2> HIDE DEF l1
  <2> QED BY <1>2, <1>5, <1>9, <1>10
<1>13. Serialize(m).end = e /\ Serialize(m).length = e
  BY <1>7, <1>12 DEF Wire
<1>14. Transmitted(m) = m
  BY NoArgs DEF m
<1> QED BY <1>11, <1>13, <1>14 DEF Arrives, Reader, m

LEMMA ReasonArrives ==
    ASSUME NEW type \in {"REGISTER_SUCCESS", "LOC_FAILURE", "EXECUTE_FAILURE"}, NEW code
    PROVE  Arrives(Message(type, None, 0, None, << >>, << >>, code))
<1> DEFINE m == Message(type, None, 0, None, << >>, << >>, code)
           F == Seq(FieldOf({code}))
           f1 == IntField(code)
<1>1. f1 \in F
  <2>1. code \in {code} /\ 4 \in Nat \ {0}
    OBVIOUS
  <2> QED BY <2>1, FieldType DEF IntField
<1>2. m.type = type /\ m.reasonCode = code
  BY DEF Message
<1> HIDE DEF m
<1>3. Contents(m).fields = f1 /\ Contents(m).length = 4
  <2>1. Contents(m) = [length |-> 4, fields |-> f1]
    BY <1>2 DEF Contents
  <2> HIDE DEF f1
  <2> QED BY <2>1
<1> HIDE DEF F, f1
<1>4. PICK data, e : /\ Serialize(m) = Wire(m.type, Contents(m).length, data, e)
                     /\ IsFiniteSet(DOMAIN data) /\ Holds(data, Contents(m).fields, 0, e)
  BY <1>1, <1>3, Written DEF F, Wire
<1>5. Holds(data, IntField(code), 0, e)
  BY <1>3, <1>4 DEF f1
<1>6. e = 0 + 4
  BY <1>5, IntAt
<1>7. ReadReasonCode(data, New(m.type)) = Reader(Message(m.type, None, 0, None, << >>, << >>, code), e)
  BY <1>5, ReasonMessage DEF New
<1>8. CreateFromBytes(Serialize(m)) = Reader(m, e)
  <2>1. CreateFromBytes(Wire(m.type, Contents(m).length, data, e)) = ReadReasonCode(data, New(m.type))
    BY <1>2, Reading
  <2>2. m = Message(m.type, None, 0, None, << >>, << >>, code)
    BY <1>2 DEF m
  <2> QED BY <1>4, <1>7, <2>1, <2>2
<1>9. Serialize(m).end = e /\ Serialize(m).length = e
  BY <1>3, <1>4, <1>6 DEF Wire
<1>10. Transmitted(m) = m
  BY NoArgs DEF m
<1> QED BY <1>8, <1>9, <1>10 DEF Arrives, Reader, m

LEMMA ArgsTransmitted ==
    ASSUME NEW type, NEW name, NEW argTypes \in Seq(ArgType), NEW args,
           DOMAIN args = DOMAIN argTypes
    PROVE  Transmitted(Message(type, None, 0, name, argTypes, args, 0)) =
               Message(type, None, 0, name, argTypes, AllArrived(type, argTypes, args), 0)
<1> DEFINE m == Message(type, None, 0, name, argTypes, args, 0)
           got == [i \in DOMAIN m.args |->
                      IF Goes(m.type, m.argTypes[i]) THEN m.args[i] ELSE Fresh(m.argTypes[i])]
<1>1. m.args = args /\ m.type = type /\ m.argTypes = argTypes
  BY DEF Message
<1>2. Transmitted(m) = [m EXCEPT !.args = got]
  BY DEF Transmitted
<1> HIDE DEF m
<1>3. got = AllArrived(type, argTypes, args)
  <2>1. DOMAIN args = 1 .. Len(argTypes)
    BY Members
  <2> QED BY <1>1, <2>1 DEF AllArrived, Arrived
<1> HIDE DEF got
<1> QED BY <1>2, <1>3 DEF Message, m

LEMMA ExecuteArrives ==
    ASSUME NEW W, Int \subseteq W, NEW type \in {"EXECUTE", "EXECUTE_SUCCESS"},
           NEW name \in Names, NEW argTypes \in Seq(ArgType), NEW args,
           Goods(W, argTypes, args, type), DOMAIN args = DOMAIN argTypes
    PROVE  Arrives(Message(type, None, 0, name, argTypes, args, 0))
<1> DEFINE m == Message(type, None, 0, name, argTypes, args, 0)
           F == Seq(FieldOf(W))
           f1 == StringField(name)
           f2 == ArgTypesFields(argTypes)
           f3 == ArgFields(argTypes, args, type)
           l1 == Strlen(name) + 1
           l2 == 4 * (Len(argTypes) + 1)
           l3 == SizeOfArgs(argTypes, type)
           got == AllArrived(type, argTypes, args)
<1>1. Strlen(name) \in Nat /\ Len(argTypes) \in Nat
  BY StrlenAssumption
<1>2. l1 \in Nat \ {0} /\ l2 \in Nat /\ l3 \in Nat
  <2>1. l3 \in Nat
    <3>1. PICK z : /\ z[Len(argTypes)] = SizeOfArgs(argTypes, type)
                   /\ \A i \in 0 .. Len(argTypes) : z[i] \in Nat
      BY SizeSteps
    <3>2. Len(argTypes) \in 0 .. Len(argTypes)
      BY <1>1
    <3> QED BY <3>1, <3>2
  <2> QED BY <1>1, <2>1
<1>3. f1 \in F /\ f2 \in F /\ f3 \in F
  <2>1. name \in W
    BY NamesAssumption
  <2> HIDE DEF l1
  <2>2. Field(l1, name) \in F
    BY <1>2, <2>1, FieldType
  <2>3. f2 \in F
    BY ArgTypesFieldsType
  <2>4. f3 \in F
    BY ArgFieldsType
  <2> QED BY <2>2, <2>3, <2>4 DEF StringField, l1
<1>4. m.type = type /\ m.name = name /\ m.argTypes = argTypes /\ m.args = args
  BY DEF Message
<1> HIDE DEF m
<1>5. Contents(m).fields = (f1 \o f2) \o f3 /\ Contents(m).length = l1 + l2 + l3
  <2>1. Contents(m) = [length |-> Strlen(name) + 1 + 4 * (Len(argTypes) + 1)
                                  + SizeOfArgs(argTypes, type),
                       fields |-> (f1 \o f2) \o f3]
    BY <1>4 DEF Contents
  <2> DEFINE length == Strlen(name) + 1 + 4 * (Len(argTypes) + 1) + SizeOfArgs(argTypes, type)
             fields == (f1 \o f2) \o f3
  <2>2. length = l1 + l2 + l3
    BY <1>1, <1>2
  <2> HIDE DEF length, fields, l1, l2, l3
  <2>3. Contents(m).fields = fields /\ Contents(m).length = length
    BY <2>1 DEF length, fields
  <2> QED BY <2>2, <2>3 DEF fields
<1> HIDE DEF F, f1, f2, f3
<1>6. f1 \o f2 \in F /\ (f1 \o f2) \o f3 \in F
  BY <1>3 DEF F
<1>7. PICK data, e : /\ Serialize(m) = Wire(m.type, Contents(m).length, data, e)
                     /\ IsFiniteSet(DOMAIN data) /\ Holds(data, Contents(m).fields, 0, e)
  BY <1>5, <1>6, Written DEF F, Wire
<1>8. PICK p2 \in Nat : Holds(data, f1 \o f2, 0, p2) /\ Holds(data, f3, p2, e)
  BY <1>3, <1>5, <1>6, <1>7, HoldsConcat DEF F
<1>9. PICK p1 \in Nat : Holds(data, f1, 0, p1) /\ Holds(data, f2, p1, p2)
  BY <1>3, <1>8, HoldsConcat DEF F
<1>10. /\ p1 = 0 + l1
       /\ ReadName(data, New(m.type)) = Reader(Message(m.type, None, 0, name, << >>, << >>, 0), p1)
  <2>1. p1 = 0 + l1
    BY <1>1, <1>9, StringAt DEF f1
  <2> HIDE DEF l1, m
  <2> QED BY <1>1, <1>9, <2>1, NameMessage DEF New, f1
<1>11. /\ p2 = p1 + l2
       /\ ReadArgTypes(data, Reader(Message(m.type, None, 0, name, << >>, << >>, 0), p1)) =
              Reader(Message(m.type, None, 0, name, argTypes, << >>, 0), p2)
  BY <1>7, <1>9, ArgTypesMessage DEF f2
<1>12. /\ e = p2 + l3
       /\ ReadArgs(data, Reader(Message(m.type, None, 0, name, argTypes, << >>, 0), p2), type) =
              Reader(Message(m.type, None, 0, name, argTypes, got, 0), e)
  BY <1>8, ArgsMessage DEF f3
<1>13. CreateFromBytes(Serialize(m)) = Reader(Message(type, None, 0, name, argTypes, got, 0), e)
  <2>1. CreateFromBytes(Wire(m.type, Contents(m).length, data, e)) =
          ReadArgs(data, ReadArgTypes(data, ReadName(data, New(m.type))), type)
    BY <1>4, Reading
  <2> HIDE DEF got
  <2> QED BY <1>4, <1>7, <1>10, <1>11, <1>12, <2>1
<1>14. e = Contents(m).length
  <2> HIDE DEF l1, l2, l3
  <2> QED BY <1>2, <1>5, <1>10, <1>11, <1>12
<1>15. Serialize(m).end = e /\ Serialize(m).length = e
  BY <1>7, <1>14 DEF Wire
<1>16. Transmitted(m) = Message(type, None, 0, name, argTypes, got, 0)
  BY ArgsTransmitted DEF m
<1> QED BY <1>13, <1>15, <1>16 DEF Arrives, Reader, m

-----------------------------------------------------------------------------
(* The state. *)

RegisterMessage(sig) == Message("REGISTER", Server, Port, sig.name, sig.argTypes, << >>, 0)
LookupMessage(sig) == Message("LOC_REQUEST", None, 0, sig.name, sig.argTypes, << >>, 0)
LocationMessage == Message("LOC_SUCCESS", Server, Port, None, << >>, << >>, 0)
ExecuteMessage(type, sig, args) == Message(type, None, 0, sig.name, sig.argTypes, args, 0)
ReasonOnly(type, code) == Message(type, None, 0, None, << >>, << >>, code)

UnderWay(m) == wire = Serialize(m) /\ sent = m

\* The caller's memory before the call.
Own(argTypes) ==
    [i \in DOMAIN argTypes |-> [k \in 1 .. Count(argTypes[i]) |-> <<"caller", i, k>>]]

\* The function registered last for exactly this overload.
IsRight(function, sig) ==
    function \in Overload(sig) /\ \A i \in Overload(sig) : i <= function

Calling ==
    /\ caller.sig \in Signatures
    /\ before = Own(caller.sig.argTypes)
    /\ caller = [sig |-> caller.sig, args |-> before]

RanRight ==
    /\ IsRight(ran.function, caller.sig)
    /\ ran.given = AllArrived("EXECUTE", caller.sig.argTypes, before)
    /\ ran.left = Left(caller.sig.argTypes, ran.given)

\* What is under way, and what is known, where the message is read.
WireInv ==
    /\ pc \in {"idle", "binder", "registering", "locating", "server", "calling"}
    /\ pc = "idle" => wire = None
    /\ pc = "binder" =>
           \/ Len(registered) # 0 /\ UnderWay(RegisterMessage(registered[Len(registered)]))
           \/ Calling /\ UnderWay(LookupMessage(caller.sig))
    /\ pc = "registering" => UnderWay(ReasonOnly("REGISTER_SUCCESS", 0))
    /\ pc = "locating" =>
           /\ Calling
           /\ \/ UnderWay(LocationMessage)
              \/ /\ UnderWay(ReasonOnly("LOC_FAILURE", BINDER_FUNCTION_NOT_FOUND))
                 /\ Overload(caller.sig) = {}
    /\ pc = "server" => Calling /\ UnderWay(ExecuteMessage("EXECUTE", caller.sig, before))
    /\ pc = "calling" =>
           /\ Calling /\ RanRight
           /\ \/ UnderWay(ExecuteMessage("EXECUTE_SUCCESS", caller.sig, ran.left))
              \/ UnderWay(ReasonOnly("EXECUTE_FAILURE", FAILED))

\* The server has an entry for each overload, with the function registered last.
ServerInv ==
    /\ \A e \in fcnDatabase : e.key \in Signatures /\ IsRight(e.value, e.key)
    /\ \A i \in DOMAIN registered : \E e \in fcnDatabase : SameOverload(e.key, registered[i])

\* The binder has one too, but for the function that is just being registered.
BinderInv ==
    /\ \A e \in database : /\ e.key \in Signatures /\ e.value = <<Server, Port>>
                           /\ Overload(e.key) # {}
    /\ \A i \in DOMAIN registered :
           \/ \E e \in database : SameOverload(e.key, registered[i])
           \/ pc = "binder" /\ sent.type = "REGISTER" /\ i = Len(registered)

CallInv ==
    /\ registered \in Seq(Signatures)
    /\ WireInv /\ ServerInv /\ BinderInv
    /\ RightOverload /\ CallByValueResult

-----------------------------------------------------------------------------
(* What is received. *)

LEMMA SignatureParts ==
    ASSUME NEW sig \in Signatures
    PROVE  /\ sig \in Signature /\ sig.name \in Names /\ sig.argTypes \in Seq(ArgType)
           /\ sig = [name |-> sig.name, argTypes |-> sig.argTypes]
BY SignaturesAssumption DEF Signature

Value == Int \union {None} \union ({"caller", "function"} \X Nat \X Nat)

LEMMA OwnArguments ==
    ASSUME NEW argTypes \in Seq(ArgType)
    PROVE  /\ Goods(Value, argTypes, Own(argTypes), "EXECUTE")
           /\ DOMAIN Own(argTypes) = DOMAIN argTypes
<1>1. DOMAIN argTypes = 1 .. Len(argTypes) /\ Len(argTypes) \in Nat
      /\ \A i \in 1 .. Len(argTypes) : argTypes[i] \in ArgType
  BY Members
<1>2. ASSUME NEW i \in 1 .. Len(argTypes)
      PROVE  Own(argTypes)[i] \in ArgOf(Value, argTypes[i])
  <2>1. Own(argTypes)[i] = [k \in 1 .. Count(argTypes[i]) |-> <<"caller", i, k>>]
    BY <1>1, <1>2 DEF Own
  <2>2. i \in Nat /\ Count(argTypes[i]) \in Nat
    BY <1>1, <1>2, ArgFacts
  <2>3. \A k \in 1 .. Count(argTypes[i]) : <<"caller", i, k>> \in Value
    BY <2>2 DEF Value
  <2> QED BY <2>1, <2>3 DEF ArgOf
<1> QED BY <1>2 DEF Goods, Own

LEMMA LeftArguments ==
    ASSUME NEW argTypes \in Seq(ArgType),
           NEW given, given = AllArrived("EXECUTE", argTypes, Own(argTypes))
    PROVE  /\ Goods(Value, argTypes, Left(argTypes, given), "EXECUTE_SUCCESS")
           /\ DOMAIN Left(argTypes, given) = DOMAIN argTypes
<1>1. DOMAIN argTypes = 1 .. Len(argTypes) /\ Len(argTypes) \in Nat
      /\ \A i \in 1 .. Len(argTypes) : argTypes[i] \in ArgType
  BY Members
<1>2. ASSUME NEW i \in 1 .. Len(argTypes), Goes("EXECUTE_SUCCESS", argTypes[i])
      PROVE  Left(argTypes, given)[i] \in ArgOf(Value, argTypes[i])
  <2> DEFINE c == Count(argTypes[i])
  <2>1. IsOutput(argTypes[i])
    BY <1>2 DEF Goes
  <2>2. Left(argTypes, given)[i] = [k \in DOMAIN given[i] |-> <<"function", i, k>>]
    BY <1>1, <1>2, <2>1 DEF Left
  <2>3. DOMAIN given[i] = 1 .. c
    <3>1. given[i] = Arrived("EXECUTE", argTypes[i], Own(argTypes)[i])
      BY <1>2 DEF AllArrived
    <3>2. DOMAIN Own(argTypes)[i] = 1 .. c
      BY <1>1, <1>2 DEF Own
    <3>3. DOMAIN Fresh(argTypes[i]) = 1 .. c
      BY DEF Fresh
    <3> QED BY <3>1, <3>2, <3>3 DEF Arrived
  <2>4. i \in Nat /\ c \in Nat
    BY <1>1, <1>2, ArgFacts
  <2>5. \A k \in 1 .. c : <<"function", i, k>> \in Value
    BY <2>4 DEF Value
  <2> QED BY <2>2, <2>3, <2>5 DEF ArgOf
<1> QED BY <1>2 DEF Goods, Left

LEMMA UnderWayArrives ==
    ASSUME NEW m, Arrives(m), UnderWay(m)
    PROVE  Received = Transmitted(m) /\ MessagesSurvive
<1>1. wire = Serialize(m) /\ sent = m
  BY DEF UnderWay
<1> QED BY <1>1 DEF Arrives, Received, MessagesSurvive

LEMMA ReceivesPlain ==
    ASSUME NEW sig \in Signatures
    PROVE  /\ UnderWay(RegisterMessage(sig)) => Received = RegisterMessage(sig) /\ MessagesSurvive
           /\ UnderWay(LookupMessage(sig)) => Received = LookupMessage(sig) /\ MessagesSurvive
<1>1. sig.name \in Names /\ sig.argTypes \in Seq(ArgType)
  BY SignatureParts
<1>2. UnderWay(RegisterMessage(sig)) => Received = RegisterMessage(sig) /\ MessagesSurvive
  BY <1>1, RegisterArrives, NoArgs, UnderWayArrives DEF RegisterMessage
<1>3. UnderWay(LookupMessage(sig)) => Received = LookupMessage(sig) /\ MessagesSurvive
  BY <1>1, LookupArrives, NoArgs, UnderWayArrives DEF LookupMessage
<1> QED BY <1>2, <1>3

LEMMA ReceivesLocation ==
    UnderWay(LocationMessage) => Received = LocationMessage /\ MessagesSurvive
BY LocationArrives, NoArgs, UnderWayArrives DEF LocationMessage

LEMMA ReceivesReason ==
    ASSUME NEW type \in {"REGISTER_SUCCESS", "LOC_FAILURE", "EXECUTE_FAILURE"}, NEW code
    PROVE  UnderWay(ReasonOnly(type, code)) =>
               Received = ReasonOnly(type, code) /\ MessagesSurvive
BY ReasonArrives, NoArgs, UnderWayArrives DEF ReasonOnly

LEMMA ReceivesArguments ==
    ASSUME NEW sig \in Signatures, NEW type \in {"EXECUTE", "EXECUTE_SUCCESS"}, NEW args,
           Goods(Value, sig.argTypes, args, type), DOMAIN args = DOMAIN sig.argTypes,
           UnderWay(ExecuteMessage(type, sig, args))
    PROVE  /\ Received = ExecuteMessage(type, sig, AllArrived(type, sig.argTypes, args))
           /\ MessagesSurvive
<1> DEFINE ats == sig.argTypes
           m == Message(type, None, 0, sig.name, ats, args, 0)
<1>1. sig.name \in Names /\ ats \in Seq(ArgType)
  BY SignatureParts
<1>2. Goods(Value, ats, args, type) /\ DOMAIN args = DOMAIN ats
  OBVIOUS
<1>3. UnderWay(m)
  BY DEF ExecuteMessage
<1> HIDE DEF ats
<1>4. Int \subseteq Value
  BY DEF Value
<1>5. Arrives(m)
  BY <1>1, <1>2, <1>4, ExecuteArrives
<1>6. Transmitted(m) = Message(type, None, 0, sig.name, ats, AllArrived(type, ats, args), 0)
  BY <1>1, <1>2, ArgsTransmitted
<1> HIDE DEF m
<1>7. Received = Transmitted(m) /\ MessagesSurvive
  BY <1>3, <1>5, UnderWayArrives
<1> QED BY <1>6, <1>7 DEF ExecuteMessage, ats

-----------------------------------------------------------------------------
(* The entries of the maps. *)

LEMMA OverloadsAreClasses ==
    ASSUME NEW s \in Signatures, NEW t \in Signatures, NEW u \in Signatures
    PROVE  /\ SameOverload(s, s)
           /\ SameOverload(s, t) => SameOverload(t, s)
           /\ SameOverload(s, t) /\ SameOverload(t, u) => SameOverload(s, u)
           /\ SameKey(s, t) <=> SameOverload(s, t)
<1>1. /\ DOMAIN s.argTypes = 1 .. Len(s.argTypes) /\ DOMAIN t.argTypes = 1 .. Len(t.argTypes)
      /\ DOMAIN u.argTypes = 1 .. Len(u.argTypes)
  BY SignatureParts, Members
<1>2. SameOverload(s, s)
  BY DEF SameOverload
<1>3. SameOverload(s, t) => SameOverload(t, s)
  BY <1>1 DEF SameOverload
<1>4. SameOverload(s, t) /\ SameOverload(t, u) => SameOverload(s, u)
  BY <1>1 DEF SameOverload
<1>5. SameKey(s, t) <=> SameOverload(s, t)
  BY SignatureParts, KeysAreOverloads
<1> QED BY <1>2, <1>3, <1>4, <1>5

LEMMA Inserted ==
    ASSUME NEW map, \A e \in map : e.key \in Signatures, NEW sig \in Signatures, NEW value
    PROVE  /\ \A e \in Insert(map, sig, value) :
                  /\ e.key \in Signatures
                  /\ \/ e \in map /\ ~SameOverload(e.key, sig)
                     \/ SameOverload(e.key, sig) /\ e.value = value
           /\ \E e \in Insert(map, sig, value) : SameOverload(e.key, sig)
           /\ \A e \in map : \E f \in Insert(map, sig, value) : f.key = e.key
<1> DEFINE old == Entries(map, sig)
           keys == IF old = {} THEN {sig} ELSE {e.key : e \in old}
           new == {[key |-> k, value |-> value] : k \in keys}
<1>1. \A e : e \in old <=> e \in map /\ SameOverload(e.key, sig)
  BY OverloadsAreClasses DEF Entries
<1>2. Insert(map, sig, value) = (map \ old) \union new
  BY DEF Insert
<1> HIDE DEF old
<1>3. \A k \in keys : k \in Signatures /\ SameOverload(k, sig)
  BY <1>1, OverloadsAreClasses
<1>4. \E k \in keys : TRUE
  OBVIOUS
<1>5. \A e \in old : e.key \in keys
  OBVIOUS
<1> HIDE DEF keys
<1>6. \A k \in keys : \E e \in new : e.key = k
  <2>1. ASSUME NEW k \in keys PROVE \E e \in new : e.key = k
    <3> DEFINE e == [key |-> k, value |-> value]
    <3>1. e \in new
      BY <2>1
    <3>2. e.key = k
      OBVIOUS
    <3> QED BY <3>1, <3>2
  <2> QED BY <2>1
<1>7. \A e \in new : e.key \in keys /\ e.value = value
  OBVIOUS
<1> HIDE DEF new
<1> DEFINE ins == Insert(map, sig, value)
<1>8. \A e : e \in ins <=> (e \in map /\ e \notin old) \/ e \in new
  BY <1>2
<1> HIDE DEF ins
<1>9. ASSUME NEW e \in ins
      PROVE  /\ e.key \in Signatures
             /\ \/ e \in map /\ ~SameOverload(e.key, sig)
                \/ SameOverload(e.key, sig) /\ e.value = value
  BY <1>1, <1>3, <1>7, <1>8, <1>9
<1>10. \E e \in ins : SameOverload(e.key, sig)
  BY <1>3, <1>4, <1>6, <1>8
<1>11. ASSUME NEW e \in map PROVE \E f \in ins : f.key = e.key
  <2>1. CASE e \in old
    BY <1>5, <1>6, <1>8, <2>1
  <2>2. CASE e \notin old
    BY <1>8, <1>11, <2>2
  <2> QED BY <2>1, <2>2
<1> QED BY <1>9, <1>10, <1>11 DEF ins

-----------------------------------------------------------------------------
(* Every step keeps the invariant. *)

LEMMA EmptyFilled ==
    ASSUME NEW x
    PROVE  [EmptyMessage EXCEPT !.type = x] = Message(x, None, 0, None, << >>, << >>, 0)
BY DEF EmptyMessage, Message

\* The messages as the programs build them.
LEMMA Built ==
    /\ \A sig : [EmptyMessage EXCEPT !.type = "REGISTER", !.serverIdentifier = Server,
                     !.port = Port, !.name = sig.name, !.argTypes = sig.argTypes]
                = RegisterMessage(sig)
    /\ \A sig : [EmptyMessage EXCEPT !.type = "LOC_REQUEST", !.name = sig.name,
                     !.argTypes = sig.argTypes] = LookupMessage(sig)
    /\ [EmptyMessage EXCEPT !.type = "LOC_SUCCESS", !.serverIdentifier = Server, !.port = Port]
       = LocationMessage
    /\ \A type, sig, args : [EmptyMessage EXCEPT !.type = type, !.name = sig.name,
                                 !.argTypes = sig.argTypes, !.args = args]
                            = ExecuteMessage(type, sig, args)
    /\ \A type, code : [EmptyMessage EXCEPT !.type = type, !.reasonCode = code]
                       = ReasonOnly(type, code)
    /\ [EmptyMessage EXCEPT !.type = "REGISTER_SUCCESS"] = ReasonOnly("REGISTER_SUCCESS", 0)
<1>1. ASSUME NEW sig
      PROVE  [EmptyMessage EXCEPT !.type = "REGISTER", !.serverIdentifier = Server,
                  !.port = Port, !.name = sig.name, !.argTypes = sig.argTypes]
             = RegisterMessage(sig)
  <2>1. [EmptyMessage EXCEPT !.type = "REGISTER"] = Message("REGISTER", None, 0, None, << >>, << >>, 0)
    BY EmptyFilled
  <2>2. [Message("REGISTER", None, 0, None, << >>, << >>, 0) EXCEPT !.serverIdentifier = Server]
        = Message("REGISTER", Server, 0, None, << >>, << >>, 0)
    BY DEF Message
  <2>3. [Message("REGISTER", Server, 0, None, << >>, << >>, 0) EXCEPT !.port = Port]
        = Message("REGISTER", Server, Port, None, << >>, << >>, 0)
    BY DEF Message
  <2>4. [Message("REGISTER", Server, Port, None, << >>, << >>, 0) EXCEPT !.name = sig.name]
        = Message("REGISTER", Server, Port, sig.name, << >>, << >>, 0)
    BY DEF Message
  <2>5. [Message("REGISTER", Server, Port, sig.name, << >>, << >>, 0) EXCEPT !.argTypes = sig.argTypes]
        = Message("REGISTER", Server, Port, sig.name, sig.argTypes, << >>, 0)
    BY DEF Message
  <2>6. [EmptyMessage EXCEPT !.type = "REGISTER", !.serverIdentifier = Server,
             !.port = Port, !.name = sig.name, !.argTypes = sig.argTypes]
        = [[[[[EmptyMessage EXCEPT !.type = "REGISTER"]
            EXCEPT !.serverIdentifier = Server]
            EXCEPT !.port = Port]
            EXCEPT !.name = sig.name]
            EXCEPT !.argTypes = sig.argTypes]
    OBVIOUS
  <2> DEFINE three == [[[EmptyMessage EXCEPT !.type = "REGISTER"]
                 EXCEPT !.serverIdentifier = Server] EXCEPT !.port = Port]
             m3 == Message("REGISTER", Server, Port, None, << >>, << >>, 0)
  <2>7. three = m3
    BY <2>1, <2>2, <2>3
  <2>8. [EmptyMessage EXCEPT !.type = "REGISTER", !.serverIdentifier = Server,
             !.port = Port, !.name = sig.name, !.argTypes = sig.argTypes]
        = [[three EXCEPT !.name = sig.name] EXCEPT !.argTypes = sig.argTypes]
    BY <2>6
  <2>9. [[m3 EXCEPT !.name = sig.name] EXCEPT !.argTypes = sig.argTypes] = RegisterMessage(sig)
    BY <2>4, <2>5 DEF RegisterMessage
  <2> HIDE DEF three, m3
  <2> QED BY <2>7, <2>8, <2>9
<1>2. ASSUME NEW sig
      PROVE  [EmptyMessage EXCEPT !.type = "LOC_REQUEST", !.name = sig.name,
                  !.argTypes = sig.argTypes] = LookupMessage(sig)
  <2>1. [EmptyMessage EXCEPT !.type = "LOC_REQUEST"] = Message("LOC_REQUEST", None, 0, None, << >>, << >>, 0)
    BY EmptyFilled
  <2>2. [Message("LOC_REQUEST", None, 0, None, << >>, << >>, 0) EXCEPT !.name = sig.name]
        = Message("LOC_REQUEST", None, 0, sig.name, << >>, << >>, 0)
    BY DEF Message
  <2>3. [Message("LOC_REQUEST", None, 0, sig.name, << >>, << >>, 0) EXCEPT !.argTypes = sig.argTypes]
        = Message("LOC_REQUEST", None, 0, sig.name, sig.argTypes, << >>, 0)
    BY DEF Message
  <2>4. [EmptyMessage EXCEPT !.type = "LOC_REQUEST", !.name = sig.name, !.argTypes = sig.argTypes]
        = [[[EmptyMessage EXCEPT !.type = "LOC_REQUEST"]
            EXCEPT !.name = sig.name]
            EXCEPT !.argTypes = sig.argTypes]
    OBVIOUS
  <2> QED BY <2>1, <2>2, <2>3, <2>4 DEF LookupMessage
<1>3. [EmptyMessage EXCEPT !.type = "LOC_SUCCESS", !.serverIdentifier = Server, !.port = Port]
      = LocationMessage
  <2>1. [EmptyMessage EXCEPT !.type = "LOC_SUCCESS"] = Message("LOC_SUCCESS", None, 0, None, << >>, << >>, 0)
    BY EmptyFilled
  <2>2. [Message("LOC_SUCCESS", None, 0, None, << >>, << >>, 0) EXCEPT !.serverIdentifier = Server]
        = Message("LOC_SUCCESS", Server, 0, None, << >>, << >>, 0)
    BY DEF Message
  <2>3. [Message("LOC_SUCCESS", Server, 0, None, << >>, << >>, 0) EXCEPT !.port = Port]
        = Message("LOC_SUCCESS", Server, Port, None, << >>, << >>, 0)
    BY DEF Message
  <2>4. [EmptyMessage EXCEPT !.type = "LOC_SUCCESS", !.serverIdentifier = Server, !.port = Port]
        = [[[EmptyMessage EXCEPT !.type = "LOC_SUCCESS"]
            EXCEPT !.serverIdentifier = Server]
            EXCEPT !.port = Port]
    OBVIOUS
  <2> QED BY <2>1, <2>2, <2>3, <2>4 DEF LocationMessage
<1>4. ASSUME NEW type, NEW sig, NEW args
      PROVE  [EmptyMessage EXCEPT !.type = type, !.name = sig.name,
                  !.argTypes = sig.argTypes, !.args = args] = ExecuteMessage(type, sig, args)
  <2>1. [EmptyMessage EXCEPT !.type = type] = Message(type, None, 0, None, << >>, << >>, 0)
    BY EmptyFilled
  <2>2. [Message(type, None, 0, None, << >>, << >>, 0) EXCEPT !.name = sig.name]
        = Message(type, None, 0, sig.name, << >>, << >>, 0)
    BY DEF Message
  <2>3. [Message(type, None, 0, sig.name, << >>, << >>, 0) EXCEPT !.argTypes = sig.argTypes]
        = Message(type, None, 0, sig.name, sig.argTypes, << >>, 0)
    BY DEF Message
  <2>4. [Message(type, None, 0, sig.name, sig.argTypes, << >>, 0) EXCEPT !.args = args]
        = Message(type, None, 0, sig.name, sig.argTypes, args, 0)
    BY DEF Message
  <2>5. [EmptyMessage EXCEPT !.type = type, !.name = sig.name, !.argTypes = sig.argTypes,
             !.args = args]
        = [[[[EmptyMessage EXCEPT !.type = type]
            EXCEPT !.name = sig.name]
            EXCEPT !.argTypes = sig.argTypes]
            EXCEPT !.args = args]
    OBVIOUS
  <2> QED BY <2>1, <2>2, <2>3, <2>4, <2>5 DEF ExecuteMessage
<1>5. ASSUME NEW type, NEW code
      PROVE  [EmptyMessage EXCEPT !.type = type, !.reasonCode = code] = ReasonOnly(type, code)
  <2>1. [EmptyMessage EXCEPT !.type = type] = Message(type, None, 0, None, << >>, << >>, 0)
    BY EmptyFilled
  <2>2. [Message(type, None, 0, None, << >>, << >>, 0) EXCEPT !.reasonCode = code]
        = Message(type, None, 0, None, << >>, << >>, code)
    BY DEF Message
  <2>3. [EmptyMessage EXCEPT !.type = type, !.reasonCode = code]
        = [[EmptyMessage EXCEPT !.type = type]
            EXCEPT !.reasonCode = code]
    OBVIOUS
  <2> QED BY <2>1, <2>2, <2>3 DEF ReasonOnly
<1>6. [EmptyMessage EXCEPT !.type = "REGISTER_SUCCESS"] = ReasonOnly("REGISTER_SUCCESS", 0)
  BY EmptyFilled DEF ReasonOnly
<1> QED BY <1>1, <1>2, <1>3, <1>4, <1>5, <1>6

LEMMA Types ==
    /\ \A sig : RegisterMessage(sig).type = "REGISTER" /\ LookupMessage(sig).type = "LOC_REQUEST"
    /\ LocationMessage.type = "LOC_SUCCESS"
    /\ \A type, sig, args : ExecuteMessage(type, sig, args).type = type
    /\ \A type, code : ReasonOnly(type, code).type = type /\ ReasonOnly(type, code).reasonCode = code
BY DEF RegisterMessage, LookupMessage, LocationMessage, ExecuteMessage, ReasonOnly, Message

LEMMA Keys ==
    ASSUME NEW sig \in Signatures
    PROVE  /\ KeyOf(RegisterMessage(sig)) = sig /\ KeyOf(LookupMessage(sig)) = sig
           /\ \A type, args : KeyOf(ExecuteMessage(type, sig, args)) = sig
BY SignatureParts DEF KeyOf, RegisterMessage, LookupMessage, ExecuteMessage, Message

\* What a call is about does not change while it is under way.
LEMMA RegisteredKept ==
    ASSUME UNCHANGED registered
    PROVE  \A s : /\ Overload(s)' = Overload(s)
                  /\ \A f : IsRight(f, s)' <=> IsRight(f, s)
BY DEF Overload, IsRight

LEMMA CallKept ==
    ASSUME UNCHANGED <<caller, before>>
    PROVE  Calling' <=> Calling
BY DEF Calling

LEMMA RanKept ==
    ASSUME UNCHANGED <<registered, caller, before, ran>>
    PROVE  RanRight' <=> RanRight
BY DEF RanRight, IsRight, Overload

LEMMA ServerKept ==
    ASSUME ServerInv, UNCHANGED <<fcnDatabase, registered>>
    PROVE  ServerInv'
BY DEF ServerInv, IsRight, Overload

\* The binder knows all that is registered unless it is about to read of it.
LEMMA BinderKept ==
    ASSUME BinderInv, UNCHANGED <<database, registered>>,
           ~ (pc = "binder" /\ sent.type = "REGISTER")
    PROVE  BinderInv'
BY DEF BinderInv, Overload

LEMMA NotReturned ==
    ASSUME pc # "idle" \/ caller = None
    PROVE  RightOverload /\ CallByValueResult
BY DEF RightOverload, CallByValueResult, Returned

LEMMA InitCall == Init => CallInv
<1> SUFFICES ASSUME Init PROVE CallInv
  OBVIOUS
<1>1. registered = << >> /\ pc = "idle" /\ wire = None /\ caller = None
      /\ fcnDatabase = {} /\ database = {}
  BY DEF Init
<1>2. registered \in Seq(Signatures) /\ DOMAIN registered = {}
  BY <1>1
<1>3. WireInv
  BY <1>1 DEF WireInv
<1>4. ServerInv /\ BinderInv
  BY <1>1, <1>2 DEF ServerInv, BinderInv
<1>5. RightOverload /\ CallByValueResult
  BY <1>1, NotReturned
<1> QED BY <1>2, <1>3, <1>4, <1>5 DEF CallInv

\* One more function.
LEMMA OneMore ==
    ASSUME registered \in Seq(Signatures), NEW sig \in Signatures,
           registered' = Append(registered, sig)
    PROVE  /\ registered' \in Seq(Signatures)
           /\ Len(registered) \in Nat /\ Len(registered') = Len(registered) + 1
           /\ registered'[Len(registered) + 1] = sig
           /\ \A i \in DOMAIN registered' :
                  i = Len(registered) + 1 \/ (i \in DOMAIN registered /\ registered'[i] = registered[i])
           /\ \A i \in DOMAIN registered : i \in Nat /\ i <= Len(registered) /\ i \in DOMAIN registered'
                                           /\ registered'[i] = registered[i]
                                           /\ registered[i] \in Signatures
           /\ Len(registered) + 1 \in DOMAIN registered'
<1> DEFINE n == Len(registered)
<1>1. n \in Nat /\ DOMAIN registered = 1 .. n
  OBVIOUS
<1>2. /\ registered' \in Seq(Signatures) /\ Len(registered') = n + 1
      /\ DOMAIN registered' = 1 .. (n + 1)
  OBVIOUS
<1>3. registered'[n + 1] = sig /\ \A i \in 1 .. n : registered'[i] = registered[i]
  OBVIOUS
<1>4. \A i \in 1 .. n : registered[i] \in Signatures
  OBVIOUS
<1> HIDE DEF n
<1>5. /\ \A i \in 1 .. (n + 1) : i = n + 1 \/ i \in 1 .. n
      /\ \A i \in 1 .. n : i \in Nat /\ i <= n /\ i \in 1 .. (n + 1)
      /\ n + 1 \in 1 .. (n + 1)
  BY <1>1
<1> QED BY <1>1, <1>2, <1>3, <1>4, <1>5 DEF n

LEMMA RegisterKeeps ==
    ASSUME CallInv, NEW sig \in Signatures, Register(sig)
    PROVE  CallInv'
<1> DEFINE n == Len(registered)
           reg2 == registered'
           map == Insert(fcnDatabase, sig, n + 1)
<1>1. /\ pc = "idle" /\ reg2 = Append(registered, sig) /\ fcnDatabase' = map
      /\ wire' = Serialize(RegisterMessage(sig)) /\ sent' = RegisterMessage(sig) /\ pc' = "binder"
      /\ UNCHANGED <<database, caller, before, ran, result>>
  BY Built DEF Register, SendTo
<1>2. registered \in Seq(Signatures) /\ WireInv /\ ServerInv /\ BinderInv
  BY DEF CallInv
<1>3. /\ reg2 \in Seq(Signatures)
      /\ n \in Nat /\ Len(reg2) = n + 1
      /\ reg2[n + 1] = sig
      /\ \A i \in DOMAIN reg2 : i = n + 1 \/ (i \in DOMAIN registered /\ reg2[i] = registered[i])
      /\ \A i \in DOMAIN registered : i \in Nat /\ i <= n /\ i \in DOMAIN reg2
                                      /\ reg2[i] = registered[i] /\ registered[i] \in Signatures
      /\ n + 1 \in DOMAIN reg2
  BY <1>1, <1>2, OneMore
<1>4. WireInv'
  <2>1. (UnderWay(RegisterMessage(registered[Len(registered)])))'
    BY <1>1, <1>3 DEF UnderWay, RegisterMessage
  <2>2. Len(registered') # 0
    BY <1>3
  <2> QED BY <1>1, <2>1, <2>2 DEF WireInv
<1>5. \A s : /\ \A i : i \in Overload(s)' <=> i \in DOMAIN reg2 /\ SameOverload(reg2[i], s)
             /\ \A i : i \in Overload(s) <=> i \in DOMAIN registered /\ SameOverload(registered[i], s)
  BY DEF Overload
<1> HIDE DEF reg2, n
<1>6. /\ \A e \in map : /\ e.key \in Signatures
                        /\ \/ e \in fcnDatabase /\ ~SameOverload(e.key, sig)
                           \/ SameOverload(e.key, sig) /\ e.value = n + 1
      /\ \E e \in map : SameOverload(e.key, sig)
      /\ \A e \in fcnDatabase : \E f \in map : f.key = e.key
  BY <1>2, Inserted DEF ServerInv
<1> HIDE DEF map
<1>7. ServerInv'
  <2>1. ASSUME NEW e \in map PROVE IsRight(e.value, e.key)'
    <3>1. CASE e \in fcnDatabase /\ ~SameOverload(e.key, sig)
      <4>1. \A i : i \in Overload(e.key)' <=> i \in Overload(e.key)
        BY <1>3, <1>5, <1>6, <2>1, <3>1, OverloadsAreClasses
      <4>2. IsRight(e.value, e.key)
        BY <1>2, <3>1 DEF ServerInv
      <4> QED BY <4>1, <4>2 DEF IsRight
    <3>2. CASE SameOverload(e.key, sig) /\ e.value = n + 1
      <4>1. n + 1 \in Overload(e.key)'
        BY <1>3, <1>5, <1>6, <2>1, <3>2, OverloadsAreClasses
      <4>2. \A i \in DOMAIN reg2 : i <= n + 1
        BY <1>3
      <4> QED BY <1>5, <3>2, <4>1, <4>2 DEF IsRight
    <3> QED BY <1>6, <2>1, <3>1, <3>2
  <2>2. ASSUME NEW i \in DOMAIN reg2 PROVE \E e \in map : SameOverload(e.key, reg2[i])
    <3>1. CASE i = n + 1
      BY <1>3, <1>6, <3>1
    <3>2. CASE i \in DOMAIN registered /\ reg2[i] = registered[i]
      BY <1>2, <1>6, <3>2 DEF ServerInv
    <3> QED BY <1>3, <2>2, <3>1, <3>2
  <2> QED BY <1>1, <1>6, <2>1, <2>2 DEF ServerInv, reg2
<1>8. BinderInv'
  <2>1. ASSUME NEW e \in database
        PROVE  e.key \in Signatures /\ e.value = <<Server, Port>> /\ Overload(e.key)' # {}
    <3>1. e.key \in Signatures /\ e.value = <<Server, Port>> /\ Overload(e.key) # {}
      BY <1>2, <2>1 DEF BinderInv
    <3>2. \A i \in Overload(e.key) : i \in Overload(e.key)'
      BY <1>3, <1>5
    <3> QED BY <3>1, <3>2
  <2>2. ASSUME NEW i \in DOMAIN reg2
        PROVE  \/ \E e \in database : SameOverload(e.key, reg2[i])
               \/ i = Len(reg2)
    BY <1>1, <1>2, <1>3, <2>2 DEF BinderInv
  <2>3. pc' = "binder" /\ sent'.type = "REGISTER"
    BY <1>1, Types
  <2> QED BY <1>1, <2>1, <2>2, <2>3 DEF BinderInv, reg2
<1>9. RightOverload' /\ CallByValueResult'
  BY <1>1, NotReturned DEF RightOverload, CallByValueResult, Returned
<1> QED BY <1>3, <1>4, <1>7, <1>8, <1>9 DEF CallInv, reg2

LEMMA CallKeeps ==
    ASSUME CallInv, NEW sig \in Signatures, Call(sig)
    PROVE  CallInv'
<1>1. /\ pc = "idle" /\ before' = Own(sig.argTypes)
      /\ caller' = [sig |-> sig, args |-> before']
      /\ wire' = Serialize(LookupMessage(sig)) /\ sent' = LookupMessage(sig) /\ pc' = "binder"
      /\ UNCHANGED <<fcnDatabase, database, registered, result>>
  BY Built DEF Call, SendTo, Own
<1>2. registered \in Seq(Signatures) /\ ServerInv /\ BinderInv
  BY DEF CallInv
<1>3. caller'.sig = sig
  BY <1>1
<1>4. Calling'
  BY <1>1, <1>3 DEF Calling
<1>5. (UnderWay(LookupMessage(caller.sig)))'
  <2>1. LookupMessage(caller.sig)' = LookupMessage(sig)
    BY <1>3 DEF LookupMessage
  <2> QED BY <1>1, <2>1 DEF UnderWay
<1>6. WireInv'
  BY <1>1, <1>4, <1>5 DEF WireInv
<1>7. ServerInv' /\ BinderInv'
  BY <1>1, <1>2, ServerKept, BinderKept
<1>8. RightOverload' /\ CallByValueResult'
  BY <1>1 DEF RightOverload, CallByValueResult, Returned
<1> QED BY <1>1, <1>2, <1>6, <1>7, <1>8 DEF CallInv

\* What the binder has read.
LEMMA AtBinder ==
    ASSUME CallInv, pc = "binder"
    PROVE  /\ Received.type = "REGISTER" =>
                  /\ Len(registered) # 0 /\ Len(registered) \in DOMAIN registered
                  /\ registered[Len(registered)] \in Signatures
                  /\ KeyOf(Received) = registered[Len(registered)]
                  /\ Received.serverIdentifier = Server /\ Received.port = Port
           /\ Received.type = "LOC_REQUEST" =>
                  /\ Calling /\ KeyOf(Received) = caller.sig
                  /\ sent.type # "REGISTER"
<1> DEFINE n == Len(registered)
           last == registered[n]
<1>1. registered \in Seq(Signatures) /\ WireInv
  BY DEF CallInv
<1>2. \/ n # 0 /\ UnderWay(RegisterMessage(last))
      \/ Calling /\ UnderWay(LookupMessage(caller.sig))
  BY <1>1 DEF WireInv
<1>3. n # 0 => n \in DOMAIN registered /\ last \in Signatures
  <2>1. n \in Nat /\ DOMAIN registered = 1 .. n
    BY <1>1
  <2>2. n # 0 => n \in 1 .. n
    <3> HIDE DEF n
    <3> QED BY <2>1
  <2>3. \A i \in 1 .. n : registered[i] \in Signatures
    BY <1>1
  <2> QED BY <2>1, <2>2, <2>3
<1> HIDE DEF n, last
<1>4. ASSUME n # 0, UnderWay(RegisterMessage(last))
      PROVE  /\ Received = RegisterMessage(last) /\ KeyOf(Received) = last
             /\ Received.type = "REGISTER"
             /\ Received.serverIdentifier = Server /\ Received.port = Port
  <2>1. Received = RegisterMessage(last) /\ KeyOf(RegisterMessage(last)) = last
    BY <1>3, <1>4, ReceivesPlain, Keys
  <2>2. /\ RegisterMessage(last).type = "REGISTER"
        /\ RegisterMessage(last).serverIdentifier = Server /\ RegisterMessage(last).port = Port
    BY DEF RegisterMessage, Message
  <2> QED BY <2>1, <2>2
<1>5. ASSUME Calling, UnderWay(LookupMessage(caller.sig))
      PROVE  /\ KeyOf(Received) = caller.sig /\ Received.type = "LOC_REQUEST"
             /\ sent.type = "LOC_REQUEST"
  <2>1. caller.sig \in Signatures
    BY <1>5 DEF Calling
  <2>2. Received = LookupMessage(caller.sig) /\ KeyOf(LookupMessage(caller.sig)) = caller.sig
    BY <1>5, <2>1, ReceivesPlain, Keys
  <2>3. sent = LookupMessage(caller.sig)
    BY <1>5 DEF UnderWay
  <2> QED BY <2>2, <2>3, Types
<1>6. Received.type = "REGISTER" => n # 0 /\ UnderWay(RegisterMessage(last))
  BY <1>2, <1>5
<1>7. Received.type = "LOC_REQUEST" => Calling /\ UnderWay(LookupMessage(caller.sig))
  BY <1>2, <1>4
<1> QED BY <1>3, <1>4, <1>5, <1>6, <1>7 DEF n, last

LEMMA BinderRegistersKeeps ==
    ASSUME CallInv, BinderRegisters
    PROVE  CallInv'
<1> DEFINE n == Len(registered)
           sig == registered[n]
           map == Insert(database, sig, <<Server, Port>>)
<1>1. registered \in Seq(Signatures) /\ ServerInv /\ BinderInv
  BY DEF CallInv
<1>2. /\ n # 0 /\ n \in DOMAIN registered /\ sig \in Signatures /\ KeyOf(Received) = sig
      /\ Received.serverIdentifier = Server /\ Received.port = Port
  BY AtBinder DEF BinderRegisters
<1>3. /\ database' = map /\ pc' = "registering"
      /\ wire' = Serialize(ReasonOnly("REGISTER_SUCCESS", 0))
      /\ sent' = ReasonOnly("REGISTER_SUCCESS", 0)
      /\ UNCHANGED <<fcnDatabase, registered, caller, before, ran, result>>
  BY <1>2, Built DEF BinderRegisters, SendTo
<1>4. \A i \in DOMAIN registered : registered[i] \in Signatures
  BY <1>1
<1> HIDE DEF n, sig
<1>5. WireInv'
  <2>1. (UnderWay(ReasonOnly("REGISTER_SUCCESS", 0)))'
    BY <1>3 DEF UnderWay, ReasonOnly
  <2> QED BY <1>3, <2>1 DEF WireInv
<1>6. ServerInv'
  BY <1>1, <1>3, ServerKept
<1>7. BinderInv'
  <2>1. /\ \A e \in map : /\ e.key \in Signatures
                          /\ \/ e \in database /\ ~SameOverload(e.key, sig)
                             \/ SameOverload(e.key, sig) /\ e.value = <<Server, Port>>
        /\ \E e \in map : SameOverload(e.key, sig)
        /\ \A e \in database : \E f \in map : f.key = e.key
    BY <1>1, <1>2, Inserted DEF BinderInv
  <2> HIDE DEF map
  <2>2. ASSUME NEW e \in map
        PROVE  e.key \in Signatures /\ e.value = <<Server, Port>> /\ Overload(e.key) # {}
    <3>1. CASE e \in database
      BY <1>1, <3>1 DEF BinderInv
    <3>2. CASE SameOverload(e.key, sig) /\ e.value = <<Server, Port>>
      <4>1. e.key \in Signatures /\ SameOverload(sig, e.key)
        BY <1>2, <2>1, <2>2, <3>2, OverloadsAreClasses
      <4>2. n \in Overload(e.key)
        BY <1>2, <4>1 DEF Overload, sig
      <4> QED BY <3>2, <4>1, <4>2
    <3> QED BY <2>1, <2>2, <3>1, <3>2
  <2>3. ASSUME NEW i \in DOMAIN registered
        PROVE  \E e \in map : SameOverload(e.key, registered[i])
    <3>1. CASE i = n
      BY <2>1, <3>1 DEF sig
    <3>2. CASE i # n
      <4>1. \E e \in database : SameOverload(e.key, registered[i])
        BY <1>1, <2>3, <3>2 DEF BinderInv, n
      <4> QED BY <2>1, <4>1
    <3> QED BY <3>1, <3>2
  <2>4. \A s : Overload(s)' = Overload(s)
    BY <1>3, RegisteredKept
  <2> QED BY <1>3, <2>2, <2>3, <2>4 DEF BinderInv
<1>8. RightOverload' /\ CallByValueResult'
  BY <1>3 DEF RightOverload, CallByValueResult, Returned
<1> QED BY <1>1, <1>3, <1>5, <1>6, <1>7, <1>8 DEF CallInv

LEMMA RegisterReturnsKeeps ==
    ASSUME CallInv, RegisterReturns
    PROVE  CallInv'
<1>1. /\ pc = "registering" /\ pc' = "idle" /\ wire' = None /\ caller' = None
      /\ UNCHANGED <<fcnDatabase, database, registered, before, ran>>
  BY DEF RegisterReturns, Done
<1>2. registered \in Seq(Signatures) /\ ServerInv /\ BinderInv
  BY DEF CallInv
<1>3. WireInv'
  BY <1>1 DEF WireInv
<1>4. ServerInv' /\ BinderInv'
  BY <1>1, <1>2, ServerKept, BinderKept
<1>5. RightOverload' /\ CallByValueResult'
  BY <1>1 DEF RightOverload, CallByValueResult, Returned
<1> QED BY <1>1, <1>2, <1>3, <1>4, <1>5 DEF CallInv

LEMMA BinderLocatesKeeps ==
    ASSUME CallInv, BinderLocates
    PROVE  CallInv'
<1> DEFINE sig == caller.sig
           found == Entries(database, sig)
<1>1. registered \in Seq(Signatures) /\ ServerInv /\ BinderInv
  BY DEF CallInv
<1>2. pc = "binder" /\ Calling /\ KeyOf(Received) = sig /\ sent.type # "REGISTER"
  BY AtBinder DEF BinderLocates
<1>3. /\ pc' = "locating"
      /\ UNCHANGED <<fcnDatabase, database, registered, caller, before, ran, result>>
  BY DEF BinderLocates, SendTo
<1>4. sig \in Signatures
  BY <1>2 DEF Calling
<1>5. \/ /\ found = {}
         /\ wire' = Serialize(ReasonOnly("LOC_FAILURE", BINDER_FUNCTION_NOT_FOUND))
         /\ sent' = ReasonOnly("LOC_FAILURE", BINDER_FUNCTION_NOT_FOUND)
      \/ \E e \in found :
             LET m == [EmptyMessage EXCEPT !.type = "LOC_SUCCESS",
                           !.serverIdentifier = e.value[1], !.port = e.value[2]]
             IN  wire' = Serialize(m) /\ sent' = m
  BY <1>2, Built DEF BinderLocates, SendTo
<1> HIDE DEF sig
<1>6. \A e : e \in found <=> e \in database /\ SameOverload(e.key, sig)
  BY <1>1, <1>4, OverloadsAreClasses DEF Entries, BinderInv
<1> HIDE DEF found
<1>7. WireInv'
  <2>1. Calling'
    BY <1>2, <1>3, CallKept
  <2>2. CASE /\ found = {}
             /\ wire' = Serialize(ReasonOnly("LOC_FAILURE", BINDER_FUNCTION_NOT_FOUND))
             /\ sent' = ReasonOnly("LOC_FAILURE", BINDER_FUNCTION_NOT_FOUND)
    <3>1. Overload(sig) = {}
      <4>1. ASSUME NEW i \in Overload(sig) PROVE FALSE
        <5>1. i \in DOMAIN registered /\ SameOverload(registered[i], sig)
          BY <4>1 DEF Overload
        <5>2. registered[i] \in Signatures
          BY <1>1, <5>1
        <5>3. PICK e \in database : SameOverload(e.key, registered[i])
          BY <1>1, <1>2, <5>1 DEF BinderInv
        <5>4. e.key \in Signatures
          BY <1>1, <5>3 DEF BinderInv
        <5>5. SameOverload(e.key, sig)
          BY <1>4, <5>1, <5>2, <5>3, <5>4, OverloadsAreClasses
        <5> QED BY <1>6, <2>2, <5>3, <5>5
      <4> QED BY <4>1
    <3>2. Overload(caller.sig)' = {}
      BY <1>3, <3>1 DEF Overload, sig
    <3>3. (UnderWay(ReasonOnly("LOC_FAILURE", BINDER_FUNCTION_NOT_FOUND)))'
      BY <2>2 DEF UnderWay, ReasonOnly, BINDER_FUNCTION_NOT_FOUND
    <3> QED BY <1>3, <2>1, <3>2, <3>3 DEF WireInv
  <2>3. ASSUME NEW e \in found,
               LET m == [EmptyMessage EXCEPT !.type = "LOC_SUCCESS",
                             !.serverIdentifier = e.value[1], !.port = e.value[2]]
               IN  wire' = Serialize(m) /\ sent' = m
        PROVE  WireInv'
    <3>1. e.value[1] = Server /\ e.value[2] = Port
      <4>1. e.value = <<Server, Port>>
        BY <1>1, <1>6, <2>3 DEF BinderInv
      <4> QED BY <4>1
    <3>2. wire' = Serialize(LocationMessage) /\ sent' = LocationMessage
      BY <2>3, <3>1, Built
    <3>3. UnderWay(LocationMessage)'
      BY <3>2 DEF UnderWay, LocationMessage
    <3> QED BY <1>3, <2>1, <3>3 DEF WireInv
  <2> QED BY <1>5, <2>2, <2>3
<1>8. ServerInv' /\ BinderInv'
  BY <1>1, <1>2, <1>3, ServerKept, BinderKept
<1>9. RightOverload' /\ CallByValueResult'
  BY <1>3 DEF RightOverload, CallByValueResult, Returned
<1> QED BY <1>1, <1>3, <1>7, <1>8, <1>9 DEF CallInv

LEMMA ClientExecutesKeeps ==
    ASSUME CallInv, ClientExecutes
    PROVE  CallInv'
<1>1. registered \in Seq(Signatures) /\ ServerInv /\ BinderInv /\ WireInv
  BY DEF CallInv
<1>2. pc = "locating" /\ Calling
  BY <1>1 DEF ClientExecutes, WireInv
<1>3. caller.args = before
  <2>1. caller = [sig |-> caller.sig, args |-> before]
    BY <1>2 DEF Calling
  <2> QED BY <2>1
<1>4. /\ pc' = "server"
      /\ wire' = Serialize(ExecuteMessage("EXECUTE", caller.sig, before))
      /\ sent' = ExecuteMessage("EXECUTE", caller.sig, before)
      /\ UNCHANGED <<fcnDatabase, database, registered, caller, before, ran, result>>
  BY <1>3, Built DEF ClientExecutes, SendTo
<1>5. WireInv'
  <2>1. Calling'
    BY <1>2, <1>4, CallKept
  <2>2. (UnderWay(ExecuteMessage("EXECUTE", caller.sig, before)))'
    BY <1>4 DEF UnderWay, ExecuteMessage
  <2> QED BY <1>4, <2>1, <2>2 DEF WireInv
<1>6. ServerInv' /\ BinderInv'
  BY <1>1, <1>2, <1>4, ServerKept, BinderKept
<1>7. RightOverload' /\ CallByValueResult'
  BY <1>4 DEF RightOverload, CallByValueResult, Returned
<1> QED BY <1>1, <1>4, <1>5, <1>6, <1>7 DEF CallInv

LEMMA ClientGivesUpKeeps ==
    ASSUME CallInv, ClientGivesUp
    PROVE  CallInv'
<1>1. registered \in Seq(Signatures) /\ ServerInv /\ BinderInv /\ WireInv
  BY DEF CallInv
<1>2. /\ pc = "locating" /\ Received.type = "LOC_FAILURE"
      /\ pc' = "idle" /\ wire' = None /\ result' = Received.reasonCode
      /\ UNCHANGED <<fcnDatabase, database, registered, caller, before, ran>>
  BY DEF ClientGivesUp, Done
<1>3. /\ Calling /\ Overload(caller.sig) = {}
      /\ UnderWay(ReasonOnly("LOC_FAILURE", BINDER_FUNCTION_NOT_FOUND))
  <2>1. /\ Calling
        /\ \/ UnderWay(LocationMessage)
           \/ /\ UnderWay(ReasonOnly("LOC_FAILURE", BINDER_FUNCTION_NOT_FOUND))
              /\ Overload(caller.sig) = {}
    BY <1>1, <1>2 DEF WireInv
  <2>2. ~UnderWay(LocationMessage)
    BY <1>2, ReceivesLocation, Types
  <2> QED BY <2>1, <2>2
<1>4. result' = BINDER_FUNCTION_NOT_FOUND
  BY <1>2, <1>3, ReceivesReason, Types
<1>5. WireInv'
  BY <1>2 DEF WireInv
<1>6. ServerInv' /\ BinderInv'
  BY <1>1, <1>2, ServerKept, BinderKept
<1>7. RightOverload'
  <2>1. Overload(caller.sig)' = {}
    BY <1>2, <1>3 DEF Overload
  <2>2. result' = BINDER_FUNCTION_NOT_FOUND'
    BY <1>4 DEF BINDER_FUNCTION_NOT_FOUND
  <2> QED BY <2>1, <2>2 DEF RightOverload
<1>8. CallByValueResult'
  <2>1. caller'.args = before'
    <3>1. caller = [sig |-> caller.sig, args |-> before]
      BY <1>3 DEF Calling
    <3>2. caller.args = before
      BY <3>1
    <3> QED BY <1>2, <3>2
  <2>2. result' # 0
    BY <1>4 DEF BINDER_FUNCTION_NOT_FOUND
  <2> QED BY <2>1, <2>2 DEF CallByValueResult
<1> QED BY <1>1, <1>2, <1>5, <1>6, <1>7, <1>8 DEF CallInv

LEMMA ServerExecutesKeeps ==
    ASSUME CallInv, ServerExecutes
    PROVE  CallInv'
<1> DEFINE sig == caller.sig
           given == AllArrived("EXECUTE", sig.argTypes, before)
           left == Left(sig.argTypes, given)
<1>1. registered \in Seq(Signatures) /\ ServerInv /\ BinderInv /\ WireInv
  BY DEF CallInv
<1>2. pc = "server" /\ Calling /\ UnderWay(ExecuteMessage("EXECUTE", sig, before))
  BY <1>1 DEF ServerExecutes, WireInv
<1>3. sig \in Signatures /\ sig.argTypes \in Seq(ArgType) /\ before = Own(sig.argTypes)
  BY <1>2, SignatureParts DEF Calling
<1>4. Received = ExecuteMessage("EXECUTE", sig, given)
  BY <1>2, <1>3, OwnArguments, ReceivesArguments
<1>5. KeyOf(Received) = sig /\ Received.args = given /\ Received.argTypes = sig.argTypes
      /\ Received.name = sig.name
  <2>1. KeyOf(ExecuteMessage("EXECUTE", sig, given)) = sig
    BY <1>3, Keys
  <2>2. /\ ExecuteMessage("EXECUTE", sig, given).args = given
        /\ ExecuteMessage("EXECUTE", sig, given).argTypes = sig.argTypes
        /\ ExecuteMessage("EXECUTE", sig, given).name = sig.name
    BY DEF ExecuteMessage, Message
  <2> QED BY <1>4, <2>1, <2>2
<1>6. PICK e \in Entries(fcnDatabase, sig) :
          /\ ran' = [function |-> e.value, given |-> given, left |-> left]
          /\ \/ SendTo("calling", [EmptyMessage EXCEPT
                     !.type = "EXECUTE_SUCCESS", !.name = sig.name, !.argTypes = sig.argTypes,
                     !.args = ran'.left])
             \/ SendTo("calling", [EmptyMessage EXCEPT !.type = "EXECUTE_FAILURE",
                                                       !.reasonCode = FAILED])
  BY <1>5 DEF ServerExecutes
<1>7. UNCHANGED <<fcnDatabase, database, registered, caller, before, result>>
  BY DEF ServerExecutes
<1> HIDE DEF sig, given, left
<1>8. ran'.function = e.value /\ ran'.given = given /\ ran'.left = left
  BY <1>6
<1>9. /\ pc' = "calling"
      /\ \/ /\ wire' = Serialize(ExecuteMessage("EXECUTE_SUCCESS", sig, left))
            /\ sent' = ExecuteMessage("EXECUTE_SUCCESS", sig, left)
         \/ /\ wire' = Serialize(ReasonOnly("EXECUTE_FAILURE", FAILED))
            /\ sent' = ReasonOnly("EXECUTE_FAILURE", FAILED)
  BY <1>6, <1>8, Built DEF SendTo
<1>10. IsRight(e.value, sig)
  <2>1. e \in fcnDatabase /\ SameKey(e.key, sig)
    BY <1>6 DEF Entries
  <2>2. e.key \in Signatures /\ IsRight(e.value, e.key)
    BY <1>1, <2>1 DEF ServerInv
  <2>3. SameOverload(e.key, sig) /\ SameOverload(sig, e.key)
    BY <1>3, <2>1, <2>2, OverloadsAreClasses
  <2>4. \A i \in DOMAIN registered : SameOverload(registered[i], e.key) <=> SameOverload(registered[i], sig)
    <3>1. ASSUME NEW i \in DOMAIN registered
          PROVE  SameOverload(registered[i], e.key) <=> SameOverload(registered[i], sig)
      <4>1. registered[i] \in Signatures
        BY <1>1, <3>1
      <4> QED BY <1>3, <2>2, <2>3, <4>1, OverloadsAreClasses
    <3> QED BY <3>1
  <2>5. Overload(e.key) = Overload(sig)
    BY <2>4 DEF Overload
  <2> QED BY <2>2, <2>5 DEF IsRight
<1>11. WireInv'
  <2>1. Calling'
    BY <1>2, <1>7, CallKept
  <2>2. caller'.sig = sig /\ before' = before
    BY <1>7 DEF sig
  <2>3. RanRight'
    <3>1. /\ ran'.function \in Overload(sig)
          /\ \A i \in Overload(sig) : i <= ran'.function
      BY <1>8, <1>10 DEF IsRight
    <3>2. (IsRight(ran.function, caller.sig))'
      <4>1. Overload(caller.sig)' = Overload(sig)
        BY <1>7, <2>2 DEF Overload
      <4> QED BY <3>1, <4>1 DEF IsRight
    <3>3. ran'.given = AllArrived("EXECUTE", sig.argTypes, before)
      BY <1>8 DEF given
    <3>4. ran'.left = Left(sig.argTypes, ran'.given)
      BY <1>8 DEF left
    <3> QED BY <2>2, <3>2, <3>3, <3>4 DEF RanRight
  <2>4. \/ (UnderWay(ExecuteMessage("EXECUTE_SUCCESS", caller.sig, ran.left)))'
        \/ (UnderWay(ReasonOnly("EXECUTE_FAILURE", FAILED)))'
    <3>1. CASE /\ wire' = Serialize(ExecuteMessage("EXECUTE_SUCCESS", sig, left))
               /\ sent' = ExecuteMessage("EXECUTE_SUCCESS", sig, left)
      BY <1>8, <2>2, <3>1 DEF UnderWay, ExecuteMessage
    <3>2. CASE /\ wire' = Serialize(ReasonOnly("EXECUTE_FAILURE", FAILED))
               /\ sent' = ReasonOnly("EXECUTE_FAILURE", FAILED)
      BY <3>2 DEF UnderWay, ReasonOnly, FAILED
    <3> QED BY <1>9, <3>1, <3>2
  <2> QED BY <1>9, <2>1, <2>3, <2>4 DEF WireInv
<1>12. ServerInv' /\ BinderInv'
  BY <1>1, <1>2, <1>7, ServerKept, BinderKept
<1>13. RightOverload' /\ CallByValueResult'
  BY <1>9 DEF RightOverload, CallByValueResult, Returned
<1> QED BY <1>1, <1>7, <1>11, <1>12, <1>13 DEF CallInv

\* What the client has read.
LEMMA AtClient ==
    ASSUME CallInv, pc = "calling"
    PROVE  /\ Calling /\ RanRight
           /\ Received.type = "EXECUTE_SUCCESS" =>
                  Received.args = AllArrived("EXECUTE_SUCCESS", caller.sig.argTypes, ran.left)
           /\ Received.type = "EXECUTE_FAILURE" => Received.reasonCode = FAILED
<1> DEFINE sig == caller.sig
<1>1. /\ Calling /\ RanRight
      /\ \/ UnderWay(ExecuteMessage("EXECUTE_SUCCESS", sig, ran.left))
         \/ UnderWay(ReasonOnly("EXECUTE_FAILURE", FAILED))
  BY DEF CallInv, WireInv
<1>2. /\ sig \in Signatures /\ sig.argTypes \in Seq(ArgType)
      /\ ran.given = AllArrived("EXECUTE", sig.argTypes, Own(sig.argTypes))
      /\ ran.left = Left(sig.argTypes, ran.given)
  BY <1>1, SignatureParts DEF Calling, RanRight
<1> HIDE DEF sig
<1>3. /\ Goods(Value, sig.argTypes, ran.left, "EXECUTE_SUCCESS")
      /\ DOMAIN ran.left = DOMAIN sig.argTypes
  BY <1>2, LeftArguments
<1>4. ASSUME UnderWay(ExecuteMessage("EXECUTE_SUCCESS", sig, ran.left))
      PROVE  /\ Received.type = "EXECUTE_SUCCESS"
             /\ Received.args = AllArrived("EXECUTE_SUCCESS", sig.argTypes, ran.left)
  <2> DEFINE got == AllArrived("EXECUTE_SUCCESS", sig.argTypes, ran.left)
  <2>1. Received = ExecuteMessage("EXECUTE_SUCCESS", sig, got)
    BY <1>2, <1>3, <1>4, ReceivesArguments
  <2> HIDE DEF got
  <2>2. ExecuteMessage("EXECUTE_SUCCESS", sig, got).args = got
    BY DEF ExecuteMessage, Message
  <2> QED BY <2>1, <2>2, Types DEF got
<1>5. ASSUME UnderWay(ReasonOnly("EXECUTE_FAILURE", FAILED))
      PROVE  Received.type = "EXECUTE_FAILURE" /\ Received.reasonCode = FAILED
  BY <1>5, ReceivesReason, Types
<1> QED BY <1>1, <1>4, <1>5 DEF sig

LEMMA CallReturnsKeeps ==
    ASSUME CallInv, CallReturns
    PROVE  CallInv'
<1> DEFINE sig == caller.sig
           ats == sig.argTypes
<1>1. registered \in Seq(Signatures) /\ ServerInv /\ BinderInv /\ WireInv
  BY DEF CallInv
<1>2. /\ pc = "calling" /\ Received.type = "EXECUTE_SUCCESS"
      /\ pc' = "idle" /\ wire' = None /\ result' = 0
      /\ caller' = [caller EXCEPT !.args = CopyOutputArgs(ats, caller.args, Received.args)]
      /\ UNCHANGED <<fcnDatabase, database, registered, before, ran>>
  BY DEF CallReturns, Done
<1>3. Calling /\ RanRight /\ Received.args = AllArrived("EXECUTE_SUCCESS", ats, ran.left)
  BY <1>2, AtClient
<1>4. sig \in Signatures /\ ats \in Seq(ArgType) /\ before = Own(ats) /\ caller.args = before
  <2>1. caller = [sig |-> sig, args |-> before] /\ sig \in Signatures /\ before = Own(ats)
    BY <1>3 DEF Calling
  <2>2. ats \in Seq(ArgType)
    BY <2>1, SignatureParts
  <2>3. caller.args = before
    BY <2>1
  <2> QED BY <2>1, <2>2, <2>3
<1>5. /\ IsRight(ran.function, sig) /\ ran.given = AllArrived("EXECUTE", ats, before)
      /\ ran.left = Left(ats, ran.given)
  BY <1>3 DEF RanRight
<1>6. caller' = [sig |-> sig, args |-> CopyOutputArgs(ats, before, Received.args)]
  <2>1. caller = [sig |-> sig, args |-> before]
    BY <1>3 DEF Calling
  <2> HIDE DEF sig, ats
  <2> QED BY <1>2, <1>4, <2>1
<1>7. caller'.sig = sig /\ caller'.args = CopyOutputArgs(ats, before, Received.args)
  <2> HIDE DEF sig, ats
  <2> QED BY <1>6
<1>8. DOMAIN ats = 1 .. Len(ats) /\ DOMAIN before = DOMAIN ats
  BY <1>4, Members DEF Own
<1> HIDE DEF ats
<1>9. ASSUME NEW i \in DOMAIN before
      PROVE  /\ IsInput(ats[i]) => ran.given[i] = before[i]
             /\ caller'.args[i] = IF IsOutput(ats[i]) THEN ran.left[i] ELSE before[i]
  <2>1. i \in 1 .. Len(ats) /\ i \in DOMAIN ats
    BY <1>8, <1>9
  <2>2. ran.given[i] = Arrived("EXECUTE", ats[i], before[i])
    BY <1>5, <2>1 DEF AllArrived
  <2>3. IsInput(ats[i]) => ran.given[i] = before[i]
    BY <2>2 DEF Arrived, Goes
  <2>4. Received.args[i] = Arrived("EXECUTE_SUCCESS", ats[i], ran.left[i])
    BY <1>3, <2>1 DEF AllArrived
  <2>5. IsOutput(ats[i]) => Received.args[i] = ran.left[i]
    BY <2>4 DEF Arrived, Goes
  <2>6. caller'.args[i] = IF IsOutput(ats[i]) THEN Received.args[i] ELSE before[i]
    BY <1>7, <2>1 DEF CopyOutputArgs
  <2> QED BY <2>3, <2>5, <2>6
<1>10. WireInv'
  BY <1>2 DEF WireInv
<1>11. ServerInv' /\ BinderInv'
  BY <1>1, <1>2, ServerKept, BinderKept
<1>12. RightOverload'
  <2>1. result' # BINDER_FUNCTION_NOT_FOUND'
    BY <1>2 DEF BINDER_FUNCTION_NOT_FOUND
  <2>2. /\ ran'.function \in Overload(caller.sig)'
        /\ \A i \in Overload(caller.sig)' : i <= ran'.function
    BY <1>2, <1>5, <1>7 DEF IsRight, Overload
  <2> QED BY <2>1, <2>2 DEF RightOverload
<1>13. CallByValueResult'
  <2>1. result' = 0 /\ before' = before /\ ran' = ran /\ caller'.sig.argTypes = ats
    BY <1>2, <1>7 DEF ats
  <2> QED BY <1>9, <2>1 DEF CallByValueResult, IsInput, IsOutput
<1> QED BY <1>1, <1>2, <1>10, <1>11, <1>12, <1>13 DEF CallInv

LEMMA CallFailsKeeps ==
    ASSUME CallInv, CallFails
    PROVE  CallInv'
<1>1. registered \in Seq(Signatures) /\ ServerInv /\ BinderInv /\ WireInv
  BY DEF CallInv
<1>2. /\ pc = "calling" /\ Received.type = "EXECUTE_FAILURE"
      /\ pc' = "idle" /\ wire' = None /\ result' = Received.reasonCode
      /\ UNCHANGED <<fcnDatabase, database, registered, caller, before, ran>>
  BY DEF CallFails, Done
<1>3. Calling /\ RanRight /\ result' = FAILED
  BY <1>2, AtClient
<1>4. WireInv'
  BY <1>2 DEF WireInv
<1>5. ServerInv' /\ BinderInv'
  BY <1>1, <1>2, ServerKept, BinderKept
<1>6. RightOverload'
  <2>1. result' # BINDER_FUNCTION_NOT_FOUND'
    BY <1>3 DEF BINDER_FUNCTION_NOT_FOUND, FAILED
  <2>2. /\ ran'.function \in Overload(caller.sig)'
        /\ \A i \in Overload(caller.sig)' : i <= ran'.function
    BY <1>2, <1>3 DEF RanRight, IsRight, Overload
  <2> QED BY <2>1, <2>2 DEF RightOverload
<1>7. CallByValueResult'
  <2>1. caller'.args = before'
    <3>1. caller = [sig |-> caller.sig, args |-> before]
      BY <1>3 DEF Calling
    <3>2. caller.args = before
      BY <3>1
    <3> QED BY <1>2, <3>2
  <2>2. result' # 0
    BY <1>3 DEF FAILED
  <2> QED BY <2>1, <2>2 DEF CallByValueResult
<1> QED BY <1>1, <1>2, <1>4, <1>5, <1>6, <1>7 DEF CallInv

LEMMA CallInvariant == Spec => []CallInv
<1>1. Init => CallInv
  BY InitCall
<1>2. ASSUME CallInv, [Next]_vars PROVE CallInv'
  <2>1. ASSUME NEW sig \in Signatures, Register(sig) PROVE CallInv'
    BY <1>2, <2>1, RegisterKeeps
  <2>2. ASSUME NEW sig \in Signatures, Call(sig) PROVE CallInv'
    BY <1>2, <2>2, CallKeeps
  <2>3. ASSUME BinderRegisters PROVE CallInv'
    BY <1>2, <2>3, BinderRegistersKeeps
  <2>4. ASSUME RegisterReturns PROVE CallInv'
    BY <1>2, <2>4, RegisterReturnsKeeps
  <2>5. ASSUME BinderLocates PROVE CallInv'
    BY <1>2, <2>5, BinderLocatesKeeps
  <2>6. ASSUME ClientExecutes PROVE CallInv'
    BY <1>2, <2>6, ClientExecutesKeeps
  <2>7. ASSUME ClientGivesUp PROVE CallInv'
    BY <1>2, <2>7, ClientGivesUpKeeps
  <2>8. ASSUME ServerExecutes PROVE CallInv'
    BY <1>2, <2>8, ServerExecutesKeeps
  <2>9. ASSUME CallReturns PROVE CallInv'
    BY <1>2, <2>9, CallReturnsKeeps
  <2>10. ASSUME CallFails PROVE CallInv'
    BY <1>2, <2>10, CallFailsKeeps
  <2>11. CASE UNCHANGED vars
    BY <1>2, <2>11 DEF vars, CallInv, WireInv, ServerInv, BinderInv, RightOverload, CallByValueResult,
       Calling, RanRight, IsRight, Overload, Returned, UnderWay
  <2> QED BY <1>2, <2>1, <2>2, <2>3, <2>4, <2>5, <2>6, <2>7, <2>8, <2>9, <2>10, <2>11 DEF Next
<1> QED BY <1>1, <1>2, PTL DEF Spec

-----------------------------------------------------------------------------
(* Theorems. *)

\* For all signatures, values and lengths: a message is read as it was written, but for the
\* arguments that do not go its way, and to the end of the bytes that were allocated for
\* it (Message.cpp:167-252, 365-420).
THEOREM MessagesAreRead == Spec => []MessagesSurvive
<1>1. ASSUME CallInv PROVE MessagesSurvive
  <2>1. WireInv
    BY <1>1 DEF CallInv
  <2>2. CASE pc = "idle"
    BY <2>1, <2>2 DEF WireInv, MessagesSurvive
  <2>3. CASE pc = "binder"
    <3>1. \/ Len(registered) # 0 /\ UnderWay(RegisterMessage(registered[Len(registered)]))
          \/ Calling /\ UnderWay(LookupMessage(caller.sig))
      BY <2>1, <2>3 DEF WireInv
    <3>2. Len(registered) # 0 => registered[Len(registered)] \in Signatures
      <4>1. registered \in Seq(Signatures)
        BY <1>1 DEF CallInv
      <4> QED BY <4>1
    <3>3. Calling => caller.sig \in Signatures
      BY DEF Calling
    <3> QED BY <3>1, <3>2, <3>3, ReceivesPlain
  <2>4. CASE pc = "registering"
    BY <2>1, <2>4, ReceivesReason DEF WireInv
  <2>5. CASE pc = "locating"
    BY <2>1, <2>5, ReceivesReason, ReceivesLocation DEF WireInv
  <2>6. CASE pc = "server"
    <3>1. Calling /\ UnderWay(ExecuteMessage("EXECUTE", caller.sig, before))
      BY <2>1, <2>6 DEF WireInv
    <3>2. /\ caller.sig \in Signatures /\ caller.sig.argTypes \in Seq(ArgType)
          /\ before = Own(caller.sig.argTypes)
      BY <3>1, SignatureParts DEF Calling
    <3> QED BY <3>1, <3>2, OwnArguments, ReceivesArguments
  <2>7. CASE pc = "calling"
    <3>1. /\ Calling /\ RanRight
          /\ \/ UnderWay(ExecuteMessage("EXECUTE_SUCCESS", caller.sig, ran.left))
             \/ UnderWay(ReasonOnly("EXECUTE_FAILURE", FAILED))
      BY <2>1, <2>7 DEF WireInv
    <3>2. /\ caller.sig \in Signatures /\ caller.sig.argTypes \in Seq(ArgType)
          /\ ran.given = AllArrived("EXECUTE", caller.sig.argTypes, Own(caller.sig.argTypes))
          /\ ran.left = Left(caller.sig.argTypes, ran.given)
      BY <3>1, SignatureParts DEF Calling, RanRight
    <3>3. /\ Goods(Value, caller.sig.argTypes, ran.left, "EXECUTE_SUCCESS")
          /\ DOMAIN ran.left = DOMAIN caller.sig.argTypes
      BY <3>2, LeftArguments
    <3> QED BY <3>1, <3>2, <3>3, ReceivesArguments, ReceivesReason
  <2> QED BY <2>1, <2>2, <2>3, <2>4, <2>5, <2>6, <2>7 DEF WireInv
<1> QED BY <1>1, CallInvariant, PTL

\* Of any number of functions registered in any order, a call runs the one registered last
\* for its overload, and is told that there is none only if there is none
\* (Database.cpp:35-80, RPCServer.cpp:70, 181-190).
THEOREM CallsRunRightOverload == Spec => []RightOverload
<1>1. CallInv => RightOverload
  BY DEF CallInv
<1> QED BY <1>1, CallInvariant, PTL

\* Arguments of any number and length go in and come out by value, each in its directions
\* only (rpc.cpp:92-131, Message.cpp:134-165, 314-362).
THEOREM ArgumentsByValueResult == Spec => []CallByValueResult
<1>1. CallInv => CallByValueResult
  BY DEF CallInv
<1> QED BY <1>1, CallInvariant, PTL
=============================================================================
