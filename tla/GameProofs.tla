----------------------------- MODULE GameProofs -----------------------------
(***************************************************************************)
(* For a well of any size: the piece stays inside, a new piece finds its   *)
(* place free, what has landed changes only by landing, and collapse is    *)
(* the loop that removes one full row after the other.                     *)
(***************************************************************************)
EXTENDS Game, FiniteSetTheorems, WellFoundedInduction, TLAPS

-----------------------------------------------------------------------------
(* The invariant. *)

\* The margins of a piece are those of its box.
IsPiece(p) ==
    /\ p = Piece(p.on, p.left, p.top, p.right, p.bottom)
    /\ p.left \in 0 .. 3 /\ p.top \in 0 .. 3 /\ p.right \in 0 .. 3 /\ p.bottom \in 0 .. 3
    /\ p.on \subseteq (p.top .. 3 - p.bottom) \X (p.left .. 3 - p.right)

\* The box of p at x, y is inside the array but for its margins.
Inside(p, x, y) ==
    /\ x \in Int /\ y \in Int
    /\ x + p.left >= 0
    /\ x + 3 - p.right < board_width
    /\ y + p.bottom >= 3
    /\ y <= board_height + 3

IInv ==
    /\ TypeOK
    /\ IsPiece(piece_)
    /\ Inside(piece_, px_, py_)
    /\ NewPieceFits

\* Sizes as numbers.
LEMMA Sizes ==
    /\ board_width \in Nat /\ board_width >= 4 /\ board_height \in Nat /\ board_height >= 1
BY BoardAssumption

-----------------------------------------------------------------------------
(* Pieces and their cells. *)

LEMMA AllPieces == \A p \in PIECES : IsPiece(p)
BY DEF PIECES, Piece, IsPiece

LEMMA Turned ==
    ASSUME NEW p, IsPiece(p)
    PROVE  IsPiece(RotateCW(p)) /\ IsPiece(RotateCCW(p))
<1>1. /\ p.left \in 0 .. 3 /\ p.top \in 0 .. 3 /\ p.right \in 0 .. 3 /\ p.bottom \in 0 .. 3
      /\ p.on \subseteq (p.top .. 3 - p.bottom) \X (p.left .. 3 - p.right)
  BY DEF IsPiece
<1>2. ASSUME NEW q \in p.on
      PROVE  /\ q[1] \in p.top .. 3 - p.bottom /\ q[2] \in p.left .. 3 - p.right
             /\ 3 - q[1] \in p.bottom .. 3 - p.top /\ 3 - q[2] \in p.right .. 3 - p.left
  <2>1. q[1] \in p.top .. 3 - p.bottom /\ q[2] \in p.left .. 3 - p.right
    BY <1>1
  <2> QED BY <1>1, <2>1
<1>3. IsPiece(RotateCW(p))
  <2>1. {<<q[2], 3 - q[1]>> : q \in p.on}
            \subseteq (p.left .. 3 - p.right) \X (p.bottom .. 3 - p.top)
    BY <1>2
  <2> QED BY <1>1, <2>1 DEF IsPiece, RotateCW, Piece
<1>4. IsPiece(RotateCCW(p))
  <2>1. {<<3 - q[2], q[1]>> : q \in p.on}
            \subseteq (p.right .. 3 - p.left) \X (p.top .. 3 - p.bottom)
    BY <1>2
  <2> QED BY <1>1, <2>1 DEF IsPiece, RotateCCW, Piece
<1> QED BY <1>3, <1>4

\* A piece inside has its cells on the board, none higher than its box.
LEMMA CellsOnBoard ==
    ASSUME NEW p, NEW x, NEW y, IsPiece(p), Inside(p, x, y)
    PROVE  /\ Cells(p, x, y) \subseteq Rows \X Columns
           /\ \A q \in Cells(p, x, y) : q[1] <= y /\ q[1] >= y + p.bottom - 3
<1>1. ASSUME NEW q \in p.on
      PROVE  /\ y - q[1] \in Rows /\ x + q[2] \in Columns
             /\ y - q[1] <= y /\ y - q[1] >= y + p.bottom - 3
  <2>1. q[1] \in p.top .. 3 - p.bottom /\ q[2] \in p.left .. 3 - p.right
    BY DEF IsPiece
  <2>2. p.left \in 0 .. 3 /\ p.top \in 0 .. 3 /\ p.right \in 0 .. 3 /\ p.bottom \in 0 .. 3
    BY DEF IsPiece
  <2>3. /\ q[1] \in Int /\ q[1] >= 0 /\ q[1] <= 3 - p.bottom
        /\ q[2] \in Int /\ q[2] >= p.left /\ q[2] <= 3 - p.right
    BY <2>1, <2>2
  <2> QED BY <2>2, <2>3, Sizes DEF Inside, Rows, Columns
<1>2. \A q \in Cells(p, x, y) : \E u \in p.on : q = <<y - u[1], x + u[2]>>
  BY DEF Cells
<1>3. ASSUME NEW q \in Cells(p, x, y)
      PROVE  q \in Rows \X Columns /\ q[1] <= y /\ q[1] >= y + p.bottom - 3
  <2>1. PICK u \in p.on : q = <<y - u[1], x + u[2]>>
    BY <1>2
  <2> QED BY <1>1, <2>1
<1> QED BY <1>3

\* A new piece is inside, above the well.
LEMMA NewPieceInside ==
    ASSUME NEW p \in PIECES
    PROVE  /\ IsPiece(p)
           /\ Inside(p, (board_width - 3) \div 2, board_height + 3 - p.bottom)
           /\ \A q \in Cells(p, (board_width - 3) \div 2, board_height + 3 - p.bottom) :
                  q[1] >= board_height
<1> DEFINE x == (board_width - 3) \div 2
           y == board_height + 3 - p.bottom
<1>1. IsPiece(p)
  BY AllPieces
<1>2. p.left \in 0 .. 3 /\ p.right \in 0 .. 3 /\ p.bottom \in 0 .. 3
  BY <1>1 DEF IsPiece
<1>3. x \in Int /\ x >= 0 /\ x + 3 < board_width
  BY Sizes
<1> HIDE DEF x
<1>4. Inside(p, x, y)
  BY <1>2, <1>3, Sizes DEF Inside
<1>5. y + p.bottom - 3 = board_height
  BY <1>2, Sizes
<1>6. \A q \in Cells(p, x, y) : q[1] >= board_height
  BY <1>1, <1>4, <1>5, CellsOnBoard
<1> QED BY <1>1, <1>4, <1>6 DEF x

-----------------------------------------------------------------------------
(* Rows. *)

\* collapse moves cells down, and none out of the array.
LEMMA CollapsedOnBoard ==
    ASSUME NEW b \in SUBSET (Rows \X Columns)
    PROVE  /\ Collapse(b) \subseteq Rows \X Columns
           /\ \A n \in Int : (\A q \in b : q[1] < n) => \A q \in Collapse(b) : q[1] < n
<1> DEFINE Below(q) == {r \in FullRows(b) : r < q[1]}
<1>1. ASSUME NEW q \in b
      PROVE  /\ q[1] \in Rows /\ q[2] \in Columns
             /\ Cardinality(Below(q)) \in 0 .. q[1]
  <2>1. q[1] \in Rows /\ q[2] \in Columns
    OBVIOUS
  <2>2. q[1] \in Nat
    BY <2>1, Sizes DEF Rows
  <2>3. IsFiniteSet(0 .. q[1] - 1) /\ Cardinality(0 .. q[1] - 1) = q[1]
    <3>1. q[1] - 1 \in Int /\ 0 \in Int
      BY <2>2
    <3>2. /\ IsFiniteSet(0 .. q[1] - 1)
          /\ Cardinality(0 .. q[1] - 1) = IF 0 > q[1] - 1 THEN 0 ELSE (q[1] - 1) - 0 + 1
      BY <3>1, FS_Interval
    <3> QED BY <2>2, <3>2
  <2>4. Below(q) \in SUBSET (0 .. q[1] - 1)
    BY <2>2, Sizes DEF FullRows, Rows
  <2> HIDE DEF Below
  <2>5. IsFiniteSet(Below(q)) /\ Cardinality(Below(q)) <= q[1]
    BY <2>3, <2>4, FS_Subset
  <2>6. Cardinality(Below(q)) \in Nat
    BY <2>5, FS_CardinalityType
  <2> QED BY <2>1, <2>2, <2>5, <2>6
<1>2. ASSUME NEW v \in Collapse(b)
      PROVE  \E q \in b : v = <<q[1] - Cardinality(Below(q)), q[2]>>
  BY DEF Collapse
<1> HIDE DEF Below
<1>3. ASSUME NEW v \in Collapse(b) PROVE v \in Rows \X Columns
  <2>1. PICK q \in b : v = <<q[1] - Cardinality(Below(q)), q[2]>>
    BY <1>2
  <2>2. q[1] - Cardinality(Below(q)) \in Rows /\ q[2] \in Columns
    BY <1>1, Sizes DEF Rows
  <2> QED BY <2>1, <2>2
<1>4. ASSUME NEW n \in Int, \A q \in b : q[1] < n, NEW v \in Collapse(b) PROVE v[1] < n
  <2>1. PICK q \in b : v = <<q[1] - Cardinality(Below(q)), q[2]>>
    BY <1>2
  <2>2. q[1] < n /\ q[1] \in Nat /\ Cardinality(Below(q)) \in 0 .. q[1]
    BY <1>1, <1>4, Sizes DEF Rows
  <2> QED BY <2>1, <2>2
<1> QED BY <1>3, <1>4

-----------------------------------------------------------------------------
(* collapse, one row after the other. *)

Boards == SUBSET (Rows \X Columns)

LEMMA LeastElement ==
    ASSUME NEW S \in SUBSET Nat, S # {}
    PROVE  \E x \in S : \A y \in S : x <= y
<1> DEFINE R == {e \in Nat \X Nat : e[1] < e[2]}
<1>1. R = OpToRel(<, Nat)
  BY DEF OpToRel
<1>2. IsWellFoundedOn(R, Nat)
  BY <1>1, NatLessThanWellFounded
<1> HIDE DEF R
<1>3. \E x \in S : \A y \in S : ~ (<<y, x>> \in R)
  BY <1>2, WFMin
<1>4. \A x \in S : \A y \in S : ~ (<<y, x>> \in R) => x <= y
  BY DEF R
<1> QED BY <1>3, <1>4

\* There are finitely many full rows, and a lowest one if there is one.
LEMMA LowestFullRow ==
    ASSUME NEW b \in Boards
    PROVE  /\ FullRows(b) \subseteq Rows /\ Rows \subseteq Nat
           /\ IsFiniteSet(FullRows(b)) /\ Cardinality(FullRows(b)) \in Nat
           /\ FullRows(b) # {} =>
                  /\ Min(FullRows(b)) \in FullRows(b)
                  /\ \A r \in FullRows(b) : Min(FullRows(b)) <= r
<1>1. FullRows(b) \subseteq Rows /\ Rows \subseteq Nat
  BY Sizes DEF FullRows, Rows
<1> DEFINE F == FullRows(b)
<1>2. IsFiniteSet(F)
  <2>1. board_height + 3 \in Nat /\ 0 \in Nat
    BY Sizes
  <2>2. IsFiniteSet(Rows)
    BY <2>1, FS_Interval DEF Rows
  <2>3. F \in SUBSET Rows
    BY <1>1
  <2> HIDE DEF F
  <2> QED BY <2>2, <2>3, FS_Subset
<1>3. Cardinality(F) \in Nat
  <2> HIDE DEF F
  <2> QED BY <1>2, FS_CardinalityType
<1>4. ASSUME F # {} PROVE Min(F) \in F /\ \A r \in F : Min(F) <= r
  <2>1. F \in SUBSET Nat
    BY <1>1
  <2> HIDE DEF F
  <2>2. \E x \in F : \A r \in F : x =< r
    BY <1>4, <2>1, LeastElement
  <2> QED BY <2>2 DEF Min
<1> QED BY <1>1, <1>2, <1>3, <1>4

\* A row of numbers moved down by one has as many of them.
LEMMA AsManyMovedDown ==
    ASSUME NEW S, IsFiniteSet(S), S \subseteq Nat
    PROVE  Cardinality({r - 1 : r \in S}) = Cardinality(S)
<1> DEFINE T == {r - 1 : r \in S}
           f == [r \in S |-> r - 1]
<1>1. f \in Bijection(S, T)
  BY DEF Bijection, Injection, Surjection, IsInjective
<1>2. ExistsBijection(S, T)
  BY <1>1 DEF ExistsBijection
<1> HIDE DEF T
<1>3. Cardinality(T) = Cardinality(S)
  BY <1>2, FS_Bijection
<1> QED BY <1>3 DEF T

\* Without row y, the rows above it are one lower.
LEMMA RowsMoved ==
    ASSUME NEW b \in Boards, NEW y \in Rows
    PROVE  /\ RemoveRow(b, y) \in Boards
           /\ \A r \in Rows : \A c \in Columns :
                  <<r, c>> \in RemoveRow(b, y)
                      <=> \/ r < y /\ <<r, c>> \in b
                          \/ r >= y /\ <<r + 1, c>> \in b
<1>1. \A q \in b : q = <<q[1], q[2]>> /\ q[1] \in Rows /\ q[2] \in Columns
  BY DEF Boards
<1>2. \A r \in Rows : r \in Nat /\ r <= board_height + 3
  BY Sizes DEF Rows
<1>3. y \in Nat
  BY <1>2
<1>4. ASSUME NEW v \in RemoveRow(b, y)
      PROVE  \/ v \in b /\ v[1] < y
             \/ \E u \in b : u[1] > y /\ v = <<u[1] - 1, u[2]>>
  BY DEF RemoveRow
<1>5. ASSUME NEW v \in RemoveRow(b, y)
      PROVE  v \in Rows \X Columns
  <2>1. CASE v \in b /\ v[1] < y
    BY <2>1 DEF Boards
  <2>2. CASE \E u \in b : u[1] > y /\ v = <<u[1] - 1, u[2]>>
    <3>1. PICK u \in b : u[1] > y /\ v = <<u[1] - 1, u[2]>>
      BY <2>2
    <3>2. u[1] \in Rows /\ u[2] \in Columns
      BY <1>1
    <3>3. u[1] - 1 \in Rows
      BY <1>2, <1>3, <3>1, <3>2, Sizes DEF Rows
    <3> QED BY <3>1, <3>2, <3>3
  <2> QED BY <1>4, <1>5, <2>1, <2>2
<1>6. ASSUME NEW r \in Rows, NEW c \in Columns, <<r, c>> \in RemoveRow(b, y)
      PROVE  \/ r < y /\ <<r, c>> \in b
             \/ r >= y /\ <<r + 1, c>> \in b
  <2>1. CASE <<r, c>> \in b /\ <<r, c>>[1] < y
    BY <2>1
  <2>2. CASE \E u \in b : u[1] > y /\ <<r, c>> = <<u[1] - 1, u[2]>>
    <3>1. PICK u \in b : u[1] > y /\ <<r, c>> = <<u[1] - 1, u[2]>>
      BY <2>2
    <3>2. u = <<u[1], u[2]>> /\ u[1] \in Nat
      BY <1>1, <1>2
    <3>3. r = u[1] - 1 /\ c = u[2]
      BY <3>1
    <3>4. u[1] = r + 1 /\ r >= y
      BY <1>2, <1>3, <3>1, <3>2, <3>3
    <3> QED BY <3>2, <3>3, <3>4
  <2> QED BY <1>4, <1>6, <2>1, <2>2
<1>7. ASSUME NEW r \in Rows, NEW c \in Columns, r < y, <<r, c>> \in b
      PROVE  <<r, c>> \in RemoveRow(b, y)
  BY <1>7 DEF RemoveRow
<1>8. ASSUME NEW r \in Rows, NEW c \in Columns, r >= y, <<r + 1, c>> \in b
      PROVE  <<r, c>> \in RemoveRow(b, y)
  <2> DEFINE u == <<r + 1, c>>
  <2>1. u[1] = r + 1 /\ u[2] = c /\ r \in Nat
    BY <1>2
  <2>2. u[1] > y /\ <<u[1] - 1, u[2]>> = <<r, c>>
    BY <1>3, <1>8, <2>1
  <2>3. u \in {w \in b : w[1] > y}
    BY <1>8, <2>2
  <2> HIDE DEF u
  <2>4. <<u[1] - 1, u[2]>> \in {<<q[1] - 1, q[2]>> : q \in {w \in b : w[1] > y}}
    BY <2>3
  <2> QED BY <2>2, <2>4 DEF RemoveRow
<1>9. RemoveRow(b, y) \in Boards
  BY <1>5 DEF Boards
<1> QED BY <1>6, <1>7, <1>8, <1>9

\* Without the lowest full row, the other full rows are one lower.
LEMMA FullRowsMoved ==
    ASSUME NEW b \in Boards, FullRows(b) # {}, NEW y, y = Min(FullRows(b))
    PROVE  /\ FullRows(RemoveRow(b, y)) = {r - 1 : r \in FullRows(b) \ {y}}
           /\ Cardinality(FullRows(RemoveRow(b, y))) = Cardinality(FullRows(b)) - 1
<1> DEFINE F == FullRows(b)
           c1 == RemoveRow(b, y)
<1>1. /\ y \in F /\ (\A r \in F : y <= r) /\ y \in Rows
      /\ F \subseteq Nat /\ IsFiniteSet(F) /\ y \in Nat
  BY LowestFullRow
<1>2. \A r \in Rows : r \in Nat /\ r <= board_height + 3
  BY Sizes DEF Rows
<1>3. 0 \in Columns
  BY Sizes DEF Columns
<1>4. \A r \in Rows : \A c \in Columns :
          <<r, c>> \in c1 <=> \/ r < y /\ <<r, c>> \in b
                              \/ r >= y /\ <<r + 1, c>> \in b
  BY <1>1, RowsMoved
<1> HIDE DEF c1
<1>5. ASSUME NEW r \in FullRows(c1) PROVE r \in {s - 1 : s \in F \ {y}}
  <2>1. r \in Rows /\ r \in Nat /\ \A c \in Columns : <<r, c>> \in c1
    BY <1>2 DEF FullRows
  <2>2. ~ (r < y)
    <3>1. SUFFICES ASSUME r < y PROVE FALSE
      OBVIOUS
    <3>2. ASSUME NEW c \in Columns PROVE <<r, c>> \in b
      <4>1. \/ r < y /\ <<r, c>> \in b
            \/ r >= y /\ <<r + 1, c>> \in b
        BY <1>4, <2>1
      <4>2. ~ (r >= y)
        BY <1>1, <2>1, <3>1
      <4> QED BY <4>1, <4>2
    <3>3. r \in F
      BY <2>1, <3>2 DEF FullRows
    <3> QED BY <1>1, <2>1, <3>1, <3>3
  <2>3. r >= y
    BY <1>1, <2>1, <2>2
  <2>4. \A c \in Columns : <<r + 1, c>> \in b
    BY <1>4, <2>1, <2>2
  <2>5. r + 1 \in Rows
    BY <1>3, <2>4 DEF Boards
  <2>6. r + 1 \in F
    BY <2>4, <2>5 DEF FullRows
  <2>7. r + 1 # y /\ r = (r + 1) - 1
    BY <1>1, <2>1, <2>3
  <2> QED BY <2>6, <2>7
<1>6. ASSUME NEW s \in F \ {y} PROVE s - 1 \in FullRows(c1)
  <2>1. s \in Rows /\ s \in Nat /\ s >= y /\ s # y /\ \A c \in Columns : <<s, c>> \in b
    BY <1>1, <1>2 DEF FullRows
  <2>2. s - 1 \in Rows /\ s - 1 >= y /\ (s - 1) + 1 = s
    BY <1>1, <1>2, <2>1, Sizes DEF Rows
  <2>3. \A c \in Columns : <<s - 1, c>> \in c1
    BY <1>4, <2>1, <2>2
  <2> QED BY <2>2, <2>3 DEF FullRows
<1> DEFINE T == F \ {y}
<1>7. FullRows(c1) = {r - 1 : r \in T}
  BY <1>5, <1>6
<1>8. IsFiniteSet(T) /\ Cardinality(T) = Cardinality(F) - 1 /\ T \subseteq Nat
  <2> HIDE DEF F
  <2> QED BY <1>1, FS_RemoveElement
<1> HIDE DEF T, F
<1>9. Cardinality(FullRows(c1)) = Cardinality(F) - 1
  BY <1>7, <1>8, AsManyMovedDown
<1>10. FullRows(c1) = {r - 1 : r \in F \ {y}}
  BY <1>7 DEF T
<1> QED BY <1>9, <1>10 DEF F, c1

\* collapse may as well remove the lowest full row first, and go on with what is left.
LEMMA CollapseRow ==
    ASSUME NEW b \in Boards, FullRows(b) # {}
    PROVE  Collapse(b) = Collapse(RemoveRow(b, Min(FullRows(b))))
<1> DEFINE y == Min(FullRows(b))
           F == FullRows(b)
           c1 == RemoveRow(b, y)
           F1 == FullRows(c1)
           Below(r) == {s \in F : s < r}
           Below1(r) == {s \in F1 : s < r}
<1>1. /\ y \in F /\ (\A r \in F : y <= r) /\ y \in Rows
      /\ F \subseteq Nat /\ IsFiniteSet(F) /\ y \in Nat
  BY LowestFullRow
<1>2. /\ \A q \in b : q = <<q[1], q[2]>> /\ q[1] \in Rows /\ q[2] \in Columns /\ q[1] \in Nat
      /\ Rows \subseteq Nat
  BY Sizes DEF Boards, Rows
<1>3. F1 = {r - 1 : r \in F \ {y}}
  BY FullRowsMoved
<1>4. \A r \in F1 : r \in Nat /\ r >= y /\ r + 1 \in F /\ r + 1 # y
  BY <1>1, <1>3
<1>5. \A v : v \in Collapse(b) <=>
          \E q \in b : q[1] \notin F /\ v = <<q[1] - Cardinality(Below(q[1])), q[2]>>
  BY DEF Collapse
<1>6. \A v : v \in Collapse(c1) <=>
          \E q \in c1 : q[1] \notin F1 /\ v = <<q[1] - Cardinality(Below1(q[1])), q[2]>>
  BY DEF Collapse
<1>7. \A q : q \in c1 <=> \/ q \in b /\ q[1] < y
                          \/ \E u \in b : u[1] > y /\ q = <<u[1] - 1, u[2]>>
  BY DEF RemoveRow
<1> HIDE DEF c1, F1, F, y
<1>8. ASSUME NEW r \in Nat, r < y
      PROVE  r \notin F /\ r \notin F1 /\ Below(r) = {} /\ Below1(r) = {}
  <2>1. \A s \in Nat : s <= r => s \notin F /\ s \notin F1
    <3>1. \A s \in Nat : s <= r => ~ (y <= s) /\ ~ (s >= y)
      BY <1>1, <1>8
    <3> QED BY <1>1, <1>4, <3>1
  <2>2. \A s \in F \union F1 : s \in Nat /\ ~ (s < r)
    <3>1. \A s \in F \union F1 : s \in Nat
      BY <1>1, <1>4
    <3>2. \A s \in Nat : s < r => s <= r
      BY <1>8
    <3> QED BY <2>1, <3>1, <3>2
  <2>3. r \notin F /\ r \notin F1
    BY <1>8, <2>1
  <2> QED BY <2>2, <2>3
<1>9. ASSUME NEW r \in Nat, r > y
      PROVE  /\ r \in F <=> r - 1 \in F1
             /\ Cardinality(Below(r)) \in Nat
             /\ Cardinality(Below1(r - 1)) = Cardinality(Below(r)) - 1
  <2> DEFINE S == Below(r) \ {y}
  <2>1. IsFiniteSet(Below(r)) /\ y \in Below(r)
    <3>1. Below(r) \in SUBSET F
      OBVIOUS
    <3>2. y \in Below(r)
      BY <1>1, <1>9
    <3> HIDE DEF Below
    <3> QED BY <1>1, <3>1, <3>2, FS_Subset
  <2>2. S \subseteq Nat
    BY <1>1
  <2>3. IsFiniteSet(S) /\ Cardinality(S) = Cardinality(Below(r)) - 1
    <3> HIDE DEF Below
    <3> QED BY <2>1, FS_RemoveElement
  <2>4. Below1(r - 1) = {s - 1 : s \in S}
    <3>1. ASSUME NEW s \in F1, s < r - 1 PROVE s \in {t - 1 : t \in S}
      <4>1. s \in Nat /\ s + 1 \in F /\ s + 1 # y
        BY <1>4
      <4>2. s + 1 < r /\ s = (s + 1) - 1
        BY <3>1, <4>1
      <4>3. s + 1 \in S
        BY <4>1, <4>2
      <4> QED BY <4>2, <4>3
    <3>2. ASSUME NEW t \in S PROVE t - 1 \in F1 /\ t - 1 < r - 1
      BY <1>1, <1>3
    <3> QED BY <3>1, <3>2
  <2>5. Cardinality(Below1(r - 1)) = Cardinality(S)
    <3> HIDE DEF S, Below1
    <3> QED BY <2>2, <2>3, <2>4, AsManyMovedDown
  <2>6. Cardinality(Below(r)) \in Nat
    <3> HIDE DEF Below
    <3> QED BY <2>1, FS_CardinalityType
  <2>7. r \in F <=> r - 1 \in F1
    BY <1>1, <1>3, <1>4, <1>9
  <2> HIDE DEF S, Below, Below1
  <2> QED BY <2>3, <2>5, <2>6, <2>7
<1> HIDE DEF Below, Below1
<1>10. ASSUME NEW v \in Collapse(b) PROVE v \in Collapse(c1)
  <2>1. PICK q \in b : q[1] \notin F /\ v = <<q[1] - Cardinality(Below(q[1])), q[2]>>
    BY <1>5
  <2>2. q[1] \in Nat /\ q[1] # y
    BY <1>1, <1>2, <2>1
  <2>3. CASE q[1] < y
    <3>1. q \in c1 /\ q[1] \notin F1 /\ Below(q[1]) = Below1(q[1])
      BY <1>7, <1>8, <2>2, <2>3
    <3> QED BY <1>6, <2>1, <3>1
  <2>4. CASE q[1] > y
    <3> DEFINE u == <<q[1] - 1, q[2]>>
    <3>1. u \in c1 /\ u[1] = q[1] - 1 /\ u[2] = q[2]
      BY <1>7, <2>4
    <3> HIDE DEF u
    <3>2. u[1] \notin F1
      BY <1>9, <2>1, <2>2, <2>4, <3>1
    <3>3. u[1] - Cardinality(Below1(u[1])) = q[1] - Cardinality(Below(q[1]))
      BY <1>9, <2>2, <2>4, <3>1
    <3>4. v = <<u[1] - Cardinality(Below1(u[1])), u[2]>>
      BY <2>1, <3>1, <3>3
    <3> QED BY <1>6, <3>1, <3>2, <3>4
  <2> QED BY <1>1, <2>2, <2>3, <2>4
<1>11. ASSUME NEW v \in Collapse(c1) PROVE v \in Collapse(b)
  <2>1. PICK q \in c1 : q[1] \notin F1 /\ v = <<q[1] - Cardinality(Below1(q[1])), q[2]>>
    BY <1>6
  <2>2. CASE q \in b /\ q[1] < y
    <3>1. q[1] \notin F /\ Below(q[1]) = Below1(q[1])
      BY <1>2, <1>8, <2>2
    <3> QED BY <1>5, <2>1, <2>2, <3>1
  <2>3. CASE \E u \in b : u[1] > y /\ q = <<u[1] - 1, u[2]>>
    <3>1. PICK u \in b : u[1] > y /\ q = <<u[1] - 1, u[2]>>
      BY <2>3
    <3>2. q[1] = u[1] - 1 /\ q[2] = u[2] /\ u[1] \in Nat
      BY <1>2, <3>1
    <3>3. u[1] \notin F
      BY <1>9, <2>1, <3>1, <3>2
    <3>4. q[1] - Cardinality(Below1(q[1])) = u[1] - Cardinality(Below(u[1]))
      BY <1>9, <3>1, <3>2
    <3>5. v = <<u[1] - Cardinality(Below(u[1])), u[2]>>
      BY <2>1, <3>2, <3>4
    <3> QED BY <1>5, <3>3, <3>5
  <2> QED BY <1>7, <2>2, <2>3
<1>12. Collapse(b) = Collapse(c1)
  BY <1>10, <1>11
<1> QED BY <1>12 DEF c1, y

\* A board without full rows stays as it is.
LEMMA CollapseNothing ==
    ASSUME NEW b \in Boards, FullRows(b) = {}
    PROVE  Collapse(b) = b
<1>1. \A q \in b : q = <<q[1], q[2]>> /\ q[1] \in Nat
  BY Sizes DEF Boards, Rows
<1>2. \A q \in b : {r \in FullRows(b) : r < q[1]} = {}
  OBVIOUS
<1>3. \A q \in b : <<q[1] - Cardinality({r \in FullRows(b) : r < q[1]}), q[2]>> = q
  BY <1>1, <1>2, FS_EmptySet
<1> DEFINE Low(q) == <<q[1] - Cardinality({r \in FullRows(b) : r < q[1]}), q[2]>>
<1>4. Collapse(b) = {Low(q) : q \in b}
  BY DEF Collapse
<1>5. \A q \in b : Low(q) = q
  BY <1>3
<1> HIDE DEF Low
<1> QED BY <1>4, <1>5

\* The loop of collapse ends, and with the board that Collapse gives in one step.
LEMMA LoopIsCollapse ==
    ASSUME NEW b \in Boards
    PROVE  CollapseLoop[b] = Collapse(b)
<1> DEFINE Step(g) ==
        [d \in Boards |->
            IF FullRows(d) = {} THEN d ELSE g[RemoveRow(d, Min(FullRows(d)))]]
           G == [d \in Boards |-> Collapse(d)]
<1>1. \A d \in Boards : FullRows(d) # {} =>
          /\ RemoveRow(d, Min(FullRows(d))) \in Boards
          /\ Cardinality(FullRows(RemoveRow(d, Min(FullRows(d))))) = Cardinality(FullRows(d)) - 1
  BY LowestFullRow, RowsMoved, FullRowsMoved
<1>2. G = Step(G)
  <2>1. ASSUME NEW d \in Boards
        PROVE  G[d] = IF FullRows(d) = {} THEN d ELSE G[RemoveRow(d, Min(FullRows(d)))]
    <3>1. CASE FullRows(d) = {}
      BY <3>1, CollapseNothing
    <3>2. CASE FullRows(d) # {}
      BY <1>1, <3>2, CollapseRow
    <3> QED BY <3>1, <3>2
  <2> QED BY <2>1
<1>3. CollapseLoop = CHOOSE g : g = Step(g)
  BY DEF CollapseLoop, Boards
<1> HIDE DEF G
<1>4. CollapseLoop = Step(CollapseLoop)
  <2> HIDE DEF Step
  <2>1. \E g : g = Step(g)
    BY <1>2
  <2> QED BY <1>3, <2>1
<1> DEFINE D == {d \in Boards : CollapseLoop[d] # Collapse(d)}
           N == {Cardinality(FullRows(d)) : d \in D}
<1>5. D = {}
  <2>1. SUFFICES ASSUME D # {} PROVE FALSE
    OBVIOUS
  <2>2. N \in SUBSET Nat /\ N # {}
    BY <2>1, LowestFullRow
  <2>3. PICK n \in N : \A m \in N : n <= m
    <3> HIDE DEF N
    <3> QED BY <2>2, LeastElement
  <2>4. PICK d \in D : n = Cardinality(FullRows(d))
    OBVIOUS
  <2>5. CollapseLoop[d] =
            IF FullRows(d) = {} THEN d ELSE CollapseLoop[RemoveRow(d, Min(FullRows(d)))]
    BY <1>4
  <2>6. FullRows(d) # {}
    BY <2>5, CollapseNothing
  <2> DEFINE e == RemoveRow(d, Min(FullRows(d)))
  <2>7. e \in Boards /\ Cardinality(FullRows(e)) = n - 1 /\ n \in Nat
    BY <1>1, <2>4, <2>6, LowestFullRow
  <2>8. Collapse(d) = Collapse(e) /\ CollapseLoop[d] = CollapseLoop[e]
    BY <2>5, <2>6, CollapseRow
  <2> HIDE DEF e
  <2>9. e \notin D
    <3>1. SUFFICES ASSUME e \in D PROVE FALSE
      OBVIOUS
    <3>2. n <= n - 1
      BY <2>3, <2>7, <3>1
    <3> QED BY <2>7, <3>2
  <2> QED BY <2>7, <2>8, <2>9
<1> QED BY <1>5

-----------------------------------------------------------------------------
(* Steps. *)

\* A piece drawn where nothing has landed leaves b to what has landed.
LEMMA Drawn ==
    ASSUME NEW b \in SUBSET (Rows \X Columns), NEW p, NEW x, NEW y,
           IsPiece(p), Inside(p, x, y), Cells(p, x, y) \intersect b = {},
           \A q \in b : q[1] < board_height,
           PutPiece(b, p, x, y), stopped_' \in BOOLEAN
    PROVE  IInv' /\ Settled' = b
<1>1. board_' = b \union Cells(p, x, y) /\ piece_' = p /\ px_' = x /\ py_' = y
  BY DEF PutPiece
<1>2. Cells(p, x, y) \subseteq Rows \X Columns
  BY CellsOnBoard
<1>3. Cells(piece_, px_, py_)' = Cells(p, x, y)
  BY <1>1 DEF Cells
<1>4. Settled' = b
  BY <1>1, <1>3 DEF Settled
<1>5. TypeOK'
  BY <1>1, <1>2, <1>3 DEF TypeOK, Rows, Columns
<1>6. IsPiece(piece_)' /\ Inside(piece_, px_, py_)'
  BY <1>1 DEF IsPiece, Inside
<1>7. NewPieceFits'
  BY <1>4 DEF NewPieceFits
<1> QED BY <1>4, <1>5, <1>6, <1>7 DEF IInv

\* What has landed is on the board, in the well, apart from the falling piece.
LEMMA Landed ==
    ASSUME IInv
    PROVE  /\ Settled \in SUBSET (Rows \X Columns)
           /\ Cells(piece_, px_, py_) \intersect Settled = {}
           /\ \A q \in Settled : q[1] < board_height
           /\ Settled \union Cells(piece_, px_, py_) = board_
BY DEF IInv, TypeOK, Settled, NewPieceFits

\* A move or a rotation tried.
LEMMA Tried ==
    ASSUME IInv, NEW p, NEW x \in Int, IsPiece(p), TryPiece(p, x, py_)
    PROVE  IInv' /\ Settled' = Settled
<1>1. stopped_' \in BOOLEAN
  BY DEF TryPiece, IInv, TypeOK
<1>2. CASE DoesPieceFit(Settled, p, x, py_)
  <2>1. PutPiece(Settled, p, x, py_)
    BY <1>2 DEF TryPiece
  <2>2. Cells(p, x, py_) \intersect Settled = {}
    BY <1>2 DEF DoesPieceFit
  <2>3. Inside(p, x, py_)
    BY <1>2 DEF DoesPieceFit, Inside, IInv
  <2> QED BY <1>1, <2>1, <2>2, <2>3, Landed, Drawn
<1>3. CASE ~DoesPieceFit(Settled, p, x, py_)
  <2>1. PutPiece(Settled, piece_, px_, py_)
    BY <1>3 DEF TryPiece
  <2>2. IsPiece(piece_) /\ Inside(piece_, px_, py_)
    BY DEF IInv
  <2> QED BY <1>1, <2>1, <2>2, Landed, Drawn
<1> QED BY <1>2, <1>3

\* The piece lets itself down to y.
LEMMA LetDown ==
    ASSUME IInv, NEW y \in Int, y <= py_,
           y = py_ \/ DoesPieceFit(Settled, piece_, px_, y),
           PutPiece(Settled, piece_, px_, y), stopped_' \in BOOLEAN
    PROVE  IInv' /\ Settled' = Settled
<1>1. IsPiece(piece_) /\ Inside(piece_, px_, py_)
  BY DEF IInv
<1>2. Inside(piece_, px_, y) /\ Cells(piece_, px_, y) \intersect Settled = {}
  <2>1. CASE y = py_
    BY <1>1, <2>1, Landed
  <2>2. CASE DoesPieceFit(Settled, piece_, px_, y)
    <3>1. Cells(piece_, px_, y) \intersect Settled = {}
      BY <2>2 DEF DoesPieceFit
    <3>2. Inside(piece_, px_, y)
      BY <1>1, <2>2, Sizes DEF DoesPieceFit, Inside
    <3> QED BY <3>1, <3>2
  <2> QED BY <2>1, <2>2
<1> QED BY <1>1, <1>2, Landed, Drawn

\* The next piece, above everything that is in the well.
LEMMA NextPiece ==
    ASSUME NEW b \in SUBSET (Rows \X Columns), \A q \in b : q[1] < board_height,
           GenerateNewPiece(b), stopped_' \in BOOLEAN
    PROVE  IInv' /\ Settled' = b
<1>1. PICK p \in PIECES :
          PutPiece(b, p, (board_width - 3) \div 2, board_height + 3 - p.bottom)
  BY DEF GenerateNewPiece
<1> DEFINE x == (board_width - 3) \div 2
           y == board_height + 3 - p.bottom
<1>2. IsPiece(p) /\ Inside(p, x, y) /\ \A q \in Cells(p, x, y) : q[1] >= board_height
  BY NewPieceInside
<1>3. PutPiece(b, p, x, y)
  BY <1>1
<1> HIDE DEF x, y
<1>4. Cells(p, x, y) \subseteq Rows \X Columns
  BY <1>2, CellsOnBoard
<1>5. ASSUME NEW q \in Cells(p, x, y), q \in b PROVE FALSE
  <2>1. q[1] \in Int /\ q[1] < board_height /\ q[1] >= board_height
    BY <1>2, <1>4, <1>5, Sizes DEF Rows
  <2> QED BY <2>1, Sizes
<1> QED BY <1>2, <1>3, <1>5, Drawn

\* Landing: a piece at rest in the well, all of it in rows of the well.
LEMMA Lands ==
    ASSUME IInv, Land
    PROVE  IInv' /\ Settled' = Collapse(board_)
<1>1. GenerateNewPiece(Collapse(board_)) /\ stopped_' \in BOOLEAN /\ py_ < board_height
  BY Landed DEF Land, IInv, TypeOK
<1>2. board_ \in SUBSET (Rows \X Columns)
  BY DEF IInv, TypeOK
<1>3. ASSUME NEW q \in board_ PROVE q[1] < board_height
  <2>1. q \in Settled \/ q \in Cells(piece_, px_, py_)
    BY Landed
  <2>2. CASE q \in Settled
    BY <2>2, Landed
  <2>3. CASE q \in Cells(piece_, px_, py_)
    <3>1. IsPiece(piece_) /\ Inside(piece_, px_, py_)
      BY DEF IInv
    <3>2. q[1] <= py_ /\ py_ \in Int
      BY <2>3, <3>1, CellsOnBoard DEF Inside
    <3>3. q[1] \in Int
      BY <1>2, Sizes DEF Rows
    <3> QED BY <1>1, <3>2, <3>3, Sizes
  <2> QED BY <2>1, <2>2, <2>3
<1>4. /\ Collapse(board_) \in SUBSET (Rows \X Columns)
      /\ \A q \in Collapse(board_) : q[1] < board_height
  <2>1. board_height \in Int
    BY Sizes
  <2> QED BY <1>2, <1>3, <2>1, CollapsedOnBoard
<1> QED BY <1>1, <1>4, NextPiece

LEMMA Dropped ==
    ASSUME IInv, Drop
    PROVE  IInv' /\ Settled' = Settled
<1>1. PICK y \in 0 .. py_ :
          /\ \A h \in y .. py_ - 1 : DoesPieceFit(Settled, piece_, px_, h)
          /\ PutPiece(Settled, piece_, px_, y)
          /\ UNCHANGED stopped_
  BY DEF Drop
<1>2. py_ \in Int
  BY DEF IInv, Inside
<1>3. y \in Int /\ y <= py_
  BY <1>2
<1>4. y = py_ \/ DoesPieceFit(Settled, piece_, px_, y)
  <2>1. y = py_ \/ y \in y .. py_ - 1
    BY <1>2, <1>3
  <2> QED BY <1>1, <2>1
<1>5. stopped_' \in BOOLEAN
  BY <1>1 DEF IInv, TypeOK
<1> QED BY <1>1, <1>3, <1>4, <1>5, LetDown

-----------------------------------------------------------------------------
(* The invariant holds, and each step moves what has landed as it may. *)

LEMMA Started == Init => IInv
<1> SUFFICES ASSUME Init PROVE IInv
  OBVIOUS
<1> DEFINE x == (board_width - 3) \div 2
           y == board_height + 3 - piece_.bottom
<1>1. piece_ \in PIECES /\ px_ = x /\ py_ = y /\ board_ = Cells(piece_, px_, py_)
      /\ stopped_ = FALSE
  BY DEF Init
<1>2. IsPiece(piece_) /\ Inside(piece_, x, y)
  BY <1>1, NewPieceInside
<1> HIDE DEF x, y
<1>3. Cells(piece_, px_, py_) \subseteq Rows \X Columns
  BY <1>1, <1>2, CellsOnBoard
<1>4. NewPieceFits
  BY <1>1 DEF NewPieceFits, Settled
<1> QED BY <1>1, <1>2, <1>3, <1>4 DEF IInv, TypeOK

LEMMA Stepped ==
    ASSUME IInv, [Next]_vars
    PROVE  /\ IInv'
           /\ \/ Settled' = Settled
              \/ Land /\ Settled' = Collapse(board_)
              \/ Reset /\ Settled' = {}
<1>1. /\ IsPiece(piece_) /\ px_ \in Int /\ py_ \in Int /\ stopped_ \in BOOLEAN
      /\ Inside(piece_, px_, py_)
  BY DEF IInv, Inside, TypeOK
<1>2. CASE Fall
  <2>1. py_ - 1 \in Int /\ py_ - 1 <= py_
    BY <1>1
  <2>2. /\ DoesPieceFit(Settled, piece_, px_, py_ - 1)
        /\ PutPiece(Settled, piece_, px_, py_ - 1)
        /\ stopped_' \in BOOLEAN
    BY <1>1, <1>2 DEF Fall
  <2> QED BY <2>1, <2>2, LetDown
<1>3. CASE Land
  BY <1>3, Lands
<1>4. CASE Lose
  <2>1. PutPiece(Settled, piece_, px_, py_) /\ stopped_' \in BOOLEAN
    BY <1>4 DEF Lose
  <2> QED BY <1>1, <2>1, Landed, Drawn
<1>5. CASE MoveLeft
  BY <1>1, <1>5, Tried DEF MoveLeft
<1>6. CASE MoveRight
  BY <1>1, <1>6, Tried DEF MoveRight
<1>7. CASE TurnCW
  BY <1>1, <1>7, Tried, Turned DEF TurnCW
<1>8. CASE TurnCCW
  BY <1>1, <1>8, Tried, Turned DEF TurnCCW
<1>9. CASE Drop
  BY <1>9, Dropped
<1>10. CASE Reset
  <2>1. GenerateNewPiece({}) /\ stopped_' \in BOOLEAN
    BY <1>10 DEF Reset
  <2> QED BY <1>10, <2>1, NextPiece
<1>11. CASE UNCHANGED vars
  <2>1. Settled' = Settled
    BY <1>11 DEF vars, Settled, Cells
  <2>2. IInv'
    BY <1>11, <2>1 DEF vars, IInv, TypeOK, IsPiece, Inside, NewPieceFits, Cells, Rows, Columns
  <2> QED BY <2>1, <2>2
<1> QED BY <1>2, <1>3, <1>4, <1>5, <1>6, <1>7, <1>8, <1>9, <1>10, <1>11
         DEF Next, Tick, Move

LEMMA IInvHolds == Spec => []IInv
<1>1. IInv /\ [Next]_vars => IInv'
  BY Stepped
<1> QED BY Started, <1>1, PTL DEF Spec

-----------------------------------------------------------------------------
(* Theorems. *)

\* In a well of any size the piece and all that has landed stay inside the board
\* (game.cpp:184-209).
THEOREM TypeCorrect == Spec => []TypeOK
<1>1. IInv => TypeOK
  BY DEF IInv
<1> QED BY IInvHolds, <1>1, PTL

\* In a well of any size a new piece finds its cells free: nothing that has landed is
\* above the well (game.cpp:283-306).
THEOREM NewPiecesFit == Spec => []NewPieceFits
<1>1. IInv => NewPieceFits
  BY DEF IInv
<1> QED BY IInvHolds, <1>1, PTL

\* In a well of any size moves, falls and the end of the game leave alone what has landed
\* (game.cpp:300-317, 322-408).
THEOREM SettledOnlyByLanding == Spec => SettledChanges
<1> DEFINE Changed ==
        \/ Settled' = Settled
        \/ Land /\ Settled' = Collapse(board_)
        \/ Reset /\ Settled' = {}
<1>1. IInv /\ [Next]_vars => [Changed]_vars
  BY Stepped
<1> HIDE DEF Changed
<1>2. Spec => [][Changed]_vars
  BY IInvHolds, <1>1, PTL DEF Spec
<1> QED BY <1>2 DEF Changed, SettledChanges

\* In a well of any size collapse in one step is the loop of the code, on every board that
\* can arise: the rows that are left close up, in order (game.cpp:222-270).
THEOREM CollapseIsTheLoop == Spec => []CollapseIsLoop
<1>1. IInv => CollapseIsLoop
  <2>1. IInv => board_ \in Boards
    BY DEF IInv, TypeOK, Boards
  <2> QED BY <2>1, LoopIsCollapse DEF CollapseIsLoop
<1> QED BY IInvHolds, <1>1, PTL
=============================================================================
