-------------------------------- MODULE Game --------------------------------
(***************************************************************************)
(* The falling-blocks engine of CS488/A1 (game.cpp): a well of             *)
(* board_width columns and board_height rows with four rows above it where *)
(* a piece begins to fall.  AppWindow calls tick from a timer and the      *)
(* moves and reset from the keyboard, in any order.                        *)
(*                                                                         *)
(* The board is the set of cells <<row, column>> that are not -1: which    *)
(* colour a cell has plays no role.  The falling piece is drawn on it.     *)
(***************************************************************************)
EXTENDS Integers, FiniteSets, FiniteSetsExt

CONSTANTS board_width, board_height

ASSUME BoardAssumption ==
    /\ board_width \in Nat /\ board_width >= 4
    /\ board_height \in Nat \ {0}

Columns == 0 .. board_width - 1
Rows == 0 .. board_height + 3

VARIABLES
    board_,     \* filled cells
    piece_,     \* the falling piece: its squares in a 4x4 box, and its margins
    px_, py_,   \* where the box is; rows of the box go down from py_
    stopped_

vars == <<board_, piece_, px_, py_, stopped_>>

-----------------------------------------------------------------------------
(* Pieces. *)

Piece(on, left, top, right, bottom) ==
    [on |-> on, left |-> left, top |-> top, right |-> right, bottom |-> bottom]

PIECES == {
    Piece({<<0, 1>>, <<1, 1>>, <<2, 1>>, <<3, 1>>}, 1, 0, 2, 0),
    Piece({<<1, 1>>, <<1, 2>>, <<2, 1>>, <<3, 1>>}, 1, 1, 1, 0),
    Piece({<<1, 1>>, <<1, 2>>, <<2, 2>>, <<3, 2>>}, 1, 1, 1, 0),
    Piece({<<1, 1>>, <<2, 1>>, <<2, 2>>, <<3, 2>>}, 1, 1, 1, 0),
    Piece({<<1, 2>>, <<2, 1>>, <<2, 2>>, <<3, 1>>}, 1, 1, 1, 0),
    Piece({<<1, 0>>, <<1, 1>>, <<1, 2>>, <<2, 1>>}, 0, 1, 1, 1),
    Piece({<<1, 1>>, <<1, 2>>, <<2, 1>>, <<2, 2>>}, 1, 1, 1, 1)}

\* Row i of the turned piece is column i of the old one, read upwards.
RotateCW(p) ==
    Piece({<<q[2], 3 - q[1]>> : q \in p.on}, p.bottom, p.left, p.top, p.right)

\* Row i of the turned piece is column 3 - i of the old one, read downwards.
RotateCCW(p) ==
    Piece({<<3 - q[2], q[1]>> : q \in p.on}, p.top, p.right, p.bottom, p.left)

\* The cells of the board that piece p covers when its box is at x, y.
Cells(p, x, y) == {<<y - q[1], x + q[2]>> : q \in p.on}

DoesPieceFit(b, p, x, y) ==
    /\ x + p.left >= 0
    /\ x + 3 - p.right < board_width
    /\ y + p.bottom >= 3
    /\ Cells(p, x, y) \intersect b = {}

-----------------------------------------------------------------------------
(* Rows. *)

FullRows(b) == {r \in Rows : \A c \in Columns : <<r, c>> \in b}

\* Mutant: what remains comes down by the number of all full rows.
CollapseByAll(b) ==
    {<<q[1] - Cardinality(FullRows(b)), q[2]>> : q \in {u \in b : u[1] \notin FullRows(b)}}

\* collapse removes the lowest full row until there is none.  Each row that remains
\* then has come down by the number of full rows below it.
Collapse(b) ==
    {<<q[1] - Cardinality({r \in FullRows(b) : r < q[1]}), q[2]>> :
        q \in {u \in b : u[1] \notin FullRows(b)}}

-----------------------------------------------------------------------------
(* Operations. *)

\* The board without the falling piece: the well, with what has landed.
Settled == board_ \ Cells(piece_, px_, py_)

\* removePiece, and placePiece somewhere else.
PutPiece(b, p, x, y) ==
    /\ board_' = b \union Cells(p, x, y)
    /\ piece_' = p
    /\ px_' = x
    /\ py_' = y

\* Mutant: a piece is drawn at its new place before it is removed from the old one.
TryPieceDirty(p, x, y) ==
    /\ IF DoesPieceFit(Settled, p, x, y)
       THEN PutPiece(board_, p, x, y)
       ELSE PutPiece(Settled, piece_, px_, py_)
    /\ UNCHANGED stopped_

\* A move or a rotation: the piece goes where it fits, or stays where it was.
TryPiece(p, x, y) ==
    /\ IF DoesPieceFit(Settled, p, x, y)
       THEN PutPiece(Settled, p, x, y)
       ELSE PutPiece(Settled, piece_, px_, py_)
    /\ UNCHANGED stopped_

\* rand() % 7 picks the new piece; nothing checks that its cells are free.
GenerateNewPiece(b) ==
    \E p \in PIECES :
        PutPiece(b, p, (board_width - 3) \div 2, board_height + 3 - p.bottom)

Init ==
    /\ stopped_ = FALSE
    /\ piece_ \in PIECES
    /\ px_ = (board_width - 3) \div 2
    /\ py_ = board_height + 3 - piece_.bottom
    /\ board_ = Cells(piece_, px_, py_)

Reset ==
    /\ stopped_' = FALSE
    /\ GenerateNewPiece({})

Fall ==
    /\ ~stopped_
    /\ DoesPieceFit(Settled, piece_, px_, py_ - 1)
    /\ PutPiece(Settled, piece_, px_, py_ - 1)
    /\ UNCHANGED stopped_

\* Mutant: the game goes on with a piece that has come to rest one row too high.
LandHigh ==
    /\ ~stopped_
    /\ ~DoesPieceFit(Settled, piece_, px_, py_ - 1)
    /\ py_ <= board_height
    /\ GenerateNewPiece(Collapse(Settled \union Cells(piece_, px_, py_)))
    /\ UNCHANGED stopped_

\* The piece has come to rest in the well: full rows go and the next piece comes.
Land ==
    /\ ~stopped_
    /\ ~DoesPieceFit(Settled, piece_, px_, py_ - 1)
    /\ py_ < board_height
    /\ GenerateNewPiece(Collapse(Settled \union Cells(piece_, px_, py_)))
    /\ UNCHANGED stopped_

\* Mutant: the piece that has overflowed the well does not end the game.
LoseSilently ==
    /\ ~stopped_
    /\ ~DoesPieceFit(Settled, piece_, px_, py_ - 1)
    /\ py_ >= board_height
    /\ PutPiece(Settled, piece_, px_, py_)
    /\ UNCHANGED stopped_

\* The piece cannot fall and its box is not inside the well: the game is lost.
Lose ==
    /\ ~stopped_
    /\ ~DoesPieceFit(Settled, piece_, px_, py_ - 1)
    /\ py_ >= board_height
    /\ PutPiece(Settled, piece_, px_, py_)
    /\ stopped_' = TRUE

Tick == Fall \/ Land \/ Lose

MoveLeft == TryPiece(piece_, px_ - 1, py_)
MoveRight == TryPiece(piece_, px_ + 1, py_)
TurnCW == TryPiece(RotateCW(piece_), px_, py_)
TurnCCW == TryPiece(RotateCCW(piece_), px_, py_)

\* Down to just above the first height where the piece does not fit.
Drop ==
    \E y \in 0 .. py_ :
        /\ \A h \in y .. py_ - 1 : DoesPieceFit(Settled, piece_, px_, h)
        /\ ~DoesPieceFit(Settled, piece_, px_, y - 1)
        /\ PutPiece(Settled, piece_, px_, y)
        /\ UNCHANGED stopped_

\* None of the moves looks at stopped_.
Move == MoveLeft \/ MoveRight \/ TurnCW \/ TurnCCW \/ Drop

Next == Tick \/ Move \/ Reset

Spec == Init /\ [][Next]_vars

\* The timer that calls tick goes on (AppWindow.cpp:27-29); nobody has to touch a key.
FairSpec == Spec /\ WF_vars(Tick)

-----------------------------------------------------------------------------
(* Properties. *)

\* Types: the piece stays inside the array, whose rows follow one another, so that a
\* column out of range would be a cell of the next row.
TypeOK ==
    /\ board_ \subseteq Rows \X Columns
    /\ Cells(piece_, px_, py_) \subseteq board_
    /\ stopped_ \in BOOLEAN

\* A new piece is drawn without a check that its cells are free (game.cpp:283-292): they
\* are, because whatever has landed without losing the game, and was let down by
\* collapse, lies below the four rows at the top (game.cpp:306).
NewPieceFits == \A q \in Settled : q[1] < board_height

\* Only a piece that lands changes what has landed: moves, rotations and falls, which
\* all take the piece off the board and draw it again, and moves after the end of the
\* game, leave every other cell alone (game.cpp:300-317, 322-408).
SettledChanges ==
    [][\/ Settled' = Settled
       \/ Land /\ Settled' = Collapse(board_)
       \/ Reset /\ Settled' = {}]_vars

\* The loop of collapse: remove the lowest full row, move what is above it down, start
\* again (game.cpp:222-270).
RemoveRow(b, y) ==
    {q \in b : q[1] < y} \union {<<q[1] - 1, q[2]>> : q \in {u \in b : u[1] > y}}
CollapseLoop[b \in SUBSET (Rows \X Columns)] ==
    IF FullRows(b) = {} THEN b ELSE CollapseLoop[RemoveRow(b, Min(FullRows(b)))]

\* Collapse is what the loop of the code computes, on every board that can arise: rows
\* keep their order and leave no gap when several, not next to each other, are full.
CollapseIsLoop == Collapse(board_) = CollapseLoop[board_]

\* Whatever is played, the current piece lands or the game ends; rotating or pushing it
\* cannot keep it in the air (game.cpp:294-320).
PiecesLand == []<>stopped_ \/ []<><<Land>>_vars \/ []<><<Reset>>_vars
=============================================================================
