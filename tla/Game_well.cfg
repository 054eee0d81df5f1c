CONSTANTS
    board_width = 4
    board_height = 4
SPECIFICATION FairSpec
INVARIANTS NewPieceFits CollapseIsLoop
PROPERTIES SettledChanges PiecesLand
