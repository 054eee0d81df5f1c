CONSTANTS
    node_count = 5
    MaxEdges = 5
    Graphs <- SmallGraphs
SPECIFICATION FairSpec
INVARIANTS RanksClimb TreeIsMinimal
PROPERTIES EndsIffConnected ImplementsBlocks
CHECK_DEADLOCK FALSE
