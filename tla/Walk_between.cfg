SPECIFICATION Spec
CONSTANTS
    Node <- TownNodes
    Way <- TownWay
    Nodes <- TownWays
    WayIDs <- TownWayIDs
    Block = {"x1", "x3"}
    BlockOrder <- SameRoad
    NoNode = NoNode
    Thrown = Thrown
    Shelter = {"d", "s"}
    Start = {"d", "s", "x2", "y1", "c"}
    MaxEvents = 5
PROPERTIES
    WalksOnOpenRoad
CHECK_DEADLOCK FALSE
