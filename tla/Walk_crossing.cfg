SPECIFICATION Spec
CONSTANTS
    Node <- TownNodes
    Way <- TownWay
    Nodes <- TownWays
    WayIDs <- TownWayIDs
    Block = {"b"}
    BlockOrder <- AtCrossings
    NoNode = NoNode
    Thrown = Thrown
    Shelter = {"d", "s"}
    Start = {"d", "s", "x2", "y1", "c"}
    MaxEvents = 5
INVARIANTS
    MapComesBack
CHECK_DEADLOCK FALSE
