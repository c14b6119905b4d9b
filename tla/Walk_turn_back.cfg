SPECIFICATION Spec
CONSTANTS
    Node <- TownNodes
    Way <- TownWay
    Nodes <- TownWays
    WayIDs <- TownWayIDs
    Block = {"y1"}
    BlockOrder <- BesideCrossing
    NoNode = NoNode
    Thrown = Thrown
    Shelter = {"d", "s"}
    Start = {"d", "s", "x2", "y1", "c"}
    MaxEvents = 5
INVARIANTS
    OnItsWay
CHECK_DEADLOCK FALSE
