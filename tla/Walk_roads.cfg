SPECIFICATION Spec
CONSTANTS
    Node <- TownNodes
    Way <- TownWay
    Nodes <- TownWays
    WayIDs <- TownWayIDs
    Block = {"x2", "y2"}
    BlockOrder <- MidRoad
    NoNode = NoNode
    Thrown = Thrown
    Shelter = {"d", "s"}
    Start = {"d", "s", "x2", "y1", "c"}
    MaxEvents = 5
INVARIANTS
    RouteKnownOpen
    AbortsOnlyWhenCutOff
PROPERTIES
    KeepsPromise
    ArrivesOnceOpen
CHECK_DEADLOCK FALSE
