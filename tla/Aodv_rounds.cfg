SPECIFICATION Spec
CONSTANTS
    Node = {"s", "a", "b", "d"}
    Source = "s"
    Dest = "d"
    None = None
    TTL = 2
    Topologies <- Shapes
    MaxRounds = 2
INVARIANTS
    StopAndWait
    NoLoop
PROPERTIES
    KeepsSending
CHECK_DEADLOCK FALSE
