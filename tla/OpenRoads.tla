----------------------------- MODULE OpenRoads -----------------------------
(* What the road graph of an evacuee promises: the roads it offers to the  *)
(* search for a shelter are exactly the roads of the map on which no block *)
(* is known.  Information about blocks comes and, with age, goes.          *)
CONSTANTS
    Block,      \* nodes that may be closed
    BlocksOn    \* BlocksOn[r]: the ones on road r, a pair of neighbours

VARIABLES
    held,       \* blocks the evacuee has information about
    open        \* roads its graph offers

Free(H) ==
    LET on == BlocksOn IN {r \in DOMAIN on : on[r] \cap H = {}}

Init == held = {} /\ open = DOMAIN BlocksOn

(* Blocks are forgotten and learnt. *)
Next == held' \in SUBSET Block /\ open' = Free(held')

Spec == Init /\ [][Next]_<< held, open >>
=============================================================================
