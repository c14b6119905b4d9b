----------------------------- MODULE MCWayWalk -----------------------------
(* A small map for TLC: the way w1 from the dead end "d" through the       *)
(* crossing "a" to "b", the way w2 from "a" to "c", and ways of two nodes  *)
(* from the dead end "s" to "b" and from "c" to "b".                       *)
EXTENDS WayWalk

TownWays ==
    [w1 |-> << "d", "a", "x1", "x2", "x3", "b" >>,
     w2 |-> << "a", "y1", "y2", "y3", "c" >>,
     w3 |-> << "s", "b" >>,
     w4 |-> << "c", "b" >>]
TownWay == DOMAIN TownWays
TownNodes == UNION {ToSet(TownWays[w]) : w \in TownWay}
FileOrder == << "w1", "w2", "w3", "w4" >>
TownWayIDs ==
    [n \in TownNodes |-> SelectSeq(FileOrder, LAMBDA w : n \in ToSet(TownWays[w]))]

MidRoad == << "x2", "y2" >>
AtCrossings == << "b" >>
BesideCrossing == << "y1" >>
SameRoad == << "x1", "x3" >>

(* The blocks in the middle of roads meet the condition under which the    *)
(* properties of the walk are proved for every map.                        *)
ASSUME MidRoadIsPlain == BlockOrder = MidRoad => PlainBlocks
=============================================================================
