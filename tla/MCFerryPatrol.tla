---------------------------- MODULE MCFerryPatrol ----------------------------
(* Small instances of FerryPatrol.  The places lie on a line, so a place   *)
(* is a number and a distance is a difference; the routes are computed by  *)
(* PatrolRoutes.                                                           *)
EXTENDS FerryPatrol, PatrolRoutes, TLC

CONSTANTS
    Ways    \* for every crossing the blocks on its way to a shelter

Places == Shelter \cup Crossing \cup Block

Distance == [p \in Places \X Places |->
               IF p[1] < p[2] THEN p[2] - p[1] ELSE p[1] - p[2]]

Order == [p \in Places |-> p]

MCShelterRound == CalculatePatrolRoute(Distance, Order, Shelter)

MCImpactRoute == [b \in Block |-> ImpactRouteOf(Distance, Order, Ways, b)]

MCRank == [b \in Block |-> b]

(* One ferry per shelter: ferry f begins at position f - 1 of the round.   *)
MCStartIndex == [f \in Ferry |-> f - 1]

(* Crossing 11 has the block 21 on its way, the crossings 12, 13 and 14    *)
(* the block 22; block 20 is on nobody's way.                              *)
WaysAround == (11 :> <<21>>) @@ (12 :> <<22>>) @@ (13 :> <<22>>) @@ (14 :> <<22>>)
==============================================================================
