------------------------------ MODULE MCRoutes ------------------------------
(* Shortest ways and the round of the shelters for every small road map:   *)
(* first an evacuee's search, then the ways calculated in advance, then    *)
(* the round, with the lengths as distances between shelters.              *)
EXTENDS DijkstraRoute, DijkstraPair, PatrolRoutes

CONSTANTS Lengths    \* bound: the lengths of roads, with 0 for no road

VARIABLE round       \* the patrol route of the ferries

all == << vars, pair, round >>

Entries(E, l) == [entry |-> E, len |-> [u \in Vertex |-> [v \in Vertex |-> l[u, v]]]]

(* All lengths that are the same both ways, on all vertices and without    *)
(* the entry of the last; and all lengths on three vertices.               *)
Upper == {p \in Vertex \X Vertex : p[1] < p[2]}
Symmetric ==
    {[p \in Vertex \X Vertex |->
        IF p[1] < p[2] THEN h[p] ELSE IF p[2] < p[1] THEN h[p[2], p[1]] ELSE 0] :
            h \in [Upper -> Lengths]}
Last3 == {v \in Vertex : v > 1}
OneWay ==
    {[p \in Vertex \X Vertex |-> IF p \in DOMAIN h THEN h[p] ELSE 0] :
        h \in [{p \in Last3 \X Last3 : p[1] # p[2]} -> Lengths]}
SmallMaps ==
    {Entries(Vertex, l) : l \in Symmetric \cup OneWay}
        \cup {Entries(Vertex \ {4}, l) : l \in Symmetric}

MCInit == Init /\ DPInit /\ round = << >>

Ended == phase \in {"none", "aborted", "found"}

Search == Next /\ UNCHANGED << pair, round >>

(* Which shelters have room makes no difference to these ways. *)
InAdvance == Ended /\ no \in roads.entry /\ open = Listed

Precalculate == InAdvance /\ DPNext /\ UNCHANGED << vars, round >>

Distance ==
    [p \in Vertex \X Vertex |-> IF p[1] = p[2] THEN 0 ELSE roads.len[p[1]][p[2]] + 1]
Order == [v \in Vertex |-> v]

SetExitNodeDistance ==
    /\ stored # << >> /\ round = << >>
    /\ round' = CalculatePatrolRoute(Distance, Order, Vertex)
    /\ UNCHANGED << vars, pair >>

Done ==
    /\ Ended /\ (~InAdvance \/ round # << >>)
    /\ UNCHANGED all

MCNext == Search \/ Precalculate \/ SetExitNodeDistance \/ Done

MCSpec == MCInit /\ [][MCNext]_all /\ WF_all(Search)

-----------------------------------------------------------------------------
(* The round visits every shelter exactly once, starting at the first id,  *)
(* and every flight goes to a shelter that is nearest among those not yet  *)
(* visited, the first id among equals: the one greedy order among all      *)
(* orders of the shelters.                                                 *)
RoundIsGreedy == round # << >> => {round} = GreedyRounds(Distance, Order, Vertex)
=============================================================================
