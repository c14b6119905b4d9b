--------------------------- MODULE DijkstraRoute ---------------------------
(* An evacuee's search for its way to a shelter                            *)
(* (MyUser::DijkstraRouteCalculationforGeographicInfo): the loop over the  *)
(* vertices of m_graph, the choice of a shelter, and the distances to it   *)
(* that are kept for the vertices on the way.                              *)
EXTENDS RoadLengths, Sequences

CONSTANT Listed   \* m_exitnodeinfolist: the shelters the evacuee knows

ASSUME ListedAssumption == Listed \subseteq Vertex

VARIABLES
    open,         \* shelters with room that are not marked full
    pending,      \* keys of p_nodes; the other entries are in nodes
    dst,          \* Dijkstra_Info::dst
    route,        \* Dijkstra_Info::route
    reach,        \* exit_distance_map; INF where it has no key
    phase,        \* "search", "choose" or how it ended
    shortest,     \* m_shortest
    remaining     \* m_exit_distance_map

search == << open, pending, dst, route, reach, phase, shortest, remaining >>

Settled == roads.entry \ pending

DRInit ==
    /\ open \in SUBSET Listed
    /\ pending = roads.entry
    /\ dst = [v \in Vertex |-> IF v = no THEN 0 ELSE INF]
    /\ route = [v \in Vertex |-> << >>]
    /\ reach = [v \in Vertex |-> INF]
    /\ phase = "search"
    /\ shortest = << >> /\ remaining = << >>

(* select_node: the first of the vertices with the smallest dst below INF. *)
IsSelected(v) ==
    /\ v \in pending /\ dst[v] < INF
    /\ \A u \in pending : dst[v] < dst[u] \/ (dst[v] = dst[u] /\ v <= u)

UpdatedByRoad(v, u) ==                    \* mutant: only the last road is compared
    u \in pending \ {v} /\ IsRoad(v, u) /\ dst[u] > roads.len[v][u]

(* upd_map: the vertices to which the way over v is shorter. *)
IsUpdated(v, u) ==
    u \in pending \ {v} /\ IsRoad(v, u) /\ dst[u] > dst[v] + roads.len[v][u]

FirstReach(v, u) ==                       \* mutant: the first distance is kept
    IF IsUpdated(v, u) /\ reach[u] = INF THEN dst[v] + roads.len[v][u] ELSE reach[u]

Reached(v, u) ==
    IF IsUpdated(v, u) /\ reach[u] > dst[v] + roads.len[v][u]
    THEN dst[v] + roads.len[v][u] ELSE reach[u]

NothingErased(v) == pending               \* mutant: p_nodes.erase is missing

LeftPending(v) == pending \ {v}

(* One round of the loop. *)
Settle(v) ==
    /\ phase = "search" /\ IsSelected(v)
    /\ pending' = LeftPending(v)
    /\ dst' = [u \in Vertex |-> IF IsUpdated(v, u) THEN dst[v] + roads.len[v][u] ELSE dst[u]]
    /\ route' = [u \in Vertex |-> IF IsUpdated(v, u) THEN Append(route[v], v) ELSE route[u]]
    /\ reach' = [u \in Vertex |-> Reached(v, u)]
    /\ UNCHANGED << open, phase, shortest, remaining >>

(* Nothing is left, or select_node is still the vertex of the round before *)
(* (or none), which p_nodes.at does not find.                              *)
Break ==
    /\ phase = "search" /\ \A v \in pending : dst[v] >= INF
    /\ phase' = "choose"
    /\ UNCHANGED << open, pending, dst, route, reach, shortest, remaining >>

(* The first of the nearest open shelters, by id. *)
IsTarget(s) ==
    /\ s \in open
    /\ \A t \in open : dst[s] < dst[t] \/ (dst[s] = dst[t] /\ s <= t)

WayTo(s) == Append(route[s], s)

(* exit_distance - exit_distance_map.at(id), where there is a key. *)
RemainingOn(s) ==
    [v \in {u \in {WayTo(s)[i] : i \in 1 .. Len(WayTo(s))} : reach[u] # INF} |->
        dst[s] - reach[v]]

(* One listed shelter that is not in nodes ends the calculation without a  *)
(* result; no open shelter ends the program.                               *)
Choose ==
    /\ phase = "choose"
    /\ \/ /\ \E s \in Listed : s \notin Settled
          /\ phase' = "none" /\ UNCHANGED << shortest, remaining >>
       \/ /\ Listed \subseteq Settled /\ open = {}
          /\ phase' = "aborted" /\ UNCHANGED << shortest, remaining >>
       \/ /\ Listed \subseteq Settled
          /\ \E s \in open :
                IsTarget(s) /\ shortest' = WayTo(s) /\ remaining' = RemainingOn(s)
          /\ phase' = "found"
    /\ UNCHANGED << open, pending, dst, route, reach >>

Init == RLInit /\ DRInit

DRNext == (\E v \in Vertex : Settle(v)) \/ Break \/ Choose

Next == DRNext /\ UNCHANGED << roads, no >>

vars == << roads, no, search >>

Spec == Init /\ [][Next]_vars

-----------------------------------------------------------------------------
TypeOK ==
    /\ roads \in RoadMap /\ no \in Vertex
    /\ open \subseteq Listed /\ pending \subseteq roads.entry
    /\ dst \in [Vertex -> Nat] /\ reach \in [Vertex -> Nat]
    /\ route \in [Vertex -> Seq(Vertex)] /\ shortest \in Seq(Vertex)
    /\ phase \in {"search", "choose", "none", "aborted", "found"}

(* No road between vertices with an entry offers a shorter way than the    *)
(* one recorded, once the loop has settled where the road begins.          *)
NoShortcut ==
    \A u \in Settled, v \in roads.entry :
        IsRoad(u, v) => dst[v] <= dst[u] + roads.len[u][v]

(* The way recorded is one the roads allow: it comes over a settled vertex *)
(* whose own way it continues by one road.                                 *)
WayExists ==
    \A v \in roads.entry \ {no} : dst[v] < INF =>
        \E u \in Settled :
            /\ IsRoad(u, v) /\ dst[v] = dst[u] + roads.len[u][v]
            /\ route[v] = Append(route[u], u)

(* What the loop leaves pending is out of reach: no road leads to it from  *)
(* a settled vertex, save beyond the length INF.                           *)
LeftUnreachable ==
    phase # "search" =>
        \A u \in Settled, v \in pending :
            IsRoad(u, v) => dst[u] + roads.len[u][v] >= INF

(* The certificate that the distances of the loop are shortest distances,  *)
(* valid from round to round: no road gives a shorter way, every distance  *)
(* is that of a way, and the loop does not end too early.                  *)
Certified == NoShortcut /\ WayExists /\ LeftUnreachable

(* Once the search has ended: if it has no result, one of the listed       *)
(* shelters is out of reach.  Otherwise the way found leads over vertices  *)
(* with an entry to an open shelter, and no way to any open shelter is     *)
(* shorter; and what is kept for every vertex on it is the length of the   *)
(* rest of the way, to which no way from that vertex is shorter.           *)
FindsNearestAmong(W) ==
    /\ phase = "none" => \E s \in Listed : NoShorter(INF, no, s, roads.entry, W)
    /\ phase = "found" =>
        LET n == Len(shortest)
            s == shortest[n]
        IN
        /\ s \in open /\ WayFrom(shortest, no, s, roads.entry)
        /\ \A t \in open : NoShorter(LengthOf(shortest), no, t, roads.entry, W)
        /\ DOMAIN remaining = {shortest[i] : i \in 2 .. n}
        /\ \A i \in 2 .. n : LET v == shortest[i] IN
            /\ remaining[v] = LengthOf(SubSeq(shortest, i, n))
            /\ NoShorter(remaining[v], v, s, roads.entry, W)

(* This is what the forecast of arrival and the neighbours told of it rely *)
(* on.                                                                     *)
FindsNearest == FindsNearestAmong(Ways)
=============================================================================
