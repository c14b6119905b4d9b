---------------------------- MODULE DijkstraPair ----------------------------
(* The ways calculated in advance (JSON_Data::precalculate_shortest_paths): *)
(* dijkstra_pair with its priority queue, the choice among the three        *)
(* nearest shelters, and reconstruct_path_pair.  Ferries patrol the         *)
(* crossings whose way leads over a block (PatrolRoutes, ImpactNodes).      *)
EXTENDS RoadLengths, Sequences, FiniteSets

CONSTANTS
    Exits,        \* exit_nodes: all shelters of the map
    Dummy         \* the coordinate (-1,-1)

ASSUME DummyAssumption == Exits \subseteq Vertex /\ Dummy \notin Vertex

VARIABLES
    dist,         \* dist
    parent,       \* parent
    pq,           \* pairs of a distance and a vertex; none is pushed twice
    stored        \* the way and the shelter kept, a sequence of at most one

pair == << dist, parent, pq, stored >>

DPInit ==
    /\ dist = [v \in Vertex |-> IF v = no THEN 0 ELSE INF]
    /\ parent = [v \in Vertex |-> Dummy]
    /\ pq = {<< 0, no >>}
    /\ stored = << >>

IsTop(e) == e \in pq /\ \A f \in pq : e[1] < f[1] \/ (e[1] = f[1] /\ e[2] <= f[2])

(* No vertex is missing from the map here. *)
IsRelaxed(u, v) == IsRoad(u, v) /\ dist[u] + roads.len[u][v] < dist[v]

FirstParent(u, v) ==                      \* mutant: the first predecessor is kept
    IF IsRelaxed(u, v) /\ parent[v] = Dummy THEN u ELSE parent[v]

ParentFrom(u, v) == IF IsRelaxed(u, v) THEN u ELSE parent[v]

(* An entry of pq that is out of date is dropped. *)
StaleOrEqual(e) == e[1] >= dist[e[2]]     \* mutant: entries up to date are dropped

IsStale(e) == e[1] > dist[e[2]]

Pop(e) ==
    /\ IsTop(e)
    /\ IF IsStale(e)
       THEN pq' = pq \ {e} /\ UNCHANGED << dist, parent, stored >>
       ELSE LET u == e[2]
                R == {v \in Vertex : IsRelaxed(u, v)}
            IN  /\ dist' = [v \in Vertex |-> IF v \in R THEN dist[u] + roads.len[u][v] ELSE dist[v]]
                /\ parent' = [v \in Vertex |-> ParentFrom(u, v)]
                /\ pq' = (pq \ {e}) \cup {<< dist[u] + roads.len[u][v], v >> : v \in R}
                /\ UNCHANGED stored

(* reconstruct_path_pair: back over the parents to no or to the dummy, as  *)
(* far as there are vertices.                                              *)
Back(v) ==
    LET chain[k \in 0 .. Cardinality(Vertex)] ==
          IF k = 0 THEN << v >>
          ELSE LET c == chain[k - 1] IN
               IF c[1] \in {no, Dummy} THEN c ELSE << parent[c[1]] >> \o c
    IN  chain[Cardinality(Vertex)]

Path(v) == IF Back(v)[1] = no THEN Back(v) ELSE << >>

(* One of the three nearest shelters; among equals any order. *)
Candidate == {s \in Exits : Cardinality({t \in Exits : dist[t] < dist[s]}) < 3}

Store ==
    /\ pq = {} /\ stored = << >>
    /\ \E s \in Candidate : stored' = << [way |-> Path(s), shelter |-> s] >>
    /\ UNCHANGED << dist, parent, pq >>

DPNext == (\E e \in pq : Pop(e)) \/ Store

DPSpec ==
    RLInit /\ DPInit /\ [][DPNext /\ UNCHANGED << roads, no >>]_<< roads, no, pair >>

-----------------------------------------------------------------------------
(* Following the parents from a vertex that was reached goes along roads   *)
(* to ever smaller distances, so reconstruct_path_pair ends, and ends at   *)
(* no; the parents of the others are the dummy.                            *)
ParentsLeadBack ==
    \A v \in Vertex \ {no} :
        IF dist[v] < INF
        THEN parent[v] \in Vertex /\ dist[parent[v]] < dist[v] /\ IsRoad(parent[v], v)
        ELSE parent[v] = Dummy

(* A vertex reached either offers no shortcut or still is in the queue     *)
(* with its distance, so no entry dropped as out of date is missed.        *)
QueueCovers ==
    \A u, v \in Vertex :
        dist[u] < INF /\ << dist[u], u >> \notin pq /\ IsRoad(u, v)
            => dist[v] <= dist[u] + roads.len[u][v]

(* Both hold after every entry taken from the queue, whatever was pushed   *)
(* twice with different distances.                                         *)
PairCertified == ParentsLeadBack /\ QueueCovers

(* There is a way to t shorter than all ways to s. *)
Nearer(t, s, W) ==
    \E q \in W : /\ WayFrom(q, no, t, Vertex) /\ LengthOf(q) < INF
                 /\ NoShorter(LengthOf(q) + 1, no, s, Vertex, W)

(* The way calculated in advance is a shortest way to the shelter kept     *)
(* with it, to which at most two are nearer; it is empty only if there is  *)
(* none, which may be the case although another shelter can be reached.    *)
StoredShortestAmong(W) ==
    stored # << >> =>
        LET way == stored[1].way
            s == stored[1].shelter
        IN
        /\ Cardinality({t \in Exits : Nearer(t, s, W)}) < 3
        /\ IF way = << >> THEN NoShorter(INF, no, s, Vertex, W)
           ELSE WayFrom(way, no, s, Vertex) /\ NoShorter(LengthOf(way), no, s, Vertex, W)

(* So the crossings that ferries patrol for a block are those whose        *)
(* shortest way leads over it.                                             *)
StoredIsShortest == StoredShortestAmong(Ways)
=============================================================================
