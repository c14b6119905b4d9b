---------------------------- MODULE RoadLengths ----------------------------
(* A road graph with the lengths of its roads, as both searches for        *)
(* shortest ways take it: DijkstraRoute (an evacuee's search) and          *)
(* DijkstraPair (the ways calculated in advance for all places).           *)
EXTENDS Integers, Sequences, FiniteSets

CONSTANTS
    Vertex,     \* vertices, numbered in the order of their coordinates
    Maps,       \* the road graphs considered
    INF         \* length of no way; a bound on the lengths of all ways

(* entry: vertices that have an entry; len: 0 for what is no neighbour. *)
RoadMap == [entry : SUBSET Vertex, len : [Vertex -> [Vertex -> Nat]]]

ASSUME MapsAssumption ==
    /\ Vertex \subseteq Nat /\ IsFiniteSet(Vertex)
    /\ INF \in Nat \ {0}
    /\ Maps \subseteq RoadMap

VARIABLES
    roads,      \* the road graph
    no          \* where the ways begin

RLInit == roads \in Maps /\ no \in Vertex

IsRoad(u, v) == roads.len[u][v] # 0

-----------------------------------------------------------------------------
(* What a shortest way is, without a search: the reference for both.       *)

(* The length of a sequence of vertices up to each of them. *)
LengthUpTo(p) ==
    LET l[i \in 0 .. Len(p)] ==
          IF i <= 1 THEN 0 ELSE l[i - 1] + roads.len[p[i - 1]][p[i]]
    IN  l

LengthOf(p) == LengthUpTo(p)[Len(p)]

(* p is a way from u to v along roads and over vertices of E only. *)
WayFrom(p, u, v, E) ==
    /\ Len(p) > 0 /\ p[1] = u /\ p[Len(p)] = v
    /\ \A i \in 1 .. Len(p) : p[i] \in E
    /\ \A i \in 1 .. Len(p) - 1 : IsRoad(p[i], p[i + 1])

(* None of the ways W from u to v is shorter than d. *)
NoShorter(d, u, v, E, W) ==
    \A q \in W : WayFrom(q, u, v, E) => d <= LengthOf(q)

(* All ways without a vertex twice, as many as TLC can look at.  The       *)
(* theorems are about Seq(Vertex), all ways, as well.                      *)
Ways ==
    UNION {{p \in [1 .. k -> Vertex] : \A i, j \in 1 .. k : p[i] = p[j] => i = j} :
              k \in 1 .. Cardinality(Vertex)}
=============================================================================
