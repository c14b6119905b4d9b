---------------------------- MODULE PatrolRoutes -----------------------------
(***************************************************************************)
(* How the patrol routes are computed.  MyBuilding::CalculatePatrolRoute   *)
(* and the last part of MyUser::ChangePatrolRoute both order a set of      *)
(* stops by the nearest-neighbour rule.  dist is the distance between two  *)
(* places; order is the position of a place in the container the loop      *)
(* runs over, and decides between places at the same distance.             *)
(***************************************************************************)
EXTENDS Integers, Sequences, FiniteSets

(* The inner loop: the first of the nearest places, since d < min_dist is  *)
(* a strict comparison.                                                    *)
Nearest(dist, order, here, left) ==
    CHOOSE c \in left : \A d \in left :
        \/ dist[here, c] < dist[here, d]
        \/ dist[here, c] = dist[here, d] /\ order[c] <= order[d]

(* Mutant of Tour: the current position is not moved along.                *)
TourFromOrigin(dist, order, origin, stops) ==
    LET tour[left \in SUBSET stops] ==
          IF left = {} THEN << >>
          ELSE LET c == Nearest(dist, order, origin, left)
               IN <<c>> \o tour[left \ {c}]
    IN tour[stops]

(* The outer loop: go to the nearest place that is left, and on from there.*)
Tour(dist, order, origin, stops) ==
    LET tour[left \in SUBSET stops] ==
          [here \in stops \cup {origin} |->
             IF left = {} THEN << >>
             ELSE LET c == Nearest(dist, order, here, left)
                  IN <<c>> \o tour[left \ {c}][c]]
    IN tour[stops][origin]

(* The round of the shelters begins at ferry_start, the first shelter.     *)
CalculatePatrolRoute(dist, order, shelters) ==
    LET first == CHOOSE s \in shelters : \A t \in shelters : order[s] <= order[t]
    IN <<first>> \o Tour(dist, order, first, shelters \ {first})

(* The crossings whose precomputed way to a shelter leads over block b.    *)
ImpactNodes(path, b) == {c \in DOMAIN path : \E i \in 1 .. Len(path[c]) : path[c][i] = b}

(* Their patrol, which begins at the one nearest to the block.             *)
ImpactRouteOf(dist, order, path, b) == Tour(dist, order, b, ImpactNodes(path, b))
-----------------------------------------------------------------------------
(* What a round is, without a search: the reference for the loops.         *)

(* The orders in which each place of S is visited exactly once. *)
Orders(S) ==
    {r \in [1 .. Cardinality(S) -> S] :
        \A s \in S : \E i \in DOMAIN r : r[i] = s /\ \A j \in DOMAIN r : r[j] = s => j = i}

(* Every flight after the first goes to a place nearest among those still  *)
(* to come, the first among equals.                                        *)
Greedy(dist, order, r) ==
    \A i \in 1 .. Len(r) - 1 : \A j \in i + 1 .. Len(r) :
        \/ dist[r[i], r[i + 1]] < dist[r[i], r[j]]
        \/ dist[r[i], r[i + 1]] = dist[r[i], r[j]] /\ order[r[i + 1]] <= order[r[j]]

(* The rounds over S that begin at its first place. *)
GreedyRounds(dist, order, S) ==
    {r \in Orders(S) : Greedy(dist, order, r) /\ \A s \in S : order[r[1]] <= order[s]}
==============================================================================
