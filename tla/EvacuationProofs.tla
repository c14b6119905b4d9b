-------------------------- MODULE EvacuationProofs --------------------------
(* Proofs about Evacuation for any users, roads and capacities.  The       *)
(* inductive invariant IInv of Evacuation relates the route of a user, its *)
(* marks and the places left; the lemmas follow one run of                 *)
(* HandleUserMovement: what it notes, the route it takes, the step it      *)
(* makes, the place it takes.                                              *)
(* At the end: the sum of the counts of users under way.                   *)
EXTENDS Evacuation, DataInduction, FiniteSetTheorems, TLAPS

(* All that IInv says about a user under way. *)
Sound(r) ==
    /\ TargetSound(r) /\ RouteSound(r) /\ PlaceSound(r)
    /\ DeadEndSound(r) /\ MarksSound(r)

(* What the assumptions say of the rest of a shortest way after its start. *)
LEMMA RouteFacts ==
    ASSUME NEW c \in Crossing, NEW s \in Shelter
    PROVE  LET T == Tail(Route[c][s]) IN
           /\ T \in Seq(Node)
           /\ T # << >> => Ends(T) = s
           /\ T = << >> => s = c
           /\ \A i \in 1 .. Len(T) - 1 : T[i] \in Crossing
           /\ \A n \in Elements(T) \cap Shelter : n # s => Dist[c][n] < Dist[c][s]
           /\ c \in Shelter /\ c # s => Dist[c][c] < Dist[c][s]
           /\ s \notin Crossing =>
                Turn[s] = IF Len(T) = 1 THEN c ELSE T[Len(T) - 1]
<1> DEFINE R == Route[c][s]
           T == Tail(Route[c][s])
<1>1. R \in Seq(Node) /\ R # << >> /\ R[1] = c /\ R[Len(R)] = s
  BY RoadAssumption
<1>2. \A i \in 1 .. Len(R) - 1 :
        R[i] \in Crossing /\ (R[i] \in Shelter => Dist[c][R[i]] < Dist[c][s])
  BY RoadAssumption
<1>3. s \notin Crossing => R[Len(R) - 1] = Turn[s]
  BY RoadAssumption
<1>4. T \in Seq(Node) /\ Len(T) = Len(R) - 1 /\ Len(R) \in Nat \ {0}
      /\ \A i \in 1 .. Len(T) : T[i] = R[i + 1]
  BY <1>1
<1> HIDE DEF R, T
<1>5. T # << >> => Ends(T) = s
  BY <1>1, <1>4 DEF Ends
<1>6. T = << >> => s = c
  <2> SUFFICES ASSUME T = << >> PROVE s = c
    OBVIOUS
  <2>1. Len(T) = 0
    OBVIOUS
  <2>2. Len(R) = 1
    BY <2>1, <1>4
  <2> QED
    BY <2>2, <1>1
<1>7. \A i \in 1 .. Len(T) - 1 : T[i] \in Crossing
  <2> SUFFICES ASSUME NEW i \in 1 .. Len(T) - 1 PROVE T[i] \in Crossing
    OBVIOUS
  <2>1. i \in 1 .. Len(T) /\ i + 1 \in 1 .. Len(R) - 1
    BY <1>4
  <2> QED
    BY <2>1, <1>2, <1>4
<1>8. \A n \in Elements(T) \cap Shelter : n # s => Dist[c][n] < Dist[c][s]
  <2> SUFFICES ASSUME NEW i \in 1 .. Len(T), T[i] \in Shelter, T[i] # s
               PROVE  Dist[c][T[i]] < Dist[c][s]
    BY DEF Elements
  <2>1. i + 1 \in 1 .. Len(R) - 1
    BY <1>1, <1>4
  <2> QED
    BY <2>1, <1>2, <1>4
<1>9. c \in Shelter /\ c # s => Dist[c][c] < Dist[c][s]
  <2>1. c # s => 1 \in 1 .. Len(R) - 1
    BY <1>1, <1>4
  <2> QED
    BY <2>1, <1>2, <1>1
<1>10. s \notin Crossing => Turn[s] = IF Len(T) = 1 THEN c ELSE T[Len(T) - 1]
  <2>1. s \notin Crossing => Len(R) # 1
    BY <1>1
  <2> QED
    BY <2>1, <1>1, <1>3, <1>4
<1> QED
  BY <1>4, <1>5, <1>6, <1>7, <1>8, <1>9, <1>10 DEF T

(* What HandleUserMovement notes first changes the marks and the request   *)
(* for a new route, and keeps the facts about the user.                    *)
LEMMA NotedFields ==
    ASSUME NEW r \in UserState
    PROVE  /\ Noted(r) \in UserState
           /\ Noted(r).here = r.here /\ Noted(r).shortest = r.shortest
           /\ Noted(r).listed = r.listed /\ Noted(r).exitnode = r.exitnode
           /\ Noted(r).passed = r.passed /\ Noted(r).onRoute = r.onRoute
           /\ Noted(r).refuge = r.refuge /\ Noted(r).isExit = r.isExit
           /\ r.isDijkstra => Noted(r).isDijkstra
           /\ AtFullShelter(r) => Noted(r).isDijkstra /\ r.here \in Noted(r).full
           /\ r.full \subseteq Noted(r).full
           /\ Noted(r).full \subseteq
                r.full \cup {s \in Shelter : space[s] = 0}
<1>1. AtFullShelter(r) \in BOOLEAN /\ r.here \in Node /\ r.full \subseteq Node
      /\ r.isDijkstra \in BOOLEAN
  BY DEF AtFullShelter, UserState
<1> DEFINE b == \/ r.isDijkstra
                \/ r.shortest # << >> /\ Ends(r.shortest) \in r.full
                \/ AtFullShelter(r)
           f == IF AtFullShelter(r) THEN r.full \cup {r.here} ELSE r.full
<1>2. Noted(r) = [r EXCEPT !.isDijkstra = b, !.full = f]
  BY DEF Noted
<1>3. b \in BOOLEAN /\ (r.isDijkstra => b) /\ (AtFullShelter(r) => b)
  OBVIOUS
<1>4. /\ f \subseteq Node /\ r.full \subseteq f
      /\ AtFullShelter(r) => r.here \in f
      /\ f \subseteq r.full \cup {s \in Shelter : space[s] = 0}
  BY <1>1 DEF AtFullShelter
<1> HIDE DEF b, f
<1>5. Noted(r) \in UserState /\ Noted(r).full = f
  BY <1>2, <1>3, <1>4 DEF UserState
<1>6. Noted(r).isDijkstra = b
  BY <1>2, <1>3 DEF UserState
<1>7. /\ Noted(r).here = r.here /\ Noted(r).shortest = r.shortest
      /\ Noted(r).listed = r.listed /\ Noted(r).exitnode = r.exitnode
      /\ Noted(r).passed = r.passed /\ Noted(r).onRoute = r.onRoute
      /\ Noted(r).refuge = r.refuge /\ Noted(r).isExit = r.isExit
  BY <1>2, <1>3 DEF UserState
<1> QED
  BY <1>3, <1>4, <1>5, <1>6, <1>7

(* Noting that a shelter is full keeps the facts about the user.          *)
LEMMA NotedSound ==
    ASSUME NEW r \in UserState, Sound(r)
    PROVE  Sound(Noted(r))
<1>1. TargetSound(Noted(r))
  BY NotedFields DEF Sound, TargetSound
<1>2. RouteSound(Noted(r))
  BY NotedFields DEF Sound, RouteSound
<1>3. PlaceSound(Noted(r))
  BY NotedFields DEF Sound, PlaceSound
<1>4. DeadEndSound(Noted(r))
  BY NotedFields DEF Sound, DeadEndSound
<1>5. MarksSound(Noted(r))
  BY NotedFields DEF Sound, MarksSound
<1> QED
  BY <1>1, <1>2, <1>3, <1>4, <1>5 DEF Sound

(* Places only go down from the capacity. *)
WithinCapacity == \A s \in Shelter : Capacity[s] = 0 => space[s] = 0

(* The fields after a new route has been taken.                            *)
LEMMA TakeRouteFields ==
    ASSUME NEW r \in UserState, r.here \in Crossing, NEW s \in Shelter
    PROVE  LET q == TakeRoute(r, s) IN
           /\ q \in UserState
           /\ q.here = r.here /\ q.shortest = Tail(Route[r.here][s])
           /\ q.listed = r.listed /\ q.exitnode = s /\ q.full = r.full
           /\ q.passed = r.here /\ q.onRoute = Elements(Tail(Route[r.here][s]))
           /\ q.refuge = r.refuge /\ q.isExit = r.isExit
           /\ q.isDijkstra = FALSE
<1>1. Tail(Route[r.here][s]) \in Seq(Node)
  BY RouteFacts
<1>2. Elements(Tail(Route[r.here][s])) \subseteq Node
  BY <1>1 DEF Elements
<1> QED
  BY <1>1, <1>2 DEF TakeRoute, UserState

(* The nearest shelter not marked: whatever shelter lies on the way to it  *)
(* is full.                                                                *)
LEMMA NearerIsFull ==
    ASSUME NEW r \in UserState, MarksSound(r), WithinCapacity,
           r.here \in Crossing, NEW s \in NearestOpen(r), NEW n \in Shelter,
           Dist[r.here][n] < Dist[r.here][s]
    PROVE  space[n] = 0
<1>1. s \in Shelter /\ s \in Eligible(r)
  BY DEF NearestOpen, Eligible, UserState
<1>2. Dist[r.here][n] \in Nat /\ Dist[r.here][s] \in Nat
  BY <1>1, RoadAssumption
<1>3. n \notin Eligible(r)
  BY <1>2 DEF NearestOpen
<1>4. n \in r.full \/ Capacity[n] = 0
  BY <1>3 DEF Eligible, MarksSound
<1> QED
  BY <1>4 DEF MarksSound, WithinCapacity

(* A new route to a nearest shelter restores the facts about the user.     *)
LEMMA TakeRouteSound ==
    ASSUME NEW r \in UserState, Sound(r), WithinCapacity,
           r.here \in Crossing, NEW s \in NearestOpen(r)
    PROVE  Sound(TakeRoute(r, s)) /\ s \in Shelter
<1> DEFINE q == TakeRoute(r, s)
           T == Tail(Route[r.here][s])
<1>1. s \in Shelter /\ s \in r.listed
  BY DEF NearestOpen, Eligible, UserState
<1>2. /\ q.here = r.here /\ q.shortest = T /\ q.listed = r.listed
      /\ q.exitnode = s /\ q.full = r.full /\ q.passed = r.here
      /\ q.onRoute = Elements(T)
  BY <1>1, TakeRouteFields
<1>3. /\ T \in Seq(Node)
      /\ T # << >> => Ends(T) = s
      /\ T = << >> => s = r.here
      /\ \A i \in 1 .. Len(T) - 1 : T[i] \in Crossing
      /\ \A n \in Elements(T) \cap Shelter :
            n # s => Dist[r.here][n] < Dist[r.here][s]
      /\ r.here \in Shelter /\ r.here # s => Dist[r.here][r.here] < Dist[r.here][s]
      /\ s \notin Crossing => Turn[s] = IF Len(T) = 1 THEN r.here ELSE T[Len(T) - 1]
  BY <1>1, RouteFacts
<1>4. \A n \in Shelter : Dist[r.here][n] < Dist[r.here][s] => space[n] = 0
  BY NearerIsFull DEF Sound
<1>5. s # NoNode
  BY <1>1, RoadAssumption
<1> HIDE DEF q, T
<1>6. TargetSound(q)
  BY <1>1, <1>2, <1>5 DEF TargetSound
<1>7. RouteSound(q)
  BY <1>2, <1>3, <1>4 DEF RouteSound
<1>8. PlaceSound(q)
  BY <1>2, <1>3, <1>4 DEF PlaceSound
<1>9. DeadEndSound(q)
  BY <1>2, <1>3 DEF DeadEndSound
<1>10. MarksSound(q)
  BY <1>2 DEF MarksSound, Sound
<1> QED
  BY <1>1, <1>6, <1>7, <1>8, <1>9, <1>10 DEF Sound, q

(* The crossing n is the next vertex of the route. *)
OnFront(r, n) == r.shortest # << >> /\ Head(r.shortest) = n

(* The user after a step to the crossing n. *)
AtCrossing(r, n, f) == [TaskOfCrossing(r, n, f) EXCEPT !.here = n]

(* The fields after a step to a crossing n, at which TaskOfCrossing runs. *)
LEMMA CrossingFields ==
    ASSUME NEW r \in UserState, NEW n \in Crossing, NEW f \in BOOLEAN
    PROVE  LET q == AtCrossing(r, n, f) IN
           /\ q \in UserState
           /\ q.here = n /\ q.exitnode = r.exitnode /\ q.onRoute = r.onRoute
           /\ q.refuge = r.refuge /\ q.isExit = r.isExit
           /\ r.isDijkstra => q.isDijkstra
           /\ f => q.full = r.full \cup {n} /\ q.listed = r.listed \ {n}
           /\ ~f => q.full = r.full /\ q.listed = r.listed
           /\ OnFront(r, n) => q.passed = n /\ q.shortest = Tail(r.shortest)
           /\ ~OnFront(r, n) => q.passed = r.passed /\ q.shortest = r.shortest
<1> DEFINE b == r.isDijkstra \/ f
           full == IF f THEN r.full \cup {n} ELSE r.full
           listed == IF f THEN r.listed \ {n} ELSE r.listed
           passed == IF OnFront(r, n) THEN n ELSE r.passed
           shortest == IF OnFront(r, n) THEN Tail(r.shortest) ELSE r.shortest
           q == AtCrossing(r, n, f)
<1>1. /\ r.full \subseteq Node /\ r.listed \subseteq Shelter
      /\ r.passed \in Node \cup {NoNode} /\ r.shortest \in Seq(Node)
      /\ r.isDijkstra \in BOOLEAN
  BY DEF UserState
<1>2. n \in Node
  BY RoadAssumption
<1>3. full \subseteq Node /\ listed \subseteq Shelter
      /\ passed \in Node \cup {NoNode}
  BY <1>1, <1>2
<1>4. shortest \in Seq(Node)
  BY <1>1 DEF OnFront
<1>5. b \in BOOLEAN /\ (r.isDijkstra => b)
  OBVIOUS
<1>6. q = [r EXCEPT !.isDijkstra = b, !.full = full, !.listed = listed,
                    !.passed = passed, !.shortest = shortest, !.here = n]
  BY DEF AtCrossing, TaskOfCrossing, UserState, OnFront
<1> HIDE DEF full, listed, passed, shortest, b, q
<1>7. q \in UserState
  BY <1>2, <1>3, <1>4, <1>5, <1>6 DEF UserState
<1>8. /\ q.here = n /\ q.exitnode = r.exitnode /\ q.onRoute = r.onRoute
      /\ q.refuge = r.refuge /\ q.isExit = r.isExit /\ q.full = full
      /\ q.listed = listed /\ q.passed = passed /\ q.shortest = shortest
  BY <1>5, <1>6 DEF UserState
<1>9. q.isDijkstra = b
  BY <1>5, <1>6 DEF UserState
<1> QED
  BY <1>5, <1>7, <1>8, <1>9 DEF full, listed, passed, shortest, q

(* The step along the route to the next crossing. *)
LEMMA StepToCrossingSound ==
    ASSUME NEW r \in UserState, Sound(r), r.shortest # << >>,
           NEW n \in Crossing, n = Head(r.shortest), NEW f \in BOOLEAN,
           f => CanForesee(r, n)
    PROVE  Sound(AtCrossing(r, n, f))
<1> DEFINE q == AtCrossing(r, n, f)
           S == r.shortest
           T == Tail(r.shortest)
<1>1. /\ q.here = n /\ q.exitnode = r.exitnode /\ q.onRoute = r.onRoute
      /\ f => q.full = r.full \cup {n} /\ q.listed = r.listed \ {n}
      /\ ~f => q.full = r.full /\ q.listed = r.listed
      /\ q.passed = n /\ q.shortest = T
  <2>1. OnFront(r, n)
    BY DEF OnFront
  <2> QED BY <2>1, CrossingFields
<1>2. S \in Seq(Node) /\ S # << >> /\ S[1] = n
  BY DEF UserState
<1>3. /\ T \in Seq(Node) /\ Len(T) = Len(S) - 1 /\ Len(S) \in Nat \ {0}
      /\ \A i \in 1 .. Len(T) : T[i] = S[i + 1]
  BY <1>2
<1>4. /\ r.exitnode # NoNode /\ r.exitnode \in r.listed
      /\ S[Len(S)] = r.exitnode
      /\ \A i \in 1 .. Len(S) - 1 : S[i] \in Crossing
      /\ \A m \in (Elements(S) \cup r.onRoute) \cap Shelter :
            m # r.exitnode => space[m] = 0
  BY DEF Sound, TargetSound, RouteSound, Ends
<1>5. f => n \in r.onRoute /\ n # r.exitnode
  BY DEF CanForesee
<1>6. n \in Elements(S) /\ Elements(T) \subseteq Elements(S)
  <2>1. n \in Elements(S)
    BY <1>2, <1>3 DEF Elements
  <2>2. ASSUME NEW i \in 1 .. Len(T) PROVE T[i] \in Elements(S)
    <3>1. i + 1 \in 1 .. Len(S)
      BY <1>3
    <3> QED BY <3>1, <1>3 DEF Elements
  <2> QED BY <2>1, <2>2 DEF Elements
<1>7. T = << >> => n = r.exitnode
  <2> SUFFICES ASSUME T = << >> PROVE n = r.exitnode
    OBVIOUS
  <2>1. Len(T) = 0
    <3> HIDE DEF T
    <3> QED OBVIOUS
  <2>2. Len(S) = 1
    BY <2>1, <1>3
  <2> QED BY <2>2, <1>2, <1>4
<1>8. T # << >> => Ends(T) = r.exitnode /\ Len(S) # 1
  BY <1>3, <1>4 DEF Ends
<1>9. r.exitnode \notin Crossing => Len(S) # 1
  BY <1>2, <1>4
<1>10. r.exitnode \notin Crossing /\ Len(S) # 1 => Turn[r.exitnode] = S[Len(S) - 1]
       \/ r.here \notin Crossing
  BY DEF Sound, DeadEndSound
<1>11. r.here \notin Crossing => S = << r.here >>
  BY DEF Sound, DeadEndSound
<1>12. r.here \in Crossing
  <2> SUFFICES ASSUME r.here \notin Crossing PROVE FALSE
    OBVIOUS
  <2>1. S[1] = r.here
    BY <1>11
  <2> QED BY <2>1, <1>2
<1>13. Shelter \ r.listed \subseteq r.full
       /\ \A s \in r.full \cap Shelter : space[s] = 0
  BY DEF Sound, MarksSound
<1> HIDE DEF q, S, T
<1>14. TargetSound(q)
  BY <1>1, <1>4, <1>5 DEF TargetSound
<1>15. RouteSound(q)
  <2>1. \A i \in 1 .. Len(T) - 1 : T[i] \in Crossing
    BY <1>3, <1>4
  <2> QED BY <2>1, <1>1, <1>4, <1>6, <1>8 DEF RouteSound
<1>16. PlaceSound(q)
  BY <1>1, <1>4, <1>6, <1>7 DEF PlaceSound
<1>17. DeadEndSound(q)
  <2> SUFFICES ASSUME T # << >>, r.exitnode \notin Crossing
               PROVE  Turn[r.exitnode] =
                        IF Len(T) = 1 THEN n ELSE T[Len(T) - 1]
    BY <1>1 DEF DeadEndSound
  <2>1. Turn[r.exitnode] = S[Len(S) - 1]
    BY <1>9, <1>10, <1>12
  <2>2. CASE Len(T) = 1
    BY <2>1, <2>2, <1>2, <1>3
  <2>3. CASE Len(T) # 1
    <3>1. Len(T) - 1 \in 1 .. Len(T)
      BY <2>3, <1>3, <1>9
    <3> QED BY <3>1, <2>1, <2>3, <1>3
  <2> QED BY <2>2, <2>3
<1>18. MarksSound(q)
  BY <1>1, <1>4, <1>5, <1>13 DEF MarksSound
<1> QED
  BY <1>14, <1>15, <1>16, <1>17, <1>18 DEF Sound, q

(* The step to a target at a dead end, where TaskOfCrossing does not run.  *)
LEMMA StepToDeadEndSound ==
    ASSUME NEW r \in UserState, Sound(r), r.shortest # << >>,
           r.here \in Crossing, NEW n \in Node \ Crossing,
           n = Head(r.shortest)
    PROVE  LET q == [r EXCEPT !.here = n] IN q \in UserState /\ Sound(q)
<1> DEFINE q == [r EXCEPT !.here = n]
           S == r.shortest
<1>1. /\ q \in UserState /\ q.here = n /\ q.exitnode = r.exitnode
      /\ q.onRoute = r.onRoute /\ q.full = r.full /\ q.listed = r.listed
      /\ q.shortest = S
  BY DEF UserState
<1>2. q.isDijkstra = r.isDijkstra
  BY DEF UserState
<1>3. S \in Seq(Node) /\ S # << >> /\ S[1] = n
  BY DEF UserState
<1>4. /\ r.exitnode # NoNode /\ r.exitnode \in r.listed
      /\ S[Len(S)] = r.exitnode
      /\ \A i \in 1 .. Len(S) - 1 : S[i] \in Crossing
  BY DEF Sound, TargetSound, RouteSound, Ends
<1>5. Len(S) = 1 /\ S = << n >> /\ n = r.exitnode
  <2> HIDE DEF S
  <2>1. Len(S) = 1
    <3>1. Len(S) \in Nat \ {0}
      BY <1>3
    <3>2. S[1] \notin Crossing
      BY <1>3
    <3>3. 1 \notin 1 .. Len(S) - 1
      BY <3>2, <1>4
    <3>4. \A k \in Nat \ {0} : 1 \notin 1 .. k - 1 => k = 1
      OBVIOUS
    <3> QED BY <3>1, <3>3, <3>4
  <2>2. S = << n >>
    BY <2>1, <1>3
  <2> QED BY <2>1, <2>2, <1>3, <1>4
<1>6. Turn[n] = r.here
  BY <1>5 DEF Sound, DeadEndSound
<1>7. r.here \in Shelter => space[r.here] = 0
  BY <1>5 DEF Sound, PlaceSound
<1> HIDE DEF q
<1>8. TargetSound(q)
  BY <1>1, <1>4 DEF TargetSound
<1>9. RouteSound(q)
  BY <1>1 DEF Sound, RouteSound
<1>10. PlaceSound(q)
  BY <1>1, <1>3, <1>5 DEF PlaceSound
<1>11. DeadEndSound(q)
  BY <1>1, <1>5, <1>6, <1>7 DEF DeadEndSound
<1>12. MarksSound(q)
  BY <1>1 DEF Sound, MarksSound
<1> QED
  BY <1>1, <1>8, <1>9, <1>10, <1>11, <1>12 DEF Sound, q

(* Turning round at a dead end. *)
LEMMA TurnSound ==
    ASSUME NEW r \in UserState, Sound(r), r.here \notin Crossing,
           NEW f \in BOOLEAN, f => CanForesee(r, Turn[r.here])
    PROVE  Sound(AtCrossing(r, Turn[r.here], f))
<1> DEFINE n == Turn[r.here]
           q == AtCrossing(r, n, f)
<1>1. n \in Crossing
  BY RoadAssumption DEF UserState
<1>2. /\ q.here = n /\ q.exitnode = r.exitnode /\ q.onRoute = r.onRoute
      /\ r.isDijkstra => q.isDijkstra
      /\ f => q.full = r.full \cup {n} /\ q.listed = r.listed \ {n}
      /\ ~f => q.full = r.full /\ q.listed = r.listed
      /\ ~OnFront(r, n) => q.passed = r.passed /\ q.shortest = r.shortest
  BY <1>1, CrossingFields
<1>3. r.shortest # << >> => /\ r.shortest = << r.here >>
                            /\ r.exitnode = r.here
                            /\ n \in Shelter => space[n] = 0
  BY DEF Sound, DeadEndSound, RouteSound, Ends
<1>4. ~OnFront(r, n)
  BY <1>1, <1>3 DEF OnFront
<1>5. r.shortest = << >> => r.exitnode = NoNode /\ r.onRoute = {}
  BY DEF Sound, PlaceSound, TargetSound
<1>6. f => n \in r.onRoute /\ n # r.exitnode
  BY DEF CanForesee
<1>7. r.exitnode # NoNode => r.exitnode \in r.listed
  BY DEF Sound, TargetSound
<1> HIDE DEF n, q
<1>8. TargetSound(q)
  <2>1. r.exitnode = NoNode =>
            r.isDijkstra /\ r.shortest = << >> /\ r.onRoute = {}
    BY DEF Sound, TargetSound
  <2> QED BY <2>1, <1>2, <1>4, <1>6, <1>7 DEF TargetSound
<1>9. RouteSound(q)
  BY <1>2, <1>4 DEF Sound, RouteSound
<1>10. PlaceSound(q)
  BY <1>2, <1>3, <1>4, <1>5 DEF PlaceSound
<1>11. DeadEndSound(q)
  <2>1. r.shortest # << >> => Len(r.shortest) = 1
    <3>1. Len(<< r.here >>) = 1
      OBVIOUS
    <3> QED BY <3>1, <1>3
  <2> QED BY <2>1, <1>1, <1>2, <1>3, <1>4 DEF DeadEndSound, n
<1>12. MarksSound(q)
  <2>1. f /\ n \in Shelter => space[n] = 0
    BY <1>6 DEF Sound, RouteSound
  <2> QED BY <2>1, <1>2 DEF Sound, MarksSound
<1> QED
  BY <1>8, <1>9, <1>10, <1>11, <1>12 DEF Sound, q, n

(* One step of a user who does not enter a shelter. *)
LEMMA WalkSound ==
    ASSUME NEW r \in UserState, Sound(r),
           r.here \in Crossing => r.shortest # << >>,
           NEW f \in BOOLEAN, f => CanForesee(r, NextNode(r))
    PROVE  LET q == GetWayNextVector(r, f) IN
           /\ q \in UserState /\ Sound(q)
           /\ q.refuge = r.refuge /\ q.isExit = r.isExit
           /\ q.exitnode = r.exitnode
<1> DEFINE n == NextNode(r)
           q == GetWayNextVector(r, f)
<1>1. r.here \in Node /\ r.shortest \in Seq(Node)
  BY DEF UserState
<1>2. CASE r.here \notin Crossing
  <2>1. n = Turn[r.here] /\ n \in Crossing
    BY <1>1, <1>2, RoadAssumption DEF NextNode
  <2>2. q = AtCrossing(r, n, f)
    BY <2>1 DEF GetWayNextVector, AtCrossing
  <2>3. q \in UserState /\ q.refuge = r.refuge /\ q.isExit = r.isExit
        /\ q.exitnode = r.exitnode
    <3> HIDE DEF q, n
    <3> QED BY <2>1, <2>2, CrossingFields
  <2>4. Sound(q)
    BY <2>1, <2>2, <1>2, TurnSound
  <2> QED BY <2>3, <2>4
<1>3. CASE r.here \in Crossing /\ n \in Crossing
  <2>1. n = Head(r.shortest) /\ r.shortest # << >>
    BY <1>3 DEF NextNode
  <2>2. q = AtCrossing(r, n, f)
    BY <1>3 DEF GetWayNextVector, AtCrossing
  <2>3. q \in UserState /\ q.refuge = r.refuge /\ q.isExit = r.isExit
        /\ q.exitnode = r.exitnode
    <3> HIDE DEF q, n
    <3> QED BY <1>3, <2>2, CrossingFields
  <2>4. f => CanForesee(r, n)
    OBVIOUS
  <2>5. Sound(q)
    <3> HIDE DEF q, n
    <3> QED BY <2>1, <2>2, <2>4, <1>3, StepToCrossingSound
  <2> QED BY <2>3, <2>5
<1>4. CASE r.here \in Crossing /\ n \notin Crossing
  <2>1. n = Head(r.shortest) /\ r.shortest # << >>
    BY <1>4 DEF NextNode
  <2>2. n \in Node
    BY <2>1, <1>1
  <2>3. q = [r EXCEPT !.here = n]
    BY <1>4 DEF GetWayNextVector
  <2>4. q \in UserState /\ Sound(q)
    BY <2>1, <2>2, <2>3, <1>4, StepToDeadEndSound
  <2>5. q.refuge = r.refuge /\ q.isExit = r.isExit /\ q.exitnode = r.exitnode
    BY <2>3 DEF UserState
  <2> QED BY <2>4, <2>5
<1> QED
  BY <1>2, <1>3, <1>4

(* The clause of IInv about one user. *)
Fine(r) ==
    /\ MarksSound(r)
    /\ IF r.isExit
       THEN r.refuge = r.exitnode /\ r.refuge \in Shelter
       ELSE /\ r.refuge = NoNode
            /\ TargetSound(r) /\ RouteSound(r)
            /\ PlaceSound(r) /\ DeadEndSound(r)

(* A user's clause outlasts a step that frees no place in a full shelter.  *)
LEMMA FineKept ==
    ASSUME NEW u \in User, Fine(usr'[u]),
           \A s \in Shelter : space[s] = 0 => space'[s] = 0
    PROVE  Fine(usr[u])'
<1> DEFINE r == usr'[u]
<1>1. MarksSound(r) => MarksSound(usr[u])'
  BY DEF MarksSound
<1>2. TargetSound(r) => TargetSound(usr[u])'
  BY DEF TargetSound
<1>3. RouteSound(r) => RouteSound(usr[u])'
  BY DEF RouteSound
<1>4. PlaceSound(r) => PlaceSound(usr[u])'
  BY DEF PlaceSound
<1>5. DeadEndSound(r) => DeadEndSound(usr[u])'
  BY DEF DeadEndSound
<1> QED
  BY <1>1, <1>2, <1>3, <1>4, <1>5 DEF Fine

(* For a user under way the clause is Sound, and no refuge yet.            *)
LEMMA FineIsSound ==
    ASSUME NEW r \in UserState, ~r.isExit
    PROVE  Fine(r) <=> Sound(r) /\ r.refuge = NoNode
BY DEF Fine, Sound

(* The clause does not depend on the other fields, and asking for a new    *)
(* route keeps it.                                                         *)
LEMMA FineAlike ==
    ASSUME NEW r \in UserState, NEW q \in UserState, Fine(r),
           q.here = r.here, q.shortest = r.shortest, q.full = r.full,
           q.listed = r.listed, q.exitnode = r.exitnode,
           q.passed = r.passed, q.onRoute = r.onRoute,
           q.isExit = r.isExit, q.refuge = r.refuge,
           r.isDijkstra => q.isDijkstra
    PROVE  Fine(q)
<1>1. TargetSound(r) => TargetSound(q)
  BY DEF TargetSound
<1>2. RouteSound(r) => RouteSound(q)
  BY DEF RouteSound
<1>3. PlaceSound(r) => PlaceSound(q)
  BY DEF PlaceSound
<1>4. DeadEndSound(r) => DeadEndSound(q)
  BY DEF DeadEndSound
<1>5. MarksSound(r) => MarksSound(q)
  BY DEF MarksSound
<1> QED
  BY <1>1, <1>2, <1>3, <1>4, <1>5 DEF Fine

(* After the calculation of a route, if there is one: a user who arrives   *)
(* stands at its target, which is listed and has room.                     *)
LEMMA RecalculatedSound ==
    ASSUME NEW r \in UserState, Sound(r), WithinCapacity,
           NEW q \in Recalculated(Noted(r))
    PROVE  /\ q \in UserState /\ Sound(q)
           /\ q.refuge = r.refuge /\ q.isExit = r.isExit
           /\ q.here \in Crossing /\ ~Arrives(q) => q.shortest # << >>
           /\ Arrives(q) => /\ q.passed = q.exitnode /\ q.exitnode \in Shelter
                            /\ q.exitnode \in q.listed
                            /\ space[q.exitnode] # 0
<1> DEFINE n == Noted(r)
<1>1. /\ n \in UserState /\ n.here = r.here /\ n.refuge = r.refuge
      /\ n.isExit = r.isExit
      /\ AtFullShelter(r) => n.isDijkstra /\ r.here \in n.full
  BY NotedFields
<1>2. Sound(n)
  BY NotedSound
<1>3. /\ q \in UserState /\ Sound(q) /\ q.here = r.here
      /\ q.refuge = r.refuge /\ q.isExit = r.isExit
      /\ q.here \in Crossing /\ ~Arrives(q) => q.shortest # << >>
      /\ AtFullShelter(r) /\ ~q.isDijkstra => q.exitnode # r.here
  <2> HIDE DEF n
  <2>1. CASE MustRecalculate(n)
    <3>1. PICK s \in NearestOpen(n) : q = TakeRoute(n, s)
      BY <2>1 DEF Recalculated, n
    <3>2. n.here \in Crossing
      BY <2>1 DEF MustRecalculate
    <3>3. Sound(q) /\ s \in Shelter
      BY <3>1, <3>2, <1>1, <1>2, TakeRouteSound
    <3>4. q \in UserState /\ q.here = n.here /\ q.exitnode = s
          /\ q.refuge = n.refuge /\ q.isExit = n.isExit /\ ~q.isDijkstra
      BY <3>1, <3>2, <3>3, <1>1, TakeRouteFields
    <3>5. s \notin n.full
      BY DEF NearestOpen, Eligible
    <3> QED BY <3>3, <3>4, <3>5, <1>1 DEF Arrives
  <2>2. CASE ~MustRecalculate(n)
    <3>1. q = n
      BY <2>2 DEF Recalculated, n
    <3> QED BY <3>1, <2>2, <1>1, <1>2 DEF MustRecalculate, Arrives
  <2> QED BY <2>1, <2>2
<1>4. Arrives(q) => /\ q.exitnode # NoNode /\ q.exitnode \in q.listed
                    /\ q.passed = q.exitnode /\ q.here = q.exitnode
  BY <1>3 DEF Sound, TargetSound, PlaceSound, Arrives
<1>5. q.exitnode # NoNode => q.exitnode \in Shelter
  BY <1>3 DEF UserState
<1>6. Arrives(q) => ~AtFullShelter(r)
  BY <1>3, <1>4 DEF Arrives
<1> QED
  BY <1>3, <1>4, <1>5, <1>6 DEF AtFullShelter

(* A look-up that throws: every shelter is full. *)
LEMMA ThrowsOnlyWhenFull ==
    ASSUME NEW r \in UserState, Sound(r), WithinCapacity, Throws(r)
    PROVE  \A s \in Shelter : space[s] = 0
<1>1. ~TargetLost(r)
  BY DEF TargetLost, Sound, TargetSound, RouteSound
<1>2. ~(ReachesOpenShelter(r) /\ r.here \notin r.listed)
  BY DEF ReachesOpenShelter, Sound, MarksSound
<1>3. ~\E q \in Recalculated(Noted(r)) : Arrives(q) /\ q.passed \notin q.listed
  BY RecalculatedSound
<1>4. Eligible(Noted(r)) = {}
  BY <1>1, <1>2, <1>3 DEF Throws
<1>5. MarksSound(Noted(r))
  BY NotedSound DEF Sound
<1> QED
  BY <1>4, <1>5 DEF Eligible, MarksSound, WithinCapacity

(* Counting keeps the counters within a word. *)
LEMMA RecountedType ==
    ASSUME movingNum \in [Shelter -> 0 .. WordSize - 1],
           NEW old, NEW new
    PROVE  Recounted(old, new) \in [Shelter -> 0 .. WordSize - 1]
<1>1. \A n \in 0 .. WordSize - 1 : Decremented(n) \in 0 .. WordSize - 1
                                  /\ Incremented(n) \in 0 .. WordSize - 1
  BY CountAssumption DEF Decremented, Incremented
<1> QED
  BY <1>1 DEF Recounted

(* IInv in the form in which the steps below use it.                       *)
LEMMA InvFacts ==
    ASSUME IInv
    PROVE  /\ EvTypeOK /\ \A u \in User : usr[u] \in UserState /\ Fine(usr[u])
           /\ WithinCapacity
<1>1. EvTypeOK /\ \A u \in User : usr[u] \in UserState /\ Fine(usr[u])
  BY DEF IInv, EvTypeOK, Fine
<1>2. WithinCapacity
  <2> SUFFICES ASSUME NEW s \in Shelter, Capacity[s] = 0 PROVE space[s] = 0
    BY DEF WithinCapacity
  <2>1. IsFiniteSet(In(s))
    <3>1. In(s) \subseteq User
      BY DEF In
    <3> QED BY <3>1, UsersAssumption, FS_Subset
  <2>2. Cardinality(In(s)) \in Nat
    BY <2>1, FS_CardinalityType
  <2>3. space[s] \in Nat
    BY <1>1, CountAssumption DEF EvTypeOK
  <2>4. space[s] + Cardinality(In(s)) = 0
    BY DEF IInv, SpaceAccounted
  <2> QED BY <2>2, <2>3, <2>4
<1> QED
  BY <1>1, <1>2

-----------------------------------------------------------------------------
(* A step of user u that takes no place and raises no exception. *)
LEMMA QuietStep ==
    ASSUME IInv, NEW u \in User, NEW q \in UserState,
           usr' = [usr EXCEPT ![u] = q], Fine(q),
           q.refuge = usr[u].refuge,
           space' = space, aborted' = aborted, timer' \subseteq timer,
           movingNum' \in [Shelter -> 0 .. WordSize - 1]
    PROVE  IInv'
<1>1. usr \in [User -> UserState] /\ EvTypeOK
      /\ \A v \in User : Fine(usr[v])
  BY InvFacts DEF EvTypeOK
<1>2. \A v \in User : usr'[v] = IF v = u THEN q ELSE usr[v]
  BY <1>1
<1>3. EvTypeOK'
  BY <1>1 DEF EvTypeOK
<1>4. \A v \in User : Fine(usr[v])'
  <2> SUFFICES ASSUME NEW v \in User PROVE Fine(usr[v])'
    OBVIOUS
  <2>1. Fine(usr'[v])
    BY <1>1, <1>2
  <2> QED BY <2>1, FineKept
<1>5. SpaceAccounted'
  <2>1. \A s : In(s)' = In(s)
    BY <1>2 DEF In
  <2> QED BY <2>1 DEF IInv, SpaceAccounted
<1>6. AbortsOnlyWhenFull'
  BY DEF IInv, AbortsOnlyWhenFull
<1> QED
  BY <1>3, <1>4, <1>5, <1>6 DEF IInv, Fine

(* User u takes a place in its target, which has room. *)
LEMMA CompleteEvacuationStep ==
    ASSUME IInv, ~aborted, NEW u \in User, usr[u].refuge = NoNode,
           NEW q \in UserState, MarksSound(q), NEW s \in Shelter,
           q.exitnode = s, space[s] # 0, CompleteEvacuation(u, q, s)
    PROVE  IInv'
<1> DEFINE w == [q EXCEPT !.isExit = TRUE, !.refuge = s]
<1>1. /\ usr \in [User -> UserState] /\ EvTypeOK
      /\ \A v \in User : Fine(usr[v])
  BY InvFacts DEF EvTypeOK
<1>2. w \in UserState /\ w.refuge = s /\ w.exitnode = s /\ w.full = q.full
      /\ w.listed = q.listed
  BY DEF UserState
<1>3. w.isExit
  BY DEF UserState
<1>4. usr' = [usr EXCEPT ![u] = w]
  BY DEF CompleteEvacuation
<1> HIDE DEF w
<1>5. \A v \in User : usr'[v] = IF v = u THEN w ELSE usr[v]
  BY <1>1, <1>4
<1>6. space[s] \in 1 .. WordSize - 1 /\ Decremented(space[s]) = space[s] - 1
  <2>1. space[s] \in 1 .. WordSize - 1
    BY <1>1, CountAssumption DEF EvTypeOK
  <2>2. \A n \in 1 .. WordSize - 1 : (n - 1) % WordSize = n - 1
    BY CountAssumption
  <2> QED BY <2>1, <2>2 DEF Decremented
<1>7. space' = [space EXCEPT ![s] = space[s] - 1]
  BY <1>6 DEF CompleteEvacuation
<1>8. EvTypeOK'
  <2>1. usr' \in [User -> UserState]
    BY <1>1, <1>2, <1>4
  <2>2. space' \in [Shelter -> 0 .. WordSize - 1]
    BY <1>1, <1>6, <1>7, CountAssumption DEF EvTypeOK
  <2>3. movingNum' \in [Shelter -> 0 .. WordSize - 1]
    BY <1>1, RecountedType DEF EvTypeOK, CompleteEvacuation
  <2> QED BY <2>1, <2>2, <2>3, <1>1 DEF EvTypeOK, CompleteEvacuation
<1>9. \A v \in User : Fine(usr[v])'
  <2> SUFFICES ASSUME NEW v \in User PROVE Fine(usr[v])'
    OBVIOUS
  <2>1. MarksSound(w)
    BY <1>2 DEF MarksSound
  <2>2. Fine(w)
    BY <2>1, <1>2, <1>3 DEF Fine
  <2>3. Fine(usr'[v])
    BY <2>2, <1>1, <1>5
  <2>4. \A t \in Shelter : space[t] = 0 => space'[t] = 0
    BY <1>1, <1>7 DEF EvTypeOK
  <2> QED BY <2>3, <2>4, FineKept
<1>10. SpaceAccounted'
  <2> SUFFICES ASSUME NEW t \in Shelter
               PROVE  space'[t] + Cardinality(In(t)') = Capacity[t]
    BY DEF SpaceAccounted
  <2>1. IsFiniteSet(In(t)) /\ Cardinality(In(t)) \in Nat
    <3>1. In(t) \subseteq User
      BY DEF In
    <3>2. IsFiniteSet(In(t))
      BY <3>1, UsersAssumption, FS_Subset
    <3> QED BY <3>2, FS_CardinalityType
  <2>2. space[t] + Cardinality(In(t)) = Capacity[t] /\ space[t] \in Int
    BY <1>1, CountAssumption DEF IInv, SpaceAccounted, EvTypeOK
  <2>3. CASE t = s
    <3>1. In(t)' = In(t) \cup {u}
      BY <2>3, <1>2, <1>5 DEF In
    <3>2. u \notin In(t)
      BY RoadAssumption DEF In
    <3>3. Cardinality(In(t)') = Cardinality(In(t)) + 1
      BY <3>1, <3>2, <2>1, FS_AddElement
    <3>4. space'[t] = space[t] - 1
      BY <2>3, <1>1, <1>7 DEF EvTypeOK
    <3> QED BY <3>3, <3>4, <2>1, <2>2
  <2>4. CASE t # s
    <3>1. In(t)' = In(t)
      <4>1. usr[u].refuge # t /\ usr'[u].refuge # t
        BY <2>4, <1>2, <1>5, RoadAssumption
      <4>2. \A v \in User : v # u => usr'[v].refuge = usr[v].refuge
        BY <1>5
      <4> QED BY <4>1, <4>2 DEF In
    <3>2. space'[t] = space[t]
      BY <2>4, <1>1, <1>7 DEF EvTypeOK
    <3> QED BY <3>1, <3>2, <2>2
  <2> QED BY <2>3, <2>4
<1>11. AbortsOnlyWhenFull'
  BY DEF AbortsOnlyWhenFull, CompleteEvacuation
<1> QED
  BY <1>8, <1>9, <1>10, <1>11 DEF IInv, Fine

(* One run of the movement timer, at a vertex. *)
LEMMA HandleUserMovementStep ==
    ASSUME IInv, NEW u \in User, HandleUserMovement(u)
    PROVE  IInv'
<1> DEFINE r == usr[u]
<1>1. /\ EvTypeOK /\ WithinCapacity /\ r \in UserState
      /\ \A v \in User : usr[v] \in UserState /\ Fine(usr[v])
  BY InvFacts
<1>2. ~aborted /\ ~r.isExit
  BY DEF HandleUserMovement
<1>3. Sound(r) /\ r.refuge = NoNode
  BY <1>1, <1>2, FineIsSound
<1> HIDE DEF r
<1>4. CASE Abort(u)
  <2>1. \A s \in Shelter : space[s] = 0
    BY <1>1, <1>3, <1>4, ThrowsOnlyWhenFull DEF Abort, r
  <2>2. usr' = usr /\ space' = space /\ movingNum' = movingNum
        /\ timer' = timer /\ aborted' = TRUE
    BY <1>4 DEF Abort
  <2>3. EvTypeOK'
    BY <2>2, <1>1 DEF EvTypeOK
  <2>4. \A v \in User : Fine(usr[v])'
    BY <2>2, <1>1, FineKept
  <2>5. SpaceAccounted'
    <3>1. \A s : In(s)' = In(s)
      BY <2>2 DEF In
    <3> QED BY <3>1, <2>2 DEF IInv, SpaceAccounted
  <2>6. AbortsOnlyWhenFull'
    BY <2>1, <2>2 DEF AbortsOnlyWhenFull
  <2> QED
    BY <2>3, <2>4, <2>5, <2>6 DEF IInv, Fine
<1>5. CASE EnterOnTheWay(u)
  <2>1. ReachesOpenShelter(r) /\ CompleteEvacuation(u, Noted(r), r.here)
    BY <1>5 DEF EnterOnTheWay, r
  <2>2. r.here \in Shelter /\ space[r.here] # 0 /\ r.exitnode = r.here
    BY <2>1, <1>3 DEF ReachesOpenShelter, Sound, PlaceSound
  <2>3. Noted(r) \in UserState /\ Noted(r).exitnode = r.exitnode
    BY <1>1, NotedFields
  <2>4. MarksSound(Noted(r))
    BY <1>1, <1>3, NotedSound DEF Sound
  <2>5. usr[u].refuge = NoNode
    BY <1>3 DEF r
  <2> QED
    BY <2>1, <2>2, <2>3, <2>4, <2>5, <1>2, CompleteEvacuationStep
<1>6. CASE EnterOrWalk(u)
  <2>1. PICK q \in Recalculated(Noted(r)) :
            \/ Arrives(q) /\ CompleteEvacuation(u, q, q.passed)
            \/ ~Arrives(q) /\ Walk(u, q)
    BY <1>6 DEF EnterOrWalk, r
  <2>2. /\ q \in UserState /\ Sound(q)
        /\ q.refuge = r.refuge /\ q.isExit = r.isExit
        /\ q.here \in Crossing /\ ~Arrives(q) => q.shortest # << >>
        /\ Arrives(q) => /\ q.passed = q.exitnode /\ q.exitnode \in Shelter
                         /\ space[q.exitnode] # 0
    BY <1>1, <1>3, RecalculatedSound
  <2>3. CASE Arrives(q)
    <3>1. usr[u].refuge = NoNode /\ MarksSound(q)
      BY <2>2, <1>3 DEF r, Sound
    <3>2. CompleteEvacuation(u, q, q.exitnode)
      BY <2>1, <2>2, <2>3
    <3> QED
      BY <3>1, <3>2, <2>2, <2>3, <1>2, CompleteEvacuationStep
  <2>4. CASE ~Arrives(q)
    <3>1. Walk(u, q)
      BY <2>1, <2>4
    <3>2. PICK f \in BOOLEAN : /\ f => CanForesee(q, NextNode(q))
                               /\ usr' = [usr EXCEPT ![u] = GetWayNextVector(q, f)]
      BY <3>1 DEF Walk
    <3> DEFINE w == GetWayNextVector(q, f)
    <3>3. /\ w \in UserState /\ Sound(w) /\ w.refuge = q.refuge
          /\ w.isExit = q.isExit
      BY <3>2, <2>2, <2>4, WalkSound
    <3>4. space' = space /\ timer' = timer /\ aborted' = aborted
          /\ movingNum' = Recounted(usr[u].exitnode, q.exitnode)
      BY <3>1 DEF Walk
    <3>5. movingNum' \in [Shelter -> 0 .. WordSize - 1]
      BY <3>4, <1>1, RecountedType DEF EvTypeOK
    <3> HIDE DEF w
    <3>6. Fine(w)
      BY <3>3, <2>2, <1>2, <1>3, FineIsSound
    <3>7. w.refuge = usr[u].refuge
      BY <3>3, <2>2 DEF r
    <3>8. usr' = [usr EXCEPT ![u] = w]
      BY <3>2 DEF w
    <3> QED
      BY <3>3, <3>4, <3>5, <3>6, <3>7, <3>8, QuietStep
  <2> QED BY <2>3, <2>4
<1> QED
  BY <1>4, <1>5, <1>6 DEF HandleUserMovement

(* What else changes a user: joining in, news about a block, counting.     *)
LEMMA OtherSteps ==
    ASSUME IInv, NEW u \in User,
           \/ ActivateReservedAddUser(u)
           \/ HearOfBlock(u)
           \/ CheckMovingUserNum(u)
    PROVE  IInv'
<1> DEFINE r == usr[u]
<1>1. /\ EvTypeOK /\ usr \in [User -> UserState] /\ r \in UserState /\ Fine(r)
  BY InvFacts DEF EvTypeOK
<1>2. \A n \in 0 .. WordSize - 1 : Decremented(n) \in 0 .. WordSize - 1
                                  /\ Incremented(n) \in 0 .. WordSize - 1
  BY CountAssumption DEF Decremented, Incremented
<1>3. space' = space /\ aborted' = aborted /\ timer' \subseteq timer
  BY DEF ActivateReservedAddUser, HearOfBlock, CheckMovingUserNum, CountOn,
         CountOff, StopCounting
<1>4. movingNum' \in [Shelter -> 0 .. WordSize - 1]
  BY <1>1, <1>2 DEF EvTypeOK, ActivateReservedAddUser, HearOfBlock,
         CheckMovingUserNum, CountOn, CountOff, StopCounting
<1>5. \E q \in UserState :
        /\ usr' = [usr EXCEPT ![u] = q]
        /\ Fine(q) /\ q.refuge = r.refuge
  <2>1. CASE usr' = [usr EXCEPT ![u].started = TRUE]
    <3> DEFINE q == [r EXCEPT !.started = TRUE]
    <3>1. /\ q \in UserState /\ q.here = r.here /\ q.shortest = r.shortest
          /\ q.full = r.full /\ q.listed = r.listed
          /\ q.exitnode = r.exitnode /\ q.passed = r.passed
          /\ q.onRoute = r.onRoute /\ q.refuge = r.refuge
      BY <1>1 DEF UserState
    <3>2. q.isExit = r.isExit /\ (r.isDijkstra => q.isDijkstra)
      BY <1>1 DEF UserState
    <3>3. usr' = [usr EXCEPT ![u] = q]
      BY <2>1, <1>1
    <3> HIDE DEF q
    <3> QED BY <3>1, <3>2, <3>3, <1>1, FineAlike
  <2>2. CASE usr' = [usr EXCEPT ![u].isDijkstra = TRUE]
    <3> DEFINE q == [r EXCEPT !.isDijkstra = TRUE]
    <3>1. /\ q \in UserState /\ q.here = r.here /\ q.shortest = r.shortest
          /\ q.full = r.full /\ q.listed = r.listed
          /\ q.exitnode = r.exitnode /\ q.passed = r.passed
          /\ q.onRoute = r.onRoute /\ q.refuge = r.refuge
      BY <1>1 DEF UserState
    <3>2. q.isExit = r.isExit /\ (r.isDijkstra => q.isDijkstra)
      BY <1>1 DEF UserState
    <3>3. usr' = [usr EXCEPT ![u] = q]
      BY <2>2, <1>1
    <3> HIDE DEF q
    <3> QED BY <3>1, <3>2, <3>3, <1>1, FineAlike
  <2>3. CASE usr' = [usr EXCEPT ![u].checked = TRUE]
    <3> DEFINE q == [r EXCEPT !.checked = TRUE]
    <3>1. /\ q \in UserState /\ q.here = r.here /\ q.shortest = r.shortest
          /\ q.full = r.full /\ q.listed = r.listed
          /\ q.exitnode = r.exitnode /\ q.passed = r.passed
          /\ q.onRoute = r.onRoute /\ q.refuge = r.refuge
      BY <1>1 DEF UserState
    <3>2. q.isExit = r.isExit /\ (r.isDijkstra => q.isDijkstra)
      BY <1>1 DEF UserState
    <3>3. usr' = [usr EXCEPT ![u] = q]
      BY <2>3, <1>1
    <3> HIDE DEF q
    <3> QED BY <3>1, <3>2, <3>3, <1>1, FineAlike
  <2>4. CASE usr' = [usr EXCEPT ![u].already = TRUE]
    <3> DEFINE q == [r EXCEPT !.already = TRUE]
    <3>1. /\ q \in UserState /\ q.here = r.here /\ q.shortest = r.shortest
          /\ q.full = r.full /\ q.listed = r.listed
          /\ q.exitnode = r.exitnode /\ q.passed = r.passed
          /\ q.onRoute = r.onRoute /\ q.refuge = r.refuge
      BY <1>1 DEF UserState
    <3>2. q.isExit = r.isExit /\ (r.isDijkstra => q.isDijkstra)
      BY <1>1 DEF UserState
    <3>3. usr' = [usr EXCEPT ![u] = q]
      BY <2>4, <1>1
    <3> HIDE DEF q
    <3> QED BY <3>1, <3>2, <3>3, <1>1, FineAlike
  <2>5. CASE usr' = usr
    BY <2>5, <1>1
  <2> QED
    BY <2>1, <2>2, <2>3, <2>4, <2>5 DEF ActivateReservedAddUser, HearOfBlock,
       CheckMovingUserNum, CountOn, CountOff, StopCounting
<1> QED
  BY <1>3, <1>4, <1>5, QuietStep

(* At the start everyone is about to choose a shelter and all are empty.   *)
LEMMA InitInv == EvInit => IInv
<1> SUFFICES ASSUME EvInit PROVE IInv
  OBVIOUS
<1>1. \A u \in User :
        /\ usr[u].here = Start[u] /\ usr[u].shortest = << >>
        /\ usr[u].full = {} /\ usr[u].listed = Shelter
        /\ usr[u].exitnode = NoNode /\ usr[u].passed = NoNode
        /\ usr[u].onRoute = {} /\ usr[u].refuge = NoNode
  BY DEF EvInit
<1>2. \A u \in User : usr[u].isDijkstra /\ ~usr[u].isExit
  BY DEF EvInit
<1>3. EvTypeOK
  <2>1. usr \in [User -> UserState]
    <3> SUFFICES ASSUME NEW u \in User
                 PROVE  [here |-> Start[u], shortest |-> << >>, isDijkstra |-> TRUE,
                         full |-> {}, listed |-> Shelter, exitnode |-> NoNode,
                         passed |-> NoNode, onRoute |-> {}, started |-> u \in EvcUser,
                         isExit |-> FALSE, refuge |-> NoNode, checked |-> FALSE,
                         already |-> FALSE] \in UserState
      BY DEF EvInit
    <3>1. Start[u] \in Node
      BY RoadAssumption
    <3> QED BY <3>1 DEF UserState
  <2>2. movingNum \in [Shelter -> 0 .. WordSize - 1]
    BY CountAssumption DEF EvInit
  <2>3. space \in [Shelter -> 0 .. WordSize - 1]
    BY CountAssumption DEF EvInit
  <2> QED BY <2>1, <2>2, <2>3 DEF EvTypeOK, EvInit
<1>4. \A u \in User : Fine(usr[u])
  BY <1>1, <1>2 DEF Fine, MarksSound, TargetSound, RouteSound, PlaceSound,
                    DeadEndSound, Elements
<1>5. SpaceAccounted
  <2> SUFFICES ASSUME NEW s \in Shelter
               PROVE  space[s] + Cardinality(In(s)) = Capacity[s]
    BY DEF SpaceAccounted
  <2>1. In(s) = {}
    BY <1>1, RoadAssumption DEF In
  <2>2. Cardinality(In(s)) = 0
    BY <2>1, FS_EmptySet
  <2>3. space[s] = Capacity[s] /\ Capacity[s] \in Int
    BY CountAssumption DEF EvInit
  <2> QED BY <2>2, <2>3
<1>6. AbortsOnlyWhenFull
  BY DEF EvInit, AbortsOnlyWhenFull
<1> QED
  BY <1>3, <1>4, <1>5, <1>6 DEF IInv, Fine

(* Every step of the specification preserves the inductive invariant.      *)
LEMMA NextInv == IInv /\ [EvNext]_evVars => IInv'
<1> SUFFICES ASSUME IInv, [EvNext]_evVars PROVE IInv'
  OBVIOUS
<1>1. ASSUME NEW u \in User, HandleUserMovement(u) PROVE IInv'
  BY <1>1, HandleUserMovementStep
<1>2. ASSUME NEW u \in User,
             ActivateReservedAddUser(u) \/ HearOfBlock(u) \/ CheckMovingUserNum(u)
      PROVE  IInv'
  BY <1>2, OtherSteps
<1>3. CASE UNCHANGED evVars
  <2>1. usr' = usr /\ space' = space /\ movingNum' = movingNum
        /\ timer' = timer /\ aborted' = aborted
    BY <1>3 DEF evVars
  <2>2. EvTypeOK' /\ \A u \in User : Fine(usr[u])'
    BY <2>1, InvFacts, FineKept DEF EvTypeOK
  <2>3. \A s : In(s)' = In(s)
    BY <2>1 DEF In
  <2>4. SpaceAccounted'
    BY <2>1, <2>3 DEF IInv, SpaceAccounted
  <2> QED
    BY <2>1, <2>2, <2>4 DEF IInv, Fine, AbortsOnlyWhenFull
<1>4. CASE Finished
  BY <1>3, <1>4 DEF Finished
<1> QED
  BY <1>1, <1>2, <1>3, <1>4 DEF EvNext, User

(* IInv holds throughout. *)
THEOREM EvacuationInvariant == EvSpec => []IInv
  BY InitInv, NextInv, PTL DEF EvSpec

(* Type correctness of the movement and the counting: in particular the    *)
(* target of a user is always a shelter and the counters stay in a word.   *)
THEOREM EvacuationTypeCorrect == EvSpec => []EvTypeOK
<1>1. IInv => EvTypeOK
  BY DEF IInv
<1> QED
  BY <1>1, EvacuationInvariant, PTL

(* However users interleave, every place HandleUserMovement hands out is   *)
(* one it has: places left and users inside add up to the capacity.        *)
THEOREM EverySpaceAccounted == EvSpec => []SpaceAccounted
<1>1. IInv => SpaceAccounted
  BY DEF IInv
<1> QED
  BY <1>1, EvacuationInvariant, PTL

(* A shelter a user has marked full is full, on any road graph. *)
THEOREM MarksAlwaysJustified == EvSpec => []MarksJustified
<1>1. IInv => MarksJustified
  BY DEF IInv, MarksJustified, MarksSound
<1> QED
  BY <1>1, EvacuationInvariant, PTL

(* The look-ups of HandleUserMovement and the route calculation throw only *)
(* when no shelter has a place left.                                       *)
THEOREM NoAbortWhileThereIsRoom == EvSpec => []AbortsOnlyWhenFull
<1>1. IInv => AbortsOnlyWhenFull
  BY DEF IInv
<1> QED
  BY <1>1, EvacuationInvariant, PTL

(* Every user ends up in the shelter it was counted to go to. *)
THEOREM RefugeAlwaysTarget == EvSpec => []RefugeIsTarget
<1>1. IInv => RefugeIsTarget
  BY DEF IInv, RefugeIsTarget
<1> QED
  BY <1>1, EvacuationInvariant, PTL
-----------------------------------------------------------------------------
(* The counts of all shelters together.  First, what a sum over a finite   *)
(* set does when one summand changes.                                      *)
Pick(T) == CHOOSE s \in T : TRUE

SumsUp(sum, count, S) ==
    \A T \in SUBSET S :
        /\ sum[T] \in Int
        /\ sum[T] = IF T = {} THEN 0 ELSE count[Pick(T)] + sum[T \ {Pick(T)}]

LEMMA TotalSumsUp ==
    ASSUME NEW S, IsFiniteSet(S), NEW count \in [S -> Int]
    PROVE  \E sum : SumsUp(sum, count, S) /\ Total(count) = sum[S]
  <1> DEFINE Eqn(f) == f = [T \in SUBSET S |->
                IF T = {} THEN 0
                ELSE LET s == CHOOSE s \in T : TRUE IN count[s] + f[T \ {s}]]
             sum == CHOOSE f : Eqn(f)
             step == [T \in SUBSET S |-> [g \in [T -> Int] |->
                IF T = {} THEN 0 ELSE count[Pick(T)] + g[Pick(T)]]]
  <1>0. \A T \in SUBSET S : T # {} => Pick(T) \in T
    BY DEF Pick
  <1>1. ASSUME NEW T \in SUBSET S, NEW g \in [T -> Int]
        PROVE  /\ step[T][g] = IF T = {} THEN 0 ELSE count[Pick(T)] + g[Pick(T)]
               /\ step[T][g] \in Int
    <2>1. step[T][g] = IF T = {} THEN 0 ELSE count[Pick(T)] + g[Pick(T)]
      OBVIOUS
    <2>2. T # {} => count[Pick(T)] \in Int /\ g[Pick(T)] \in Int
      BY <1>0
    <2> HIDE DEF step
    <2> QED BY <2>1, <2>2
  <1>2. PICK f : Subsetwise(f, S, Int, step)
    <2>1. SubsetRules(step, S, Int)
      <3> HIDE DEF step
      <3> QED BY <1>1 DEF SubsetRules
    <2> HIDE DEF step
    <2> QED BY <2>1, SubsetFunction
  <1>3. /\ f \in [SUBSET S -> Int]
        /\ \A T \in SUBSET S : f[T] = step[T][[x \in T |-> f[T \ {x}]]]
    <2> HIDE DEF step
    <2> QED BY <1>2 DEF Subsetwise
  <1>4. ASSUME NEW T \in SUBSET S
        PROVE  f[T] = IF T = {} THEN 0 ELSE count[Pick(T)] + f[T \ {Pick(T)}]
    <2>1. [x \in T |-> f[T \ {x}]] \in [T -> Int]
      BY <1>3
    <2>2. T # {} => [x \in T |-> f[T \ {x}]][Pick(T)] = f[T \ {Pick(T)}]
      BY <1>0
    <2> DEFINE g == [x \in T |-> f[T \ {x}]]
    <2>3. f[T] = step[T][g]
      BY <1>3
    <2> HIDE DEF step, g
    <2>4. step[T][g] = IF T = {} THEN 0 ELSE count[Pick(T)] + g[Pick(T)]
      BY <1>1, <2>1 DEF g
    <2> QED BY <2>2, <2>3, <2>4 DEF g
  <1>5. Eqn(f)
    <2> HIDE DEF step
    <2> QED BY <1>3, <1>4 DEF Pick
  <1>6. Eqn(sum)
    BY <1>5
  <1>7. Total(count) = sum[S]
    <2>1. DOMAIN count = S
      OBVIOUS
    <2> QED BY <2>1 DEF Total
  <1> HIDE DEF sum
  <1>8. ASSUME NEW T \in SUBSET S
        PROVE  sum[T] = IF T = {} THEN 0 ELSE count[Pick(T)] + sum[T \ {Pick(T)}]
    BY <1>6 DEF Pick
  <1> DEFINE G == {T \in SUBSET S : sum[T] \in Int}
  <1>9. ASSUME NEW T \in SUBSET S, \A x \in T : T \ {x} \in G PROVE T \in G
    <2>1. T # {} => count[Pick(T)] \in Int /\ sum[T \ {Pick(T)}] \in Int
      BY <1>0, <1>9
    <2>2. sum[T] = IF T = {} THEN 0 ELSE count[Pick(T)] + sum[T \ {Pick(T)}]
      BY <1>8
    <2> HIDE DEF G
    <2>3. sum[T] \in Int
      BY <2>1, <2>2
    <2> QED BY <2>3 DEF G
  <1>10. SUBSET S \subseteq G
    <2> HIDE DEF G
    <2> QED BY <1>9, SubsetsUpTo
  <1>11. SumsUp(sum, count, S)
    BY <1>8, <1>10 DEF SumsUp
  <1> QED BY <1>7, <1>11

LEMMA TotalZero ==
    ASSUME NEW S, IsFiniteSet(S), NEW count \in [S -> Int], \A s \in S : count[s] = 0
    PROVE  Total(count) = 0
  <1>1. PICK sum : SumsUp(sum, count, S) /\ Total(count) = sum[S]
    BY TotalSumsUp
  <1> DEFINE G == {T \in SUBSET S : sum[T] = 0}
  <1>2. ASSUME NEW T \in SUBSET S, \A x \in T : T \ {x} \in G PROVE T \in G
    <2>1. T # {} => Pick(T) \in T
      BY DEF Pick
    <2>2. T # {} => count[Pick(T)] = 0 /\ sum[T \ {Pick(T)}] = 0
      BY <1>2, <2>1
    <2>3. sum[T] = IF T = {} THEN 0 ELSE count[Pick(T)] + sum[T \ {Pick(T)}]
      BY <1>1 DEF SumsUp
    <2> HIDE DEF G
    <2>4. sum[T] = 0
      BY <2>2, <2>3
    <2> QED BY <2>4 DEF G
  <1>3. SUBSET S \subseteq G
    <2> HIDE DEF G
    <2> QED BY <1>2, SubsetsUpTo
  <1> QED BY <1>1, <1>3

LEMMA TotalChange ==
    ASSUME NEW S, IsFiniteSet(S), NEW f \in [S -> Int], NEW g \in [S -> Int], NEW x \in S,
           \A s \in S \ {x} : g[s] = f[s]
    PROVE  /\ Total(f) \in Int /\ Total(g) = Total(f) + (g[x] - f[x])
  <1>1. PICK F : SumsUp(F, f, S) /\ Total(f) = F[S]
    BY TotalSumsUp
  <1>2. PICK H : SumsUp(H, g, S) /\ Total(g) = H[S]
    BY TotalSumsUp
  <1> DEFINE d(T) == IF x \in T THEN g[x] - f[x] ELSE 0
             G == {T \in SUBSET S : H[T] = F[T] + d(T)}
  <1>0. g[x] \in Int /\ f[x] \in Int /\ g[x] - f[x] \in Int
    OBVIOUS
  <1>3. ASSUME NEW T \in SUBSET S, \A y \in T : T \ {y} \in G PROVE T \in G
    <2>1. CASE T = {}
      <3>1. H[T] = 0 /\ F[T] = 0 /\ d(T) = 0
        BY <1>1, <1>2, <2>1 DEF SumsUp
      <3> QED BY <3>1
    <2>2. CASE T # {}
      <3> DEFINE y == Pick(T)
                 U == T \ {y}
      <3>1. y \in T /\ y \in S /\ U \in SUBSET S
        BY <2>2 DEF Pick
      <3>2. H[T] = g[y] + H[U] /\ F[T] = f[y] + F[U]
        BY <1>1, <1>2, <2>2 DEF SumsUp
      <3>3. H[U] = F[U] + d(U)
        BY <1>3, <3>1
      <3>4. /\ F[U] \in Int /\ F[T] \in Int /\ H[U] \in Int
            /\ g[y] \in Int /\ f[y] \in Int
        BY <1>1, <1>2, <3>1 DEF SumsUp
      <3>5. g[y] + d(U) = f[y] + d(T) /\ d(U) \in Int /\ d(T) \in Int
        <4>1. CASE y = x
          <5>1. x \notin U /\ x \in T
            BY <3>1, <4>1
          <5> QED BY <1>0, <3>4, <4>1, <5>1
        <4>2. CASE y # x
          <5>1. g[y] = f[y] /\ (x \in U <=> x \in T)
            BY <3>1, <4>2
          <5> QED BY <1>0, <3>4, <5>1
        <4> QED BY <4>1, <4>2
      <3> HIDE DEF y, U, d
      <3>6. H[T] = F[T] + d(T)
        BY <3>2, <3>3, <3>4, <3>5
      <3> QED BY <3>6
    <2> QED BY <2>1, <2>2
  <1>4. SUBSET S \subseteq G
    <2> HIDE DEF G
    <2> QED BY <1>3, SubsetsUpTo
  <1>5. S \in G /\ F[S] \in Int
    BY <1>1, <1>4 DEF SumsUp
  <1> QED BY <1>1, <1>2, <1>5

(* The counters' arithmetic: a count goes up or down by one, give or take  *)
(* a whole word.                                                           *)
LEMMA WordArithmetic ==
    ASSUME NEW n \in 0 .. WordSize - 1
    PROVE  /\ Incremented(n) = n + 1 \/ Incremented(n) = (n + 1) - WordSize
           /\ Decremented(n) = n - 1 \/ Decremented(n) = (n - 1) + WordSize
  <1>1. WordSize \in Nat \ {0}
    BY CountAssumption
  <1> QED BY <1>1 DEF Incremented, Decremented

LEMMA WordShift ==
    ASSUME NEW a \in Int, NEW k \in Int
    PROVE  (a + k * WordSize) % WordSize = a % WordSize
  <1>0. WordSize \in Nat \ {0}
    BY CountAssumption
  <1>1. ASSUME NEW W \in Nat \ {0}, NEW r \in 0 .. W - 1, NEW q \in Int
        PROVE  (q * W + r) % W = r
    OBVIOUS
  <1>2. ASSUME NEW W \in Nat \ {0} PROVE a % W \in 0 .. W - 1
    OBVIOUS
  <1>3. ASSUME NEW W \in Nat \ {0} PROVE a = (a \div W) * W + (a % W) /\ a \div W \in Int
    OBVIOUS
  <1> DEFINE q == a \div WordSize
             r == a % WordSize
  <1>4. q \in Int /\ r \in 0 .. WordSize - 1 /\ a = q * WordSize + r
    BY <1>0, <1>2, <1>3
  <1> HIDE DEF q, r
  <1>5. a + k * WordSize = (q + k) * WordSize + r
    BY <1>0, <1>4
  <1>6. ((q + k) * WordSize + r) % WordSize = r
    BY <1>0, <1>1, <1>4
  <1> QED BY <1>5, <1>6 DEF r

(* The sum is right up to whole words.                                     *)
SumInv == \E k \in Int : Total(movingNum) = Cardinality(Counted) + k * WordSize

(* A change of the sum and of the number of users counted.                 *)
LEMMA SumMoves ==
    ASSUME SumInv, IInv, NEW d \in Int, NEW e \in {-2, -1, 0, 1, 2},
           Total(movingNum') = Total(movingNum) + d + e * WordSize,
           Cardinality(Counted') = Cardinality(Counted) + d
    PROVE  SumInv'
  <1>1. PICK k \in Int : Total(movingNum) = Cardinality(Counted) + k * WordSize
    BY DEF SumInv
  <1>2. IsFiniteSet(Counted) /\ Cardinality(Counted) \in Nat /\ WordSize \in Nat
    <2>1. Counted \subseteq User
      BY DEF Counted
    <2> QED BY <2>1, UsersAssumption, CountAssumption, FS_Subset, FS_CardinalityType
  <1>3. k + e \in Int /\ e \in Int
    OBVIOUS
  <1>4. (k + e) * WordSize = k * WordSize + e * WordSize
    BY <1>2, <1>3
  <1>5. k * WordSize \in Int /\ e * WordSize \in Int
    BY <1>2, <1>3
  <1>6. Total(movingNum') = Cardinality(Counted') + (k + e) * WordSize
    BY <1>1, <1>2, <1>4, <1>5
  <1> QED BY <1>3, <1>6 DEF SumInv

(* A change of target moves one user from one count to another.            *)
LEMMA RecountedSum ==
    ASSUME EvTypeOK, NEW old \in Shelter \cup {NoNode}, NEW new \in Shelter \cup {NoNode},
           old # NoNode => new # NoNode
    PROVE  \E e \in {-2, -1, 0, 1, 2} :
             Total(Recounted(old, new)) = Total(movingNum) + 0 + e * WordSize
  <1>0. /\ movingNum \in [Shelter -> 0 .. WordSize - 1] /\ WordSize \in Nat \ {0}
        /\ IsFiniteSet(Shelter) /\ movingNum \in [Shelter -> Int]
    BY CountAssumption, RoadAssumption DEF EvTypeOK
  <1>1. CASE old = NoNode \/ old = new
    <2>1. Recounted(old, new) = movingNum
      BY <1>1 DEF Recounted
    <2>2. Total(movingNum) \in Int
      <3>1. PICK sum : SumsUp(sum, movingNum, Shelter) /\ Total(movingNum) = sum[Shelter]
        BY <1>0, TotalSumsUp
      <3> QED BY <3>1 DEF SumsUp
    <2>3. Total(movingNum) = Total(movingNum) + 0 + 0 * WordSize
      BY <1>0, <2>2
    <2> QED BY <2>1, <2>3
  <1>2. CASE ~(old = NoNode \/ old = new)
    <2> DEFINE a == Decremented(movingNum[old])
               b == Incremented(movingNum[new])
               f == [movingNum EXCEPT ![old] = a]
               g == [f EXCEPT ![new] = b]
    <2>1. /\ old \in Shelter /\ new \in Shelter /\ old # new
          /\ movingNum[old] \in 0 .. WordSize - 1 /\ movingNum[new] \in 0 .. WordSize - 1
      BY <1>0, <1>2
    <2>2. Recounted(old, new) = g
      BY <1>0, <1>2, <2>1 DEF Recounted
    <2>3. /\ b = movingNum[new] + 1 \/ b = (movingNum[new] + 1) - WordSize
          /\ a = movingNum[old] - 1 \/ a = (movingNum[old] - 1) + WordSize
      BY <2>1, WordArithmetic
    <2>4. a \in Int /\ b \in Int
      BY <1>0, <2>1, <2>3
    <2> HIDE DEF a, b
    <2>5. /\ f \in [Shelter -> Int] /\ f[old] = a /\ f[new] = movingNum[new]
          /\ \A s \in Shelter \ {old} : f[s] = movingNum[s]
      BY <1>0, <2>1, <2>4
    <2> HIDE DEF f
    <2>6. g \in [Shelter -> Int] /\ g[new] = b /\ \A s \in Shelter \ {new} : g[s] = f[s]
      BY <2>1, <2>4, <2>5
    <2> HIDE DEF g
    <2>7. Total(movingNum) \in Int /\ Total(f) = Total(movingNum) + (f[old] - movingNum[old])
      BY <1>0, <2>1, <2>5, TotalChange
    <2>8. Total(f) \in Int /\ Total(g) = Total(f) + (g[new] - f[new])
      BY <1>0, <2>1, <2>5, <2>6, TotalChange
    <2> DEFINE t == Total(movingNum)
    <2>9. Total(g) = t + (a - movingNum[old]) + (b - movingNum[new]) /\ t \in Int
      BY <2>5, <2>6, <2>7, <2>8
    <2> HIDE DEF t
    <2>10. \/ Total(g) = t + 0 + 0 * WordSize
           \/ Total(g) = t + 0 + 1 * WordSize
           \/ Total(g) = t + 0 + (-1) * WordSize
      BY <1>0, <2>1, <2>3, <2>9
    <2> QED BY <2>2, <2>10 DEF t
  <1> QED BY <1>1, <1>2

(* Moving on changes nobody's flags of having been counted.                *)
LEMMA FlagsKept ==
    ASSUME NEW r \in UserState
    PROVE  /\ Noted(r).checked = r.checked /\ Noted(r).already = r.already
           /\ \A q \in Recalculated(Noted(r)) :
                /\ q \in UserState /\ q.checked = r.checked /\ q.already = r.already
                /\ q.exitnode = r.exitnode \/ q.exitnode \in Shelter
           /\ \A f \in BOOLEAN :
                /\ GetWayNextVector(r, f).checked = r.checked
                /\ GetWayNextVector(r, f).already = r.already
  <1>1. /\ Noted(r).checked = r.checked /\ Noted(r).already = r.already
        /\ Noted(r) \in UserState /\ Noted(r).exitnode = r.exitnode
    <2> DEFINE b == \/ r.isDijkstra
                    \/ r.shortest # << >> /\ Ends(r.shortest) \in r.full
                    \/ AtFullShelter(r)
               f == IF AtFullShelter(r) THEN r.full \cup {r.here} ELSE r.full
    <2>1. Noted(r) = [r EXCEPT !.isDijkstra = b, !.full = f]
      BY DEF Noted
    <2> HIDE DEF b, f
    <2>2. Noted(r).checked = r.checked /\ Noted(r).already = r.already
      BY <2>1 DEF UserState
    <2> QED BY <2>2, NotedFields
  <1>2. ASSUME NEW q \in Recalculated(Noted(r))
        PROVE  /\ q \in UserState /\ q.checked = r.checked /\ q.already = r.already
               /\ q.exitnode = r.exitnode \/ q.exitnode \in Shelter
    <2>1. CASE ~MustRecalculate(Noted(r))
      BY <1>1, <2>1 DEF Recalculated
    <2>2. CASE MustRecalculate(Noted(r))
      <3> DEFINE n == Noted(r)
      <3>1. PICK s \in NearestOpen(n) : q = TakeRoute(n, s)
        BY <2>2 DEF Recalculated
      <3>2. s \in Shelter /\ n.here \in Crossing
        BY <1>1, <2>2 DEF NearestOpen, Eligible, MustRecalculate, UserState
      <3> HIDE DEF n
      <3>3. n \in UserState
        BY <1>1 DEF n
      <3>4. q \in UserState /\ q.exitnode = s
        BY <3>1, <3>2, <3>3, TakeRouteFields
      <3>5. q.checked = n.checked /\ q.already = n.already
        BY <3>1, <3>3 DEF TakeRoute, UserState
      <3> QED BY <1>1, <3>2, <3>4, <3>5 DEF n
    <2> QED BY <2>1, <2>2
  <1>3. ASSUME NEW f \in BOOLEAN
        PROVE  /\ GetWayNextVector(r, f).checked = r.checked
               /\ GetWayNextVector(r, f).already = r.already
    BY DEF GetWayNextVector, TaskOfCrossing, UserState
  <1> QED BY <1>1, <1>2, <1>3

(* A user moves on, and perhaps changes its target on the way.             *)
LEMMA MovedSum ==
    ASSUME IInv, SumInv, NEW u \in User, NEW r \in UserState, NEW q \in UserState,
           q.checked = usr[u].checked, q.already = usr[u].already,
           r.exitnode = usr[u].exitnode \/ r.exitnode \in Shelter,
           usr' = [usr EXCEPT ![u] = q],
           movingNum' = Recounted(usr[u].exitnode, r.exitnode)
    PROVE  SumInv'
  <1>1. usr \in [User -> UserState] /\ EvTypeOK
    BY DEF IInv, EvTypeOK
  <1>2. Counted' = Counted
    BY <1>1 DEF Counted
  <1>3. /\ usr[u].exitnode \in Shelter \cup {NoNode}
        /\ r.exitnode \in Shelter \cup {NoNode}
        /\ usr[u].exitnode # NoNode => r.exitnode # NoNode
    BY <1>1, RoadAssumption DEF UserState
  <1>4. PICK e \in {-2, -1, 0, 1, 2} : Total(movingNum') = Total(movingNum) + 0 + e * WordSize
    BY <1>1, <1>3, RecountedSum
  <1>5. Cardinality(Counted') = Cardinality(Counted) + 0
    <2>1. IsFiniteSet(Counted)
      <3>1. Counted \subseteq User
        BY DEF Counted
      <3> QED BY <3>1, UsersAssumption, FS_Subset
    <2>2. Cardinality(Counted) \in Nat
      BY <2>1, FS_CardinalityType
    <2> QED BY <1>2, <2>2
  <1> QED BY <1>4, <1>5, SumMoves

LEMMA HandleUserMovementSum ==
    ASSUME IInv, SumInv, NEW u \in User, HandleUserMovement(u)
    PROVE  SumInv'
  <1>1. usr \in [User -> UserState] /\ usr[u] \in UserState
    BY DEF IInv, EvTypeOK
  <1> DEFINE r == usr[u]
             n == Noted(r)
  <1>2. /\ n \in UserState /\ n.checked = r.checked /\ n.already = r.already
        /\ n.exitnode = r.exitnode
    BY <1>1, NotedFields, FlagsKept
  <1>3. CASE Abort(u)
    BY <1>3 DEF Abort, SumInv, Counted
  <1>4. ASSUME NEW q \in UserState, NEW s \in Shelter, CompleteEvacuation(u, q, s),
               q.checked = r.checked, q.already = r.already,
               q.exitnode = r.exitnode \/ q.exitnode \in Shelter
        PROVE  SumInv'
    <2> DEFINE p == [q EXCEPT !.isExit = TRUE, !.refuge = s]
    <2>1. p \in UserState /\ p.checked = q.checked /\ p.already = q.already
      BY DEF UserState
    <2>2. usr' = [usr EXCEPT ![u] = p] /\ movingNum' = Recounted(usr[u].exitnode, q.exitnode)
      BY <1>4 DEF CompleteEvacuation
    <2> HIDE DEF p
    <2> QED BY <1>4, <2>1, <2>2, MovedSum
  <1>5. CASE EnterOnTheWay(u)
    <2>1. r.here \in Shelter /\ CompleteEvacuation(u, n, r.here)
      BY <1>5 DEF EnterOnTheWay, ReachesOpenShelter
    <2> HIDE DEF n
    <2> QED BY <1>2, <1>4, <2>1
  <1>6. CASE EnterOrWalk(u)
    <2>1. PICK q \in Recalculated(n) : \/ Arrives(q) /\ CompleteEvacuation(u, q, q.passed)
                                       \/ ~Arrives(q) /\ Walk(u, q)
      BY <1>6 DEF EnterOrWalk
    <2>2. /\ q \in UserState /\ q.checked = r.checked /\ q.already = r.already
          /\ q.exitnode = r.exitnode \/ q.exitnode \in Shelter
      BY <1>1, FlagsKept
    <2>3. CASE Arrives(q) /\ CompleteEvacuation(u, q, q.passed)
      <3>1. q.passed \in Shelter
        BY <1>6, <2>1, <2>2, <2>3 DEF EnterOrWalk, Throws, UserState
      <3> QED BY <1>4, <2>2, <2>3, <3>1
    <2>4. CASE ~Arrives(q) /\ Walk(u, q)
      <3>1. PICK f \in {b \in BOOLEAN : b => CanForesee(q, NextNode(q))} :
              usr' = [usr EXCEPT ![u] = GetWayNextVector(q, f)]
        BY <2>4 DEF Walk
      <3>2. movingNum' = Recounted(usr[u].exitnode, q.exitnode)
        BY <2>4 DEF Walk
      <3> DEFINE p == GetWayNextVector(q, f)
      <3>3. p.checked = q.checked /\ p.already = q.already
        BY <2>2, FlagsKept
      <3>4. p \in UserState
        <4>1. usr' \in [User -> UserState]
          <5>1. IInv'
            BY HandleUserMovementStep
          <5> QED BY <5>1 DEF IInv, EvTypeOK
        <4>2. usr'[u] = p
          BY <1>1, <3>1
        <4> QED BY <4>1, <4>2
      <3> HIDE DEF p
      <3>5. usr' = [usr EXCEPT ![u] = p]
        BY <3>1 DEF p
      <3> QED BY <2>2, <3>2, <3>3, <3>4, <3>5, MovedSum
    <2> QED BY <2>1, <2>3, <2>4
  <1> QED BY <1>3, <1>5, <1>6 DEF HandleUserMovement

(* Counting changes the sum by one and so the number of users counted.     *)
LEMMA CountedSum ==
    ASSUME IInv, NEW u \in EvcUser, usr[u].exitnode \in Shelter,
           NEW d \in {-1, 1}, NEW c \in Int,
           \/ c = movingNum[usr[u].exitnode] + d
           \/ c = movingNum[usr[u].exitnode] + d - WordSize
           \/ c = movingNum[usr[u].exitnode] + d + WordSize,
           movingNum' = [movingNum EXCEPT ![usr[u].exitnode] = c]
    PROVE  \E e \in {-2, -1, 0, 1, 2} :
             Total(movingNum') = Total(movingNum) + d + e * WordSize
  <1> DEFINE s == usr[u].exitnode
             t == Total(movingNum)
             m == movingNum[s]
  <1>0. /\ WordSize \in Nat \ {0} /\ IsFiniteSet(Shelter) /\ s \in Shelter
        /\ movingNum \in [Shelter -> Int] /\ m \in Int
    BY CountAssumption, RoadAssumption DEF IInv, EvTypeOK
  <1>1. /\ movingNum' \in [Shelter -> Int] /\ movingNum'[s] = c
        /\ \A x \in Shelter \ {s} : movingNum'[x] = movingNum[x]
    BY <1>0
  <1>2. t \in Int /\ Total(movingNum') = t + (c - m)
    <2> DEFINE g == movingNum'
    <2> HIDE DEF s
    <2>1. /\ g \in [Shelter -> Int] /\ g[s] = c
          /\ \A x \in Shelter \ {s} : g[x] = movingNum[x]
      BY <1>1
    <2> HIDE DEF g
    <2>2. Total(movingNum) \in Int /\ Total(g) = Total(movingNum) + (g[s] - movingNum[s])
      BY <1>0, <2>1, TotalChange
    <2> QED BY <2>1, <2>2 DEF g
  <1>3. c = m + d \/ c = m + d - WordSize \/ c = m + d + WordSize
    OBVIOUS
  <1> HIDE DEF t, m, s
  <1>4. \/ Total(movingNum') = t + d + 0 * WordSize
        \/ Total(movingNum') = t + d + (-1) * WordSize
        \/ Total(movingNum') = t + d + 1 * WordSize
    BY <1>0, <1>2, <1>3
  <1> QED BY <1>4 DEF t

LEMMA CheckMovingUserNumSum ==
    ASSUME IInv, SumInv, NEW u \in EvcUser, CheckMovingUserNum(u)
    PROVE  SumInv'
  <1> DEFINE s == usr[u].exitnode
  <1>0. /\ usr \in [User -> UserState] /\ u \in User /\ usr[u] \in UserState
        /\ s \in Shelter /\ movingNum \in [Shelter -> 0 .. WordSize - 1]
        /\ movingNum[s] \in 0 .. WordSize - 1 /\ WordSize \in Nat \ {0}
    BY CountAssumption DEF IInv, EvTypeOK, User, CheckMovingUserNum
  <1>1. IsFiniteSet(Counted) /\ Cardinality(Counted) \in Nat
    <2>1. Counted \subseteq User
      BY DEF Counted
    <2> QED BY <2>1, UsersAssumption, FS_Subset, FS_CardinalityType
  <1>2. CASE CountOn(u)
    <2> DEFINE c == Incremented(movingNum[s])
    <2>1. movingNum' = [movingNum EXCEPT ![s] = c] /\ usr' = [usr EXCEPT ![u].checked = TRUE]
      BY <1>0, <1>2 DEF CountOn
    <2>2. c = movingNum[s] + 1 \/ c = movingNum[s] + 1 - WordSize
      BY <1>0, WordArithmetic
    <2>3. c \in Int
      BY <1>0, <2>2
    <2> HIDE DEF c
    <2>4. PICK e \in {-2, -1, 0, 1, 2} : Total(movingNum') = Total(movingNum) + 1 + e * WordSize
      BY <1>0, <2>1, <2>2, <2>3, CountedSum
    <2>5. u \notin Counted /\ Counted' = Counted \cup {u}
      <3>1. ~usr[u].checked /\ ~usr[u].already
        BY <1>2 DEF CountOn
      <3>2. usr'[u].checked /\ usr'[u].already = usr[u].already
        BY <1>0, <2>1 DEF UserState
      <3>3. \A v \in User \ {u} : usr'[v] = usr[v]
        BY <1>0, <2>1
      <3> QED BY <1>0, <3>1, <3>2, <3>3 DEF Counted
    <2>6. Cardinality(Counted') = Cardinality(Counted) + 1
      BY <1>1, <2>5, FS_AddElement
    <2> QED BY <2>4, <2>6, SumMoves
  <1>3. CASE CountOff(u)
    <2> DEFINE c == Decremented(movingNum[s])
    <2>1. movingNum' = [movingNum EXCEPT ![s] = c] /\ usr' = [usr EXCEPT ![u].already = TRUE]
      BY <1>0, <1>3 DEF CountOff
    <2>2. c = movingNum[s] - 1 \/ c = movingNum[s] - 1 + WordSize
      BY <1>0, WordArithmetic
    <2>3. c \in Int /\ (c = movingNum[s] + (-1) \/ c = movingNum[s] + (-1) + WordSize)
      BY <1>0, <2>2
    <2> HIDE DEF c
    <2>4. PICK e \in {-2, -1, 0, 1, 2} : Total(movingNum') = Total(movingNum) + (-1) + e * WordSize
      BY <1>0, <2>1, <2>3, CountedSum
    <2>5. u \in Counted /\ Counted' = Counted \ {u}
      <3>1. usr[u].checked /\ ~usr[u].already
        BY <1>3 DEF CountOff
      <3>2. usr'[u].already
        BY <1>0, <2>1 DEF UserState
      <3>3. \A v \in User \ {u} : usr'[v] = usr[v]
        BY <1>0, <2>1
      <3> QED BY <1>0, <3>1, <3>2, <3>3 DEF Counted
    <2>6. Cardinality(Counted') = Cardinality(Counted) + (-1)
      BY <1>1, <2>5, FS_RemoveElement
    <2> QED BY <2>4, <2>6, SumMoves
  <1>4. CASE StopCounting(u)
    BY <1>4 DEF StopCounting, SumInv, Counted
  <1> QED BY <1>2, <1>3, <1>4 DEF CheckMovingUserNum

LEMMA SumStep == IInv /\ SumInv /\ [EvNext]_evVars => SumInv'
  <1> SUFFICES ASSUME IInv, SumInv, [EvNext]_evVars PROVE SumInv'
    OBVIOUS
  <1>0. usr \in [User -> UserState]
    BY DEF IInv, EvTypeOK
  <1>1. ASSUME NEW u \in User, HandleUserMovement(u) PROVE SumInv'
    BY <1>1, HandleUserMovementSum
  <1>2. ASSUME NEW u \in User, HearOfBlock(u) PROVE SumInv'
    <2>1. Counted' = Counted
      BY <1>0, <1>2 DEF HearOfBlock, Counted, UserState
    <2>2. movingNum' = movingNum
      BY <1>2 DEF HearOfBlock
    <2> QED BY <2>1, <2>2 DEF SumInv
  <1>3. ASSUME NEW u \in EvcUser, CheckMovingUserNum(u) PROVE SumInv'
    BY <1>3, CheckMovingUserNumSum
  <1>4. ASSUME NEW u \in AddUser, ActivateReservedAddUser(u) PROVE SumInv'
    <2>1. Counted' = Counted
      BY <1>0, <1>4 DEF ActivateReservedAddUser, Counted, UserState, User
    <2>2. movingNum' = movingNum
      BY <1>4 DEF ActivateReservedAddUser
    <2> QED BY <2>1, <2>2 DEF SumInv
  <1>5. CASE UNCHANGED evVars
    BY <1>5 DEF evVars, SumInv, Counted
  <1>6. CASE Finished
    BY <1>5, <1>6 DEF Finished
  <1> QED BY <1>1, <1>2, <1>3, <1>4, <1>5, <1>6 DEF EvNext

LEMMA SumInit == EvInit => SumInv
  <1> SUFFICES ASSUME EvInit PROVE SumInv
    OBVIOUS
  <1>1. Counted = {}
    BY DEF EvInit, Counted
  <1>2. Cardinality(Counted) = 0
    BY <1>1, FS_EmptySet
  <1>3. Total(movingNum) = 0
    <2>1. /\ movingNum \in [Shelter -> Int] /\ \A s \in Shelter : movingNum[s] = 0
          /\ IsFiniteSet(Shelter)
      BY RoadAssumption DEF EvInit
    <2> QED BY <2>1, TotalZero
  <1>4. Total(movingNum) = Cardinality(Counted) + 0 * WordSize
    BY <1>2, <1>3, CountAssumption
  <1> QED BY <1>4 DEF SumInv

(* For any road graph, any number of users and whatever the order in which *)
(* they are counted, change their target and arrive, the counts of         *)
(* moving_user_num add up, in their own arithmetic, to the users counted   *)
(* on and not yet off, although single counts wrap below zero.             *)
THEOREM SumAlwaysConserved == EvSpec => []SumConserved
  <1>1. IInv /\ SumInv => SumConserved
    <2> SUFFICES ASSUME SumInv PROVE SumConserved
      OBVIOUS
    <2>1. PICK k \in Int : Total(movingNum) = Cardinality(Counted) + k * WordSize
      BY DEF SumInv
    <2>2. Cardinality(Counted) \in Int
      <3>1. Counted \subseteq User
        BY DEF Counted
      <3> QED BY <3>1, UsersAssumption, FS_Subset, FS_CardinalityType
    <2> QED BY <2>1, <2>2, WordShift DEF SumConserved
  <1>2. EvSpec => [](IInv /\ SumInv)
    BY InitInv, NextInv, SumInit, SumStep, PTL DEF EvSpec
  <1> QED BY <1>1, <1>2, PTL
=============================================================================
