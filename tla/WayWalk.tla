------------------------------ MODULE WayWalk ------------------------------
(* One evacuee walks along the ways of the map, node by node, while blocks *)
(* are set and erased around it (MyUser::HandleUserMovement,               *)
(* GetWayNextVector, TaskOfCrossing).  It searches its way in the graph of *)
(* RoadGraph.  Shelters never fill up here (Evacuation is about that).     *)
(*                                                                         *)
(* The route found by a search is any path of the graph that ends at the   *)
(* first shelter on it: the lengths that single one out are DijkstraRoute's. *)
EXTENDS RoadGraph

CONSTANTS
    Shelter,       \* vertices with a shelter
    Start,         \* nodes at which the evacuee may be placed
    MaxEvents      \* bound: how often blocks are set, erased or told of

ASSUME WalkAssumption ==
    Shelter \subseteq Vertex /\ Start \subseteq Node /\ MaxEvents \in Nat

VARIABLES
    usr,           \* the evacuee
    blocked,       \* nodes whose isBlocked is set
    past,          \* nodes for which it has ever been set
    events         \* blocks set, erased and told of so far

vars == << graph, known, usr, blocked, past, events >>

Walker ==
    [way        : Way,                       \* id of m_currentway
     list       : Seq(Node),                 \* its nodes: here and those to come
     buf        : Seq(Node),                 \* m_wnlist_buf
     shortest   : Seq(Vertex),               \* m_shortest
     isDijkstra : BOOLEAN,
     passed     : Vertex \cup {NoNode},      \* back of m_passednode
     status     : {"moving", "exit", "undefined", "aborted"},
     lost       : BOOLEAN]                   \* the last search found no route

Here(r) == Head(r.list)

-----------------------------------------------------------------------------
(* Placing the evacuee (test.cc): along its way up to the nearer crossing  *)
(* or shelter.                                                             *)

Stops(w) == {i \in DOMAIN Nodes[w] : Nodes[w][i] \in Crossing \cup Shelter}

StartList(n) ==
    LET w == Head(WayIDs[n])
        p == Position(w, n)
        f == {i \in Stops(w) : i >= p}
        b == {i \in Stops(w) : i <= p}
    IN  IF f # {} /\ (b = {} \/ Min(f) - p <= p - Max(b))
        THEN SubSeq(Nodes[w], p, Min(f))
        ELSE Reverse(SubSeq(Nodes[w], IF b = {} THEN 1 ELSE Max(b), p))

Init ==
    /\ RGInit
    /\ blocked = {} /\ past = {} /\ events = 0
    /\ \E n \in Start :
        usr = [way |-> Head(WayIDs[n]), list |-> StartList(n), buf |-> << >>,
               shortest |-> << >>, isDijkstra |-> TRUE, passed |-> NoNode,
               status |-> "moving", lost |-> FALSE]

-----------------------------------------------------------------------------
(* TaskOfCrossing *)

Steps(w, m, n) ==
    IF Position(w, m) <= Position(w, n) THEN Position(w, n) - Position(w, m)
    ELSE Position(w, m) - Position(w, n)

WaysTo(m, n) == {w \in ToSet(WayIDs[m]) : n \in ToSet(Nodes[w])}

(* The way with the shorter walk from m to n, the first of them.  A walk   *)
(* is as long as it has steps.                                             *)
WayTo(m, n) ==
    LET best == {w \in WaysTo(m, n) : \A v \in WaysTo(m, n) : Steps(w, m, n) <= Steps(v, m, n)}
    IN  WayIDs[m][Min({i \in DOMAIN WayIDs[m] : WayIDs[m][i] \in best})]

(* From an end of the way the whole of it, else the part up to n. *)
ListTo(w, m, n) ==
    IF Head(Nodes[w]) = m THEN Nodes[w]
    ELSE IF Last(Nodes[w]) = m THEN Reverse(Nodes[w])
    ELSE IF Position(w, m) <= Position(w, n)
    THEN SubSeq(Nodes[w], Position(w, m), Position(w, n))
    ELSE Reverse(SubSeq(Nodes[w], Position(w, n), Position(w, m)))

(* At crossing n.  Of an empty route the front is never n's coordinate.    *)
TaskOfCrossing(r, n) ==
    LET rest == Tail(r.shortest)
        done == [r EXCEPT !.passed = n, !.shortest = rest]
    IN  IF r.shortest = << >> THEN r
        ELSE IF Head(r.shortest) # n THEN r
        ELSE IF rest = << >> THEN done
        ELSE IF WaysTo(n, Head(rest)) = {} THEN [done EXCEPT !.status = "undefined"]
        ELSE LET w == WayTo(n, Head(rest)) IN
             [done EXCEPT !.way = w, !.list = ListTo(w, n, Head(rest))]

-----------------------------------------------------------------------------
(* DijkstraRouteCalculationforGeographicInfo *)

VertexSeqs == UNION {Injection(1 .. k, Vertex) : k \in 1 .. Cardinality(Vertex)}

IsPath(p, R) == \A i \in 1 .. Len(p) - 1 : << p[i], p[i + 1] >> \in R

PathsFrom(v, R) == {p \in VertexSeqs : p[1] = v /\ IsPath(p, R)}

(* A listed shelter that cannot be reached ends the calculation. *)
CutOff(v, R) == \E s \in Shelter : \A p \in PathsFrom(v, R) : Last(p) # s

RoutesFrom(v, R) ==
    {p \in PathsFrom(v, R) :
        Last(p) \in Shelter /\ \A i \in 1 .. Len(p) - 1 : p[i] \notin Shelter}

MustCalculate(r) == r.isDijkstra /\ Here(r) \in Crossing

(* The evacuee after the calculation that is due, if one is.  Without a    *)
(* result the old route stays.                                             *)
Calculated(r, g) ==
    IF ~MustCalculate(r) THEN {r}
    ELSE IF Here(r) \notin DOMAIN g \/ CutOff(Here(r), EdgesOf(g)) THEN {[r EXCEPT !.isDijkstra = FALSE, !.lost = TRUE]}
    ELSE {TaskOfCrossing([r EXCEPT !.isDijkstra = FALSE, !.lost = FALSE, !.shortest = p],
                         Here(r)) : p \in RoutesFrom(Here(r), EdgesOf(g))}

-----------------------------------------------------------------------------
(* GetWayNextVector *)

Ahead(r) == Tail(r.list)

WaitsAtEnd(r) == [r EXCEPT !.buf = << >>]  \* mutant: no way back is looked up

(* The list is used up: the way back from the end of the way.  Of a way of *)
(* two nodes both ends are tried, since the first try has changed the list. *)
TurnedAtEnd(r) ==
    LET full == Nodes[r.way]
        first == IF Head(full) = Here(r) THEN Tail(full) ELSE << >>
        front == IF first = << >> THEN Here(r) ELSE Head(first)
        back == IF Last(full) = front THEN Tail(first \o Reverse(full)) ELSE first
    IN  [r EXCEPT !.list = IF back = << >> THEN @ ELSE back, !.buf = back]

(* The nodes of the way on this side of block b, walking away from it. *)
NearSide(r, b) ==
    LET full == Nodes[r.way]
        h == Position(r.way, Here(r))
    IN  IF Here(r) \notin ToSet(full) THEN << >>
        ELSE IF b \in ToSet(full) /\ Position(r.way, b) < h
        THEN SubSeq(full, h + 1, Len(full))
        ELSE Reverse(SubSeq(full, 1, h - 1))

(* Turning back from block b: with nothing on this side the list before    *)
(* this one is taken up again.                                             *)
TurnedBack(r, b) ==
    LET side == NearSide(r, b)
        s == [r EXCEPT !.isDijkstra = TRUE, !.buf = side]
    IN  CASE side # << >> -> [s EXCEPT !.list = side]
          [] side = << >> /\ {Here(r), b} \cap ToSet(Nodes[r.way]) = {} -> s
          [] OTHER -> IF Len(r.buf) < 2 THEN [s EXCEPT !.status = "undefined"]
                      ELSE [s EXCEPT !.list = Tail(r.buf)]

AtNextNode(r) ==
    IF r.status = "moving" /\ Here(r) \in Crossing THEN TaskOfCrossing(r, Here(r)) ELSE r

SeesBlock(r) == Ahead(r) # << >> /\ Head(Ahead(r)) \in blocked

Advanced(r) ==
    AtNextNode(
        IF Ahead(r) = << >> THEN TurnedAtEnd(r)
        ELSE IF SeesBlock(r) THEN TurnedBack(r, Head(Ahead(r)))
        ELSE [r EXCEPT !.list = Ahead(r), !.buf = Ahead(r)])

-----------------------------------------------------------------------------
(* HandleUserMovement: information too old is dropped (E); then the        *)
(* evacuee is in a shelter, or calculates if that is due and ends or goes  *)
(* on to the next node.                                                    *)

InShelter(r) == Here(r) \in Shelter /\ r.shortest # << >>

HasNoRoute(r) == r.shortest = << >>        \* mutant: a search that is due is ignored

HasArrived(r) == r.shortest = << >> /\ ~r.isDijkstra

(* CompleteEvacuation("NONE"): the last crossing passed is the shelter;    *)
(* without one the look-up throws and the program ends.                    *)
EvacuateAtPassed(r, g, k) ==
    /\ usr' = [r EXCEPT !.status = IF r.passed \in Shelter THEN "exit" ELSE "aborted"]
    /\ graph' = g /\ known' = k

GoOn(r, g, k) ==
    /\ usr' = Advanced(r)
    /\ IF SeesBlock(r)
       THEN LET b == Head(Ahead(r)) IN
            known' = k \cup {b} /\ graph' = Cut(Cut(g, b), b)
       ELSE known' = k /\ graph' = g

HandleUserMovement(E) ==
    LET g == IF E = {} THEN graph ELSE Restored(graph, E)
        k == known \ E
    IN  /\ usr.status = "moving" /\ graph # Thrown
        /\ UNCHANGED << blocked, past, events >>
        /\ IF g = Thrown \/ InShelter(usr)
           THEN /\ usr' = [usr EXCEPT !.status = IF g = Thrown THEN @ ELSE "exit"]
                /\ graph' = g /\ known' = k
           ELSE \E r \in Calculated(usr, g) :
                    IF HasArrived(r) THEN EvacuateAtPassed(r, g, k) ELSE GoOn(r, g, k)

Happens == usr.status = "moving" /\ graph # Thrown /\ events < MaxEvents /\ events' = events + 1

HearQuietly(b) ==                         \* mutant: no new search is due
    Happens /\ b \in past /\ Learn(b) /\ UNCHANGED << usr, blocked, past >>

(* A packet tells of a block, one that may have been erased since. *)
Hear(b) ==
    /\ Happens /\ b \in past
    /\ Learn(b)
    /\ usr' = [usr EXCEPT !.isDijkstra = TRUE]
    /\ UNCHANGED << blocked, past >>

(* update_mapinfo sets or erases a block. *)
SetBlock(b) ==
    /\ Happens /\ b \notin blocked
    /\ blocked' = blocked \cup {b} /\ past' = past \cup {b}
    /\ UNCHANGED << graph, known, usr >>

EraseBlock(b) ==
    /\ Happens /\ b \in blocked
    /\ blocked' = blocked \ {b}
    /\ UNCHANGED << graph, known, usr, past >>

Move == \E E \in SUBSET known : HandleUserMovement(E)

Next ==
    \/ Move
    \/ \E b \in Block : Hear(b) \/ SetBlock(b) \/ EraseBlock(b)

(* The movement timer fires as long as the evacuee walks. *)
Spec == Init /\ [][Next]_vars /\ WF_vars(Move)

-----------------------------------------------------------------------------
(* What the comment on m_wnlist_buf says of it, that it keeps the list     *)
(* before this one (evacuation-user.cc:811), and GetWayNextVector makes of *)
(* it: taken up again before a block, it is a way to walk back on.  The    *)
(* list of nodes to come is a part of the way whose id is kept with it, in *)
(* one of its two directions: NearSide and TurnedAtEnd look the place up   *)
(* in that way.                                                            *)
OnItsWay ==
    LET full == Nodes[usr.way] IN
    /\ usr \in Walker /\ usr.status # "undefined"
    /\ \E i, j \in DOMAIN full :
        i <= j /\ usr.list \in {SubSeq(full, i, j), Reverse(SubSeq(full, i, j))}

(* An evacuee that has walked to a node was not led to a closed one.  Two  *)
(* blocks on a road, with the evacuee between them, refute this            *)
(* (Walk_between.cfg): only the node ahead is tested, never the one turned *)
(* back to.                                                                *)
WalksOnOpenRoad ==
    [][events' = events /\ usr'.status = "moving" /\ graph' # Thrown
        => Here(usr') \notin blocked]_vars

(* The route still to be walked uses no road on which the evacuee knows a  *)
(* block, unless a new search is due or the last one found no route.       *)
RouteKnownOpen ==
    usr.status = "moving" /\ graph # Thrown /\ ~usr.isDijkstra /\ ~usr.lost
        => IsPath((IF usr.passed = NoNode THEN << >> ELSE << usr.passed >>) \o usr.shortest,
                  EdgesOf(graph))

(* The program ends early only when a shelter is cut off from where the    *)
(* evacuee is by blocks it knows.                                          *)
AbortsOnlyWhenCutOff ==
    usr.status = "aborted" => CutOff(Here(usr), Promise!Free(known))

(* Once the roads stay open the evacuee gets to a shelter, whatever stale  *)
(* news it holds, or the program has ended early.                          *)
ArrivesOnceOpen ==
    <>[](blocked = {}) => <>(usr.status \in {"exit", "aborted"})
=============================================================================
