--------------------------- MODULE WayWalkProofs ---------------------------
(* Proofs about the road graph of an evacuee: on every map, for blocks     *)
(* that lie alone within a road (PlainBlocks), what blocks it hears of,    *)
(* meets and forgets leaves its graph what OpenRoads promises.             *)
(* Its route then uses no road known to be closed, and the program ends    *)
(* early only when a shelter is cut off.                                   *)
EXTENDS WayWalk, DataInduction, TLAPS

(* The graph has an entry for every vertex, and a neighbour is missing     *)
(* just when a block known lies between.                                   *)
Opens(g, K) ==
    /\ g \in [Vertex -> SUBSET Vertex]
    /\ \A v, w \in Vertex :
        w \in g[v] <=> w \in MapNeighbors(v) /\ \A b \in K : {v, w} # {SNode(b), ENode(b)}

LEMMA NeighborsSymmetric ==
  ASSUME NEW v, NEW w, w \in MapNeighbors(v)
  PROVE  v \in MapNeighbors(w) /\ v \in Vertex /\ w \in Vertex /\ v # w
  <1> DEFINE From(x) == {t \in Stretch : x \in EndsOf(t)}
  <1>1. w \in UNION {EndsOf(t) : t \in From(v)} /\ w # v
    BY DEF MapNeighbors
  <1>2. PICK X \in {EndsOf(t) : t \in From(v)} : w \in X
    BY <1>1
  <1>3. PICK t \in From(v) : X = EndsOf(t)
    BY <1>2
  <1>4. t \in Stretch /\ v \in EndsOf(t) /\ w \in EndsOf(t)
    BY <1>2, <1>3
  <1>5. v \in UNION {EndsOf(s) : s \in From(w)}
    BY <1>4
  <1>6. v \in MapNeighbors(w)
    BY <1>1, <1>5 DEF MapNeighbors
  <1>7. v \in Vertex /\ w \in Vertex
    BY <1>4 DEF Vertex
  <1> QED
    BY <1>1, <1>6, <1>7

(* A block's crossings are the ends of its road, and of no other block's.  *)
LEMMA BlockEnds ==
  ASSUME PlainBlocks, NEW b \in Block
  PROVE  /\ b \notin Crossing
         /\ SNode(b) \in Vertex /\ ENode(b) \in Vertex /\ SNode(b) # ENode(b)
         /\ ENode(b) \in MapNeighbors(SNode(b)) /\ SNode(b) \in MapNeighbors(ENode(b))
         /\ \A r \in MapRoads :
                b \in BlocksOnRoad[r] <=> {r[1], r[2]} = {SNode(b), ENode(b)}
         /\ \A c \in Block : {SNode(c), ENode(c)} = {SNode(b), ENode(b)} => c = b
  <1> DEFINE S == SNode(b)
             E == ENode(b)
             On(X) == UNION {Block \cap NodesOn(t) : t \in {s \in Stretch : EndsOf(s) = X}}
  <1>1. PICK r \in MapRoads : b \in BlocksOnRoad[r]
    BY DEF PlainBlocks
  <1>2. {r[1], r[2]} = {S, E} /\ BlocksOnRoad[r] = {b} /\ b \notin Crossing
    BY <1>1 DEF PlainBlocks
  <1>3. r[1] \in Vertex /\ r[2] \in Vertex /\ r[2] \in MapNeighbors(r[1])
    BY DEF MapRoads
  <1>4. r[1] # r[2] /\ r[1] \in MapNeighbors(r[2])
    BY <1>3, NeighborsSymmetric
  <1>5. (S = r[1] /\ E = r[2]) \/ (S = r[2] /\ E = r[1])
    <2> HIDE DEF S, E
    <2> QED BY <1>2, <1>4
  <1>6. \A q \in MapRoads : BlocksOnRoad[q] = On({q[1], q[2]})
    BY DEF BlocksOnRoad
  <1>7. ASSUME NEW q \in MapRoads
        PROVE  b \in BlocksOnRoad[q] <=> {q[1], q[2]} = {S, E}
    <2>1. b \in BlocksOnRoad[q] => {q[1], q[2]} = {S, E}
      BY DEF PlainBlocks
    <2>2. ASSUME {q[1], q[2]} = {S, E} PROVE b \in BlocksOnRoad[q]
      <3>1. BlocksOnRoad[q] = On({q[1], q[2]}) /\ BlocksOnRoad[r] = On({r[1], r[2]})
        BY <1>6
      <3>2. {q[1], q[2]} = {r[1], r[2]}
        BY <1>2, <2>2
      <3> QED BY <1>1, <3>1, <3>2
    <2> QED BY <2>1, <2>2
  <1>8. ASSUME NEW c \in Block, {SNode(c), ENode(c)} = {S, E} PROVE c = b
    <2>1. PICK q \in MapRoads : c \in BlocksOnRoad[q]
      BY DEF PlainBlocks
    <2>2. {q[1], q[2]} = {SNode(c), ENode(c)} /\ BlocksOnRoad[q] = {c}
      BY <2>1 DEF PlainBlocks
    <2>3. b \in BlocksOnRoad[q]
      BY <1>7, <1>8, <2>2
    <2> QED BY <2>2, <2>3
  <1> QED
    BY <1>2, <1>3, <1>4, <1>5, <1>7, <1>8

LEMMA OpensNotThrown ==
  ASSUME NEW g, NEW K, Opens(g, K)
  PROVE  g # Thrown /\ DOMAIN g = Vertex
  BY ThrownAssumption DEF Opens

(* UpdateGraphInfo for a block within a road. *)
LEMMA CutOpens ==
  ASSUME PlainBlocks, NEW g, NEW K, NEW b \in Block, Opens(g, K)
  PROVE  Opens(Cut(g, b), K \cup {b})
  <1> DEFINE S == SNode(b)
             E == ENode(b)
             h == Cut(g, b)
  <1>1. b \notin Crossing /\ S \in Vertex /\ E \in Vertex /\ S # E
    BY BlockEnds
  <1>2. g # Thrown /\ DOMAIN g = Vertex /\ g \in [Vertex -> SUBSET Vertex]
    BY OpensNotThrown DEF Opens
  <1>3. h = [v \in Vertex |-> CASE v = S -> g[v] \ {E}
                                [] v = E -> g[v] \ {S}
                                [] OTHER -> g[v]]
    BY <1>1, <1>2 DEF Cut, CutRoad
  <1> HIDE DEF S, E, h
  <1>4. ASSUME NEW v \in Vertex, NEW w \in Vertex
        PROVE  w \in h[v] <=> w \in g[v] /\ {v, w} # {S, E}
    <2>1. CASE v = S
      BY <1>1, <1>3, <2>1
    <2>2. CASE v = E
      BY <1>1, <1>3, <2>2
    <2>3. CASE v # S /\ v # E
      BY <1>3, <2>3
    <2> QED BY <2>1, <2>2, <2>3
  <1>5. h \in [Vertex -> SUBSET Vertex]
    BY <1>1, <1>2, <1>3
  <1>6. ASSUME NEW v \in Vertex, NEW w \in Vertex
        PROVE  w \in h[v] <=> /\ w \in MapNeighbors(v)
                              /\ \A c \in K \cup {b} : {v, w} # {SNode(c), ENode(c)}
    <2>1. w \in g[v] <=> w \in MapNeighbors(v) /\ \A c \in K : {v, w} # {SNode(c), ENode(c)}
      BY DEF Opens
    <2> QED BY <1>4, <2>1 DEF S, E
  <1> QED BY <1>5, <1>6 DEF Opens, h

(* RestoreGraphInfo for blocks within roads. *)
LEMMA RestoreOpens ==
  ASSUME PlainBlocks, NEW g, NEW K \in SUBSET Block, NEW E \in SUBSET K, Opens(g, K)
  PROVE  Opens(Restored(g, E), K \ E)
  <1> DEFINE h == Restored(g, E)
  <1>1. g # Thrown /\ DOMAIN g = Vertex /\ g \in [Vertex -> SUBSET Vertex]
    BY OpensNotThrown DEF Opens
  <1>2. \A b \in E : SNode(b) \in Vertex /\ ENode(b) \in Vertex /\ b \notin Crossing
    BY BlockEnds
  <1>3. E \cap Crossing = {} /\ E \ Crossing = E
    BY <1>2
  <1>4. h = [v \in Vertex |->
               g[v] \cup {ENode(b) : b \in {c \in E : SNode(c) = v}}
                    \cup {SNode(b) : b \in {c \in E : ENode(c) = v}}]
    <2>1. h = RestoreRoads(g, E)
      BY <1>3 DEF Restored
    <2>2. \A b \in E : {SNode(b), ENode(b)} \subseteq DOMAIN g
      BY <1>1, <1>2
    <2> HIDE DEF h
    <2> QED BY <1>1, <2>1, <2>2 DEF RestoreRoads
  <1> HIDE DEF h
  <1>5. ASSUME NEW v \in Vertex, NEW w \in Vertex
        PROVE  w \in h[v] <=> w \in g[v] \/ \E b \in E : {v, w} = {SNode(b), ENode(b)}
    <2>1. w \in h[v] <=> \/ w \in g[v]
                         \/ \E b \in E : SNode(b) = v /\ w = ENode(b)
                         \/ \E b \in E : ENode(b) = v /\ w = SNode(b)
      BY <1>4
    <2> QED BY <2>1
  <1>6. h \in [Vertex -> SUBSET Vertex]
    BY <1>1, <1>2, <1>4
  <1>7. ASSUME NEW v \in Vertex, NEW w \in Vertex
        PROVE  w \in h[v] <=> /\ w \in MapNeighbors(v)
                              /\ \A c \in K \ E : {v, w} # {SNode(c), ENode(c)}
    <2>1. w \in g[v] <=> w \in MapNeighbors(v) /\ \A c \in K : {v, w} # {SNode(c), ENode(c)}
      BY DEF Opens
    <2>2. CASE \E b \in E : {v, w} = {SNode(b), ENode(b)}
      <3>1. PICK b \in E : {v, w} = {SNode(b), ENode(b)}
        BY <2>2
      <3>2. /\ ENode(b) \in MapNeighbors(SNode(b)) /\ SNode(b) \in MapNeighbors(ENode(b))
            /\ SNode(b) # ENode(b)
            /\ \A c \in Block : {SNode(c), ENode(c)} = {SNode(b), ENode(b)} => c = b
        BY BlockEnds
      <3>3. w \in MapNeighbors(v)
        <4>1. (v = SNode(b) /\ w = ENode(b)) \/ (v = ENode(b) /\ w = SNode(b))
          BY <3>1, <3>2
        <4> QED BY <3>2, <4>1
      <3>4. \A c \in K \ E : {v, w} # {SNode(c), ENode(c)}
        BY <3>1, <3>2
      <3> QED BY <1>5, <2>2, <3>3, <3>4
    <2>3. CASE ~(\E b \in E : {v, w} = {SNode(b), ENode(b)})
      <3>1. (\A c \in K : {v, w} # {SNode(c), ENode(c)})
              <=> \A c \in K \ E : {v, w} # {SNode(c), ENode(c)}
        BY <2>3
      <3> QED BY <1>5, <2>1, <2>3, <3>1
    <2> QED BY <2>2, <2>3
  <1> QED BY <1>6, <1>7 DEF Opens, h

(* What the search sees of such a graph. *)
LEMMA OpensFree ==
  ASSUME PlainBlocks, NEW g, NEW K \in SUBSET Block, Opens(g, K)
  PROVE  EdgesOf(g) = Promise!Free(K)
  <1>1. g # Thrown /\ DOMAIN g = Vertex
    BY OpensNotThrown
  <1>2. DOMAIN BlocksOnRoad = MapRoads
    BY DEF BlocksOnRoad
  <1>3. Promise!Free(K) = {r \in MapRoads : BlocksOnRoad[r] \cap K = {}}
    BY <1>2 DEF Promise!Free
  <1>4. EdgesOf(g) = {r \in Vertex \X Vertex : r[2] \in g[r[1]]}
    BY <1>1 DEF EdgesOf
  <1>5. ASSUME NEW r \in Vertex \X Vertex
        PROVE  r[2] \in g[r[1]] <=> r \in MapRoads /\ BlocksOnRoad[r] \cap K = {}
    <2>1. r[1] \in Vertex /\ r[2] \in Vertex
      OBVIOUS
    <2>2. r[2] \in g[r[1]] <=> /\ r[2] \in MapNeighbors(r[1])
                               /\ \A b \in K : {r[1], r[2]} # {SNode(b), ENode(b)}
      BY <2>1 DEF Opens
    <2>3. r \in MapRoads <=> r[2] \in MapNeighbors(r[1])
      BY DEF MapRoads
    <2>4. ASSUME r \in MapRoads
          PROVE  BlocksOnRoad[r] \cap K = {}
                    <=> \A b \in K : {r[1], r[2]} # {SNode(b), ENode(b)}
      <3>1. \A b \in K : b \in BlocksOnRoad[r] <=> {r[1], r[2]} = {SNode(b), ENode(b)}
        BY <2>4, BlockEnds
      <3> QED BY <3>1
    <2> QED BY <2>2, <2>3, <2>4
  <1>6. MapRoads \subseteq Vertex \X Vertex
    BY DEF MapRoads
  <1> QED BY <1>3, <1>4, <1>5, <1>6

-----------------------------------------------------------------------------
RoadInv ==
    /\ known \subseteq Block /\ blocked \subseteq Block
    /\ Opens(graph, known)

LEMMA RoadInitial ==
  ASSUME Init
  PROVE  RoadInv
  <1>1. graph = [v \in Vertex |-> MapNeighbors(v)] /\ known = {} /\ blocked = {}
    BY DEF Init, RGInit, MapGraph
  <1>2. \A v \in Vertex : MapNeighbors(v) \subseteq Vertex
    BY NeighborsSymmetric
  <1>3. graph \in [Vertex -> SUBSET Vertex] /\ \A v \in Vertex : graph[v] = MapNeighbors(v)
    BY <1>1, <1>2
  <1> QED BY <1>1, <1>3 DEF RoadInv, Opens

(* The graph once the information about E is dropped. *)
Dropped(E) == IF E = {} THEN graph ELSE Restored(graph, E)

LEMMA DropOpens ==
  ASSUME PlainBlocks, RoadInv, NEW E \in SUBSET known
  PROVE  Opens(Dropped(E), known \ E) /\ Dropped(E) # Thrown
  <1>1. CASE E = {}
    <2>1. known \ E = known
      BY <1>1
    <2> QED BY <1>1, <2>1, OpensNotThrown DEF RoadInv, Dropped
  <1>2. CASE E # {}
    <2>1. Opens(Restored(graph, E), known \ E)
      BY RestoreOpens DEF RoadInv
    <2> QED BY <1>2, <2>1, OpensNotThrown DEF Dropped
  <1> QED BY <1>1, <1>2

(* One movement, as far as the graph is concerned: nothing is met, or one  *)
(* block, which is cut twice (UpdateMyGraphInfo and the news of it).       *)
LEMMA MoveGraph ==
  ASSUME PlainBlocks, RoadInv, NEW E \in SUBSET known, HandleUserMovement(E)
  PROVE  /\ blocked' = blocked /\ past' = past /\ events' = events
         /\ \/ graph' = Dropped(E) /\ known' = known \ E
            \/ \E b \in blocked :
                /\ graph' = Cut(Cut(Dropped(E), b), b)
                /\ known' = (known \ E) \cup {b}
  <1>1. blocked' = blocked /\ past' = past /\ events' = events
    BY DEF HandleUserMovement
  <1>2. CASE InShelter(usr)
    BY <1>1, <1>2, DropOpens DEF HandleUserMovement, Dropped
  <1>3. CASE ~InShelter(usr)
    <2>1. PICK r \in Calculated(usr, Dropped(E)) :
            IF HasArrived(r) THEN EvacuateAtPassed(r, Dropped(E), known \ E)
            ELSE GoOn(r, Dropped(E), known \ E)
      BY <1>3, DropOpens DEF HandleUserMovement, Dropped
    <2>2. CASE HasArrived(r)
      BY <1>1, <2>1, <2>2 DEF EvacuateAtPassed
    <2>3. CASE ~HasArrived(r)
      <3>1. GoOn(r, Dropped(E), known \ E)
        BY <2>1, <2>3
      <3>2. CASE SeesBlock(r)
        <4> DEFINE b == Head(Ahead(r))
        <4>1. b \in blocked
          BY <3>2 DEF SeesBlock
        <4>2. /\ known' = (known \ E) \cup {b}
              /\ graph' = Cut(Cut(Dropped(E), b), b)
          BY <3>1, <3>2 DEF GoOn
        <4> QED BY <1>1, <4>1, <4>2
      <3>3. CASE ~SeesBlock(r)
        BY <1>1, <3>1, <3>3 DEF GoOn
      <3> QED BY <3>2, <3>3
    <2> QED BY <2>2, <2>3
  <1> QED BY <1>2, <1>3

LEMMA RoadInductive ==
  ASSUME PlainBlocks, RoadInv, [Next]_vars
  PROVE  RoadInv'
  <1>1. ASSUME NEW E \in SUBSET known, HandleUserMovement(E) PROVE RoadInv'
    <2>1. Opens(Dropped(E), known \ E) /\ known \ E \subseteq Block
      BY DropOpens DEF RoadInv
    <2>2. CASE graph' = Dropped(E) /\ known' = known \ E
      BY <1>1, <2>1, <2>2, MoveGraph DEF RoadInv, Opens
    <2>3. ASSUME NEW b \in blocked,
                 graph' = Cut(Cut(Dropped(E), b), b), known' = (known \ E) \cup {b}
          PROVE  RoadInv'
      <3>1. b \in Block
        BY DEF RoadInv
      <3>2. Opens(Cut(Dropped(E), b), (known \ E) \cup {b})
        BY <2>1, <3>1, CutOpens
      <3>3. Opens(Cut(Cut(Dropped(E), b), b), ((known \ E) \cup {b}) \cup {b})
        BY <3>1, <3>2, CutOpens
      <3>4. ((known \ E) \cup {b}) \cup {b} = known'
        BY <2>3
      <3>5. Opens(graph', known')
        BY <2>3, <3>3, <3>4
      <3> QED BY <1>1, <2>1, <2>3, <3>1, <3>5, MoveGraph DEF RoadInv, Opens
    <2> QED BY <1>1, <2>2, <2>3, MoveGraph
  <1>2. ASSUME NEW b \in Block, Hear(b) PROVE RoadInv'
    <2>1. graph' = Cut(graph, b) /\ known' = known \cup {b} /\ blocked' = blocked
      BY <1>2 DEF Hear, Learn
    <2>2. Opens(Cut(graph, b), known \cup {b})
      BY CutOpens DEF RoadInv
    <2> QED BY <2>1, <2>2 DEF RoadInv, Opens
  <1>3. ASSUME NEW b \in Block, SetBlock(b) \/ EraseBlock(b) PROVE RoadInv'
    BY <1>3 DEF SetBlock, EraseBlock, RoadInv, Opens
  <1>4. CASE UNCHANGED vars
    BY <1>4 DEF vars, RoadInv, Opens
  <1> QED BY <1>1, <1>2, <1>3, <1>4 DEF Next, Move

LEMMA RoadInvHolds ==
  ASSUME PlainBlocks
  PROVE  Spec => []RoadInv
  <1>1. Init => RoadInv
    BY RoadInitial
  <1>2. RoadInv /\ [Next]_vars => RoadInv'
    BY RoadInductive
  <1> QED BY <1>1, <1>2, PTL DEF Spec

(* UpdateGraphInfo and RestoreGraphInfo, on every map whose blocks lie     *)
(* alone within a road: whatever the order in which an evacuee meets       *)
(* blocks, hears of them, hears of them again and forgets them, its graph  *)
(* offers exactly the roads on which it knows no block.                    *)
THEOREM GraphKeepsPromise ==
  ASSUME PlainBlocks
  PROVE  Spec => KeepsPromise
  <1>1. Init => Promise!Init
    <2> SUFFICES ASSUME Init PROVE Promise!Init
      OBVIOUS
    <2>1. RoadInv /\ known = {}
      BY RoadInitial DEF Init, RGInit
    <2>2. EdgesOf(graph) = Promise!Free(known)
      BY <2>1, OpensFree DEF RoadInv
    <2>3. Promise!Free({}) = DOMAIN BlocksOnRoad
      BY DEF Promise!Free
    <2> QED BY <2>1, <2>2, <2>3 DEF Promise!Init
  <1>2. RoadInv /\ RoadInv' /\ [Next]_vars => [Promise!Next]_<< known, EdgesOf(graph) >>
    <2> SUFFICES ASSUME RoadInv' PROVE Promise!Next
      OBVIOUS
    <2>1. known' \in SUBSET Block /\ Opens(graph', known')
      BY DEF RoadInv, Opens
    <2>2. EdgesOf(graph') = Promise!Free(known')
      BY <2>1, OpensFree
    <2> QED BY <2>1, <2>2 DEF Promise!Next, EdgesOf
  <1> QED
    BY <1>1, <1>2, RoadInvHolds, PTL DEF Spec, KeepsPromise, Promise!Spec


(* RestoreGraphInfo, "revival of a closed road" (evacuation-user.cc:845),  *)
(* on every map whose blocks lie alone within a road: whatever was cut and *)
(* restored before, in any order, a graph on which every block is          *)
(* forgotten is the whole map.  restore_crossing shows that a block at a   *)
(* crossing is enough for the opposite.                                    *)
THEOREM ForgettingBringsMapBack ==
  ASSUME PlainBlocks
  PROVE  Spec => []MapComesBack
  <1>1. RoadInv => MapComesBack
    <2> SUFFICES ASSUME RoadInv, known = {} PROVE EdgesOf(graph) = MapRoads
      BY DEF MapComesBack
    <2>1. EdgesOf(graph) = Promise!Free(known)
      BY OpensFree DEF RoadInv
    <2>2. Promise!Free({}) = DOMAIN BlocksOnRoad
      BY DEF Promise!Free
    <2> QED BY <2>1, <2>2 DEF BlocksOnRoad
  <1> QED BY <1>1, RoadInvHolds, PTL
-----------------------------------------------------------------------------
(* The fields of an evacuee the route depends on are well typed. *)
IsWalker(r) ==
    r \in [way : {r.way}, list : {r.list}, buf : {r.buf}, shortest : Seq(Vertex),
           isDijkstra : BOOLEAN, passed : Vertex \cup {NoNode},
           status : {"moving", "exit", "undefined", "aborted"}, lost : BOOLEAN]

(* q has the route of r, or that of r with its first vertex passed. *)
SameRoute(q, r) == q.passed = r.passed /\ q.shortest = r.shortest

PassedFirst(q, r) ==
    r.shortest # << >> /\ q.passed = Head(r.shortest) /\ q.shortest = Tail(r.shortest)

LEMMA TaskFields ==
  ASSUME NEW r, IsWalker(r), NEW n, NEW q, q = TaskOfCrossing(r, n)
  PROVE  /\ IsWalker(q) /\ q.isDijkstra = r.isDijkstra /\ q.lost = r.lost
         /\ q.status \in {r.status, "undefined"}
         /\ IF r.shortest # << >> /\ Head(r.shortest) = n
            THEN PassedFirst(q, r) ELSE q = r
  <1> DEFINE rest == Tail(r.shortest)
             done == [r EXCEPT !.passed = n, !.shortest = rest]
             w == WayTo(n, Head(rest))
  <1>1. CASE ~(r.shortest # << >> /\ Head(r.shortest) = n)
    BY <1>1 DEF TaskOfCrossing
  <1>2. CASE r.shortest # << >> /\ Head(r.shortest) = n
    <2>1. n \in Vertex /\ rest \in Seq(Vertex)
      BY <1>2 DEF IsWalker
    <2>2. q \in {done, [done EXCEPT !.status = "undefined"],
                 [done EXCEPT !.way = w, !.list = ListTo(w, n, Head(rest))]}
      BY <1>2 DEF TaskOfCrossing
    <2> HIDE DEF rest, w
    <2>3. CASE q = done
      BY <1>2, <2>1, <2>3 DEF IsWalker, PassedFirst, rest
    <2>4. CASE q = [done EXCEPT !.status = "undefined"]
      BY <1>2, <2>1, <2>4 DEF IsWalker, PassedFirst, rest
    <2>5. CASE q = [done EXCEPT !.way = w, !.list = ListTo(w, n, Head(rest))]
      BY <1>2, <2>1, <2>5 DEF IsWalker, PassedFirst, rest
    <2> QED BY <2>2, <2>3, <2>4, <2>5
  <1> QED BY <1>1, <1>2

LEMMA AdvancedFields ==
  ASSUME NEW r, IsWalker(r)
  PROVE  LET q == Advanced(r) IN
         /\ IsWalker(q) /\ q.lost = r.lost
         /\ q.isDijkstra = IF SeesBlock(r) THEN TRUE ELSE r.isDijkstra
         /\ q.status \in {r.status, "undefined"}
         /\ SameRoute(q, r) \/ PassedFirst(q, r)
  <1> DEFINE b == Head(Ahead(r))
             s == IF Ahead(r) = << >> THEN TurnedAtEnd(r)
                  ELSE IF SeesBlock(r) THEN TurnedBack(r, b)
                  ELSE [r EXCEPT !.list = Ahead(r), !.buf = Ahead(r)]
             Moved(x) == /\ IsWalker(x) /\ x.lost = r.lost
                         /\ x.isDijkstra = IF SeesBlock(r) THEN TRUE ELSE r.isDijkstra
                         /\ x.status \in {r.status, "undefined"}
                         /\ SameRoute(x, r)
  <1>1. ASSUME Ahead(r) = << >> PROVE Moved(s)
    <2>1. ~SeesBlock(r)
      BY <1>1 DEF SeesBlock
    <2>2. \E x, y : s = [r EXCEPT !.list = x, !.buf = y]
      BY <1>1 DEF TurnedAtEnd
    <2>3. PICK x, y : s = [r EXCEPT !.list = x, !.buf = y]
      BY <2>2
    <2> HIDE DEF s
    <2> QED BY <2>1, <2>3 DEF IsWalker, SameRoute
  <1>2. ASSUME Ahead(r) # << >> /\ SeesBlock(r) PROVE Moved(s)
    <2>1. s = TurnedBack(r, b)
      BY <1>2
    <2> DEFINE side == NearSide(r, b)
               t == [r EXCEPT !.isDijkstra = TRUE, !.buf = side]
    <2>2. s \in {t, [t EXCEPT !.list = side], [t EXCEPT !.status = "undefined"],
                 [t EXCEPT !.list = Tail(r.buf)]}
      BY <2>1 DEF TurnedBack
    <2> HIDE DEF s, side
    <2>3. CASE s = t
      BY <1>2, <2>3 DEF IsWalker, SameRoute
    <2>4. CASE s = [t EXCEPT !.list = side]
      BY <1>2, <2>4 DEF IsWalker, SameRoute
    <2>5. CASE s = [t EXCEPT !.status = "undefined"]
      BY <1>2, <2>5 DEF IsWalker, SameRoute
    <2>6. CASE s = [t EXCEPT !.list = Tail(r.buf)]
      BY <1>2, <2>6 DEF IsWalker, SameRoute
    <2> HIDE DEF t, Moved
    <2> QED BY <2>2, <2>3, <2>4, <2>5, <2>6
  <1>3. ASSUME Ahead(r) # << >> /\ ~SeesBlock(r) PROVE Moved(s)
    <2>1. s = [r EXCEPT !.list = Ahead(r), !.buf = Ahead(r)]
      BY <1>3
    <2> HIDE DEF s
    <2> QED BY <1>3, <2>1 DEF IsWalker, SameRoute
  <1>4. Moved(s)
    BY <1>1, <1>2, <1>3
  <1>5. Advanced(r) = AtNextNode(s)
    BY DEF Advanced
  <1> HIDE DEF s
  <1>6. Advanced(r) = s \/ Advanced(r) = TaskOfCrossing(s, Here(s))
    BY <1>5 DEF AtNextNode
  <1>7. CASE Advanced(r) = s
    BY <1>4, <1>7
  <1>8. CASE Advanced(r) = TaskOfCrossing(s, Here(s))
    <2> DEFINE q == Advanced(r)
    <2>0. q = TaskOfCrossing(s, Here(s)) /\ IsWalker(s)
      BY <1>4, <1>8
    <2> HIDE DEF q
    <2>1. /\ IsWalker(q) /\ q.isDijkstra = s.isDijkstra /\ q.lost = s.lost
          /\ q.status \in {s.status, "undefined"}
          /\ PassedFirst(q, s) \/ q = s
      BY <2>0, TaskFields
    <2>2. PassedFirst(q, r) \/ SameRoute(q, r)
      BY <1>4, <2>1 DEF SameRoute, PassedFirst
    <2> QED BY <1>4, <2>1, <2>2 DEF q
  <1> QED BY <1>6, <1>7, <1>8

-----------------------------------------------------------------------------
(* A crossing is the end of a road, so the graph of the map has an entry   *)
(* for it.                                                                 *)
LEMMA CrossingIsVertex == Crossing \subseteq Vertex
  <1> SUFFICES ASSUME NEW n \in Crossing PROVE n \in Vertex
    OBVIOUS
  <1>1. n \in Node /\ ToSet(WayIDs[n]) # {}
    <2>1. n \in Node /\ Len(WayIDs[n]) > 1 /\ WayIDs[n] \in Seq(Way)
      BY WaysAssumption DEF Crossing
    <2>2. WayIDs[n][1] \in ToSet(WayIDs[n])
      BY <2>1 DEF ToSet
    <2> QED BY <2>1, <2>2
  <1>2. PICK w \in Way : n \in ToSet(Nodes[w])
    BY <1>1, WaysAssumption
  <1>3. Nodes[w] \in Seq(Node) /\ Len(Nodes[w]) \in Nat /\ Len(Nodes[w]) >= 2
    BY WaysAssumption
  <1> DEFINE N == Len(Nodes[w])
  <1>4. PICK i \in 1 .. N : n = Nodes[w][i]
    BY <1>2, <1>3 DEF ToSet
  <1>5. IsVertexAt(w, i) /\ IsVertexAt(w, 1) /\ IsVertexAt(w, N)
    BY <1>4 DEF IsVertexAt
  <1>6. ASSUME NEW j \in 1 .. N, NEW k \in 1 .. N, j < k, IsVertexAt(w, j), IsVertexAt(w, k),
               \A m \in j + 1 .. k - 1 : ~IsVertexAt(w, m)
        PROVE  Nodes[w][j] \in Vertex /\ Nodes[w][k] \in Vertex
    <2> DEFINE t == << w, j, k >>
    <2>1. t \in {w} \X (1 .. Len(Nodes[w])) \X (1 .. Len(Nodes[w]))
      OBVIOUS
    <2>2. t \in UNION {{x} \X (1 .. Len(Nodes[x])) \X (1 .. Len(Nodes[x])) : x \in Way}
      BY <2>1
    <2>3. t \in Stretch
      BY <1>6, <2>2 DEF Stretch
    <2>4. EndsOf(t) = {Nodes[w][j], Nodes[w][k]}
      BY DEF EndsOf
    <2> HIDE DEF t
    <2> QED BY <2>3, <2>4 DEF Vertex
  <1>7. CASE i < N
    <2> DEFINE T == {j \in i + 1 .. N : IsVertexAt(w, j)}
    <2>1. N \in T /\ T \in SUBSET Nat
      BY <1>3, <1>5, <1>7
    <2>2. PICK k \in T : \A j \in T : k <= j
      BY <2>1, NatMinimum
    <2>3. \A m \in i + 1 .. k - 1 : ~IsVertexAt(w, m)
      BY <1>3, <2>2
    <2> QED BY <1>3, <1>4, <1>5, <1>6, <2>2, <2>3
  <1>8. CASE i = N
    <2> DEFINE T == {j \in 1 .. N - 1 : IsVertexAt(w, N - j)}
    <2>1. N - 1 \in T /\ T \in SUBSET Nat
      BY <1>3, <1>5
    <2>2. PICK k \in T : \A j \in T : k <= j
      BY <2>1, NatMinimum
    <2>3. N - k \in 1 .. N /\ N - k < N /\ IsVertexAt(w, N - k)
      BY <1>3, <2>2
    <2>4. ASSUME NEW m \in N - k + 1 .. N - 1, IsVertexAt(w, m) PROVE FALSE
      <3>1. N - m \in 1 .. N - 1 /\ N - (N - m) = m /\ N - m < k
        BY <1>3, <2>2
      <3>2. N - m \in T
        BY <2>4, <3>1
      <3>3. k <= N - m
        BY <2>2, <3>2
      <3>4. k \in Int /\ N - m \in Int
        BY <1>3, <2>2
      <3> HIDE DEF T
      <3> QED BY <3>1, <3>3, <3>4
    <2>5. Nodes[w][N] \in Vertex
      <3> DEFINE j == N - k
      <3>1. j \in 1 .. N /\ j < N /\ IsVertexAt(w, j)
        BY <2>3
      <3>2. \A m \in j + 1 .. N - 1 : ~IsVertexAt(w, m)
        BY <2>4
      <3>3. N \in 1 .. N
        BY <1>3
      <3> HIDE DEF j, N, T
      <3> QED BY <1>5, <1>6, <3>1, <3>2, <3>3
    <2> QED BY <1>4, <1>8, <2>5
  <1> QED BY <1>3, <1>4, <1>7, <1>8

-----------------------------------------------------------------------------
From(x) == IF x = NoNode THEN << >> ELSE << x >>

(* Passing the first vertex of a route leaves the rest of it a path. *)
LEMMA PathRest ==
  ASSUME NEW s \in Seq(Vertex), s # << >>, NEW R, IsPath(s, R)
  PROVE  IsPath(From(Head(s)) \o Tail(s), R)
  <1>1. Tail(s) \in Seq(Vertex) /\ Len(Tail(s)) = Len(s) - 1 /\ Len(s) \in Nat \ {0}
    OBVIOUS
  <1>2. CASE Head(s) = NoNode
    <2>1. From(Head(s)) \o Tail(s) = Tail(s)
      BY <1>1, <1>2 DEF From
    <2>2. \A i \in 1 .. Len(Tail(s)) - 1 :
            Tail(s)[i] = s[i + 1] /\ Tail(s)[i + 1] = s[(i + 1) + 1] /\ i + 1 \in 1 .. Len(s) - 1
      BY <1>1
    <2>3. IsPath(Tail(s), R)
      BY <2>2 DEF IsPath
    <2> QED BY <2>1, <2>3
  <1>3. CASE Head(s) # NoNode
    <2>1. << Head(s) >> \o Tail(s) = s
      OBVIOUS
    <2> QED BY <1>3, <2>1 DEF From
  <1> QED BY <1>2, <1>3

LEMMA PathFrom ==
  ASSUME NEW s \in Seq(Vertex), NEW x \in Vertex \cup {NoNode}, NEW R,
         IsPath(From(x) \o s, R)
  PROVE  IsPath(s, R)
  <1>1. CASE x = NoNode
    BY <1>1 DEF From
  <1>2. CASE x # NoNode
    <2> DEFINE p == << x >> \o s
    <2>1. IsPath(p, R) /\ Len(p) = Len(s) + 1 /\ Len(s) \in Nat
      BY <1>2 DEF From
    <2>2. \A i \in 1 .. Len(s) - 1 :
            s[i] = p[i + 1] /\ s[i + 1] = p[(i + 1) + 1] /\ i + 1 \in 1 .. Len(p) - 1
      BY <2>1
    <2> HIDE DEF p
    <2> QED BY <2>1, <2>2 DEF IsPath
  <1> QED BY <1>1, <1>2

(* With more roads open a path stays one. *)
LEMMA PathMonotone ==
  ASSUME NEW p, NEW R, NEW Q, R \subseteq Q, IsPath(p, R)
  PROVE  IsPath(p, Q)
  BY DEF IsPath

LEMMA FoundRoute ==
  ASSUME NEW v, NEW R, NEW p \in RoutesFrom(v, R)
  PROVE  /\ p \in Seq(Vertex) /\ p # << >> /\ Head(p) = v /\ IsPath(p, R)
         /\ Last(p) \in Shelter
  <1>1. /\ p \in VertexSeqs /\ p[1] = v /\ IsPath(p, R) /\ Last(p) \in Shelter
    BY DEF RoutesFrom, PathsFrom
  <1>2. PICK k \in 1 .. Cardinality(Vertex) : p \in Injection(1 .. k, Vertex)
    BY <1>1 DEF VertexSeqs
  <1>3. k \in Nat \ {0} /\ p \in [1 .. k -> Vertex]
    BY <1>2 DEF Injection
  <1>4. p \in Seq(Vertex) /\ Len(p) = k
    BY <1>3
  <1> QED BY <1>1, <1>3, <1>4

-----------------------------------------------------------------------------
(* A route ends at a shelter, and an evacuee left without one that looks   *)
(* for no other has just passed a shelter.                                 *)
EndsAtShelter(r) == r.shortest # << >> => Last(r.shortest) \in Shelter

PassedShelter(r) == r.shortest = << >> /\ ~r.isDijkstra => r.passed \in Shelter

RouteIn(r, R) == ~r.isDijkstra /\ ~r.lost => IsPath(From(r.passed) \o r.shortest, R)

WalkInv ==
    /\ RoadInv /\ IsWalker(usr)
    /\ usr.status = "moving" =>
        EndsAtShelter(usr) /\ PassedShelter(usr) /\ RouteIn(usr, EdgesOf(graph))
    /\ AbortsOnlyWhenCutOff

LEMMA WalkInitial ==
  ASSUME Init
  PROVE  WalkInv
  <1>1. PICK n \in Start :
          usr = [way |-> Head(WayIDs[n]), list |-> StartList(n), buf |-> << >>,
                 shortest |-> << >>, isDijkstra |-> TRUE, passed |-> NoNode,
                 status |-> "moving", lost |-> FALSE]
    BY DEF Init
  <1>2. IsWalker(usr)
    BY <1>1 DEF IsWalker
  <1>3. usr.status = "moving" /\ usr.shortest = << >> /\ usr.isDijkstra
    BY <1>1
  <1> QED
    BY <1>2, <1>3, RoadInitial
    DEF WalkInv, EndsAtShelter, PassedShelter, RouteIn, AbortsOnlyWhenCutOff

(* Passing the first vertex. *)
LEMMA PassedKeeps ==
  ASSUME NEW q, NEW r, IsWalker(r), PassedFirst(q, r), EndsAtShelter(r)
  PROVE  /\ EndsAtShelter(q) /\ (q.shortest = << >> => q.passed \in Shelter)
         /\ \A R : IsPath(r.shortest, R) => IsPath(From(q.passed) \o q.shortest, R)
  <1> DEFINE s == r.shortest
  <1>1. s \in Seq(Vertex) /\ s # << >> /\ q.passed = Head(s) /\ q.shortest = Tail(s)
        /\ Last(s) \in Shelter
    BY DEF IsWalker, PassedFirst, EndsAtShelter
  <1> HIDE DEF s
  <1>2. CASE Tail(s) = << >>
    <2>0. Len(Tail(s)) = Len(s) - 1 /\ Len(s) \in Nat
      BY <1>1
    <2>a. Len(<< >>) = 0
      OBVIOUS
    <2>b. Len(Tail(s)) = 0
      BY <1>2, <2>a, Zenon
    <2>1. Len(s) = 1
      BY <2>0, <2>b
    <2> QED BY <1>1, <1>2, <2>1, PathRest DEF Last, EndsAtShelter, s
  <1>3. CASE Tail(s) # << >>
    <2>1. Len(Tail(s)) = Len(s) - 1 /\ Len(s) \in Nat /\ Len(s) >= 2
      BY <1>1, <1>3
    <2>2. Tail(s)[Len(s) - 1] = s[Len(s)]
      BY <1>1, <2>1
    <2>3. Last(Tail(s)) = Last(s)
      BY <2>1, <2>2 DEF Last
    <2> QED BY <1>1, <1>3, <2>3, PathRest DEF EndsAtShelter, s
  <1> QED BY <1>2, <1>3

(* The search: what it finds is a path of the graph to a shelter; without  *)
(* a result a shelter is cut off.                                          *)
LEMMA SearchKeeps ==
  ASSUME NEW u, NEW g, IsWalker(u), DOMAIN g = Vertex, u.status = "moving",
         EndsAtShelter(u), PassedShelter(u), RouteIn(u, EdgesOf(g)),
         NEW r \in Calculated(u, g)
  PROVE  /\ IsWalker(r) /\ EndsAtShelter(r) /\ RouteIn(r, EdgesOf(g))
         /\ r.status \in {"moving", "undefined"}
         /\ PassedShelter(r) \/ CutOff(Here(r), EdgesOf(g))
  <1>1. CASE ~MustCalculate(u)
    <2>1. r = u
      BY <1>1 DEF Calculated
    <2> QED BY <2>1
  <1>2. CASE MustCalculate(u) /\ CutOff(Here(u), EdgesOf(g))
    <2>1. r = [u EXCEPT !.isDijkstra = FALSE, !.lost = TRUE]
      BY <1>2 DEF Calculated
    <2>2. /\ IsWalker(r) /\ r.lost /\ r.status = u.status /\ r.list = u.list
          /\ r.shortest = u.shortest
      BY <2>1 DEF IsWalker
    <2> QED BY <1>2, <2>2 DEF EndsAtShelter, RouteIn, Here
  <1>3. CASE MustCalculate(u) /\ ~CutOff(Here(u), EdgesOf(g))
    <2>1. Here(u) \in DOMAIN g
      BY <1>3, CrossingIsVertex DEF MustCalculate
    <2>2. PICK p \in RoutesFrom(Here(u), EdgesOf(g)) :
            r = TaskOfCrossing([u EXCEPT !.isDijkstra = FALSE, !.lost = FALSE, !.shortest = p],
                               Here(u))
      BY <1>3, <2>1 DEF Calculated
    <2> DEFINE v == [u EXCEPT !.isDijkstra = FALSE, !.lost = FALSE, !.shortest = p]
    <2>3. /\ p \in Seq(Vertex) /\ p # << >> /\ Head(p) = Here(u) /\ IsPath(p, EdgesOf(g))
          /\ Last(p) \in Shelter
      BY FoundRoute
    <2>4. /\ IsWalker(v) /\ v.shortest = p /\ v.status = "moving"
          /\ ~v.isDijkstra /\ ~v.lost
      BY <2>3 DEF IsWalker
    <2>5. r = TaskOfCrossing(v, Here(u))
      BY <2>2
    <2> HIDE DEF v
    <2>6. /\ IsWalker(r) /\ r.status \in {"moving", "undefined"} /\ PassedFirst(r, v)
      BY <2>3, <2>4, <2>5, TaskFields
    <2>7. EndsAtShelter(v)
      BY <2>3, <2>4 DEF EndsAtShelter
    <2> QED BY <2>3, <2>4, <2>6, <2>7, PassedKeeps DEF PassedShelter, RouteIn
  <1> QED BY <1>2, <1>3, <1>1

(* Going on to the next node. *)
LEMMA AdvanceKeeps ==
  ASSUME NEW r, NEW R, IsWalker(r), EndsAtShelter(r), RouteIn(r, R), ~HasArrived(r)
  PROVE  LET q == Advanced(r) IN
         /\ IsWalker(q) /\ EndsAtShelter(q) /\ PassedShelter(q)
         /\ SeesBlock(r) => q.isDijkstra
         /\ ~SeesBlock(r) => RouteIn(q, R)
  <1> DEFINE q == Advanced(r)
  <1>1. /\ IsWalker(q) /\ q.lost = r.lost
        /\ q.isDijkstra = IF SeesBlock(r) THEN TRUE ELSE r.isDijkstra
        /\ SameRoute(q, r) \/ PassedFirst(q, r)
    BY AdvancedFields
  <1> HIDE DEF q
  <1>2. r.isDijkstra \in BOOLEAN /\ r.shortest \in Seq(Vertex) /\ r.passed \in Vertex \cup {NoNode}
    BY DEF IsWalker
  <1>3. CASE SameRoute(q, r)
    <2>1. EndsAtShelter(q) /\ (~SeesBlock(r) => RouteIn(q, R))
      BY <1>1, <1>3 DEF SameRoute, EndsAtShelter, RouteIn
    <2>2. PassedShelter(q)
      BY <1>1, <1>3 DEF SameRoute, PassedShelter, HasArrived
    <2> QED BY <1>1, <2>1, <2>2 DEF q
  <1>4. CASE PassedFirst(q, r)
    <2>1. EndsAtShelter(q) /\ PassedShelter(q)
      BY <1>4, PassedKeeps DEF PassedShelter
    <2>2. ASSUME ~SeesBlock(r), ~q.isDijkstra, ~q.lost
          PROVE  IsPath(From(q.passed) \o q.shortest, R)
      <3>1. IsPath(From(r.passed) \o r.shortest, R)
        BY <1>1, <2>2 DEF RouteIn
      <3>2. IsPath(r.shortest, R)
        BY <1>2, <3>1, PathFrom
      <3> QED BY <1>4, <3>2, PassedKeeps
    <2> QED BY <1>1, <2>1, <2>2 DEF RouteIn, q
  <1> QED BY <1>1, <1>3, <1>4

LEMMA MoveKeeps ==
  ASSUME PlainBlocks, WalkInv, RoadInv', NEW E \in SUBSET known, HandleUserMovement(E)
  PROVE  WalkInv'
  <1> DEFINE g == Dropped(E)
             k == known \ E
  <1>1. Opens(g, k) /\ g # Thrown /\ DOMAIN g = Vertex /\ k \in SUBSET Block
        /\ EdgesOf(g) = Promise!Free(k)
    BY DropOpens, OpensNotThrown, OpensFree DEF WalkInv, RoadInv
  <1>2. EdgesOf(graph) \subseteq EdgesOf(g)
    <2>1. EdgesOf(graph) = Promise!Free(known)
      BY OpensFree DEF WalkInv, RoadInv
    <2>2. Promise!Free(known) \subseteq Promise!Free(k)
      BY DEF Promise!Free
    <2> QED BY <1>1, <2>1, <2>2
  <1>3. /\ usr.status = "moving" /\ IsWalker(usr) /\ EndsAtShelter(usr) /\ PassedShelter(usr)
        /\ RouteIn(usr, EdgesOf(g))
    <2>1. usr.status = "moving"
      BY DEF HandleUserMovement
    <2>2. RouteIn(usr, EdgesOf(graph)) /\ IsWalker(usr) /\ EndsAtShelter(usr) /\ PassedShelter(usr)
      BY <2>1 DEF WalkInv
    <2>3. RouteIn(usr, EdgesOf(g))
      BY <1>2, <2>2, PathMonotone DEF RouteIn
    <2> QED BY <2>1, <2>2, <2>3
  <1>4. CASE InShelter(usr)
    <2>1. usr' = [usr EXCEPT !.status = "exit"]
      BY <1>1, <1>4 DEF HandleUserMovement, Dropped
    <2>2. IsWalker(usr') /\ usr'.status = "exit"
      BY <1>3, <2>1 DEF IsWalker
    <2> QED BY <2>2 DEF WalkInv, AbortsOnlyWhenCutOff, IsWalker
  <1>5. CASE ~InShelter(usr)
    <2>1. PICK r \in Calculated(usr, g) :
            IF HasArrived(r) THEN EvacuateAtPassed(r, g, k) ELSE GoOn(r, g, k)
      BY <1>1, <1>5 DEF HandleUserMovement, Dropped
    <2> HIDE DEF g, k
    <2>2. /\ IsWalker(r) /\ EndsAtShelter(r) /\ RouteIn(r, EdgesOf(g))
          /\ r.status \in {"moving", "undefined"}
          /\ PassedShelter(r) \/ CutOff(Here(r), EdgesOf(g))
      BY <1>1, <1>3, SearchKeeps
    <2>3. CASE HasArrived(r)
      <3>1. /\ usr' = [r EXCEPT !.status = IF r.passed \in Shelter THEN "exit" ELSE "aborted"]
            /\ graph' = g /\ known' = k
        BY <2>1, <2>3 DEF EvacuateAtPassed
      <3>2. /\ IsWalker(usr') /\ usr'.list = r.list /\ usr'.status # "moving"
            /\ usr'.status = "aborted" => r.passed \notin Shelter
        BY <2>2, <3>1 DEF IsWalker
      <3>3. ASSUME usr'.status = "aborted" PROVE CutOff(Here(usr'), Promise!Free(known'))
        <4>1. ~PassedShelter(r)
          BY <2>3, <3>2, <3>3 DEF HasArrived, PassedShelter
        <4>2. CutOff(Here(r), EdgesOf(g))
          BY <2>2, <4>1
        <4>3. Here(usr') = Here(r) /\ EdgesOf(g) = Promise!Free(known')
          BY <1>1, <3>1, <3>2 DEF Here
        <4> QED BY <4>2, <4>3
      <3>4. AbortsOnlyWhenCutOff'
        BY <3>3 DEF AbortsOnlyWhenCutOff, Here, CutOff, Promise!Free
      <3> QED BY <3>2, <3>4 DEF WalkInv, IsWalker
    <2>4. CASE ~HasArrived(r)
      <3>1. GoOn(r, g, k)
        BY <2>1, <2>4
      <3>2. usr' = Advanced(r) /\ (~SeesBlock(r) => graph' = g)
        BY <3>1 DEF GoOn
      <3>3. /\ IsWalker(usr') /\ EndsAtShelter(usr') /\ PassedShelter(usr')
            /\ SeesBlock(r) => usr'.isDijkstra
            /\ ~SeesBlock(r) => RouteIn(usr', EdgesOf(g))
        BY <2>2, <2>4, <3>2, AdvanceKeeps
      <3>4. RouteIn(usr', EdgesOf(graph'))
        BY <3>2, <3>3 DEF RouteIn
      <3>5. usr'.status # "aborted"
        BY <2>2, <3>2, AdvancedFields
      <3> QED
        BY <3>3, <3>4, <3>5
        DEF WalkInv, AbortsOnlyWhenCutOff, IsWalker, EndsAtShelter, PassedShelter, RouteIn, EdgesOf
    <2> QED BY <2>3, <2>4
  <1> QED BY <1>4, <1>5

LEMMA WalkInductive ==
  ASSUME PlainBlocks, WalkInv, [Next]_vars
  PROVE  WalkInv'
  <1>1. RoadInv'
    BY RoadInductive DEF WalkInv
  <1>2. ASSUME NEW E \in SUBSET known, HandleUserMovement(E) PROVE WalkInv'
    BY <1>1, <1>2, MoveKeeps
  <1>3. ASSUME NEW b \in Block, Hear(b) PROVE WalkInv'
    <2>1. usr' = [usr EXCEPT !.isDijkstra = TRUE] /\ usr.status = "moving"
      BY <1>3 DEF Hear, Happens
    <2>2. IsWalker(usr) /\ EndsAtShelter(usr)
      BY <2>1 DEF WalkInv
    <2>3. /\ IsWalker(usr') /\ usr'.isDijkstra /\ usr'.shortest = usr.shortest
          /\ usr'.status = "moving"
      BY <2>1, <2>2 DEF IsWalker
    <2> QED
      BY <1>1, <2>2, <2>3
      DEF WalkInv, AbortsOnlyWhenCutOff, IsWalker, EndsAtShelter, PassedShelter, RouteIn
  <1>4. CASE UNCHANGED << graph, known, usr >>
    BY <1>1, <1>4
    DEF WalkInv, AbortsOnlyWhenCutOff, IsWalker, EndsAtShelter, PassedShelter, RouteIn,
        CutOff, Here, EdgesOf, Promise!Free
  <1>5. ASSUME NEW b \in Block, SetBlock(b) \/ EraseBlock(b) PROVE WalkInv'
    BY <1>4, <1>5 DEF SetBlock, EraseBlock
  <1>6. UNCHANGED vars => WalkInv'
    BY <1>4 DEF vars
  <1> QED BY <1>2, <1>3, <1>5, <1>6 DEF Next, Move

LEMMA WalkInvHolds ==
  ASSUME PlainBlocks
  PROVE  Spec => []WalkInv
  <1>1. Init => WalkInv
    BY WalkInitial
  <1>2. WalkInv /\ [Next]_vars => WalkInv'
    BY WalkInductive
  <1> QED BY <1>1, <1>2, PTL DEF Spec

(* HandleUserMovement and TaskOfCrossing, under the same condition on the  *)
(* blocks: the route an evacuee follows never uses a road on which it      *)
(* knows a block, unless a search is due or the last found nothing.        *)
THEOREM RouteStaysOpen ==
  ASSUME PlainBlocks
  PROVE  Spec => []RouteKnownOpen
  <1>1. WalkInv => RouteKnownOpen
    BY DEF WalkInv, RouteKnownOpen, RouteIn, From
  <1> QED BY <1>1, WalkInvHolds, PTL

(* CompleteEvacuation, under the same condition: its look-up of the last   *)
(* crossing passed fails only when blocks the evacuee knows cut it off     *)
(* from a shelter.                                                         *)
THEOREM AbortMeansCutOff ==
  ASSUME PlainBlocks
  PROVE  Spec => []AbortsOnlyWhenCutOff
  <1>1. WalkInv => AbortsOnlyWhenCutOff
    BY DEF WalkInv
  <1> QED BY <1>1, WalkInvHolds, PTL
=============================================================================
