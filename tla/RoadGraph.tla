----------------------------- MODULE RoadGraph -----------------------------
(* The road graph an evacuee searches for its way to a shelter             *)
(* (MyUser::m_graph) and how information about blocks changes it:          *)
(* UpdateGraphInfo cuts a block out, RestoreGraphInfo puts it back when    *)
(* CheckAoI finds the information too old.                                 *)
(*                                                                         *)
(* m_graph maps the coordinate of a vertex to the coordinates of its       *)
(* neighbours.  Here a coordinate is the node itself and the length of a   *)
(* road is left out (DijkstraRoute is about lengths).                      *)
EXTENDS Integers, Sequences, FiniteSets, SequencesExt

CONSTANTS
    Node,          \* nodes of the map
    Way,           \* its ways (linestrings)
    Nodes,         \* Nodes[w]: the nodes of way w from end to end
    WayIDs,        \* WayIDs[n]: the ways through n, in the order of the file
    Block,         \* nodes that may be closed
    BlockOrder,    \* all of Block, in the order of their ids
    NoNode,        \* the coordinate (0,0) of a way_node not assigned
    Thrown         \* m_graph.at found no entry and nobody catches that

(* Ways do not meet themselves. *)
ASSUME WaysAssumption ==
    /\ Nodes \in [Way -> Seq(Node)]
    /\ \A w \in Way : Len(Nodes[w]) >= 2 /\ IsInjective(Nodes[w])
    /\ WayIDs \in [Node -> Seq(Way)]
    /\ \A n \in Node :
        /\ IsInjective(WayIDs[n]) /\ WayIDs[n] # << >>
        /\ ToSet(WayIDs[n]) = {w \in Way : n \in ToSet(Nodes[w])}
    /\ NoNode \notin Node
ASSUME BlockAssumption == Block \subseteq Node /\ ToSet(BlockOrder) = Block

VARIABLES
    graph,    \* m_graph: a function on the vertices that have an entry
    known     \* keys of the map of blocks and times

-----------------------------------------------------------------------------
(* The map, as json_input builds it. *)

(* A node met a second time while the ways are read. *)
Crossing == {n \in Node : Len(WayIDs[n]) > 1}

(* Vertices along a way: its ends and its crossings. *)
IsVertexAt(w, i) == i \in {1, Len(Nodes[w])} \/ Nodes[w][i] \in Crossing

(* A road is the part of a way between two vertices that follow on it. *)
Stretch ==
    {t \in UNION {{w} \X (1 .. Len(Nodes[w])) \X (1 .. Len(Nodes[w])) : w \in Way} :
        /\ t[2] < t[3]
        /\ IsVertexAt(t[1], t[2]) /\ IsVertexAt(t[1], t[3])
        /\ \A i \in t[2] + 1 .. t[3] - 1 : ~IsVertexAt(t[1], i)}

EndsOf(t) == {Nodes[t[1]][t[2]], Nodes[t[1]][t[3]]}

NodesOn(t) == {Nodes[t[1]][i] : i \in t[2] .. t[3]}

Vertex == UNION {EndsOf(t) : t \in Stretch}

MapNeighbors(v) == (UNION {EndsOf(t) : t \in {s \in Stretch : v \in EndsOf(s)}}) \ {v}

MapGraph == [v \in Vertex |-> MapNeighbors(v)]

ASSUME ThrownAssumption == Thrown \notin [Vertex -> SUBSET Vertex]

Position(w, n) == CHOOSE i \in DOMAIN Nodes[w] : Nodes[w][i] = n

(* The first crossing after n and the last one before it on w, or other    *)
(* when the way ends first.                                                *)
CrossingAfter(w, n, other) ==
    LET C == {i \in DOMAIN Nodes[w] : i > Position(w, n) /\ Nodes[w][i] \in Crossing}
    IN  IF C = {} THEN other ELSE Nodes[w][Min(C)]

CrossingBefore(w, n, other) ==
    LET C == {i \in DOMAIN Nodes[w] : i < Position(w, n) /\ Nodes[w][i] \in Crossing}
    IN  IF C = {} THEN other ELSE Nodes[w][Max(C)]

SNode(b) == CrossingAfter(Head(WayIDs[b]), b, NoNode)

ENode(b) == CrossingBefore(Head(WayIDs[b]), b, NoNode)

-----------------------------------------------------------------------------
(* UpdateGraphInfo *)

(* A block within a road parts the crossings at its ends. *)
CutRoad(g, b) ==
    IF {SNode(b), ENode(b)} \subseteq DOMAIN g
    THEN [v \in DOMAIN g |->
            CASE v = SNode(b) -> g[v] \ {ENode(b)}
              [] v = ENode(b) -> g[v] \ {SNode(b)}
              [] OTHER -> g[v]]
    ELSE Thrown

(* A blocked crossing loses its entry.  Its neighbours go on naming it,    *)
(* because insert does not replace their entries.                          *)
CutCrossing(g, b) ==
    IF MapNeighbors(b) \subseteq DOMAIN g
    THEN [v \in DOMAIN g \ {b} |-> g[v]]
    ELSE Thrown

Cut(g, b) ==
    IF g = Thrown THEN g
    ELSE IF b \in Crossing THEN CutCrossing(g, b)
    ELSE CutRoad(g, b)

-----------------------------------------------------------------------------
(* RestoreGraphInfo *)

HalfRestored(g, E) ==                     \* mutant: only one end is restored
    IF \A b \in E : {SNode(b), ENode(b)} \subseteq DOMAIN g
    THEN [v \in DOMAIN g |-> g[v] \cup {ENode(b) : b \in {c \in E : SNode(c) = v}}]
    ELSE Thrown

(* Blocks within roads: their crossings are neighbours again. *)
RestoreRoads(g, E) ==
    IF \A b \in E : {SNode(b), ENode(b)} \subseteq DOMAIN g
    THEN [v \in DOMAIN g |->
            g[v] \cup {ENode(b) : b \in {c \in E : SNode(c) = v}}
                 \cup {SNode(b) : b \in {c \in E : ENode(c) = v}}]
    ELSE Thrown

NeighborsIn(g, v) == IF v \in DOMAIN g THEN g[v] ELSE {}

Entered(g, v, N) == [x \in DOMAIN g \cup {v} |-> IF x = v THEN N ELSE g[x]]

(* A crossing, for each way through it: the crossings next to it (itself   *)
(* where the way ends) become neighbours.  What is then entered for e is   *)
(* the list of s, read where that of e is meant.                           *)
RestoreOnWay(g, b, w) ==
    LET s == CrossingAfter(w, b, b)
        e == CrossingBefore(w, b, b)
        gs == Entered(g, s, NeighborsIn(g, s) \cup {e})
    IN  Entered(gs, e, gs[s] \cup {s})

RestoreCrossing(g, b) ==
    IF g = Thrown THEN g
    ELSE FoldLeft(LAMBDA h, w : RestoreOnWay(h, b, w), g, WayIDs[b])

(* All blocks of E, in the order of their ids; those within roads, whose   *)
(* order makes no difference, have the smaller ids.                        *)
Restored(g, E) ==
    LET gr == RestoreRoads(g, E \ Crossing)
    IN  IF E \cap Crossing = {} THEN gr
        ELSE FoldLeft(RestoreCrossing, gr,
                      SelectSeq(BlockOrder, LAMBDA b : b \in E \cap Crossing))

-----------------------------------------------------------------------------
RGInit == graph = MapGraph /\ known = {}

(* News of a block: UpdateGraphInfoReceivedPacket, for a block not known   *)
(* or known from an earlier time.                                          *)
Learn(b) ==
    /\ graph # Thrown
    /\ known' = known \cup {b}
    /\ graph' = Cut(graph, b)

(* CheckAoI: the information about E has grown too old. *)
CheckAoI(E) ==
    /\ graph # Thrown
    /\ E # {}
    /\ known' = known \ E
    /\ graph' = Restored(graph, E)

RGNext ==
    \/ \E b \in Block : Learn(b)
    \/ \E E \in SUBSET known : CheckAoI(E)

RGSpec == RGInit /\ [][RGNext]_<< graph, known >>

-----------------------------------------------------------------------------
(* What the search sees: it looks at the neighbours of an entry that have  *)
(* an entry themselves.                                                    *)
EdgesOf(g) ==
    IF g = Thrown THEN {}
    ELSE {r \in Vertex \X Vertex :
            r[1] \in DOMAIN g /\ r[2] \in DOMAIN g /\ r[2] \in g[r[1]]}

MapRoads == {r \in Vertex \X Vertex : r[2] \in MapNeighbors(r[1])}

BlocksOnRoad ==
    [r \in MapRoads |->
        UNION {Block \cap NodesOn(t) : t \in {s \in Stretch : EndsOf(s) = {r[1], r[2]}}}]

(* The graph offers exactly the roads on which no block is known, whatever *)
(* the order in which blocks are learnt and forgotten.                     *)
Promise == INSTANCE OpenRoads WITH
    BlocksOn <- BlocksOnRoad, held <- known, open <- EdgesOf(graph)
KeepsPromise == Promise!Spec

(* RestoreGraphInfo is headed "revival of a closed road"                   *)
(* (evacuation-user.cc:845): once every block is forgotten the graph is    *)
(* the whole map again.                                                    *)
MapComesBack == known = {} => EdgesOf(graph) = MapRoads

(* Blocks for which the promise is kept: within a road between two         *)
(* crossings that no other road joins, and alone on it.                    *)
PlainBlocks ==
    \A b \in Block :
        /\ b \notin Crossing
        /\ \E r \in MapRoads : b \in BlocksOnRoad[r]
        /\ \A r \in MapRoads : b \in BlocksOnRoad[r] =>
            {r[1], r[2]} = {SNode(b), ENode(b)} /\ BlocksOnRoad[r] = {b}
=============================================================================
