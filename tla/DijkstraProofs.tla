--------------------------- MODULE DijkstraProofs ---------------------------
(* On every road map both searches for shortest ways keep the certificate  *)
(* that what they record are shortest ways, and what they find is shortest *)
(* among all ways (Potential, Telescope); the loop that orders the stops   *)
(* of a ferry yields the one greedy order.                                 *)
EXTENDS MCRoutes, DataInduction, FiniteSetTheorems, TLAPS

(* What the loop of DijkstraRoute needs besides the certificate: distances *)
(* are settled in ascending order, and only those below INF are settled.   *)
Ordered ==
    \A u \in Settled : dst[u] < INF /\ \A v \in pending : dst[u] <= dst[v]

RouteInv == TypeOK /\ Ordered /\ Certified

-----------------------------------------------------------------------------
LEMMA RouteInitial == Init => RouteInv
  <1> SUFFICES ASSUME Init PROVE RouteInv
    OBVIOUS
  <1>1. TypeOK
    BY MapsAssumption, ListedAssumption DEF Init, RLInit, DRInit, TypeOK
  <1>2. Settled = {}
    BY DEF Init, DRInit, Settled
  <1>3. \A v \in roads.entry \ {no} : dst[v] = INF
    BY <1>1 DEF Init, DRInit, TypeOK, RoadMap
  <1>4. Ordered /\ NoShortcut
    BY <1>2 DEF Ordered, NoShortcut
  <1>5. WayExists
    BY <1>3, MapsAssumption DEF WayExists
  <1>6. LeftUnreachable
    BY DEF LeftUnreachable, Init, DRInit
  <1> QED
    BY <1>1, <1>4, <1>5, <1>6 DEF RouteInv, Certified

(* The numbers a step works with. *)
LEMMA RouteNumbers ==
  ASSUME TypeOK
  PROVE  /\ INF \in Nat /\ roads.entry \subseteq Vertex /\ pending \subseteq Vertex
         /\ \A v \in Vertex : dst[v] \in Nat /\ reach[v] \in Nat /\ route[v] \in Seq(Vertex)
         /\ \A u, v \in Vertex : roads.len[u][v] \in Nat
  <1>1. roads.entry \in SUBSET Vertex /\ roads.len \in [Vertex -> [Vertex -> Nat]]
    BY DEF TypeOK, RoadMap
  <1>2. \A u \in Vertex : roads.len[u] \in [Vertex -> Nat]
    BY <1>1
  <1>3. \A u, v \in Vertex : roads.len[u][v] \in Nat
    BY <1>2
  <1>4. \A v \in Vertex : dst[v] \in Nat /\ reach[v] \in Nat /\ route[v] \in Seq(Vertex)
    BY DEF TypeOK
  <1> QED
    BY <1>1, <1>3, <1>4, MapsAssumption DEF TypeOK

(* A round of the loop. *)
LEMMA SettleKeeps ==
  ASSUME NEW s \in Vertex, RouteInv, Settle(s), UNCHANGED << roads, no >>
  PROVE  RouteInv'
  <1>1. /\ INF \in Nat /\ roads.entry \subseteq Vertex /\ pending \subseteq Vertex
        /\ \A v \in Vertex : dst[v] \in Nat /\ reach[v] \in Nat /\ route[v] \in Seq(Vertex)
        /\ \A u, v \in Vertex : roads.len[u][v] \in Nat
        /\ pending \subseteq roads.entry
    BY RouteNumbers DEF RouteInv, TypeOK
  <1>2. /\ s \in pending /\ dst[s] < INF /\ s \in roads.entry
        /\ \A u \in pending : dst[s] <= dst[u]
    <2>1. \A u \in pending : dst[u] \in Nat /\ dst[s] \in Nat
      BY <1>1
    <2>2. s \in pending /\ dst[s] < INF
      BY DEF Settle, IsSelected
    <2>3. \A u \in pending : dst[s] < dst[u] \/ dst[s] = dst[u]
      BY DEF Settle, IsSelected
    <2> QED
      BY <1>1, <2>1, <2>2, <2>3
  <1>3. /\ pending' = pending \ {s} /\ roads' = roads /\ no' = no
        /\ phase = "search" /\ phase' = "search"
    BY DEF Settle, LeftPending
  <1>4. Settled' = Settled \cup {s} /\ Settled \subseteq roads.entry /\ s \notin Settled
    BY <1>2, <1>3 DEF Settled
  <1>5. \A u \in Vertex :
          /\ IsUpdated(s, u) => /\ u \in pending \ {s} /\ roads.len[s][u] # 0
                                /\ dst'[u] = dst[s] + roads.len[s][u]
                                /\ dst'[u] < dst[u]
                                /\ route'[u] = Append(route[s], s)
          /\ ~IsUpdated(s, u) => dst'[u] = dst[u] /\ route'[u] = route[u]
    BY <1>1 DEF Settle, IsUpdated, IsRoad
  <1>6. /\ dst' \in [Vertex -> Nat] /\ reach' \in [Vertex -> Nat]
        /\ route' \in [Vertex -> Seq(Vertex)]
    <2>1. \A u \in Vertex : dst[s] + roads.len[s][u] \in Nat /\ Reached(s, u) \in Nat
      BY <1>1 DEF Reached
    <2>2. Append(route[s], s) \in Seq(Vertex)
      BY <1>1
    <2> QED
      BY <1>1, <2>1, <2>2 DEF Settle
  <1>7. \A u \in Vertex : dst'[u] \in Nat /\ dst'[u] <= dst[u]
    <2> SUFFICES ASSUME NEW u \in Vertex PROVE dst'[u] \in Nat /\ dst'[u] <= dst[u]
      OBVIOUS
    <2>1. dst'[u] \in Nat /\ dst[u] \in Nat
      BY <1>1, <1>6
    <2>2. dst'[u] < dst[u] \/ dst'[u] = dst[u]
      BY <1>5
    <2> QED BY <2>1, <2>2
  <1>8. \A u \in Settled \cup {s} : dst'[u] = dst[u] /\ route'[u] = route[u]
    BY <1>1, <1>2, <1>4, <1>5 DEF Settled
  <1>9. TypeOK'
    BY <1>1, <1>3, <1>6 DEF Settle, RouteInv, TypeOK
  <1>10. Ordered'
    <2> SUFFICES ASSUME NEW u \in Settled \cup {s}
                 PROVE  dst'[u] < INF /\ \A v \in pending \ {s} : dst'[u] <= dst'[v]
      BY <1>3, <1>4 DEF Ordered
    <2>1. dst'[u] = dst[u] /\ dst[u] < INF /\ dst[u] <= dst[s]
      BY <1>1, <1>2, <1>4, <1>8 DEF RouteInv, Ordered
    <2>2. ASSUME NEW v \in pending \ {s} PROVE dst'[u] <= dst'[v]
      <3>0. /\ u \in Vertex /\ v \in Vertex /\ dst[u] \in Nat /\ dst[s] \in Nat
            /\ dst[v] \in Nat /\ roads.len[s][v] \in Nat /\ dst[s] <= dst[v]
        BY <1>1, <1>2, <1>4
      <3>1. CASE IsUpdated(s, v)
        BY <1>5, <2>1, <3>0, <3>1
      <3>2. CASE ~IsUpdated(s, v)
        BY <1>5, <2>1, <3>0, <3>2
      <3> QED BY <3>1, <3>2
    <2> QED BY <2>1, <2>2
  <1>11. NoShortcut'
    <2> SUFFICES ASSUME NEW u \in Settled \cup {s}, NEW v \in roads.entry,
                        roads.len[u][v] # 0
                 PROVE  dst'[v] <= dst'[u] + roads.len[u][v]
      BY <1>3, <1>4 DEF NoShortcut, IsRoad
    <2>1. /\ u \in Vertex /\ v \in Vertex /\ dst[u] \in Nat /\ dst[v] \in Nat
          /\ roads.len[u][v] \in Nat /\ dst'[v] \in Nat
      BY <1>1, <1>4, <1>7
    <2>2. dst'[u] = dst[u] /\ dst'[v] <= dst[v]
      BY <1>7, <1>8, <2>1
    <2>3. CASE u \in Settled
      <3>1. dst[v] <= dst[u] + roads.len[u][v]
        BY <2>3 DEF RouteInv, Certified, NoShortcut, IsRoad
      <3> QED BY <2>1, <2>2, <3>1
    <2>4. CASE u = s /\ v \in pending \ {s}
      BY <1>5, <2>1, <2>2, <2>4 DEF IsUpdated, IsRoad
    <2>5. CASE u = s /\ v \notin pending \ {s}
      <3>1. dst[v] <= dst[s]
        BY <1>1, <1>2, <2>1, <2>5 DEF RouteInv, Ordered, Settled
      <3> QED BY <2>1, <2>2, <2>5, <3>1
    <2> QED BY <2>3, <2>4, <2>5
  <1>12. WayExists'
    <2> SUFFICES ASSUME NEW v \in roads.entry \ {no}, dst'[v] < INF
                 PROVE  \E u \in Settled \cup {s} :
                          /\ roads.len[u][v] # 0 /\ dst'[v] = dst'[u] + roads.len[u][v]
                          /\ route'[v] = Append(route'[u], u)
      BY <1>3, <1>4 DEF WayExists, IsRoad
    <2>1. v \in Vertex
      BY <1>1
    <2>2. CASE IsUpdated(s, v)
      BY <1>5, <1>8, <2>1, <2>2
    <2>3. CASE ~IsUpdated(s, v)
      <3>1. dst'[v] = dst[v] /\ route'[v] = route[v]
        BY <1>5, <2>1, <2>3
      <3>2. PICK u \in Settled : /\ roads.len[u][v] # 0 /\ dst[v] = dst[u] + roads.len[u][v]
                                 /\ route[v] = Append(route[u], u)
        BY <3>1 DEF RouteInv, Certified, WayExists, IsRoad
      <3> QED BY <1>8, <3>1, <3>2
    <2> QED BY <2>2, <2>3
  <1>13. LeftUnreachable'
    BY <1>3 DEF LeftUnreachable
  <1> QED
    BY <1>9, <1>10, <1>11, <1>12, <1>13 DEF RouteInv, Certified

LEMMA BreakKeeps ==
  ASSUME RouteInv, Break, UNCHANGED << roads, no >>
  PROVE  RouteInv'
  <1>1. /\ pending' = pending /\ dst' = dst /\ route' = route /\ reach' = reach
        /\ roads' = roads /\ no' = no /\ phase' = "choose" /\ open' = open
        /\ shortest' = shortest
    BY DEF Break
  <1>2. TypeOK' /\ Ordered' /\ NoShortcut' /\ WayExists'
    BY <1>1 DEF RouteInv, TypeOK, Ordered, Certified, NoShortcut, WayExists, Settled, IsRoad
  <1>3. LeftUnreachable'
    <2> SUFFICES ASSUME NEW u \in Settled, NEW v \in pending, IsRoad(u, v)
                 PROVE  dst[u] + roads.len[u][v] >= INF
      BY <1>1 DEF LeftUnreachable, Settled, IsRoad
    <2>1. u \in Vertex /\ v \in Vertex /\ v \in roads.entry
      BY DEF Settled, RouteInv, TypeOK, RoadMap
    <2>2. /\ dst[u] \in Nat /\ dst[v] \in Nat /\ roads.len[u][v] \in Nat /\ INF \in Nat
      BY <2>1, MapsAssumption DEF RouteInv, TypeOK, RoadMap
    <2>3. dst[v] <= dst[u] + roads.len[u][v]
      BY <2>1 DEF RouteInv, Certified, NoShortcut
    <2>4. dst[v] >= INF
      BY DEF Break
    <2> QED BY <2>2, <2>3, <2>4
  <1> QED
    BY <1>2, <1>3 DEF RouteInv, Certified

LEMMA ChooseKeeps ==
  ASSUME RouteInv, Choose, UNCHANGED << roads, no >>
  PROVE  RouteInv'
  <1>1. /\ pending' = pending /\ dst' = dst /\ route' = route /\ reach' = reach
        /\ roads' = roads /\ no' = no /\ open' = open
        /\ phase = "choose" /\ phase' \in {"none", "aborted", "found"}
    BY DEF Choose
  <1>2. shortest' \in Seq(Vertex)
    <2>1. \A s \in open : WayTo(s) \in Seq(Vertex)
      BY ListedAssumption DEF WayTo, RouteInv, TypeOK
    <2> QED BY <2>1 DEF Choose, RouteInv, TypeOK
  <1>3. TypeOK' /\ Ordered' /\ NoShortcut' /\ WayExists'
    BY <1>1, <1>2 DEF RouteInv, TypeOK, Ordered, Certified, NoShortcut, WayExists, Settled, IsRoad
  <1>4. LeftUnreachable'
    BY <1>1 DEF RouteInv, Certified, LeftUnreachable, Settled, IsRoad
  <1> QED
    BY <1>3, <1>4 DEF RouteInv, Certified

LEMMA RouteInductive == RouteInv /\ [Next]_vars => RouteInv'
  <1> SUFFICES ASSUME RouteInv, [Next]_vars PROVE RouteInv'
    OBVIOUS
  <1>1. CASE Next
    BY <1>1, SettleKeeps, BreakKeeps, ChooseKeeps DEF Next, DRNext
  <1>2. CASE UNCHANGED vars
    BY <1>2 DEF vars, search, RouteInv, TypeOK, Ordered, Certified, NoShortcut, WayExists,
                LeftUnreachable, Settled, IsRoad
  <1> QED BY <1>1, <1>2

(* The states of the search are well typed on every road map: distances    *)
(* stay natural numbers and ways sequences of vertices.                    *)
THEOREM SearchTypeCorrect == Spec => []TypeOK
  <1>1. RouteInv => TypeOK
    BY DEF RouteInv
  <1> QED BY <1>1, RouteInitial, RouteInductive, PTL DEF Spec

(* DijkstraRouteCalculationforGeographicInfo, on every road map, directed  *)
(* or not, with missing entries or not: no road gives a shorter way than   *)
(* recorded, every distance is that of a way, and what the loop leaves is  *)
(* out of reach.                                                           *)
THEOREM CertifiedHolds == Spec => []Certified
  <1>1. RouteInv => Certified
    BY DEF RouteInv
  <1> QED BY <1>1, RouteInitial, RouteInductive, PTL DEF Spec

-----------------------------------------------------------------------------
(* dijkstra_pair: the queue holds no distance below the recorded one.      *)
PairTypeOK ==
    /\ roads \in RoadMap /\ no \in Vertex
    /\ dist \in [Vertex -> Nat] /\ parent \in [Vertex -> Vertex \cup {Dummy}]
    /\ pq \subseteq Nat \X Vertex

QueueBounds ==
    /\ dist[no] = 0 /\ \A v \in Vertex : dist[v] <= INF
    /\ \A e \in pq : dist[e[2]] <= e[1] /\ e[1] < INF

PairInv == PairTypeOK /\ QueueBounds /\ PairCertified

pairVars == << roads, no, pair >>

PairStep == DPNext /\ UNCHANGED << roads, no >>

LEMMA PairInitial == RLInit /\ DPInit => PairInv
  <1> SUFFICES ASSUME RLInit, DPInit PROVE PairInv
    OBVIOUS
  <1>1. INF \in Nat /\ 0 < INF /\ no \in Vertex
    BY MapsAssumption DEF RLInit
  <1>2. /\ dist[no] = 0 /\ \A v \in Vertex \ {no} : dist[v] = INF
        /\ \A v \in Vertex : parent[v] = Dummy
    BY <1>1 DEF DPInit
  <1>3. PairTypeOK
    BY <1>1, MapsAssumption DEF RLInit, DPInit, PairTypeOK
  <1>4. QueueBounds
    BY <1>1, <1>2 DEF DPInit, QueueBounds
  <1>5. ParentsLeadBack
    <2> SUFFICES ASSUME NEW v \in Vertex \ {no}
                 PROVE  ~(dist[v] < INF) /\ parent[v] = Dummy
      BY DEF ParentsLeadBack
    <2>1. dist[v] = INF /\ parent[v] = Dummy
      BY <1>2
    <2> QED BY <1>1, <2>1
  <1>6. QueueCovers
    BY <1>1, <1>2 DEF DPInit, QueueCovers
  <1> QED
    BY <1>3, <1>4, <1>5, <1>6 DEF PairInv, PairCertified

LEMMA PairNumbers ==
  ASSUME PairInv
  PROVE  /\ INF \in Nat /\ no \in Vertex /\ dist[no] = 0
         /\ \A v \in Vertex : dist[v] \in Nat /\ dist[v] <= INF
         /\ \A u, v \in Vertex : roads.len[u][v] \in Nat
         /\ \A e \in pq : e = << e[1], e[2] >> /\ e[1] \in Nat /\ e[2] \in Vertex
                         /\ dist[e[2]] <= e[1] /\ e[1] < INF
  <1>1. roads.len \in [Vertex -> [Vertex -> Nat]]
    BY DEF PairInv, PairTypeOK, RoadMap
  <1>2. \A u \in Vertex : roads.len[u] \in [Vertex -> Nat]
    BY <1>1
  <1>3. \A u, v \in Vertex : roads.len[u][v] \in Nat
    BY <1>2
  <1>4. \A e \in pq : e \in Nat \X Vertex
    BY DEF PairInv, PairTypeOK
  <1>5. \A e \in pq : e = << e[1], e[2] >> /\ e[1] \in Nat /\ e[2] \in Vertex
    BY <1>4
  <1> QED
    BY <1>3, <1>5, MapsAssumption DEF PairInv, PairTypeOK, QueueBounds

(* An entry out of date is dropped: the one up to date is still there. *)
LEMMA DropKeeps ==
  ASSUME NEW e \in pq, PairInv, IsStale(e), Pop(e), UNCHANGED << roads, no >>
  PROVE  PairInv'
  <1>1. /\ pq' = pq \ {e} /\ dist' = dist /\ parent' = parent
        /\ roads' = roads /\ no' = no
    BY DEF Pop
  <1>2. \A u \in Vertex : << dist[u], u >> # e
    <2>1. e = << e[1], e[2] >> /\ e[1] \in Nat /\ e[2] \in Vertex /\ dist[e[2]] \in Nat
      BY PairNumbers
    <2>2. e[1] # dist[e[2]]
      BY <2>1 DEF IsStale
    <2> QED BY <2>1, <2>2
  <1>3. PairTypeOK' /\ QueueBounds' /\ ParentsLeadBack'
    BY <1>1 DEF PairInv, PairTypeOK, QueueBounds, PairCertified, ParentsLeadBack, IsRoad
  <1>4. QueueCovers'
    BY <1>1, <1>2 DEF PairInv, PairCertified, QueueCovers, IsRoad
  <1> QED
    BY <1>3, <1>4 DEF PairInv, PairCertified

(* An entry up to date: the roads from its vertex are relaxed. *)
LEMMA RelaxKeeps ==
  ASSUME NEW e \in pq, PairInv, ~IsStale(e), Pop(e), UNCHANGED << roads, no >>
  PROVE  PairInv'
  <1> DEFINE u == e[2]
             d(v) == dist[u] + roads.len[u][v]
  <1>1. /\ INF \in Nat /\ no \in Vertex /\ dist[no] = 0 /\ u \in Vertex
        /\ \A v \in Vertex : dist[v] \in Nat /\ dist[v] <= INF
        /\ \A v, w \in Vertex : roads.len[v][w] \in Nat
        /\ \A f \in pq : f = << f[1], f[2] >> /\ f[1] \in Nat /\ f[2] \in Vertex
                        /\ dist[f[2]] <= f[1] /\ f[1] < INF
    BY PairNumbers
  <1>2. e = << dist[u], u >>
    BY <1>1 DEF IsStale
  <1>3. roads' = roads /\ no' = no
    OBVIOUS
  <1>4. /\ dist' = [v \in Vertex |-> IF IsRelaxed(u, v) THEN d(v) ELSE dist[v]]
        /\ parent' = [v \in Vertex |-> IF IsRelaxed(u, v) THEN u ELSE parent[v]]
        /\ pq' = (pq \ {e}) \cup {<< d(v), v >> : v \in {w \in Vertex : IsRelaxed(u, w)}}
    BY DEF Pop, ParentFrom
  <1>5. \A v \in Vertex :
          /\ IsRelaxed(u, v) => /\ dist'[v] = d(v) /\ dist'[v] < dist[v] /\ parent'[v] = u
                                /\ roads.len[u][v] # 0 /\ << dist'[v], v >> \in pq'
          /\ ~IsRelaxed(u, v) => /\ dist'[v] = dist[v] /\ parent'[v] = parent[v]
                                 /\ roads.len[u][v] # 0 => dist[v] <= d(v)
    <2> SUFFICES ASSUME NEW v \in Vertex
                 PROVE  /\ IsRelaxed(u, v) => /\ dist'[v] = d(v) /\ dist'[v] < dist[v] /\ parent'[v] = u
                                              /\ roads.len[u][v] # 0 /\ << dist'[v], v >> \in pq'
                        /\ ~IsRelaxed(u, v) => /\ dist'[v] = dist[v] /\ parent'[v] = parent[v]
                                               /\ roads.len[u][v] # 0 => dist[v] <= d(v)
      OBVIOUS
    <2>0. dist[v] \in Nat /\ dist[u] \in Nat /\ roads.len[u][v] \in Nat
      BY <1>1
    <2>1. ASSUME IsRelaxed(u, v)
          PROVE  /\ dist'[v] = d(v) /\ dist'[v] < dist[v] /\ parent'[v] = u
                 /\ roads.len[u][v] # 0 /\ << dist'[v], v >> \in pq'
      <3>1. dist'[v] = d(v) /\ parent'[v] = u
        BY <1>4, <2>1
      <3>2. d(v) < dist[v] /\ roads.len[u][v] # 0
        BY <2>1 DEF IsRelaxed, IsRoad
      <3>3. << d(v), v >> \in pq'
        BY <1>4, <2>1
      <3> QED BY <3>1, <3>2, <3>3
    <2>2. ASSUME ~IsRelaxed(u, v)
          PROVE  /\ dist'[v] = dist[v] /\ parent'[v] = parent[v]
                 /\ roads.len[u][v] # 0 => dist[v] <= d(v)
      <3>1. dist'[v] = dist[v] /\ parent'[v] = parent[v]
        BY <1>4, <2>2
      <3>2. roads.len[u][v] # 0 => dist[v] <= d(v)
        BY <2>0, <2>2 DEF IsRelaxed, IsRoad
      <3> QED BY <3>1, <3>2
    <2> QED BY <2>1, <2>2
  <1>6. \A v \in Vertex : dist'[v] \in Nat /\ dist'[v] <= dist[v] /\ d(v) \in Nat
    <2> SUFFICES ASSUME NEW v \in Vertex
                 PROVE  dist'[v] \in Nat /\ dist'[v] <= dist[v] /\ d(v) \in Nat
      OBVIOUS
    <2>0. dist[v] \in Nat /\ dist[u] \in Nat /\ roads.len[u][v] \in Nat
      BY <1>1
    <2>1. d(v) \in Nat
      BY <2>0
    <2>2. CASE IsRelaxed(u, v)
      <3>1. dist'[v] = d(v) /\ dist'[v] < dist[v]
        BY <1>5, <2>2
      <3> HIDE DEF d
      <3> QED BY <2>0, <2>1, <3>1
    <2>3. CASE ~IsRelaxed(u, v)
      <3>1. dist'[v] = dist[v]
        BY <1>5, <2>3
      <3> QED BY <2>0, <2>1, <3>1
    <2> QED BY <2>2, <2>3
  <1>7. dist'[u] = dist[u] /\ dist'[no] = 0
    <2>1. ~IsRelaxed(u, u) /\ ~IsRelaxed(u, no)
      <3>1. dist[u] \in Nat /\ roads.len[u][u] \in Nat /\ roads.len[u][no] \in Nat
        BY <1>1
      <3> QED BY <1>1, <3>1 DEF IsRelaxed
    <2> QED BY <1>1, <1>5, <2>1
  <1>8. PairTypeOK'
    <2>1. dist' \in [Vertex -> Nat]
      BY <1>4, <1>6, <1>1
    <2>2. parent' \in [Vertex -> Vertex \cup {Dummy}]
      BY <1>1, <1>4 DEF PairInv, PairTypeOK
    <2>3. pq' \subseteq Nat \X Vertex
      BY <1>4, <1>6 DEF PairInv, PairTypeOK
    <2> QED BY <1>3, <2>1, <2>2, <2>3 DEF PairInv, PairTypeOK
  <1>9. QueueBounds'
    <2>1. \A v \in Vertex : dist'[v] <= INF
      BY <1>1, <1>6
    <2>2. ASSUME NEW f \in pq' PROVE dist'[f[2]] <= f[1] /\ f[1] < INF
      <3>1. CASE f \in pq
        <4>1. /\ f[1] \in Nat /\ f[2] \in Vertex /\ dist[f[2]] <= f[1] /\ f[1] < INF
              /\ dist[f[2]] \in Nat
          BY <1>1, <3>1
        <4>2. dist'[f[2]] \in Nat /\ dist'[f[2]] <= dist[f[2]]
          BY <1>6, <4>1
        <4> QED BY <4>1, <4>2
      <3>2. CASE f \notin pq
        <4>1. PICK v \in Vertex : IsRelaxed(u, v) /\ f = << d(v), v >>
          BY <1>4, <3>2
        <4>2. f[1] = dist'[v] /\ f[2] = v /\ dist'[v] < dist[v]
          BY <1>5, <4>1
        <4>3. dist'[v] \in Nat /\ dist[v] \in Nat /\ dist[v] <= INF
          BY <1>1, <1>6
        <4> QED BY <1>1, <4>2, <4>3
      <3> QED BY <3>1, <3>2
    <2> QED BY <1>3, <1>7, <2>1, <2>2 DEF QueueBounds
  <1>10. ParentsLeadBack'
    <2> SUFFICES ASSUME NEW v \in Vertex \ {no}
                 PROVE  IF dist'[v] < INF
                        THEN /\ parent'[v] \in Vertex /\ dist'[parent'[v]] < dist'[v]
                             /\ roads.len[parent'[v]][v] # 0
                        ELSE parent'[v] = Dummy
      BY <1>3 DEF ParentsLeadBack, IsRoad
    <2>0. dist[v] \in Nat /\ dist'[v] \in Nat /\ dist[u] \in Nat /\ dist[v] <= INF
      BY <1>1, <1>6
    <2>1. CASE IsRelaxed(u, v)
      <3>1. /\ dist'[v] = d(v) /\ dist'[v] < dist[v] /\ parent'[v] = u
            /\ roads.len[u][v] # 0 /\ roads.len[u][v] \in Nat
        BY <1>1, <1>5, <2>1
      <3>2. dist'[u] < dist'[v] /\ dist'[v] < INF
        BY <1>1, <1>7, <2>0, <3>1
      <3> QED BY <1>1, <3>1, <3>2
    <2>2. CASE ~IsRelaxed(u, v)
      <3>1. dist'[v] = dist[v] /\ parent'[v] = parent[v]
        BY <1>5, <2>2
      <3>2. CASE dist[v] < INF
        <4>1. /\ parent[v] \in Vertex /\ dist[parent[v]] < dist[v]
              /\ roads.len[parent[v]][v] # 0
          BY <3>2 DEF PairInv, PairCertified, ParentsLeadBack, IsRoad
        <4>2. /\ dist'[parent[v]] \in Nat /\ dist[parent[v]] \in Nat
              /\ dist'[parent[v]] <= dist[parent[v]]
          BY <1>1, <1>6, <4>1
        <4>3. dist'[parent[v]] < dist[v]
          BY <2>0, <4>1, <4>2
        <4> QED BY <3>1, <3>2, <4>1, <4>3
      <3>3. CASE ~(dist[v] < INF)
        BY <3>1, <3>3 DEF PairInv, PairCertified, ParentsLeadBack
      <3> QED BY <3>2, <3>3
    <2> QED BY <2>1, <2>2
  <1>11. QueueCovers'
    <2> SUFFICES ASSUME NEW w \in Vertex, NEW v \in Vertex,
                        dist'[w] < INF, << dist'[w], w >> \notin pq', roads.len[w][v] # 0
                 PROVE  dist'[v] <= dist'[w] + roads.len[w][v]
      BY <1>3 DEF QueueCovers, IsRoad
    <2>0. /\ dist[v] \in Nat /\ dist[w] \in Nat /\ dist'[v] \in Nat /\ dist'[v] <= dist[v]
          /\ roads.len[w][v] \in Nat /\ dist[u] \in Nat
      BY <1>1, <1>6
    <2>1. ~IsRelaxed(u, w) /\ dist'[w] = dist[w]
      BY <1>5
    <2>2. CASE w = u
      <3>1. CASE IsRelaxed(u, v)
        <4>1. dist'[v] = d(v)
          BY <1>5, <3>1
        <4>2. dist'[w] + roads.len[w][v] = d(v)
          BY <1>7, <2>2
        <4> QED BY <2>0, <4>1, <4>2
      <3>2. CASE ~IsRelaxed(u, v)
        BY <1>5, <1>7, <2>0, <2>2, <3>2
      <3> QED BY <3>1, <3>2
    <2>3. CASE w # u
      <3>1. << dist[w], w >> \notin pq
        BY <1>2, <1>4, <2>1, <2>3
      <3>2. dist[v] <= dist[w] + roads.len[w][v]
        BY <2>1, <3>1 DEF PairInv, PairCertified, QueueCovers, IsRoad
      <3> QED BY <2>0, <2>1, <3>2
    <2> QED BY <2>2, <2>3
  <1> QED
    BY <1>8, <1>9, <1>10, <1>11 DEF PairInv, PairCertified

LEMMA PairInductive == PairInv /\ [PairStep]_pairVars => PairInv'
  <1> SUFFICES ASSUME PairInv, [PairStep]_pairVars PROVE PairInv'
    OBVIOUS
  <1>1. ASSUME NEW e \in pq, Pop(e), UNCHANGED << roads, no >> PROVE PairInv'
    BY <1>1, DropKeeps, RelaxKeeps
  <1>2. CASE UNCHANGED << roads, no, dist, parent, pq >>
    BY <1>2 DEF PairInv, PairTypeOK, QueueBounds, PairCertified, ParentsLeadBack, QueueCovers,
                IsRoad
  <1>3. Store /\ UNCHANGED << roads, no >> => PairInv'
    BY <1>2 DEF Store
  <1>4. UNCHANGED pairVars => PairInv'
    BY <1>2 DEF pairVars, pair
  <1> QED
    BY <1>1, <1>3, <1>4 DEF PairStep, DPNext

(* dijkstra_pair and reconstruct_path_pair, on every road map: the parents *)
(* lead back to where the ways begin, along roads and through ever smaller *)
(* distances, and when the queue is empty no road gives a shorter way.     *)
THEOREM PairCertifiedHolds == DPSpec => []PairCertified
  <1>1. PairInv => PairCertified
    BY DEF PairInv
  <1> QED BY <1>1, PairInitial, PairInductive, PTL DEF DPSpec, PairStep, pairVars
-----------------------------------------------------------------------------
(* From the certificates to shortest ways.  The lengths of a way, first.   *)
LengthsOK(l) == l \in [Vertex -> [Vertex -> Nat]]

LEMMA LengthFacts ==
  ASSUME LengthsOK(roads.len), NEW p \in Seq(Vertex)
  PROVE  /\ \A i \in 0 .. Len(p) : LengthUpTo(p)[i] \in Nat
         /\ Len(p) > 0 => LengthUpTo(p)[1] = 0
         /\ \A i \in 2 .. Len(p) :
              LengthUpTo(p)[i] = LengthUpTo(p)[i - 1] + roads.len[p[i - 1]][p[i]]
  <1> DEFINE n == Len(p)
             Eqn(f) == f = [i \in 0 .. n |->
                IF i <= 1 THEN 0 ELSE f[i - 1] + roads.len[p[i - 1]][p[i]]]
             l == CHOOSE f : Eqn(f)
             step == [i \in Nat |-> [q \in Nat |->
                IF i \notin 2 .. n THEN 0 ELSE q + roads.len[p[i - 1]][p[i]]]]
  <1>0. n \in Nat /\ \A i \in 1 .. n : p[i] \in Vertex
    OBVIOUS
  <1>1. \A i \in 2 .. n : roads.len[p[i - 1]][p[i]] \in Nat
    <2> TAKE i \in 2 .. n
    <2>1. p[i - 1] \in Vertex /\ p[i] \in Vertex
      BY <1>0
    <2> QED BY <2>1 DEF LengthsOK
  <1>2. PICK f : Stepwise(f, Nat, 0, step, n)
    <2>1. step \in StepRules(Nat)
      BY <1>1 DEF StepRules
    <2> HIDE DEF step, n
    <2> QED BY <1>0, <2>1, StepwiseFunction
  <1>3. /\ f \in [0 .. n -> Nat] /\ f[0] = 0
        /\ \A i \in 1 .. n : f[i] = step[i][f[i - 1]]
    <2> HIDE DEF step, n
    <2> QED BY <1>2 DEF Stepwise
  <1>4. ASSUME NEW i \in 0 .. n
        PROVE  f[i] = IF i <= 1 THEN 0 ELSE f[i - 1] + roads.len[p[i - 1]][p[i]]
    <2>1. CASE i = 0
      BY <1>3, <2>1
    <2>2. CASE i # 0
      <3>1. i \in 1 .. n /\ i \in Nat /\ f[i - 1] \in Nat
        BY <1>0, <1>3, <2>2
      <3>2. i \in 2 .. n <=> ~(i <= 1)
        BY <1>0, <1>3, <3>1
      <3>3. step[i][f[i - 1]] = IF i \notin 2 .. n THEN 0
                               ELSE f[i - 1] + roads.len[p[i - 1]][p[i]]
        BY <3>1
      <3> QED BY <1>3, <3>1, <3>2, <3>3
    <2> QED BY <2>1, <2>2
  <1>5. Eqn(f)
    <2> HIDE DEF n
    <2> QED BY <1>3, <1>4
  <1>6. Eqn(l)
    <2> HIDE DEF n
    <2> QED BY <1>5
  <1>7. LengthUpTo(p) = l
    BY DEF LengthUpTo
  <1>8. ASSUME NEW i \in 0 .. n
        PROVE  l[i] = IF i <= 1 THEN 0 ELSE l[i - 1] + roads.len[p[i - 1]][p[i]]
    <2> HIDE DEF n, l
    <2> QED BY <1>6
  <1> DEFINE G == {i \in 0 .. n : l[i] \in Nat}
  <1> HIDE DEF l
  <1>9. 0 \in G
    BY <1>0, <1>8
  <1>10. ASSUME NEW i \in 0 .. n - 1, i \in G PROVE i + 1 \in G
    <2>1. CASE i = 0
      <3>1. 1 \in 0 .. n
        BY <1>0, <2>1
      <3> QED BY <1>8, <2>1, <3>1
    <2>2. CASE i # 0
      <3>1. i + 1 \in 2 .. n /\ i + 1 \in 0 .. n /\ ~(i + 1 <= 1) /\ (i + 1) - 1 = i
        BY <1>0, <2>2
      <3>2. l[i + 1] = l[i] + roads.len[p[i]][p[i + 1]]
        BY <1>8, <3>1
      <3>3. roads.len[p[i]][p[i + 1]] \in Nat /\ l[i] \in Nat
        BY <1>1, <1>10, <3>1
      <3> QED BY <3>1, <3>2, <3>3
    <2> QED BY <2>1, <2>2
  <1>11. 0 .. n \subseteq G
    <2> HIDE DEF G, n
    <2> QED BY <1>0, <1>9, <1>10, UpTo
  <1>12. \A i \in 2 .. n : l[i] = l[i - 1] + roads.len[p[i - 1]][p[i]]
    BY <1>0, <1>8
  <1>13. n > 0 => l[1] = 0
    BY <1>0, <1>8
  <1> QED BY <1>7, <1>11, <1>12, <1>13

(* Where every road of a way adds its length to D, D has grown by the      *)
(* length of the way.                                                      *)
LEMMA Telescope ==
  ASSUME LengthsOK(roads.len), NEW p \in Seq(Vertex), Len(p) > 0,
         NEW D \in [Vertex -> Nat],
         \A i \in 1 .. Len(p) - 1 : D[p[i + 1]] = D[p[i]] + roads.len[p[i]][p[i + 1]]
  PROVE  D[p[Len(p)]] = D[p[1]] + LengthOf(p)
  <1> DEFINE n == Len(p)
             l == LengthUpTo(p)
             G == {i \in 0 .. n - 1 : D[p[i + 1]] = D[p[1]] + l[i + 1]}
  <1>0. n \in Nat /\ n > 0 /\ \A i \in 1 .. n : p[i] \in Vertex /\ D[p[i]] \in Nat
    OBVIOUS
  <1>1. /\ \A i \in 0 .. n : l[i] \in Nat
        /\ l[1] = 0
        /\ \A i \in 2 .. n : l[i] = l[i - 1] + roads.len[p[i - 1]][p[i]]
    BY LengthFacts
  <1> HIDE DEF n, l
  <1>2. 0 \in G
    BY <1>0, <1>1
  <1>3. ASSUME NEW i \in 0 .. (n - 1) - 1, i \in G PROVE i + 1 \in G
    <2>1. /\ i + 1 \in 0 .. n - 1 /\ i + 1 \in 1 .. n - 1 /\ (i + 1) + 1 \in 2 .. n
          /\ ((i + 1) + 1) - 1 = i + 1 /\ i + 1 \in 0 .. n /\ (i + 1) + 1 \in 1 .. n
          /\ i + 1 \in 1 .. n /\ 1 \in 1 .. n
      BY <1>0
    <2> DEFINE r == roads.len[p[i + 1]][p[(i + 1) + 1]]
    <2>2. l[(i + 1) + 1] = l[i + 1] + r
      BY <1>1, <2>1
    <2>3. D[p[(i + 1) + 1]] = D[p[i + 1]] + r
      BY <2>1 DEF n
    <2>4. D[p[i + 1]] = D[p[1]] + l[i + 1]
      BY <1>3
    <2>5. r \in Nat
      BY <1>0, <2>1 DEF LengthsOK
    <2>6. D[p[1]] \in Nat /\ l[i + 1] \in Nat /\ D[p[i + 1]] \in Nat
      BY <1>0, <1>1, <2>1
    <2> HIDE DEF r
    <2> QED BY <2>1, <2>2, <2>3, <2>4, <2>5, <2>6
  <1>4. 0 .. n - 1 \subseteq G
    <2>1. n - 1 \in Nat
      BY <1>0
    <2> HIDE DEF G
    <2> QED BY <1>2, <1>3, <2>1, UpTo
  <1>5. n - 1 \in G /\ (n - 1) + 1 = n
    <2>1. n - 1 \in 0 .. n - 1 /\ (n - 1) + 1 = n
      <3> HIDE DEF G
      <3> QED BY <1>0
    <2> HIDE DEF G
    <2> QED BY <1>4, <2>1
  <1> QED BY <1>5 DEF LengthOf, n, l

(* Where no road leads out of S, save beyond the length INF, and none is a *)
(* shortcut, a way that begins in S and is no longer than that ends in S,  *)
(* and D has grown by no more than the length of the way.                  *)
LEMMA Potential ==
  ASSUME LengthsOK(roads.len), NEW E \in SUBSET Vertex, NEW S \in SUBSET Vertex,
         NEW D \in [Vertex -> Nat],
         \A u \in S, v \in E : IsRoad(u, v) =>
            \/ v \in S /\ D[v] <= D[u] + roads.len[u][v]
            \/ D[u] + roads.len[u][v] >= INF,
         NEW q \in Seq(Vertex), NEW u, NEW v, WayFrom(q, u, v, E), u \in S
  PROVE  \/ v \in S /\ D[v] <= D[u] + LengthOf(q)
         \/ D[u] + LengthOf(q) >= INF
  <1> DEFINE n == Len(q)
             l == LengthUpTo(q)
             G == {i \in 0 .. n - 1 :
                     \/ q[i + 1] \in S /\ D[q[i + 1]] <= D[u] + l[i + 1]
                     \/ D[u] + l[i + 1] >= INF}
  <1>0. /\ n \in Nat /\ n > 0 /\ INF \in Nat
        /\ \A i \in 1 .. n : q[i] \in E /\ q[i] \in Vertex /\ D[q[i]] \in Nat
        /\ q[1] = u /\ q[n] = v /\ D[u] \in Nat
        /\ \A i \in 1 .. n - 1 : IsRoad(q[i], q[i + 1])
    <2>1. n \in Nat /\ n > 0 /\ INF \in Nat /\ q[1] = u /\ q[n] = v
      BY MapsAssumption DEF WayFrom
    <2>2. \A i \in 1 .. n : q[i] \in E
      BY DEF WayFrom
    <2>3. \A i \in 1 .. n - 1 : IsRoad(q[i], q[i + 1])
      BY DEF WayFrom
    <2>4. \A x \in Vertex : D[x] \in Nat
      OBVIOUS
    <2> HIDE DEF n
    <2> QED BY <2>1, <2>2, <2>3, <2>4
  <1>1. /\ \A i \in 0 .. n : l[i] \in Nat
        /\ l[1] = 0
        /\ \A i \in 2 .. n : l[i] = l[i - 1] + roads.len[q[i - 1]][q[i]]
    BY LengthFacts DEF WayFrom
  <1> HIDE DEF n, l
  <1>2. 0 \in G
    BY <1>0, <1>1
  <1>3. ASSUME NEW i \in 0 .. (n - 1) - 1, i \in G PROVE i + 1 \in G
    <2>1. /\ i + 1 \in 0 .. n - 1 /\ i + 1 \in 1 .. n - 1 /\ (i + 1) + 1 \in 2 .. n
          /\ ((i + 1) + 1) - 1 = i + 1 /\ i + 1 \in 0 .. n /\ (i + 1) + 1 \in 1 .. n
          /\ i + 1 \in 1 .. n /\ (i + 1) + 1 \in 0 .. n
      BY <1>0
    <2> DEFINE a == q[i + 1]
               b == q[(i + 1) + 1]
               r == roads.len[a][b]
    <2>2. l[(i + 1) + 1] = l[i + 1] + r
      BY <1>1, <2>1
    <2>3. a \in Vertex /\ b \in Vertex /\ b \in E /\ IsRoad(a, b) /\ D[a] \in Nat /\ D[b] \in Nat
      BY <1>0, <2>1
    <2>4. r \in Nat
      BY <2>3 DEF LengthsOK
    <2>5. l[i + 1] \in Nat /\ D[u] \in Nat
      BY <1>0, <1>1, <2>1
    <2>6. (a \in S /\ D[a] <= D[u] + l[i + 1]) \/ D[u] + l[i + 1] >= INF
      BY <1>3
    <2>7. a \in S => \/ b \in S /\ D[b] <= D[a] + r
                     \/ D[a] + r >= INF
      BY <2>3
    <2>8. \/ b \in S /\ D[b] <= D[u] + l[(i + 1) + 1]
          \/ D[u] + l[(i + 1) + 1] >= INF
      <3> HIDE DEF r, a, b
      <3> QED BY <1>0, <2>2, <2>3, <2>4, <2>5, <2>6, <2>7
    <2> QED BY <2>1, <2>8
  <1>4. 0 .. n - 1 \subseteq G
    <2>1. n - 1 \in Nat
      BY <1>0
    <2> HIDE DEF G
    <2> QED BY <1>2, <1>3, <2>1, UpTo
  <1>5. n - 1 \in G /\ (n - 1) + 1 = n
    BY <1>0, <1>4
  <1> QED BY <1>0, <1>5 DEF LengthOf, n, l
-----------------------------------------------------------------------------
(* The evacuee's search.  A route recorded goes over settled vertices, and *)
(* every road on it accounts for the distance; the distances kept for the  *)
(* forecast are those of the search.                                       *)
Along(p) ==
    \A i \in 1 .. Len(p) - 1 :
        /\ p[i] \in Settled /\ IsRoad(p[i], p[i + 1])
        /\ dst[p[i + 1]] = dst[p[i]] + roads.len[p[i]][p[i + 1]]

RoutesRecorded ==
    /\ dst[no] = 0 /\ reach[no] = INF
    /\ \A v \in Vertex : dst[v] <= INF /\ (v # no => reach[v] = dst[v])
    /\ \A v \in Vertex : dst[v] < INF => WayTo(v)[1] = no /\ Along(WayTo(v))

(* What is known once the loop has ended.                                  *)
Outcome ==
    /\ phase # "search" => \A v \in pending : dst[v] >= INF
    /\ phase = "none" => \E s \in Listed : s \notin Settled
    /\ phase = "found" =>
        /\ Listed \subseteq Settled
        /\ \E s \in open : /\ IsTarget(s) /\ shortest = WayTo(s)
                           /\ remaining = RemainingOn(s)

SearchInv == RouteInv /\ RoutesRecorded /\ Outcome

(* A way continued by one vertex.                                          *)
LEMMA Continued ==
  ASSUME NEW p \in Seq(Vertex), NEW v \in Vertex
  PROVE  /\ Append(p, v) \in Seq(Vertex) /\ Len(Append(p, v)) = Len(p) + 1
         /\ Append(p, v)[Len(p) + 1] = v
         /\ \A i \in 1 .. Len(p) : Append(p, v)[i] = p[i]
  OBVIOUS

LEMMA SearchInitial == Init => SearchInv
  <1> SUFFICES ASSUME Init PROVE SearchInv
    OBVIOUS
  <1>0. RouteInv /\ INF \in Nat /\ 0 < INF /\ no \in Vertex
    BY RouteInitial, MapsAssumption DEF Init, RLInit
  <1>1. /\ \A v \in Vertex : /\ dst[v] = IF v = no THEN 0 ELSE INF
                             /\ reach[v] = INF /\ route[v] = << >>
        /\ phase = "search"
    BY DEF Init, DRInit
  <1>2. Outcome
    BY <1>1 DEF Outcome
  <1>3. ASSUME NEW v \in Vertex, dst[v] < INF
        PROVE  WayTo(v)[1] = no /\ Along(WayTo(v))
    <2>0. v = no
      <3>1. v # no => dst[v] = INF
        BY <1>1
      <3> QED BY <1>0, <1>3, <3>1
    <2>1. v = no /\ WayTo(v) = Append(<< >>, v)
      BY <1>1, <2>0 DEF WayTo
    <2>2. Len(Append(<< >>, v)) = 1 /\ Append(<< >>, v)[1] = v
      OBVIOUS
    <2>3. 1 .. 1 - 1 = {}
      OBVIOUS
    <2> QED BY <2>1, <2>2, <2>3 DEF Along
  <1>4. RoutesRecorded
    BY <1>0, <1>1, <1>3 DEF RoutesRecorded
  <1> QED BY <1>0, <1>2, <1>4 DEF SearchInv

(* A round of the loop records the way over the vertex selected.           *)
LEMMA SettleRecords ==
  ASSUME NEW s \in Vertex, SearchInv, Settle(s), UNCHANGED << roads, no >>
  PROVE  RoutesRecorded'
  <1>1. /\ INF \in Nat /\ roads.entry \subseteq Vertex /\ pending \subseteq Vertex
        /\ \A v \in Vertex : dst[v] \in Nat /\ reach[v] \in Nat /\ route[v] \in Seq(Vertex)
        /\ \A u, v \in Vertex : roads.len[u][v] \in Nat
        /\ pending \subseteq roads.entry /\ no \in Vertex
    BY RouteNumbers DEF SearchInv, RouteInv, TypeOK
  <1>2. /\ s \in pending /\ dst[s] < INF /\ s \in roads.entry
        /\ pending' = pending \ {s} /\ roads' = roads /\ no' = no
    BY <1>1 DEF Settle, IsSelected, LeftPending
  <1>3. Settled' = Settled \cup {s} /\ s \notin Settled /\ Settled \subseteq Vertex
    BY <1>1, <1>2 DEF Settled
  <1>4. \A u \in Vertex :
          /\ IsUpdated(s, u) => /\ u \in pending \ {s} /\ IsRoad(s, u)
                                /\ dst'[u] = dst[s] + roads.len[s][u]
                                /\ dst'[u] < dst[u]
                                /\ route'[u] = WayTo(s)
          /\ ~IsUpdated(s, u) => dst'[u] = dst[u] /\ route'[u] = route[u]
    BY <1>1 DEF Settle, IsUpdated, WayTo
  <1>5. \A u \in Settled \cup {s} : ~IsUpdated(s, u) /\ dst'[u] = dst[u]
    BY <1>1, <1>3, <1>4 DEF Settled, IsUpdated
  <1>6. ~IsUpdated(s, no)
    <2>1. dst[no] = 0 /\ dst[s] \in Nat /\ roads.len[s][no] \in Nat
      BY <1>1 DEF SearchInv, RoutesRecorded
    <2> QED BY <2>1 DEF IsUpdated
  <1>7. dst'[no] = 0 /\ reach'[no] = INF
    <2>1. reach'[no] = Reached(s, no)
      BY <1>1 DEF Settle
    <2> QED BY <1>1, <1>4, <1>6, <2>1 DEF Reached, SearchInv, RoutesRecorded
  <1>8. ASSUME NEW v \in Vertex
        PROVE  dst'[v] <= INF /\ (v # no => reach'[v] = dst'[v])
    <2>0. /\ dst[v] \in Nat /\ dst[s] \in Nat /\ roads.len[s][v] \in Nat
          /\ dst[v] <= INF /\ (v # no => reach[v] = dst[v])
      BY <1>1 DEF SearchInv, RoutesRecorded
    <2>1. reach'[v] = Reached(s, v)
      BY DEF Settle
    <2>2. CASE IsUpdated(s, v)
      <3>1. dst'[v] = dst[s] + roads.len[s][v] /\ dst'[v] < dst[v]
        BY <1>4, <2>2
      <3>2. v # no => reach'[v] = dst'[v]
        BY <2>0, <2>1, <2>2, <3>1 DEF Reached
      <3> QED BY <1>1, <2>0, <3>1, <3>2
    <2>3. CASE ~IsUpdated(s, v)
      BY <1>4, <2>0, <2>1, <2>3 DEF Reached
    <2> QED BY <2>2, <2>3
  <1>9. ASSUME NEW v \in Vertex, dst'[v] < INF
        PROVE  (WayTo(v)[1] = no)' /\ Along(WayTo(v))'
    <2> SUFFICES ASSUME NEW p, p = Append(route'[v], v)
                 PROVE  p[1] = no /\
                        \A i \in 1 .. Len(p) - 1 :
                          /\ p[i] \in Settled \cup {s} /\ IsRoad(p[i], p[i + 1])
                          /\ dst'[p[i + 1]] = dst'[p[i]] + roads.len[p[i]][p[i + 1]]
      BY <1>2, <1>3 DEF WayTo, Along, IsRoad
    <2>1. CASE IsUpdated(s, v)
      <3> DEFINE w == WayTo(s)
                 n == Len(w)
      <3>1. /\ w \in Seq(Vertex) /\ n \in Nat /\ n > 0 /\ w[n] = s
            /\ w[1] = no /\ Along(w)
        <4>1. w \in Seq(Vertex) /\ Len(w) = Len(route[s]) + 1 /\ w[Len(route[s]) + 1] = s
          BY <1>1, Continued DEF WayTo
        <4>2. w[1] = no /\ Along(w)
          BY <1>2 DEF SearchInv, RoutesRecorded
        <4> QED BY <1>1, <4>1, <4>2
      <3>2. p = Append(w, v)
        BY <1>4, <2>1
      <3> HIDE DEF w
      <3>3. Len(p) = n + 1 /\ p[n + 1] = v /\ \A i \in 1 .. n : p[i] = w[i]
        BY <3>1, <3>2, Continued
      <3> HIDE DEF n
      <3>4. p[1] = no
        BY <3>1, <3>3
      <3>5. ASSUME NEW i \in 1 .. n
            PROVE  /\ p[i] \in Settled \cup {s} /\ IsRoad(p[i], p[i + 1])
                   /\ dst'[p[i + 1]] = dst'[p[i]] + roads.len[p[i]][p[i + 1]]
        <4>1. CASE i = n
          <5>1. p[i] = s /\ p[i + 1] = v
            BY <3>1, <3>3, <4>1
          <5> QED BY <1>4, <1>5, <2>1, <5>1
        <4>2. CASE i # n
          <5>1. i \in 1 .. n - 1 /\ i + 1 \in 1 .. n
            BY <3>1, <4>2
          <5>2. /\ w[i] \in Settled /\ IsRoad(w[i], w[i + 1])
                /\ dst[w[i + 1]] = dst[w[i]] + roads.len[w[i]][w[i + 1]]
            BY <3>1, <5>1 DEF Along, n
          <5>3. w[i + 1] \in Settled \cup {s}
            <6>1. CASE i + 1 = n
              BY <3>1, <6>1
            <6>2. CASE i + 1 # n
              <7>1. i + 1 \in 1 .. n - 1
                BY <3>1, <5>1, <6>2
              <7> QED BY <3>1, <7>1 DEF Along, n
            <6> QED BY <6>1, <6>2
          <5> QED BY <1>5, <3>3, <5>1, <5>2, <5>3
        <4> QED BY <4>1, <4>2
      <3>6. Len(p) - 1 = n
        BY <3>1, <3>3
      <3> QED BY <3>4, <3>5, <3>6
    <2>2. CASE ~IsUpdated(s, v)
      <3>1. dst'[v] = dst[v] /\ p = WayTo(v)
        BY <1>4, <2>2 DEF WayTo
      <3>2. p[1] = no /\ Along(p)
        BY <1>9, <3>1 DEF SearchInv, RoutesRecorded
      <3>3. /\ Len(p) = Len(route[v]) + 1 /\ p[Len(route[v]) + 1] = v /\ Len(route[v]) \in Nat
        BY <1>1, <3>1, Continued DEF WayTo
      <3> DEFINE n == Len(p)
      <3>4. n \in Nat /\ n > 0 /\ p[n] = v
        BY <3>3
      <3> HIDE DEF n
      <3>5. ASSUME NEW i \in 1 .. n - 1
            PROVE  /\ p[i] \in Settled \cup {s} /\ IsRoad(p[i], p[i + 1])
                   /\ dst'[p[i + 1]] = dst'[p[i]] + roads.len[p[i]][p[i + 1]]
        <4>1. /\ p[i] \in Settled /\ IsRoad(p[i], p[i + 1])
              /\ dst[p[i + 1]] = dst[p[i]] + roads.len[p[i]][p[i + 1]]
          BY <3>2 DEF Along, n
        <4>2. dst'[p[i + 1]] = dst[p[i + 1]]
          <5>1. CASE i + 1 = n
            BY <3>1, <3>4, <5>1
          <5>2. CASE i + 1 # n
            <6>1. i + 1 \in 1 .. n - 1
              BY <3>4, <5>2
            <6>2. p[i + 1] \in Settled
              BY <3>2, <6>1 DEF Along, n
            <6> QED BY <1>5, <6>2
          <5> QED BY <5>1, <5>2
        <4> QED BY <1>5, <4>1, <4>2
      <3> QED BY <3>2, <3>5 DEF n
    <2> QED BY <2>1, <2>2
  <1> QED BY <1>2, <1>7, <1>8, <1>9 DEF RoutesRecorded

LEMMA SearchInductive == SearchInv /\ [Next]_vars => SearchInv'
  <1> SUFFICES ASSUME SearchInv, [Next]_vars PROVE SearchInv'
    OBVIOUS
  <1>0. RouteInv'
    BY RouteInductive DEF SearchInv
  <1>1. ASSUME NEW s \in Vertex, Settle(s), UNCHANGED << roads, no >> PROVE SearchInv'
    <2>1. RoutesRecorded'
      BY <1>1, SettleRecords
    <2>2. phase' = "search"
      BY <1>1 DEF Settle
    <2>3. Outcome'
      BY <2>2 DEF Outcome
    <2> QED BY <1>0, <2>1, <2>3 DEF SearchInv
  <1>2. ASSUME UNCHANGED << roads, no, open, pending, dst, route, reach >>
        PROVE  RoutesRecorded'
    BY <1>2 DEF SearchInv, RoutesRecorded, WayTo, Along, Settled, IsRoad
  <1>3. ASSUME Break, UNCHANGED << roads, no >> PROVE SearchInv'
    <2>1. RoutesRecorded'
      BY <1>2, <1>3 DEF Break
    <2>2. Outcome'
      BY <1>3 DEF Break, Outcome
    <2> QED BY <1>0, <2>1, <2>2 DEF SearchInv
  <1>4. ASSUME Choose, UNCHANGED << roads, no >> PROVE SearchInv'
    <2>1. RoutesRecorded'
      BY <1>2, <1>4 DEF Choose
    <2>2. /\ UNCHANGED << roads, no, open, pending, dst, route, reach >>
          /\ phase = "choose" /\ phase' \in {"none", "aborted", "found"}
      BY <1>4 DEF Choose
    <2>3. \A v \in pending' : dst'[v] >= INF
      BY <2>2 DEF SearchInv, Outcome
    <2>4. phase' = "none" => \E s \in Listed : s \notin Settled'
      BY <1>4, <2>2 DEF Choose, Settled
    <2>5. ASSUME phase' = "found"
          PROVE  /\ Listed \subseteq Settled'
                 /\ \E s \in open' : /\ IsTarget(s)' /\ shortest' = WayTo(s)'
                                     /\ remaining' = RemainingOn(s)'
      <3>1. Listed \subseteq Settled
        BY <1>4, <2>5 DEF Choose
      <3>2. PICK s \in open : IsTarget(s) /\ shortest' = WayTo(s) /\ remaining' = RemainingOn(s)
        BY <1>4, <2>5 DEF Choose
      <3>3. WayTo(s)' = WayTo(s) /\ IsTarget(s)' /\ RemainingOn(s)' = RemainingOn(s)
        BY <2>2, <3>2 DEF WayTo, IsTarget, RemainingOn
      <3> QED BY <2>2, <3>1, <3>2, <3>3 DEF Settled
    <2> QED BY <1>0, <2>1, <2>3, <2>4, <2>5 DEF SearchInv, Outcome
  <1>5. ASSUME UNCHANGED vars PROVE SearchInv'
    <2>1. UNCHANGED << roads, no, open, pending, dst, route, reach, phase, shortest, remaining >>
      BY <1>5 DEF vars, search
    <2>2. /\ Settled' = Settled
          /\ \A s : /\ IsTarget(s)' <=> IsTarget(s)
                   /\ WayTo(s)' = WayTo(s) /\ RemainingOn(s)' = RemainingOn(s)
      BY <2>1 DEF Settled, IsTarget, WayTo, RemainingOn
    <2>3. Outcome'
      BY <2>1, <2>2 DEF SearchInv, Outcome
    <2> QED BY <1>0, <1>2, <2>1, <2>3 DEF SearchInv
  <1> QED BY <1>1, <1>3, <1>4, <1>5 DEF Next, DRNext

(* After the loop the settled vertices satisfy the hypotheses of Potential.*)
LEMMA SettledPotential ==
  ASSUME SearchInv, phase # "search", NEW q \in Seq(Vertex), NEW u \in Settled, NEW v,
         WayFrom(q, u, v, roads.entry)
  PROVE  \/ v \in Settled /\ dst[v] <= dst[u] + LengthOf(q)
         \/ dst[u] + LengthOf(q) >= INF
  <1>1. /\ LengthsOK(roads.len) /\ roads.entry \in SUBSET Vertex
        /\ Settled \in SUBSET Vertex /\ dst \in [Vertex -> Nat]
    BY DEF SearchInv, RouteInv, TypeOK, RoadMap, LengthsOK, Settled
  <1>2. ASSUME NEW a \in Settled, NEW b \in roads.entry, IsRoad(a, b)
        PROVE  \/ b \in Settled /\ dst[b] <= dst[a] + roads.len[a][b]
               \/ dst[a] + roads.len[a][b] >= INF
    BY <1>2 DEF SearchInv, RouteInv, Certified, NoShortcut, LeftUnreachable, Settled
  <1> QED BY <1>1, <1>2, Potential

(* The rest of a way recorded has the length the distances say.            *)
LEMMA RestOfWay ==
  ASSUME SearchInv, NEW p \in Seq(Vertex), Along(p), NEW i \in 1 .. Len(p)
  PROVE  LengthOf(SubSeq(p, i, Len(p))) = dst[p[Len(p)]] - dst[p[i]]
  <1> DEFINE n == Len(p)
             r == SubSeq(p, i, n)
  <1>0. n \in Nat /\ i \in 1 .. n
    OBVIOUS
  <1>1. r \in Seq(Vertex) /\ Len(r) = n - i + 1 /\ \A j \in 1 .. n - i + 1 : r[j] = p[i + j - 1]
    OBVIOUS
  <1>2. dst \in [Vertex -> Nat] /\ LengthsOK(roads.len)
    BY DEF SearchInv, RouteInv, TypeOK, RoadMap, LengthsOK
  <1>2a. \A j \in 1 .. n - 1 : dst[p[j + 1]] = dst[p[j]] + roads.len[p[j]][p[j + 1]]
    BY DEF Along
  <1>2b. \A j \in 1 .. n : dst[p[j]] \in Nat
    BY <1>2
  <1> HIDE DEF n, r
  <1>3. ASSUME NEW j \in 1 .. Len(r) - 1
        PROVE  dst[r[j + 1]] = dst[r[j]] + roads.len[r[j]][r[j + 1]]
    <2>1. /\ j \in 1 .. n - i + 1 /\ j + 1 \in 1 .. n - i + 1 /\ i + j - 1 \in 1 .. n - 1
          /\ i + (j + 1) - 1 = (i + j - 1) + 1
      BY <1>0, <1>1
    <2>2. r[j] = p[i + j - 1] /\ r[j + 1] = p[(i + j - 1) + 1]
      BY <1>1, <2>1
    <2> QED BY <1>2a, <2>1, <2>2
  <1>4. Len(r) > 0 /\ r[1] = p[i] /\ r[Len(r)] = p[n]
    <2>1. 1 \in 1 .. n - i + 1 /\ n - i + 1 \in 1 .. n - i + 1 /\ i + 1 - 1 = i
          /\ i + (n - i + 1) - 1 = n /\ n - i + 1 > 0
      BY <1>0
    <2> QED BY <1>1, <2>1
  <1>5. dst[r[Len(r)]] = dst[r[1]] + LengthOf(r)
    BY <1>1, <1>2, <1>3, <1>4, Telescope
  <1>6. LengthOf(r) \in Nat
    <2>1. Len(r) \in 0 .. Len(r)
      BY <1>1, <1>0
    <2> QED BY <1>1, <1>2, <2>1, LengthFacts DEF LengthOf
  <1>7. dst[p[n]] \in Nat /\ dst[p[i]] \in Nat /\ dst[p[n]] = dst[p[i]] + LengthOf(r)
    BY <1>0, <1>2b, <1>4, <1>5
  <1>8. LengthOf(r) = dst[p[n]] - dst[p[i]]
    BY <1>6, <1>7
  <1> QED BY <1>8 DEF r, n

(* What the invariant says of a search that found a shelter.               *)
LEMMA FoundWay ==
  ASSUME SearchInv, phase = "found"
  PROVE  LET n == Len(shortest) s == shortest[n] IN
         /\ shortest \in Seq(Vertex) /\ n > 0 /\ shortest[1] = no /\ Along(shortest)
         /\ IsTarget(s) /\ s \in open /\ Listed \subseteq Settled
         /\ \A i \in 1 .. n : shortest[i] \in Settled
         /\ remaining = RemainingOn(s) /\ shortest = WayTo(s)
  <1>1. PICK s \in open : IsTarget(s) /\ shortest = WayTo(s) /\ remaining = RemainingOn(s)
    BY DEF SearchInv, Outcome
  <1>2. Listed \subseteq Settled /\ s \in Settled /\ s \in Vertex
    BY ListedAssumption DEF SearchInv, Outcome, RouteInv, TypeOK
  <1>3. route[s] \in Seq(Vertex) /\ dst[s] < INF
    BY <1>2 DEF SearchInv, RouteInv, TypeOK, Ordered
  <1> DEFINE n == Len(shortest)
  <1>4. shortest \in Seq(Vertex) /\ n \in Nat /\ n > 0 /\ shortest[n] = s
    <2>1. /\ shortest \in Seq(Vertex) /\ n = Len(route[s]) + 1 /\ shortest[Len(route[s]) + 1] = s
          /\ Len(route[s]) \in Nat
      BY <1>1, <1>2, <1>3, Continued DEF WayTo
    <2> QED BY <2>1
  <1>5. shortest[1] = no /\ Along(shortest)
    BY <1>1, <1>2, <1>3 DEF SearchInv, RoutesRecorded
  <1> HIDE DEF n
  <1>6. ASSUME NEW i \in 1 .. n PROVE shortest[i] \in Settled
    <2>1. CASE i = n
      BY <1>2, <1>4, <2>1
    <2>2. CASE i # n
      <3>1. i \in 1 .. n - 1
        BY <1>4, <2>2
      <3> QED BY <1>5, <3>1 DEF Along, n
    <2> QED BY <2>1, <2>2
  <1> QED BY <1>1, <1>2, <1>4, <1>5, <1>6 DEF n

(* What the invariant says about any ways that are sequences of vertices.  *)
LEMMA NearestFound ==
  ASSUME SearchInv, NEW W \in SUBSET Seq(Vertex)
  PROVE  FindsNearestAmong(W)
  <1>0. /\ INF \in Nat /\ 0 < INF /\ no \in Vertex /\ dst[no] = 0 /\ roads.entry \subseteq Vertex
        /\ \A v \in Vertex : dst[v] \in Nat
        /\ LengthsOK(roads.len) /\ Settled \subseteq roads.entry
    BY MapsAssumption DEF SearchInv, RoutesRecorded, RouteInv, TypeOK, RoadMap, LengthsOK, Settled
  <1>1. \A q \in Seq(Vertex) : LengthOf(q) \in Nat
    <2> TAKE q \in Seq(Vertex)
    <2>1. Len(q) \in 0 .. Len(q)
      OBVIOUS
    <2> QED BY <1>0, <2>1, LengthFacts DEF LengthOf
  <1>2. phase # "search" /\ no \in roads.entry => no \in Settled
    BY <1>0 DEF SearchInv, Outcome, Settled
  <1>3. ASSUME phase = "none"
        PROVE  \E s \in Listed : NoShorter(INF, no, s, roads.entry, W)
    <2>1. PICK s \in Listed : s \notin Settled
      BY <1>3 DEF SearchInv, Outcome
    <2>2. ASSUME NEW q \in W, WayFrom(q, no, s, roads.entry) PROVE INF <= LengthOf(q)
      <3>1. no \in Settled
        <4>1. 1 \in 1 .. Len(q)
          BY <2>2 DEF WayFrom
        <4> QED BY <1>2, <1>3, <2>2, <4>1 DEF WayFrom
      <3>2. dst[no] + LengthOf(q) >= INF
        BY <1>3, <2>1, <2>2, <3>1, SettledPotential
      <3> QED BY <1>0, <1>1, <3>2
    <2> QED BY <2>1, <2>2 DEF NoShorter
  <1>4. ASSUME phase = "found"
        PROVE  LET n == Len(shortest) s == shortest[n] IN
               /\ s \in open /\ WayFrom(shortest, no, s, roads.entry)
               /\ \A t \in open : NoShorter(LengthOf(shortest), no, t, roads.entry, W)
               /\ DOMAIN remaining = {shortest[i] : i \in 2 .. n}
               /\ \A i \in 2 .. n : LET v == shortest[i] IN
                   /\ remaining[v] = LengthOf(SubSeq(shortest, i, n))
                   /\ NoShorter(remaining[v], v, s, roads.entry, W)
    <2> DEFINE n == Len(shortest)
               s == shortest[n]
    <2>1. /\ shortest \in Seq(Vertex) /\ n > 0 /\ shortest[1] = no /\ Along(shortest)
          /\ IsTarget(s) /\ s \in open /\ Listed \subseteq Settled
          /\ \A i \in 1 .. n : shortest[i] \in Settled
          /\ remaining = RemainingOn(s) /\ shortest = WayTo(s)
      BY <1>4, FoundWay
    <2>2. n \in Nat /\ DOMAIN shortest = 1 .. n
      BY <2>1
    <2>3. /\ \A i \in 1 .. n : shortest[i] \in Vertex /\ dst[shortest[i]] \in Nat
                              /\ dst[shortest[i]] < INF
          /\ s \in Vertex /\ dst[s] \in Nat /\ dst[s] < INF
      <3>1. \A v \in Settled : v \in Vertex /\ dst[v] \in Nat /\ dst[v] < INF
        BY <1>0 DEF SearchInv, RouteInv, Ordered
      <3>2. n \in 1 .. n
        BY <2>1, <2>2
      <3> QED BY <2>1, <3>1, <3>2
    <2>4. WayFrom(shortest, no, s, roads.entry)
      BY <1>0, <2>1 DEF WayFrom, Along
    <2>5. LengthOf(shortest) = dst[s]
      <3>1. \A i \in 1 .. n - 1 : dst[shortest[i + 1]] =
                dst[shortest[i]] + roads.len[shortest[i]][shortest[i + 1]]
        BY <2>1 DEF Along
      <3>2. dst \in [Vertex -> Nat]
        BY DEF SearchInv, RouteInv, TypeOK
      <3>3. dst[s] = dst[shortest[1]] + LengthOf(shortest)
        BY <1>0, <2>1, <3>1, <3>2, Telescope
      <3> QED BY <1>0, <1>1, <2>1, <3>3
    <2>6. ASSUME NEW t \in open, NEW q \in W, WayFrom(q, no, t, roads.entry)
          PROVE  LengthOf(shortest) <= LengthOf(q)
      <3>1. no \in Settled /\ t \in Settled /\ t \in Vertex
        <4>1. 1 \in 1 .. n
          BY <2>1, <2>2
        <4>2. open \subseteq Listed
          BY DEF SearchInv, RouteInv, TypeOK
        <4> QED BY <2>1, <4>1, <4>2, <1>0
      <3>2. dst[t] <= dst[no] + LengthOf(q) \/ dst[no] + LengthOf(q) >= INF
        BY <1>4, <2>6, <3>1, SettledPotential
      <3>3. dst[s] < dst[t] \/ dst[s] = dst[t]
        BY <2>1 DEF IsTarget
      <3>4. dst[t] \in Nat /\ LengthOf(q) \in Nat
        BY <1>0, <1>1, <3>1
      <3> QED BY <1>0, <2>3, <2>5, <3>2, <3>3, <3>4
    <2>7. ASSUME NEW i \in 2 .. n
          PROVE  /\ shortest[i] # no /\ reach[shortest[i]] = dst[shortest[i]]
                 /\ reach[shortest[i]] # INF
      <3>1. i \in 1 .. n /\ i - 1 \in 1 .. n - 1 /\ (i - 1) + 1 = i /\ i - 1 \in 1 .. n
        BY <2>2
      <3>2. /\ roads.len[shortest[i - 1]][shortest[i]] # 0
            /\ dst[shortest[i]] = dst[shortest[i - 1]] + roads.len[shortest[i - 1]][shortest[i]]
        BY <2>1, <3>1 DEF Along, IsRoad
      <3>3. /\ roads.len[shortest[i - 1]][shortest[i]] \in Nat /\ dst[shortest[i - 1]] \in Nat
            /\ shortest[i] \in Vertex /\ dst[shortest[i]] < INF
        BY <1>0, <2>3, <3>1 DEF LengthsOK
      <3>4. dst[shortest[i]] # 0
        BY <3>2, <3>3
      <3>5. shortest[i] # no
        BY <1>0, <3>4
      <3>6. reach[shortest[i]] = dst[shortest[i]]
        BY <3>3, <3>5 DEF SearchInv, RoutesRecorded
      <3> QED BY <1>0, <3>3, <3>5, <3>6
    <2>8. DOMAIN remaining = {shortest[i] : i \in 2 .. n}
      <3>1. DOMAIN remaining = {u \in {shortest[i] : i \in 1 .. n} : reach[u] # INF}
        BY <2>1 DEF RemainingOn
      <3>2. reach[shortest[1]] = INF
        BY <2>1 DEF SearchInv, RoutesRecorded
      <3>3. \A i \in 1 .. n : i = 1 \/ i \in 2 .. n
        BY <2>2
      <3>4. \A i \in 2 .. n : i \in 1 .. n
        BY <2>2
      <3> HIDE DEF n
      <3> QED BY <2>7, <3>1, <3>2, <3>3, <3>4
    <2>9. ASSUME NEW i \in 2 .. n
          PROVE  /\ remaining[shortest[i]] = LengthOf(SubSeq(shortest, i, n))
                 /\ NoShorter(remaining[shortest[i]], shortest[i], s, roads.entry, W)
      <3> DEFINE v == shortest[i]
      <3>1. i \in 1 .. n
        BY <2>2
      <3>2. remaining[v] = dst[s] - dst[v]
        <4>1. v \in DOMAIN remaining /\ reach[v] = dst[v]
          BY <2>7, <2>8
        <4>2. remaining[v] = dst[s] - reach[v]
          BY <2>1, <4>1 DEF RemainingOn
        <4> QED BY <4>1, <4>2
      <3>3. LengthOf(SubSeq(shortest, i, n)) = dst[s] - dst[v]
        BY <2>1, <3>1, RestOfWay
      <3>4. ASSUME NEW q \in W, WayFrom(q, v, s, roads.entry)
            PROVE  remaining[v] <= LengthOf(q)
        <4>1. dst[s] <= dst[v] + LengthOf(q) \/ dst[v] + LengthOf(q) >= INF
          BY <1>4, <2>1, <3>1, <3>4, SettledPotential
        <4>2. dst[v] \in Nat /\ LengthOf(q) \in Nat
          BY <1>1, <2>3, <3>1
        <4> HIDE DEF v, s
        <4> QED BY <1>0, <2>3, <3>2, <4>1, <4>2
      <3> QED BY <3>2, <3>3, <3>4 DEF NoShorter
    <2> QED BY <2>1, <2>4, <2>6, <2>8, <2>9 DEF NoShorter
  <1> QED BY <1>3, <1>4 DEF FindsNearestAmong

LEMMA WaysAreSequences == Ways \subseteq Seq(Vertex)
  <1>1. Cardinality(Vertex) \in Nat
    BY MapsAssumption, FS_CardinalityType
  <1>2. ASSUME NEW k \in 1 .. Cardinality(Vertex), NEW p \in [1 .. k -> Vertex]
        PROVE  p \in Seq(Vertex)
    BY <1>1
  <1> QED BY <1>2 DEF Ways

(* DijkstraRouteCalculationforGeographicInfo, on every road map and for    *)
(* all ways on it: the way found is a shortest one to a nearest open       *)
(* shelter, the distances kept for the vertices on it are their shortest   *)
(* distances to the shelter, and without a result one of the listed        *)
(* shelters cannot be reached.                                             *)
THEOREM NearestOfAllWays == Spec => []FindsNearestAmong(Seq(Vertex))
  <1>1. SearchInv => FindsNearestAmong(Seq(Vertex))
    BY NearestFound
  <1> QED BY <1>1, SearchInitial, SearchInductive, PTL DEF Spec

(* The same for the ways without a vertex twice, which TLC looks at.       *)
THEOREM FindsNearestHolds == Spec => []FindsNearest
  <1>1. SearchInv => FindsNearest
    BY NearestFound, WaysAreSequences DEF FindsNearest
  <1> QED BY <1>1, SearchInitial, SearchInductive, PTL DEF Spec
-----------------------------------------------------------------------------
(* dijkstra_pair.  The distance of a vertex accounts for the road from its *)
(* parent; it may exceed what the parent offers only until the parent's    *)
(* entry is taken from the queue.                                          *)
ParentsNear ==
    \A v \in Vertex \ {no} :
        dist[v] < INF => dist[parent[v]] + roads.len[parent[v]][v] <= dist[v]

StoredFromPath ==
    stored # << >> =>
        /\ pq = {}
        /\ \E s \in Candidate : stored = << [way |-> Path(s), shelter |-> s] >>

TreeInv == PairInv /\ ParentsNear /\ StoredFromPath

LEMMA TreeInitial == RLInit /\ DPInit => TreeInv
  <1> SUFFICES ASSUME RLInit, DPInit PROVE TreeInv
    OBVIOUS
  <1>1. PairInv /\ INF \in Nat
    BY PairInitial, MapsAssumption
  <1>2. \A v \in Vertex \ {no} : dist[v] = INF
    BY DEF DPInit
  <1>3. ParentsNear
    BY <1>1, <1>2 DEF ParentsNear
  <1>4. StoredFromPath
    BY DEF DPInit, StoredFromPath
  <1> QED BY <1>1, <1>3, <1>4 DEF TreeInv

LEMMA PopNear ==
  ASSUME NEW e \in pq, TreeInv, Pop(e), UNCHANGED << roads, no >>
  PROVE  ParentsNear'
  <1>1. /\ INF \in Nat /\ no \in Vertex /\ e[2] \in Vertex
        /\ \A v \in Vertex : dist[v] \in Nat /\ dist[v] <= INF
        /\ \A v, w \in Vertex : roads.len[v][w] \in Nat
    BY PairNumbers DEF TreeInv
  <1>2. CASE IsStale(e)
    <2>1. dist' = dist /\ parent' = parent /\ roads' = roads /\ no' = no
      BY <1>2 DEF Pop
    <2> QED BY <2>1 DEF TreeInv, ParentsNear
  <1>3. CASE ~IsStale(e)
    <2> DEFINE u == e[2]
               d(v) == dist[u] + roads.len[u][v]
    <2>1. /\ dist' = [v \in Vertex |-> IF IsRelaxed(u, v) THEN d(v) ELSE dist[v]]
          /\ parent' = [v \in Vertex |-> IF IsRelaxed(u, v) THEN u ELSE parent[v]]
          /\ roads' = roads /\ no' = no
      BY <1>3 DEF Pop, ParentFrom
    <2>2. \A v \in Vertex :
            /\ IsRelaxed(u, v) => dist'[v] = d(v) /\ parent'[v] = u /\ d(v) < dist[v]
            /\ ~IsRelaxed(u, v) => dist'[v] = dist[v] /\ parent'[v] = parent[v]
      BY <2>1 DEF IsRelaxed
    <2>3. \A v \in Vertex : d(v) \in Nat
      BY <1>1
    <2>4. dist'[u] = dist[u]
      <3>1. ~IsRelaxed(u, u)
        <4>1. dist[u] \in Nat /\ roads.len[u][u] \in Nat
          BY <1>1
        <4> QED BY <4>1 DEF IsRelaxed
      <3> QED BY <1>1, <2>2, <3>1
    <2> HIDE DEF u
    <2>5. \A v \in Vertex : dist'[v] \in Nat /\ dist'[v] <= dist[v]
      <3> TAKE v \in Vertex
      <3>1. d(v) \in Nat /\ dist[v] \in Nat
        BY <1>1, <2>3
      <3> HIDE DEF d
      <3> QED BY <2>2, <3>1
    <2> SUFFICES ASSUME NEW v \in Vertex \ {no}, dist'[v] < INF
                 PROVE  dist'[parent'[v]] + roads.len[parent'[v]][v] <= dist'[v]
      BY <2>1 DEF ParentsNear
    <2>6. CASE IsRelaxed(u, v)
      <3>1. parent'[v] = u /\ dist'[v] = d(v) /\ dist'[u] + roads.len[u][v] = d(v) /\ d(v) \in Nat
        BY <2>2, <2>3, <2>4, <2>6
      <3> HIDE DEF d
      <3> QED BY <3>1
    <2>7. CASE ~IsRelaxed(u, v)
      <3>1. dist'[v] = dist[v] /\ parent'[v] = parent[v]
        BY <2>2, <2>7
      <3>2. parent[v] \in Vertex /\ dist[parent[v]] + roads.len[parent[v]][v] <= dist[v]
        BY <3>1 DEF TreeInv, ParentsNear, PairInv, PairCertified, ParentsLeadBack
      <3>3. /\ dist'[parent[v]] <= dist[parent[v]] /\ dist'[parent[v]] \in Nat
            /\ dist[parent[v]] \in Nat /\ roads.len[parent[v]][v] \in Nat /\ dist[v] \in Nat
        BY <1>1, <2>5, <3>2
      <3> QED BY <3>1, <3>2, <3>3
    <2> QED BY <2>6, <2>7
  <1> QED BY <1>2, <1>3

LEMMA TreeInductive == TreeInv /\ [PairStep]_pairVars => TreeInv'
  <1> SUFFICES ASSUME TreeInv, [PairStep]_pairVars PROVE TreeInv'
    OBVIOUS
  <1>0. PairInv'
    BY PairInductive DEF TreeInv
  <1>1. ASSUME NEW e \in pq, Pop(e), UNCHANGED << roads, no >> PROVE TreeInv'
    <2>1. ParentsNear'
      BY <1>1, PopNear
    <2>2. stored' = stored /\ stored = << >>
      BY <1>1 DEF Pop, TreeInv, StoredFromPath
    <2> QED BY <1>0, <2>1, <2>2 DEF TreeInv, StoredFromPath
  <1>2. ASSUME UNCHANGED << roads, no, dist, parent, pq >>
        PROVE  /\ ParentsNear'
               /\ \A s : Path(s)' = Path(s) /\ Candidate' = Candidate
    BY <1>2 DEF TreeInv, ParentsNear, Path, Back, Candidate
  <1>3. ASSUME Store, UNCHANGED << roads, no >> PROVE TreeInv'
    <2>1. UNCHANGED << roads, no, dist, parent, pq >> /\ pq = {}
      BY <1>3 DEF Store
    <2>2. \E s \in Candidate : stored' = << [way |-> Path(s), shelter |-> s] >>
      BY <1>3 DEF Store
    <2>3. StoredFromPath'
      BY <1>2, <2>1, <2>2 DEF StoredFromPath
    <2> QED BY <1>0, <1>2, <2>1, <2>3 DEF TreeInv
  <1>4. ASSUME UNCHANGED pairVars PROVE TreeInv'
    <2>1. UNCHANGED << roads, no, dist, parent, pq >> /\ stored' = stored
      BY <1>4 DEF pairVars, pair
    <2>3. StoredFromPath'
      BY <1>2, <2>1 DEF TreeInv, StoredFromPath
    <2> QED BY <1>0, <1>2, <2>1, <2>3 DEF TreeInv
  <1> QED BY <1>1, <1>3, <1>4 DEF PairStep, DPNext

(* Once the queue is empty, a distance is that of the parent and the road. *)
LEMMA ParentDistance ==
  ASSUME TreeInv, pq = {}, NEW v \in Vertex \ {no}, dist[v] < INF
  PROVE  /\ parent[v] \in Vertex /\ IsRoad(parent[v], v)
         /\ dist[parent[v]] < dist[v]
         /\ dist[v] = dist[parent[v]] + roads.len[parent[v]][v]
  <1>1. /\ parent[v] \in Vertex /\ dist[parent[v]] < dist[v] /\ IsRoad(parent[v], v)
        /\ dist[parent[v]] + roads.len[parent[v]][v] <= dist[v]
    BY DEF TreeInv, ParentsNear, PairInv, PairCertified, ParentsLeadBack
  <1>2. /\ dist[parent[v]] \in Nat /\ dist[v] \in Nat /\ roads.len[parent[v]][v] \in Nat
        /\ INF \in Nat
    BY <1>1, PairNumbers DEF TreeInv
  <1>3. dist[parent[v]] < INF
    BY <1>1, <1>2
  <1>4. dist[v] <= dist[parent[v]] + roads.len[parent[v]][v]
    BY <1>1, <1>3 DEF TreeInv, PairInv, PairCertified, QueueCovers
  <1> QED BY <1>1, <1>2, <1>4

(* reconstruct_path_pair, step by step.                                    *)
BackStep(c) == IF c[1] \in {no, Dummy} THEN c ELSE << parent[c[1]] >> \o c

LEMMA Prepended ==
  ASSUME NEW T, NEW p \in Seq(T), NEW x \in T
  PROVE  /\ << x >> \o p \in Seq(T) /\ Len(<< x >> \o p) = Len(p) + 1
         /\ (<< x >> \o p)[1] = x
         /\ \A i \in 1 .. Len(p) : (<< x >> \o p)[i + 1] = p[i]
  OBVIOUS

LEMMA BackChain ==
  ASSUME PairTypeOK, NEW v \in Vertex
  PROVE  \E c : /\ c[0] = << v >> /\ Back(v) = c[Cardinality(Vertex)]
                /\ \A k \in 1 .. Cardinality(Vertex) : c[k] = BackStep(c[k - 1])
  <1> DEFINE n == Cardinality(Vertex)
             V == {s \in Seq(Vertex \cup {Dummy}) : s # << >>}
             Eqn(f) == f = [k \in 0 .. n |->
                IF k = 0 THEN << v >>
                ELSE LET c == f[k - 1] IN
                     IF c[1] \in {no, Dummy} THEN c ELSE << parent[c[1]] >> \o c]
             chain == CHOOSE f : Eqn(f)
             step == [k \in Nat |-> [c \in V |-> BackStep(c)]]
  <1>0. n \in Nat
    BY MapsAssumption, FS_CardinalityType
  <1>1. ASSUME NEW c \in V PROVE BackStep(c) \in V
    <2>1. c \in Seq(Vertex \cup {Dummy}) /\ c[1] \in Vertex \cup {Dummy}
      OBVIOUS
    <2>2. CASE c[1] \in {no, Dummy}
      BY <2>2 DEF BackStep
    <2>3. CASE c[1] \notin {no, Dummy}
      <3>1. parent[c[1]] \in Vertex \cup {Dummy}
        BY <2>1, <2>3 DEF PairTypeOK
      <3>2. /\ << parent[c[1]] >> \o c \in Seq(Vertex \cup {Dummy})
            /\ Len(<< parent[c[1]] >> \o c) = Len(c) + 1 /\ Len(c) \in Nat
        BY <2>1, <3>1, Prepended
      <3>3. << parent[c[1]] >> \o c # << >>
        BY <3>2
      <3> QED BY <2>3, <3>2, <3>3 DEF BackStep
    <2> QED BY <2>2, <2>3
  <1>2. PICK f : Stepwise(f, V, << v >>, step, n)
    <2>1. step \in StepRules(V)
      BY <1>1 DEF StepRules
    <2>2. << v >> \in V
      OBVIOUS
    <2> HIDE DEF step, n, V
    <2> QED BY <1>0, <2>1, <2>2, StepwiseFunction
  <1>3. /\ f \in [0 .. n -> V] /\ f[0] = << v >>
        /\ \A k \in 1 .. n : f[k] = BackStep(f[k - 1])
    <2>1. /\ f \in [0 .. n -> V] /\ f[0] = << v >>
          /\ \A k \in 1 .. n : f[k] = step[k][f[k - 1]]
      <3> HIDE DEF step, n, V
      <3> QED BY <1>2 DEF Stepwise
    <2>2. ASSUME NEW k \in 1 .. n PROVE f[k] = BackStep(f[k - 1])
      <3>1. k - 1 \in 0 .. n /\ k \in Nat
        BY <1>0
      <3>2. f[k - 1] \in V
        <4> HIDE DEF V
        <4> QED BY <2>1, <3>1
      <3> QED BY <2>1, <3>1, <3>2
    <2> QED BY <2>1, <2>2
  <1>4. Eqn(f)
    <2>1. \A k \in 0 .. n : k = 0 \/ k \in 1 .. n
      BY <1>0
    <2> HIDE DEF n, V
    <2> QED BY <1>3, <2>1 DEF BackStep
  <1>5. Eqn(chain)
    <2> HIDE DEF n
    <2> QED BY <1>4
  <1>6. Back(v) = chain[n]
    BY DEF Back
  <1> HIDE DEF chain
  <1>7. chain[0] = << v >> /\ \A k \in 1 .. n : chain[k] = BackStep(chain[k - 1])
    <2>1. 0 \in 0 .. n /\ \A k \in 1 .. n : k \in 0 .. n /\ k # 0
      BY <1>0
    <2> HIDE DEF n
    <2> QED BY <1>5, <2>1 DEF BackStep
  <1> QED BY <1>6, <1>7

(* Parents followed back from v.                                           *)
OnTree(p, v) ==
    /\ p \in Seq(Vertex) /\ Len(p) > 0 /\ p[Len(p)] = v
    /\ \A i \in 1 .. Len(p) : dist[p[i]] < INF
    /\ \A i \in 1 .. Len(p) - 1 : p[i + 1] # no /\ p[i] = parent[p[i + 1]]

LEMMA TreeDistances ==
  ASSUME TreeInv, pq = {}, NEW v \in Vertex, NEW p, OnTree(p, v)
  PROVE  /\ \A i \in 1 .. Len(p) - 1 :
              /\ IsRoad(p[i], p[i + 1]) /\ dist[p[i]] < dist[p[i + 1]]
              /\ dist[p[i + 1]] = dist[p[i]] + roads.len[p[i]][p[i + 1]]
         /\ \A i, j \in 1 .. Len(p) : p[i] = p[j] => i = j
  <1> DEFINE n == Len(p)
  <1>0. n \in Nat /\ n > 0 /\ \A i \in 1 .. n : p[i] \in Vertex /\ dist[p[i]] \in Nat
    <2>1. n \in Nat /\ n > 0 /\ \A i \in 1 .. n : p[i] \in Vertex
      BY DEF OnTree
    <2> HIDE DEF n
    <2> QED BY <2>1, PairNumbers DEF TreeInv
  <1>1. ASSUME NEW i \in 1 .. n - 1
        PROVE  /\ IsRoad(p[i], p[i + 1]) /\ dist[p[i]] < dist[p[i + 1]]
               /\ dist[p[i + 1]] = dist[p[i]] + roads.len[p[i]][p[i + 1]]
    <2>1. i + 1 \in 1 .. n
      BY <1>0
    <2>2. p[i + 1] \in Vertex \ {no} /\ dist[p[i + 1]] < INF /\ p[i] = parent[p[i + 1]]
      BY <1>0, <2>1 DEF OnTree
    <2> QED BY <2>2, ParentDistance
  <1>2. ASSUME NEW i \in 1 .. n
        PROVE  \A j \in 1 .. n : i < j => dist[p[i]] < dist[p[j]]
    <2> DEFINE G == {j \in 0 .. n : i < j => dist[p[i]] < dist[p[j]]}
    <2> HIDE DEF n
    <2>1. 0 \in G
      BY <1>0
    <2>2. ASSUME NEW j \in 0 .. n - 1, j \in G PROVE j + 1 \in G
      <3>1. CASE i = j
        <4>1. i \in 1 .. n - 1
          BY <1>0, <2>2, <3>1
        <4>2. dist[p[i]] < dist[p[j + 1]]
          BY <1>1, <3>1, <4>1
        <4> QED BY <1>0, <4>2
      <3>2. CASE i < j
        <4>1. j \in 1 .. n - 1 /\ i \in 1 .. n /\ j \in 1 .. n /\ j + 1 \in 1 .. n /\ j + 1 \in 0 .. n
          BY <1>0, <2>2, <3>2
        <4>2. dist[p[i]] < dist[p[j]] /\ dist[p[j]] < dist[p[j + 1]]
          BY <1>1, <2>2, <3>2, <4>1
        <4>3. dist[p[i]] \in Nat /\ dist[p[j]] \in Nat /\ dist[p[j + 1]] \in Nat
          BY <1>0, <4>1
        <4> QED BY <4>1, <4>2, <4>3
      <3>3. CASE i > j
        BY <1>0, <3>3
      <3> QED BY <3>1, <3>2, <3>3
    <2>3. 0 .. n \subseteq G
      <3> HIDE DEF G
      <3> QED BY <1>0, <2>1, <2>2, UpTo
    <2> QED BY <1>0, <2>3
  <1>3. ASSUME NEW i \in 1 .. n, NEW j \in 1 .. n, p[i] = p[j] PROVE i = j
    <2>1. ~(i < j) /\ ~(j < i)
      <3>1. dist[p[i]] \in Nat /\ dist[p[j]] = dist[p[i]]
        BY <1>0, <1>3
      <3> QED BY <1>2, <3>1
    <2> QED BY <1>0, <2>1
  <1> QED BY <1>1, <1>3

(* A way without a vertex twice has no more vertices than the map: so the  *)
(* parents lead back to no before the loop of reconstruct_path_pair could  *)
(* run on.                                                                 *)
LEMMA TreeLength ==
  ASSUME TreeInv, pq = {}, NEW v \in Vertex, NEW p, OnTree(p, v)
  PROVE  Len(p) <= Cardinality(Vertex) /\ p \in Ways
  <1> DEFINE n == Len(p)
  <1>1. p \in [1 .. n -> Vertex] /\ n \in Nat /\ n > 0
    BY DEF OnTree
  <1>2. \A i, j \in 1 .. n : p[i] = p[j] => i = j
    BY TreeDistances
  <1>3. Cardinality(Vertex) \in Nat /\ IsFiniteSet(Vertex)
    BY MapsAssumption, FS_CardinalityType
  <1> HIDE DEF n
  <1>4. IsFiniteSet(1 .. n) /\ Cardinality(1 .. n) = n
    BY <1>1, FS_Interval
  <1>5. ~(Cardinality(Vertex) < n)
    <2> SUFFICES ASSUME Cardinality(Vertex) < n PROVE FALSE
      OBVIOUS
    <2>1. \E i, j \in 1 .. n : i # j /\ p[i] = p[j]
      BY <1>1, <1>3, <1>4, FS_PigeonHole
    <2> QED BY <1>2, <2>1
  <1>6. n \in 1 .. Cardinality(Vertex)
    BY <1>1, <1>3, <1>5
  <1>7. p \in Ways
    BY <1>1, <1>2, <1>6 DEF Ways
  <1> QED BY <1>6, <1>7 DEF n

(* The path to a vertex that was reached.                                  *)
LEMMA BackReached ==
  ASSUME TreeInv, pq = {}, NEW v \in Vertex, dist[v] < INF
  PROVE  OnTree(Back(v), v) /\ Back(v)[1] = no
  <1> DEFINE n == Cardinality(Vertex)
  <1>0. n \in Nat
    BY MapsAssumption, FS_CardinalityType
  <1>1. PICK c : /\ c[0] = << v >> /\ Back(v) = c[n]
                 /\ \A k \in 1 .. n : c[k] = BackStep(c[k - 1])
    BY BackChain DEF TreeInv, PairInv
  <1> DEFINE G == {k \in 0 .. n : /\ OnTree(c[k], v)
                                  /\ c[k][1] = no \/ Len(c[k]) = k + 1}
  <1> HIDE DEF n
  <1>2. 0 \in G
    <2>1. OnTree(<< v >>, v) /\ Len(<< v >>) = 1
      BY DEF OnTree
    <2> QED BY <1>0, <1>1, <2>1
  <1>3. ASSUME NEW k \in 0 .. n - 1, k \in G PROVE k + 1 \in G
    <2> DEFINE p == c[k]
               m == Len(p)
    <2>1. k + 1 \in 0 .. n /\ c[k + 1] = BackStep(p)
      <3>1. k + 1 \in 1 .. n /\ (k + 1) - 1 = k
        BY <1>0
      <3> QED BY <1>0, <1>1, <3>1
    <2>2. OnTree(p, v) /\ (p[1] = no \/ m = k + 1)
      BY <1>3
    <2>3. p \in Seq(Vertex) /\ m \in Nat /\ m > 0 /\ p[1] \in Vertex
      BY <2>2 DEF OnTree
    <2>4. CASE p[1] = no
      <3>1. c[k + 1] = p
        BY <2>1, <2>4 DEF BackStep
      <3> QED BY <2>1, <2>2, <2>4, <3>1
    <2>5. CASE p[1] # no
      <3> DEFINE x == parent[p[1]]
                 q == << x >> \o p
      <3>1. c[k + 1] = q
        BY <2>1, <2>3, <2>5, DummyAssumption DEF BackStep
      <3>2. dist[p[1]] < INF /\ 1 \in 1 .. m
        BY <2>2, <2>3 DEF OnTree
      <3>3. x \in Vertex /\ dist[x] < dist[p[1]]
        BY <2>3, <2>5, <3>2, ParentDistance
      <3>4. dist[x] < INF
        <4>1. dist[x] \in Nat /\ dist[p[1]] \in Nat /\ INF \in Nat
          BY <2>3, <3>3, PairNumbers DEF TreeInv
        <4> QED BY <3>2, <3>3, <4>1
      <3>5. /\ q \in Seq(Vertex) /\ Len(q) = m + 1 /\ q[1] = x
            /\ \A i \in 1 .. m : q[i + 1] = p[i]
        BY <2>3, <3>3, Prepended
      <3> HIDE DEF q, x, m, p
      <3>6. q[Len(q)] = v /\ Len(q) > 0
        <4>1. m \in 1 .. m /\ p[m] = v
          BY <2>2, <2>3 DEF OnTree, m
        <4> QED BY <2>3, <3>5, <4>1
      <3>7. ASSUME NEW i \in 1 .. Len(q) PROVE dist[q[i]] < INF
        <4>1. CASE i = 1
          BY <3>4, <3>5, <4>1
        <4>2. CASE i # 1
          <5>1. i - 1 \in 1 .. m /\ (i - 1) + 1 = i
            BY <2>3, <3>5, <4>2
          <5>2. q[i] = p[i - 1]
            BY <3>5, <5>1
          <5> QED BY <2>2, <5>1, <5>2 DEF OnTree, m
        <4> QED BY <4>1, <4>2
      <3>8. ASSUME NEW i \in 1 .. Len(q) - 1
            PROVE  q[i + 1] # no /\ q[i] = parent[q[i + 1]]
        <4>0. i \in 1 .. m
          BY <2>3, <3>5
        <4>1. CASE i = 1
          <5>1. q[i + 1] = p[1] /\ q[i] = x
            BY <3>5, <4>0, <4>1
          <5> QED BY <2>5, <5>1 DEF x
        <4>2. CASE i # 1
          <5>1. i - 1 \in 1 .. m /\ (i - 1) + 1 = i /\ i - 1 \in 1 .. m - 1
            BY <2>3, <4>0, <4>2
          <5>2. q[i] = p[i - 1] /\ q[i + 1] = p[i]
            BY <3>5, <4>0, <5>1
          <5>3. p[(i - 1) + 1] # no /\ p[i - 1] = parent[p[(i - 1) + 1]]
            BY <2>2, <5>1 DEF OnTree, m
          <5> QED BY <5>1, <5>2, <5>3
        <4> QED BY <4>1, <4>2
      <3>9. OnTree(q, v)
        BY <3>5, <3>6, <3>7, <3>8 DEF OnTree
      <3>10. Len(q) = (k + 1) + 1
        BY <2>2, <2>5, <3>5
      <3> QED BY <2>1, <3>1, <3>9, <3>10
    <2> QED BY <2>4, <2>5
  <1>4. 0 .. n \subseteq G
    <2> HIDE DEF G
    <2> QED BY <1>0, <1>2, <1>3, UpTo
  <1>5. OnTree(c[n], v) /\ (c[n][1] = no \/ Len(c[n]) = n + 1)
    BY <1>0, <1>4
  <1>6. Len(c[n]) # n + 1
    <2>1. Len(c[n]) <= n
      BY <1>5, TreeLength DEF n
    <2> QED BY <1>0, <2>1
  <1> QED BY <1>1, <1>5, <1>6

(* The path to a vertex that was not reached is empty.                     *)
LEMMA BackUnreached ==
  ASSUME TreeInv, NEW v \in Vertex, ~(dist[v] < INF)
  PROVE  Back(v)[1] = Dummy
  <1> DEFINE n == Cardinality(Vertex)
  <1>0. n \in Nat /\ n > 0
    <2>1. IsFiniteSet(Vertex) /\ n \in Nat /\ Vertex # {}
      BY MapsAssumption, FS_CardinalityType
    <2>2. n # 0
      BY <2>1, FS_EmptySet
    <2> QED BY <2>1, <2>2
  <1>1. PICK c : /\ c[0] = << v >> /\ Back(v) = c[n]
                 /\ \A k \in 1 .. n : c[k] = BackStep(c[k - 1])
    BY BackChain DEF TreeInv, PairInv
  <1>2. v # no /\ parent[v] = Dummy
    <2>1. INF \in Nat /\ 0 < INF /\ dist[no] = 0
      BY MapsAssumption, PairNumbers DEF TreeInv
    <2>2. v # no
      BY <2>1
    <2> QED BY <2>2 DEF TreeInv, PairInv, PairCertified, ParentsLeadBack
  <1> DEFINE G == {k \in 0 .. n - 1 : c[k + 1][1] = Dummy}
  <1> HIDE DEF n
  <1>3. 0 \in G
    <2>1. 1 \in 1 .. n /\ 1 - 1 = 0 /\ 0 \in 0 .. n - 1
      BY <1>0
    <2>2. c[1] = BackStep(<< v >>)
      BY <1>1, <2>1
    <2>3. << v >>[1] = v /\ v \notin {no, Dummy}
      BY <1>2, DummyAssumption
    <2>4. c[1] = << Dummy >> \o << v >>
      BY <1>2, <2>2, <2>3 DEF BackStep
    <2>5. (<< Dummy >> \o << v >>)[1] = Dummy
      OBVIOUS
    <2> QED BY <2>1, <2>4, <2>5
  <1>4. ASSUME NEW k \in 0 .. (n - 1) - 1, k \in G PROVE k + 1 \in G
    <2>1. (k + 1) + 1 \in 1 .. n /\ ((k + 1) + 1) - 1 = k + 1 /\ k + 1 \in 0 .. n - 1
      BY <1>0
    <2>2. c[(k + 1) + 1] = BackStep(c[k + 1])
      BY <1>1, <2>1
    <2> QED BY <1>4, <2>1, <2>2 DEF BackStep
  <1>5. 0 .. n - 1 \subseteq G
    <2>1. n - 1 \in Nat
      BY <1>0
    <2> HIDE DEF G
    <2> QED BY <1>3, <1>4, <2>1, UpTo
  <1>6. n - 1 \in G /\ (n - 1) + 1 = n
    BY <1>0, <1>5
  <1> QED BY <1>1, <1>6

(* When the queue is empty, dist are the lengths of shortest ways.         *)
LEMMA DistIsShortest ==
  ASSUME TreeInv, pq = {}, NEW v \in Vertex
  PROVE  /\ \A q \in Seq(Vertex) : LengthOf(q) \in Nat
         /\ \A q \in Seq(Vertex) : WayFrom(q, no, v, Vertex) => dist[v] <= LengthOf(q)
         /\ dist[v] < INF => /\ Path(v) \in Ways /\ Path(v) # << >>
                             /\ WayFrom(Path(v), no, v, Vertex) /\ LengthOf(Path(v)) = dist[v]
         /\ ~(dist[v] < INF) => dist[v] = INF /\ Path(v) = << >>
  <1>0. /\ INF \in Nat /\ 0 < INF /\ no \in Vertex /\ dist[no] = 0
        /\ \A w \in Vertex : dist[w] \in Nat /\ dist[w] <= INF
        /\ \A a, b \in Vertex : roads.len[a][b] \in Nat
        /\ LengthsOK(roads.len) /\ dist \in [Vertex -> Nat]
    BY MapsAssumption, PairNumbers DEF TreeInv, PairInv, PairTypeOK, RoadMap, LengthsOK
  <1>1. \A q \in Seq(Vertex) : LengthOf(q) \in Nat
    <2> TAKE q \in Seq(Vertex)
    <2>1. Len(q) \in 0 .. Len(q)
      OBVIOUS
    <2> QED BY <1>0, <2>1, LengthFacts DEF LengthOf
  <1>2. ASSUME NEW q \in Seq(Vertex), WayFrom(q, no, v, Vertex)
        PROVE  dist[v] <= LengthOf(q)
    <2> DEFINE S == {w \in Vertex : dist[w] < INF}
    <2>1. ASSUME NEW a \in S, NEW b \in Vertex, IsRoad(a, b)
          PROVE  \/ b \in S /\ dist[b] <= dist[a] + roads.len[a][b]
                 \/ dist[a] + roads.len[a][b] >= INF
      <3>1. dist[b] <= dist[a] + roads.len[a][b]
        BY <2>1 DEF TreeInv, PairInv, PairCertified, QueueCovers
      <3>2. dist[a] \in Nat /\ dist[b] \in Nat /\ roads.len[a][b] \in Nat
        BY <1>0
      <3> QED BY <1>0, <3>1, <3>2
    <2>2. S \in SUBSET Vertex /\ no \in S
      BY <1>0
    <2>3. \/ v \in S /\ dist[v] <= dist[no] + LengthOf(q)
          \/ dist[no] + LengthOf(q) >= INF
      <3> HIDE DEF S
      <3> QED BY <1>0, <1>2, <2>1, <2>2, Potential
    <2>4. LengthOf(q) \in Nat /\ dist[v] \in Nat /\ dist[v] <= INF
      BY <1>0, <1>1
    <2> QED BY <1>0, <2>3, <2>4
  <1>3. ASSUME dist[v] < INF
        PROVE  /\ Path(v) \in Ways /\ Path(v) # << >>
               /\ WayFrom(Path(v), no, v, Vertex) /\ LengthOf(Path(v)) = dist[v]
    <2> DEFINE p == Back(v)
    <2>1. OnTree(p, v) /\ p[1] = no /\ Path(v) = p
      BY <1>3, BackReached DEF Path
    <2>2. p \in Seq(Vertex) /\ Len(p) > 0 /\ p[Len(p)] = v
      BY <2>1 DEF OnTree
    <2>3. \A i \in 1 .. Len(p) - 1 :
              /\ IsRoad(p[i], p[i + 1])
              /\ dist[p[i + 1]] = dist[p[i]] + roads.len[p[i]][p[i + 1]]
      BY <2>1, TreeDistances
    <2> HIDE DEF p
    <2>4. dist[p[Len(p)]] = dist[p[1]] + LengthOf(p)
      BY <1>0, <2>2, <2>3, Telescope
    <2>5. LengthOf(p) = dist[v]
      BY <1>0, <1>1, <2>1, <2>2, <2>4
    <2>6. WayFrom(p, no, v, Vertex)
      BY <2>1, <2>2, <2>3 DEF WayFrom
    <2>7. p \in Ways
      BY <2>1, TreeLength
    <2>8. p # << >>
      BY <2>2
    <2> QED BY <2>1, <2>5, <2>6, <2>7, <2>8
  <1>4. ASSUME ~(dist[v] < INF) PROVE dist[v] = INF /\ Path(v) = << >>
    <2>1. Back(v)[1] = Dummy /\ Dummy # no
      BY <1>0, <1>4, BackUnreached, DummyAssumption
    <2> QED BY <1>0, <1>4, <2>1 DEF Path
  <1> QED BY <1>1, <1>2, <1>3, <1>4

LEMMA StoredShortest ==
  ASSUME TreeInv, NEW W \in SUBSET Seq(Vertex), Ways \subseteq W
  PROVE  StoredShortestAmong(W)
  <1> SUFFICES ASSUME stored # << >>
               PROVE  LET way == stored[1].way
                          s == stored[1].shelter
                      IN
                      /\ Cardinality({t \in Exits : Nearer(t, s, W)}) < 3
                      /\ IF way = << >> THEN NoShorter(INF, no, s, Vertex, W)
                         ELSE /\ WayFrom(way, no, s, Vertex)
                              /\ NoShorter(LengthOf(way), no, s, Vertex, W)
    BY DEF StoredShortestAmong
  <1>1. PICK s \in Candidate : stored = << [way |-> Path(s), shelter |-> s] >>
    BY DEF TreeInv, StoredFromPath
  <1>2. pq = {} /\ stored[1].way = Path(s) /\ stored[1].shelter = s
    BY <1>1 DEF TreeInv, StoredFromPath
  <1>3. s \in Exits /\ s \in Vertex /\ Cardinality({t \in Exits : dist[t] < dist[s]}) < 3
    BY <1>1, DummyAssumption DEF Candidate
  <1>4. IF Path(s) = << >> THEN NoShorter(INF, no, s, Vertex, W)
        ELSE WayFrom(Path(s), no, s, Vertex) /\ NoShorter(LengthOf(Path(s)), no, s, Vertex, W)
    BY <1>2, <1>3, DistIsShortest DEF NoShorter
  <1>5. ASSUME NEW t \in Exits, Nearer(t, s, W) PROVE dist[t] < dist[s]
    <2>1. PICK q \in W : /\ WayFrom(q, no, t, Vertex) /\ LengthOf(q) < INF
                         /\ NoShorter(LengthOf(q) + 1, no, s, Vertex, W)
      BY <1>5 DEF Nearer
    <2>2. t \in Vertex /\ dist[t] <= LengthOf(q) /\ LengthOf(q) \in Nat
      BY <1>2, <2>1, DummyAssumption, DistIsShortest
    <2>3. dist[t] \in Nat /\ dist[s] \in Nat /\ INF \in Nat
      BY <1>3, <2>2, PairNumbers DEF TreeInv
    <2>4. CASE dist[s] < INF
      <3>1. Path(s) \in W /\ WayFrom(Path(s), no, s, Vertex) /\ LengthOf(Path(s)) = dist[s]
        BY <1>2, <1>3, <2>4, DistIsShortest
      <3>2. LengthOf(q) + 1 <= dist[s]
        BY <2>1, <3>1 DEF NoShorter
      <3> QED BY <2>2, <2>3, <3>2
    <2>5. CASE ~(dist[s] < INF)
      <3>1. dist[s] = INF
        BY <1>2, <1>3, <2>5, DistIsShortest
      <3> QED BY <2>1, <2>2, <2>3, <3>1
    <2> QED BY <2>4, <2>5
  <1>6. Cardinality({t \in Exits : Nearer(t, s, W)}) < 3
    <2> DEFINE A == {t \in Exits : Nearer(t, s, W)}
               B == {t \in Exits : dist[t] < dist[s]}
    <2>1. A \in SUBSET B /\ B \in SUBSET Vertex
      BY <1>5, DummyAssumption
    <2>2. IsFiniteSet(Vertex)
      BY MapsAssumption
    <2> HIDE DEF A, B
    <2>3. IsFiniteSet(B)
      BY <2>1, <2>2, FS_Subset
    <2>4. IsFiniteSet(A) /\ Cardinality(A) <= Cardinality(B)
      BY <2>1, <2>3, FS_Subset
    <2>5. Cardinality(A) \in Nat /\ Cardinality(B) \in Nat
      BY <2>3, <2>4, FS_CardinalityType
    <2>6. Cardinality(B) < 3
      BY <1>3 DEF B
    <2>7. Cardinality(A) < 3
      BY <2>4, <2>5, <2>6
    <2> QED BY <2>7 DEF A
  <1> QED BY <1>2, <1>4, <1>6

(* precalculate_shortest_paths, on every road map and for all ways on it:  *)
(* what is stored is a shortest way to a shelter than which at most two    *)
(* are nearer, and it is empty only where no way leads to that shelter;    *)
(* reconstruct_path_pair reaches the start of every way.                   *)
THEOREM StoredShortestOfAllWays == DPSpec => []StoredShortestAmong(Seq(Vertex))
  <1>1. TreeInv => StoredShortestAmong(Seq(Vertex))
    BY StoredShortest, WaysAreSequences
  <1> QED BY <1>1, TreeInitial, TreeInductive, PTL DEF DPSpec, PairStep, pairVars

(* The same for the ways without a vertex twice, which TLC looks at.       *)
THEOREM StoredIsShortestHolds == DPSpec => []StoredIsShortest
  <1>1. TreeInv => StoredIsShortest
    BY StoredShortest, WaysAreSequences DEF StoredIsShortest
  <1> QED BY <1>1, TreeInitial, TreeInductive, PTL DEF DPSpec, PairStep, pairVars
-----------------------------------------------------------------------------
(* The rounds of the ferries: what the nearest-neighbour loops compute.    *)

(* c comes first among the places of left, seen from here.                 *)
First(d, o, here, c, left) ==
    \A x \in left : d[here, c] < d[here, x] \/ (d[here, c] = d[here, x] /\ o[c] <= o[x])

(* The inner loop finds a place, and there is only one that comes first.   *)
LEMMA NearestIsFirst ==
  ASSUME NEW A, NEW d \in [A \X A -> Nat], NEW o \in [A -> Nat],
         NEW here \in A, NEW left \in SUBSET A, left # {}
  PROVE  /\ Nearest(d, o, here, left) \in left
         /\ First(d, o, here, Nearest(d, o, here, left), left)
  <1> DEFINE D == {d[here, c] : c \in left}
  <1>1. \A c \in left : d[here, c] \in Nat /\ o[c] \in Nat
    OBVIOUS
  <1>2. D \in SUBSET Nat /\ D # {}
    BY <1>1
  <1>3. PICK m \in D : \A x \in D : m <= x
    <2> HIDE DEF D
    <2> QED BY <1>2, NatMinimum
  <1> DEFINE E == {o[c] : c \in {x \in left : d[here, x] = m}}
  <1>4. E \in SUBSET Nat /\ E # {}
    <2>1. PICK c \in left : d[here, c] = m
      BY <1>3
    <2>2. o[c] \in E
      BY <2>1
    <2> QED BY <1>1, <2>2
  <1>5. PICK e \in E : \A x \in E : e <= x
    <2> HIDE DEF E
    <2> QED BY <1>4, NatMinimum
  <1>6. PICK c \in left : d[here, c] = m /\ o[c] = e
    BY <1>5
  <1>7. First(d, o, here, c, left)
    <2> SUFFICES ASSUME NEW x \in left
                 PROVE  d[here, c] < d[here, x] \/ (d[here, c] = d[here, x] /\ o[c] <= o[x])
      BY DEF First
    <2>1. m <= d[here, x] /\ d[here, x] \in Nat /\ m \in Nat
      BY <1>1, <1>2, <1>3
    <2>2. CASE d[here, x] = m
      <3>1. o[x] \in E
        BY <2>2
      <3> QED BY <1>5, <1>6, <2>2, <3>1
    <2>3. CASE d[here, x] # m
      <3>1. m < d[here, x]
        <4> DEFINE y == d[here, x]
        <4>1. m <= y /\ y \in Nat /\ m \in Nat /\ y # m
          BY <2>1, <2>3
        <4> HIDE DEF y, D, E
        <4>2. m < y
          BY <4>1
        <4> QED BY <4>2 DEF y
      <3> QED BY <1>6, <3>1
    <2> QED BY <2>2, <2>3
  <1>8. Nearest(d, o, here, left) = CHOOSE x \in left : First(d, o, here, x, left)
    BY DEF Nearest, First
  <1> QED BY <1>6, <1>7, <1>8

(* tour is the function the outer loop computes, by the places left and    *)
(* the present position.                                                   *)
TourRule(tour, d, o, A, S) ==
    \A left \in SUBSET S : \A here \in A :
        /\ tour[left][here] \in Seq(S)
        /\ tour[left][here] =
             IF left = {} THEN << >>
             ELSE << Nearest(d, o, here, left) >>
                    \o tour[left \ {Nearest(d, o, here, left)}][Nearest(d, o, here, left)]

LEMMA TourByRule ==
  ASSUME NEW S, IsFiniteSet(S), NEW origin,
         NEW d \in [(S \cup {origin}) \X (S \cup {origin}) -> Nat],
         NEW o \in [S \cup {origin} -> Nat]
  PROVE  \E tour : /\ TourRule(tour, d, o, S \cup {origin}, S)
                   /\ Tour(d, o, origin, S) = tour[S][origin]
  <1> DEFINE A == S \cup {origin}
             V == [A -> Seq(S)]
             N(here, left) == Nearest(d, o, here, left)
             Eqn(f) == f = [left \in SUBSET S |-> [here \in A |->
                IF left = {} THEN << >>
                ELSE LET c == Nearest(d, o, here, left) IN << c >> \o f[left \ {c}][c]]]
             tour == CHOOSE f : Eqn(f)
             step == [left \in SUBSET S |-> [g \in [left -> V] |-> [here \in A |->
                IF left = {} THEN << >> ELSE << N(here, left) >> \o g[N(here, left)][N(here, left)]]]]
  <1>0. ASSUME NEW left \in SUBSET S, NEW here \in A, left # {}
        PROVE  N(here, left) \in left /\ N(here, left) \in S /\ N(here, left) \in A
    <2>1. left \in SUBSET A
      OBVIOUS
    <2> HIDE DEF A
    <2>2. d \in [A \X A -> Nat] /\ o \in [A -> Nat]
      BY DEF A
    <2>3. N(here, left) \in left
      BY <1>0, <2>1, <2>2, NearestIsFirst
    <2> QED BY <2>1, <2>3
  <1> HIDE DEF N, A
  <1>1. ASSUME NEW left \in SUBSET S, NEW g \in [left -> V]
        PROVE  /\ step[left][g] \in V
               /\ \A here \in A : step[left][g][here] =
                    IF left = {} THEN << >>
                    ELSE << N(here, left) >> \o g[N(here, left)][N(here, left)]
    <2> DEFINE h == [here \in A |->
                  IF left = {} THEN << >>
                  ELSE << N(here, left) >> \o g[N(here, left)][N(here, left)]]
    <2>1. step[left][g] = h
      OBVIOUS
    <2>2. ASSUME NEW here \in A
          PROVE  (IF left = {} THEN << >>
                  ELSE << N(here, left) >> \o g[N(here, left)][N(here, left)]) \in Seq(S)
      <3>1. CASE left = {}
        BY <3>1
      <3>2. CASE left # {}
        <4>1. N(here, left) \in left /\ N(here, left) \in S /\ N(here, left) \in A
          BY <1>0, <3>2
        <4>2. g[N(here, left)] \in [A -> Seq(S)]
          BY <4>1
        <4>3. g[N(here, left)][N(here, left)] \in Seq(S)
          BY <4>1, <4>2
        <4> QED BY <3>2, <4>1, <4>3
      <3> QED BY <3>1, <3>2
    <2>3. h \in V
      BY <2>2
    <2> QED BY <2>1, <2>3
  <1>2. PICK f : Subsetwise(f, S, V, step)
    <2> HIDE DEF step, V
    <2>1. SubsetRules(step, S, V)
      BY <1>1 DEF SubsetRules
    <2> QED BY <2>1, SubsetFunction
  <1>3. /\ f \in [SUBSET S -> V]
        /\ \A left \in SUBSET S : f[left] = step[left][[x \in left |-> f[left \ {x}]]]
    <2> HIDE DEF step, V
    <2> QED BY <1>2 DEF Subsetwise
  <1>4. ASSUME NEW left \in SUBSET S
        PROVE  f[left] = [here \in A |->
                  IF left = {} THEN << >>
                  ELSE << N(here, left) >> \o f[left \ {N(here, left)}][N(here, left)]]
    <2> DEFINE g == [x \in left |-> f[left \ {x}]]
    <2>1. g \in [left -> V] /\ f[left] \in V
      <3> HIDE DEF V
      <3> QED BY <1>3
    <2>2. f[left] = step[left][g]
      BY <1>3
    <2>3. \A x \in left : g[x] = f[left \ {x}]
      OBVIOUS
    <2> HIDE DEF step, g
    <2>4. \A here \in A : f[left][here] =
                  IF left = {} THEN << >>
                  ELSE << N(here, left) >> \o g[N(here, left)][N(here, left)]
      <3> HIDE DEF V
      <3> QED BY <1>1, <2>1, <2>2
    <2>5. \A here \in A : left # {} =>
             g[N(here, left)][N(here, left)] = f[left \ {N(here, left)}][N(here, left)]
      BY <1>0, <2>3
    <2> QED BY <2>1, <2>4, <2>5
  <1>5. Eqn(f)
    <2> HIDE DEF step, V
    <2> QED BY <1>3, <1>4 DEF N
  <1>6. Eqn(tour)
    BY <1>5
  <1>7. Tour(d, o, origin, S) = tour[S][origin]
    BY DEF Tour, A
  <1> HIDE DEF tour, step
  <1>8. ASSUME NEW left \in SUBSET S, NEW here \in A
        PROVE  tour[left][here] =
                  IF left = {} THEN << >>
                  ELSE << N(here, left) >> \o tour[left \ {N(here, left)}][N(here, left)]
    <2>1. tour[left] = [p \in A |->
                  IF left = {} THEN << >>
                  ELSE LET c == Nearest(d, o, p, left) IN << c >> \o tour[left \ {c}][c]]
      BY <1>6
    <2> QED BY <2>1 DEF N
  <1> DEFINE G == {left \in SUBSET S : \A here \in A : tour[left][here] \in Seq(S)}
  <1>9. ASSUME NEW left \in SUBSET S, \A x \in left : left \ {x} \in G PROVE left \in G
    <2>1. ASSUME NEW here \in A PROVE tour[left][here] \in Seq(S)
      <3>1. CASE left = {}
        <4>1. tour[left][here] = << >>
          <5> HIDE DEF G
          <5> QED BY <1>8, <3>1
        <4> QED BY <4>1
      <3>2. CASE left # {}
        <4>1. N(here, left) \in left /\ N(here, left) \in S /\ N(here, left) \in A
          BY <1>0, <3>2
        <4>2. tour[left \ {N(here, left)}][N(here, left)] \in Seq(S)
          BY <1>9, <4>1
        <4>3. tour[left][here] =
                << N(here, left) >> \o tour[left \ {N(here, left)}][N(here, left)]
          BY <1>8, <3>2
        <4> QED BY <4>1, <4>2, <4>3
      <3> QED BY <3>1, <3>2
    <2> QED BY <2>1
  <1>10. SUBSET S \subseteq G
    <2> HIDE DEF G
    <2> QED BY <1>9, SubsetsUpTo
  <1>11. TourRule(tour, d, o, A, S)
    BY <1>8, <1>10 DEF TourRule, N
  <1> QED BY <1>7, <1>11 DEF A

(* t visits each place of left exactly once and goes on from every         *)
(* position, the first of which is here, to what comes first from there.   *)
Once(t, left) ==
    \A s \in left : \E i \in 1 .. Len(t) :
        t[i] = s /\ \A j \in 1 .. Len(t) : t[j] = s => j = i

From(here, t, i) == IF i = 1 THEN here ELSE t[i - 1]

TourOf(d, o, here, left, t) ==
    /\ t \in Seq(left) /\ Len(t) = Cardinality(left) /\ Once(t, left)
    /\ \A i \in 1 .. Len(t) : First(d, o, From(here, t, i), t[i], {t[j] : j \in i .. Len(t)})

LEMMA PrependedPlaces ==
  ASSUME NEW S, NEW c \in S, NEW u \in Seq(S)
  PROVE  LET t == << c >> \o u IN
         /\ t \in Seq(S) /\ Len(t) = Len(u) + 1 /\ Len(u) \in Nat /\ t[1] = c
         /\ \A i \in 1 .. Len(u) : t[i + 1] = u[i]
         /\ \A i \in 2 .. Len(u) + 1 : t[i] = u[i - 1] /\ i - 1 \in 1 .. Len(u)
  OBVIOUS

LEMMA OnceMore ==
  ASSUME NEW left, NEW c \in left, NEW u \in Seq(left \ {c}), Once(u, left \ {c})
  PROVE  Once(<< c >> \o u, left)
  <1> DEFINE t == << c >> \o u
             n == Len(u)
  <1>1. /\ Len(t) = n + 1 /\ n \in Nat /\ t[1] = c
        /\ \A i \in 1 .. n : t[i + 1] = u[i]
        /\ \A i \in 2 .. n + 1 : t[i] = u[i - 1] /\ i - 1 \in 1 .. n
    <2>1. u \in Seq(left)
      OBVIOUS
    <2> QED BY <2>1, PrependedPlaces
  <1>2. \A i \in 1 .. n : u[i] \in left \ {c}
    OBVIOUS
  <1> HIDE DEF t, n
  <1>3. ASSUME NEW s \in left
        PROVE  \E i \in 1 .. n + 1 : t[i] = s /\ \A j \in 1 .. n + 1 : t[j] = s => j = i
    <2>1. CASE s = c
      <3>1. ASSUME NEW j \in 1 .. n + 1, t[j] = c PROVE j = 1
        <4> SUFFICES ASSUME j # 1 PROVE FALSE
          OBVIOUS
        <4>1. j \in 2 .. n + 1
          BY <1>1
        <4> QED BY <1>1, <1>2, <3>1, <4>1
      <3>2. 1 \in 1 .. n + 1
        BY <1>1
      <3> QED BY <1>1, <2>1, <3>1, <3>2
    <2>2. CASE s # c
      <3>1. PICK k \in 1 .. n : u[k] = s /\ \A j \in 1 .. n : u[j] = s => j = k
        BY <2>2 DEF Once, n
      <3>2. ASSUME NEW j \in 1 .. n + 1, t[j] = s PROVE j = k + 1
        <4>1. j # 1
          BY <1>1, <2>2, <3>2
        <4>2. j \in 2 .. n + 1
          BY <1>1, <4>1
        <4>3. u[j - 1] = s /\ j - 1 \in 1 .. n
          BY <1>1, <3>2, <4>2
        <4>4. j - 1 = k
          BY <3>1, <4>3
        <4> QED BY <1>1, <4>4
      <3>3. k + 1 \in 1 .. n + 1 /\ t[k + 1] = s
        BY <1>1, <3>1
      <3> QED BY <3>2, <3>3
    <2> QED BY <2>1, <2>2
  <1>4. Once(t, left)
    BY <1>1, <1>3 DEF Once
  <1> QED BY <1>4 DEF t

LEMMA TourGrows ==
  ASSUME NEW left, IsFiniteSet(left), NEW c \in left, NEW d, NEW o, NEW here,
         First(d, o, here, c, left), NEW u, TourOf(d, o, c, left \ {c}, u)
  PROVE  TourOf(d, o, here, left, << c >> \o u)
  <1> DEFINE t == << c >> \o u
             n == Len(u)
  <1>0. u \in Seq(left \ {c}) /\ u \in Seq(left)
    BY DEF TourOf
  <1>1. /\ t \in Seq(left) /\ Len(t) = n + 1 /\ n \in Nat /\ t[1] = c
        /\ \A i \in 1 .. n : t[i + 1] = u[i]
        /\ \A i \in 2 .. n + 1 : t[i] = u[i - 1] /\ i - 1 \in 1 .. n
    BY <1>0, PrependedPlaces
  <1>2. Len(t) = Cardinality(left)
    <2>1. Cardinality(left \ {c}) = Cardinality(left) - 1 /\ Cardinality(left) \in Nat
      BY FS_RemoveElement, FS_CardinalityType
    <2>2. n = Cardinality(left \ {c})
      BY DEF TourOf
    <2> QED BY <1>1, <2>1, <2>2
  <1>3. Once(t, left)
    BY <1>0, OnceMore DEF TourOf
  <1> HIDE DEF t
  <1>4. ASSUME NEW i \in 1 .. Len(t)
        PROVE  First(d, o, From(here, t, i), t[i], {t[j] : j \in i .. Len(t)})
    <2>1. CASE i = 1
      <3>1. From(here, t, i) = here /\ t[i] = c
        BY <1>1, <2>1 DEF From
      <3>2. {t[j] : j \in i .. Len(t)} \subseteq left
        BY <1>1
      <3> QED BY <3>1, <3>2 DEF First
    <2>2. CASE i # 1
      <3>0. i \in 2 .. n + 1 /\ i - 1 \in 1 .. n
        BY <1>1, <2>2
      <3>1. t[i] = u[i - 1]
        BY <1>1, <3>0
      <3>2. From(here, t, i) = From(c, u, i - 1)
        <4>1. CASE i = 2
          BY <1>1, <4>1 DEF From
        <4>2. CASE i # 2
          <5>1. i - 1 \in 2 .. n + 1 /\ i - 1 # 1
            BY <1>1, <3>0, <4>2
          <5>2. t[i - 1] = u[(i - 1) - 1]
            BY <1>1, <5>1
          <5> QED BY <2>2, <5>1, <5>2 DEF From
        <4> QED BY <4>1, <4>2
      <3>3. ASSUME NEW x \in {t[j] : j \in i .. Len(t)}
            PROVE  x \in {u[j] : j \in i - 1 .. n}
        <4>1. PICK j \in i .. Len(t) : x = t[j]
          OBVIOUS
        <4>2. j \in 2 .. n + 1 /\ j - 1 \in i - 1 .. n
          BY <1>1, <3>0
        <4> QED BY <1>1, <4>1, <4>2
      <3>4. First(d, o, From(c, u, i - 1), u[i - 1], {u[j] : j \in i - 1 .. n})
        BY <3>0 DEF TourOf
      <3> QED BY <3>1, <3>2, <3>3, <3>4 DEF First
    <2> QED BY <2>1, <2>2
  <1>5. TourOf(d, o, here, left, t)
    BY <1>1, <1>2, <1>3, <1>4 DEF TourOf
  <1> QED BY <1>5 DEF t

(* The outer loop leaves out no stop, comes to none twice and always goes  *)
(* to the nearest: for the round of the shelters as well as for a patrol   *)
(* round a block (ImpactRouteOf).                                          *)
THEOREM TourVisitsNearestFirst ==
  ASSUME NEW S, IsFiniteSet(S), NEW origin,
         NEW d \in [(S \cup {origin}) \X (S \cup {origin}) -> Nat],
         NEW o \in [S \cup {origin} -> Nat]
  PROVE  TourOf(d, o, origin, S, Tour(d, o, origin, S))
  <1> DEFINE A == S \cup {origin}
  <1>1. PICK tour : TourRule(tour, d, o, A, S) /\ Tour(d, o, origin, S) = tour[S][origin]
    BY TourByRule
  <1>0. d \in [A \X A -> Nat] /\ o \in [A -> Nat] /\ S \subseteq A /\ origin \in A
    OBVIOUS
  <1> HIDE DEF A
  <1> DEFINE G == {left \in SUBSET S : \A here \in A : TourOf(d, o, here, left, tour[left][here])}
  <1>2. ASSUME NEW left \in SUBSET S, \A x \in left : left \ {x} \in G PROVE left \in G
    <2>1. ASSUME NEW here \in A PROVE TourOf(d, o, here, left, tour[left][here])
      <3>1. CASE left = {}
        <4>1. tour[left][here] = << >> /\ Cardinality(left) = 0
          BY <1>1, <3>1, FS_EmptySet DEF TourRule
        <4> QED BY <3>1, <4>1 DEF TourOf, Once
      <3>2. CASE left # {}
        <4> DEFINE c == Nearest(d, o, here, left)
        <4>1. left \in SUBSET A
          BY <1>0
        <4>2. c \in left /\ First(d, o, here, c, left) /\ c \in A
          BY <1>0, <3>2, <4>1, NearestIsFirst
        <4>3. tour[left][here] = << c >> \o tour[left \ {c}][c]
          BY <1>1, <3>2 DEF TourRule
        <4> HIDE DEF c
        <4>4. TourOf(d, o, c, left \ {c}, tour[left \ {c}][c])
          BY <1>2, <4>2
        <4>5. IsFiniteSet(left)
          BY FS_Subset
        <4> QED BY <4>2, <4>3, <4>4, <4>5, TourGrows
      <3> QED BY <3>1, <3>2
    <2> QED BY <2>1
  <1>3. SUBSET S \subseteq G
    <2> HIDE DEF G
    <2> QED BY <1>2, SubsetsUpTo
  <1> QED BY <1>0, <1>1, <1>3

(* There is at most one greedy round.                                      *)
LEMMA OneGreedyRound ==
  ASSUME NEW S, IsFiniteSet(S), NEW d \in [S \X S -> Nat], NEW o \in [S -> Nat],
         \A x, y \in S : o[x] = o[y] => x = y,
         NEW r \in GreedyRounds(d, o, S), NEW q \in GreedyRounds(d, o, S)
  PROVE  r = q
  <1> DEFINE n == Cardinality(S)
  <1>0. n \in Nat
    BY FS_CardinalityType
  <1>1. ASSUME NEW t \in GreedyRounds(d, o, S)
        PROVE  /\ t \in [1 .. n -> S] /\ Len(t) = n
               /\ \A s \in S : \E i \in 1 .. n : t[i] = s
               /\ \A i, j \in 1 .. n : t[i] = t[j] => i = j
               /\ \A i \in 1 .. n - 1 : \A j \in i + 1 .. n :
                    \/ d[t[i], t[i + 1]] < d[t[i], t[j]]
                    \/ d[t[i], t[i + 1]] = d[t[i], t[j]] /\ o[t[i + 1]] <= o[t[j]]
               /\ \A s \in S : o[t[1]] <= o[s]
    <2>1. t \in [1 .. n -> S] /\ t \in Orders(S)
      BY DEF GreedyRounds, Orders
    <2>2. Len(t) = n /\ DOMAIN t = 1 .. n
      BY <1>0, <2>1
    <2>3. \A s \in S : \E i \in 1 .. n : t[i] = s /\ \A j \in 1 .. n : t[j] = s => j = i
      BY <2>1, <2>2 DEF Orders
    <2>4. \A i, j \in 1 .. n : t[i] = t[j] => i = j
      <3> SUFFICES ASSUME NEW i \in 1 .. n, NEW j \in 1 .. n, t[i] = t[j] PROVE i = j
        OBVIOUS
      <3>1. t[i] \in S
        BY <2>1
      <3>2. PICK k \in 1 .. n : \A m \in 1 .. n : t[m] = t[i] => m = k
        BY <2>3, <3>1
      <3> QED BY <3>2
    <2>5. Greedy(d, o, t) /\ \A s \in S : o[t[1]] <= o[s]
      BY DEF GreedyRounds
    <2> QED BY <2>1, <2>2, <2>3, <2>4, <2>5 DEF Greedy
  <1> HIDE DEF n
  <1>a. ASSUME NEW t \in GreedyRounds(d, o, S), NEW i \in 1 .. n PROVE t[i] \in S
    <2>1. t \in [1 .. n -> S]
      BY <1>1
    <2> QED BY <2>1
  <1>b. ASSUME NEW t \in GreedyRounds(d, o, S), NEW i \in 1 .. n - 1, NEW j \in i + 1 .. n
        PROVE  \/ d[t[i], t[i + 1]] < d[t[i], t[j]]
               \/ d[t[i], t[i + 1]] = d[t[i], t[j]] /\ o[t[i + 1]] <= o[t[j]]
    BY <1>1
  <1>2. ASSUME NEW t \in GreedyRounds(d, o, S), NEW s \in GreedyRounds(d, o, S),
               NEW i \in 1 .. n - 1, \A k \in 1 .. i : t[k] = s[k]
        PROVE  \/ d[t[i], t[i + 1]] < d[t[i], s[i + 1]]
               \/ d[t[i], t[i + 1]] = d[t[i], s[i + 1]] /\ o[t[i + 1]] <= o[s[i + 1]]
    <2>1. i + 1 \in 1 .. n /\ i \in 1 .. n
      BY <1>0
    <2>2. s[i + 1] \in S
      BY <1>a, <2>1
    <2>3. PICK j \in 1 .. n : t[j] = s[i + 1]
      BY <1>1, <2>2
    <2>4. j \notin 1 .. i
      <3> SUFFICES ASSUME j \in 1 .. i PROVE FALSE
        OBVIOUS
      <3>1. s[j] = s[i + 1]
        BY <1>2, <2>3
      <3>2. j = i + 1
        BY <1>1, <2>1, <3>1
      <3> QED BY <3>2
    <2>5. j \in i + 1 .. n
      BY <1>0, <2>4
    <2>6. \/ d[t[i], t[i + 1]] < d[t[i], t[j]]
          \/ d[t[i], t[i + 1]] = d[t[i], t[j]] /\ o[t[i + 1]] <= o[t[j]]
      BY <1>b, <2>5
    <2> QED BY <2>3, <2>6
  <1> DEFINE G == {i \in 0 .. n : \A k \in 1 .. i : r[k] = q[k]}
  <1>3. 0 \in G
    BY <1>0
  <1>4. ASSUME NEW i \in 0 .. n - 1, i \in G PROVE i + 1 \in G
    <2>0. i \in Nat /\ i + 1 \in 0 .. n /\ i + 1 \in 1 .. n /\ 1 \in 1 .. n
      BY <1>0
    <2>1. r[i + 1] \in S /\ q[i + 1] \in S /\ r[1] \in S /\ q[1] \in S
      BY <1>a, <2>0
    <2>2. r[i + 1] = q[i + 1]
      <3>1. CASE i = 0
        <4>1. o[r[1]] <= o[q[1]] /\ o[q[1]] <= o[r[1]]
          BY <1>1, <2>1
        <4>2. o[r[1]] \in Nat /\ o[q[1]] \in Nat
          BY <2>1
        <4>3. o[r[1]] = o[q[1]]
          BY <4>1, <4>2
        <4> QED BY <2>1, <3>1, <4>3
      <3>2. CASE i # 0
        <4>1. i \in 1 .. n - 1 /\ i \in 1 .. n
          BY <2>0, <3>2, <1>0
        <4>2. r[i] = q[i] /\ r[i] \in S /\ \A k \in 1 .. i : r[k] = q[k]
          <5>1. r[i] \in S
            BY <1>a, <4>1
          <5>2. i \in 1 .. i
            BY <2>0, <4>1
          <5> QED BY <1>4, <5>1, <5>2
        <4> DEFINE x == d[r[i], r[i + 1]]
                   y == d[r[i], q[i + 1]]
        <4>3. x < y \/ (x = y /\ o[r[i + 1]] <= o[q[i + 1]])
          BY <1>2, <4>1, <4>2
        <4>4. \A k \in 1 .. i : q[k] = r[k]
          BY <4>2
        <4>5. y < x \/ (y = x /\ o[q[i + 1]] <= o[r[i + 1]])
          <5>1. \/ d[q[i], q[i + 1]] < d[q[i], r[i + 1]]
                \/ d[q[i], q[i + 1]] = d[q[i], r[i + 1]] /\ o[q[i + 1]] <= o[r[i + 1]]
            BY <1>2, <4>1, <4>4
          <5> QED BY <4>2, <5>1
        <4>6. x \in Nat /\ y \in Nat /\ o[r[i + 1]] \in Nat /\ o[q[i + 1]] \in Nat
          BY <2>1, <4>2
        <4> HIDE DEF x, y
        <4>7. o[r[i + 1]] = o[q[i + 1]]
          BY <4>3, <4>5, <4>6
        <4> QED BY <2>1, <4>7
      <3> QED BY <3>1, <3>2
    <2>3. ASSUME NEW k \in 1 .. i + 1 PROVE r[k] = q[k]
      <3>1. k \in 1 .. i \/ k = i + 1
        BY <2>0
      <3> QED BY <1>4, <2>2, <3>1
    <2> QED BY <2>0, <2>3
  <1>5. 0 .. n \subseteq G
    <2> HIDE DEF G
    <2> QED BY <1>0, <1>3, <1>4, UpTo
  <1>6. n \in G
    <2> HIDE DEF G
    <2> QED BY <1>0, <1>5
  <1>7. r \in [1 .. n -> S] /\ q \in [1 .. n -> S] /\ \A k \in 1 .. n : r[k] = q[k]
    BY <1>1, <1>6
  <1>8. r = [k \in 1 .. n |-> r[k]] /\ q = [k \in 1 .. n |-> q[k]]
    BY <1>7
  <1> HIDE DEF G
  <1> QED BY <1>7, <1>8

(* What CalculatePatrolRoute computes, for any distances, is the one       *)
(* greedy round over the shelters that begins at the first of them.        *)
THEOREM CalculatedRoundIsGreedy ==
  ASSUME NEW S, IsFiniteSet(S), S # {}, NEW d \in [S \X S -> Nat], NEW o \in [S -> Nat],
         \A x, y \in S : o[x] = o[y] => x = y
  PROVE  {CalculatePatrolRoute(d, o, S)} = GreedyRounds(d, o, S)
  <1> DEFINE first == CHOOSE s \in S : \A t \in S : o[s] <= o[t]
             R == S \ {first}
             t == Tour(d, o, first, R)
             r == << first >> \o t
             n == Len(t)
  <1>1. first \in S /\ \A x \in S : o[first] <= o[x]
    <2> DEFINE E == {o[s] : s \in S}
    <2>1. E \in SUBSET Nat /\ E # {}
      OBVIOUS
    <2>2. PICK e \in E : \A x \in E : e <= x
      <3> HIDE DEF E
      <3> QED BY <2>1, NatMinimum
    <2>3. PICK s \in S : o[s] = e
      BY <2>2
    <2>4. \A x \in S : o[s] <= o[x]
      BY <2>2, <2>3
    <2> QED BY <2>3, <2>4
  <1>2. CalculatePatrolRoute(d, o, S) = r
    BY DEF CalculatePatrolRoute
  <1> HIDE DEF first
  <1>3. TourOf(d, o, first, R, t)
    <2>1. R \cup {first} = S /\ IsFiniteSet(R)
      BY <1>1, FS_Subset
    <2> HIDE DEF R
    <2> QED BY <2>1, TourVisitsNearestFirst
  <1>4. t \in Seq(R) /\ t \in Seq(S)
    BY <1>3 DEF TourOf
  <1>5. /\ r \in Seq(S) /\ Len(r) = n + 1 /\ n \in Nat /\ r[1] = first
        /\ \A i \in 1 .. n : r[i + 1] = t[i]
        /\ \A i \in 2 .. n + 1 : r[i] = t[i - 1] /\ i - 1 \in 1 .. n
    <2> HIDE DEF t
    <2> QED BY <1>1, <1>4, PrependedPlaces
  <1>6. Cardinality(S) = n + 1
    <2>1. Cardinality(R) = Cardinality(S) - 1 /\ Cardinality(S) \in Nat
      BY <1>1, FS_RemoveElement, FS_CardinalityType
    <2>2. n = Cardinality(R)
      BY <1>3 DEF TourOf
    <2>3. n \in Nat
      BY <1>5
    <2> HIDE DEF n, R
    <2> QED BY <2>1, <2>2, <2>3
  <1>7. Once(r, S)
    <2> HIDE DEF t
    <2> QED BY <1>1, <1>3, <1>4, OnceMore DEF TourOf
  <1> HIDE DEF r, t
  <1>8. r \in Orders(S)
    <2>1. r \in [1 .. Cardinality(S) -> S] /\ DOMAIN r = 1 .. Len(r)
      BY <1>5, <1>6
    <2> QED BY <1>7, <2>1 DEF Orders, Once
  <1>9. Greedy(d, o, r)
    <2> SUFFICES ASSUME NEW i \in 1 .. Len(r) - 1, NEW j \in i + 1 .. Len(r)
                 PROVE  \/ d[r[i], r[i + 1]] < d[r[i], r[j]]
                        \/ d[r[i], r[i + 1]] = d[r[i], r[j]] /\ o[r[i + 1]] <= o[r[j]]
      BY DEF Greedy
    <2>1. /\ i \in 1 .. n /\ j \in 2 .. n + 1 /\ j - 1 \in i .. n
          /\ r[i + 1] = t[i] /\ r[j] = t[j - 1]
      BY <1>5
    <2>2. From(first, t, i) = r[i]
      <3>1. CASE i = 1
        BY <1>5, <3>1 DEF From
      <3>2. CASE i # 1
        <4>1. i \in 2 .. n + 1
          BY <1>5, <2>1, <3>2
        <4> QED BY <1>5, <3>2, <4>1 DEF From
      <3> QED BY <3>1, <3>2
    <2>3. First(d, o, r[i], t[i], {t[k] : k \in i .. n})
      BY <1>3, <2>1, <2>2 DEF TourOf
    <2>4. r[j] \in {t[k] : k \in i .. n}
      BY <2>1
    <2> QED BY <2>1, <2>3, <2>4 DEF First
  <1>10. r \in GreedyRounds(d, o, S)
    BY <1>1, <1>5, <1>8, <1>9 DEF GreedyRounds
  <1>11. \A q \in GreedyRounds(d, o, S) : q = r
    BY <1>10, OneGreedyRound
  <1> QED BY <1>2, <1>10, <1>11

(* The round once computed, and the roads it was computed for.             *)
RoundComputed ==
    /\ roads \in RoadMap /\ no \in Vertex
    /\ round # << >> => round = CalculatePatrolRoute(Distance, Order, Vertex)

LEMMA RoundStep == RoundComputed /\ [MCNext]_all => RoundComputed'
  <1> SUFFICES ASSUME RoundComputed, [MCNext]_all PROVE RoundComputed'
    OBVIOUS
  <1>1. UNCHANGED << roads, no >>
    BY DEF MCNext, all, vars, Search, Next, Precalculate, SetExitNodeDistance, Done
  <1>2. Distance' = Distance /\ Order' = Order
    BY <1>1 DEF Distance, Order
  <1>3. round' = round \/ round' = CalculatePatrolRoute(Distance, Order, Vertex)
    BY DEF MCNext, all, Search, Precalculate, SetExitNodeDistance, Done
  <1>4. CalculatePatrolRoute(Distance, Order, Vertex)' = CalculatePatrolRoute(Distance, Order, Vertex)
    BY <1>2 DEF CalculatePatrolRoute, Tour, Nearest
  <1> QED BY <1>1, <1>3, <1>4 DEF RoundComputed

(* On every road map the round of the ferries is the one greedy order of   *)
(* the shelters: every shelter once, from the first id on, and always the  *)
(* nearest of those not yet visited, the first id among equals.            *)
THEOREM RoundIsGreedyHolds == MCSpec => []RoundIsGreedy
  <1>1. MCInit => RoundComputed
    BY MapsAssumption DEF MCInit, Init, RLInit, RoundComputed
  <1>2. RoundComputed => RoundIsGreedy
    <2> SUFFICES ASSUME RoundComputed, round # << >>
                 PROVE  {round} = GreedyRounds(Distance, Order, Vertex)
      BY DEF RoundIsGreedy
    <2>1. Distance \in [Vertex \X Vertex -> Nat]
      <3>1. roads.len \in [Vertex -> [Vertex -> Nat]]
        BY DEF RoundComputed, RoadMap
      <3>2. ASSUME NEW p \in Vertex \X Vertex
            PROVE  (IF p[1] = p[2] THEN 0 ELSE roads.len[p[1]][p[2]] + 1) \in Nat
        <4>1. roads.len[p[1]][p[2]] \in Nat
          BY <3>1
        <4> QED BY <4>1
      <3> QED BY <3>2 DEF Distance
    <2>2. Order \in [Vertex -> Nat] /\ \A x, y \in Vertex : Order[x] = Order[y] => x = y
      BY MapsAssumption DEF Order
    <2>3. Vertex # {} /\ IsFiniteSet(Vertex)
      BY MapsAssumption DEF RoundComputed
    <2>4. round = CalculatePatrolRoute(Distance, Order, Vertex)
      BY DEF RoundComputed
    <2> QED BY <2>1, <2>2, <2>3, <2>4, CalculatedRoundIsGreedy
  <1> QED BY <1>1, <1>2, RoundStep, PTL DEF MCSpec
-----------------------------------------------------------------------------
(* The composition: the searches and the computation of the round, run one *)
(* after the other on one map, leave each other alone.                     *)
LEMMA ComposedSearches == MCSpec => Spec /\ DPSpec
  <1>1. MCInit => Init /\ RLInit /\ DPInit
    BY DEF MCInit, Init
  <1>2. [MCNext]_all => [Next]_vars
    BY DEF MCNext, all, Search, Precalculate, SetExitNodeDistance, Done
  <1>3. [MCNext]_all => [DPNext /\ UNCHANGED << roads, no >>]_<< roads, no, pair >>
    BY DEF MCNext, all, Search, Precalculate, SetExitNodeDistance, Done, Next, vars
  <1> QED BY <1>1, <1>2, <1>3, PTL DEF MCSpec, Spec, DPSpec

(* On every road map, of an evacuee's search, the ways calculated in       *)
(* advance and the round of the ferries together: certificates, nearest    *)
(* shelter, shortest stored ways and greedy round.                         *)
THEOREM RoutesCorrect ==
  MCSpec => [](Certified /\ FindsNearest /\ PairCertified /\ StoredIsShortest /\ RoundIsGreedy)
  BY ComposedSearches, CertifiedHolds, FindsNearestHolds, PairCertifiedHolds,
     StoredIsShortestHolds, RoundIsGreedyHolds, PTL
-----------------------------------------------------------------------------
(* Both searches end: what TLC shows of the first with SearchEnds, cut     *)
(* into what a proof without fairness can show, a rank that every step     *)
(* lowers and a step that is possible until the end.                       *)

(* Some element comes first in the order of two keys.                      *)
LEMMA FirstByTwoKeys ==
  ASSUME NEW S, S # {}, NEW k \in [S -> Nat], NEW o \in [S -> Nat]
  PROVE  \E x \in S : \A y \in S : k[x] < k[y] \/ (k[x] = k[y] /\ o[x] <= o[y])
  <1> DEFINE K == {k[x] : x \in S}
  <1>1. K \in SUBSET Nat /\ K # {}
    OBVIOUS
  <1>2. PICK a \in K : \A b \in K : a <= b
    BY <1>1, NatMinimum
  <1> DEFINE T == {x \in S : k[x] = a}
             O == {o[x] : x \in T}
  <1>3. O \in SUBSET Nat /\ O # {}
    BY <1>2
  <1>4. PICK b \in O : \A c \in O : b <= c
    BY <1>3, NatMinimum
  <1>5. PICK x \in T : o[x] = b
    BY <1>4
  <1>6. ASSUME NEW y \in S PROVE k[x] < k[y] \/ (k[x] = k[y] /\ o[x] <= o[y])
    <2>1. k[x] = a /\ a <= k[y] /\ k[y] \in Nat /\ a \in Nat
      BY <1>1, <1>2, <1>5
    <2>2. k[y] = a => o[x] <= o[y]
      BY <1>4, <1>5
    <2> QED BY <2>1, <2>2
  <1> QED BY <1>5, <1>6

(* The rounds and phases that an evacuee's search has left at most.        *)
SearchLeft ==
    IF phase = "search" THEN Cardinality(pending) + 2
    ELSE IF phase = "choose" THEN 1 ELSE 0

(* Until the search has ended a vertex can be selected, the loop breaks,   *)
(* or one of the outcomes applies.                                         *)
SearchGoesOn ==
    /\ phase = "search" =>
          (\E v \in Vertex : IsSelected(v)) \/ (\A v \in pending : dst[v] >= INF)
    /\ phase = "choose" =>
          \/ \E s \in Listed : s \notin Settled
          \/ open = {}
          \/ \E s \in open : IsTarget(s)

SearchNearsEnd ==
    SearchLeft \in Nat /\ SearchLeft' \in Nat /\ SearchLeft' < SearchLeft

LEMMA SearchDescends ==
  ASSUME TypeOK, TypeOK', Next
  PROVE  SearchNearsEnd
  <1> USE DEF SearchNearsEnd
  <1>1. IsFiniteSet(pending) /\ Cardinality(pending) \in Nat
    <2>1. pending \subseteq Vertex
      BY RouteNumbers
    <2> QED BY <2>1, MapsAssumption, FS_Subset, FS_CardinalityType
  <1>2. ASSUME NEW v \in Vertex, Settle(v)
        PROVE  SearchNearsEnd
    <2>1. v \in pending /\ phase = "search" /\ phase' = "search" /\ pending' = pending \ {v}
      BY <1>2 DEF Settle, IsSelected, LeftPending
    <2>2. Cardinality(pending \ {v}) = Cardinality(pending) - 1
          /\ Cardinality(pending \ {v}) \in Nat
      BY <1>1, <2>1, FS_RemoveElement, FS_CardinalityType
    <2>3. SearchLeft = Cardinality(pending) + 2 /\ SearchLeft' = Cardinality(pending \ {v}) + 2
      BY <2>1 DEF SearchLeft
    <2> QED BY <1>1, <2>2, <2>3
  <1>3. CASE Break
    BY <1>1, <1>3 DEF Break, SearchLeft
  <1>4. CASE Choose
    BY <1>4 DEF Choose, SearchLeft
  <1> QED BY <1>2, <1>3, <1>4 DEF Next, DRNext

LEMMA SearchNotStuck == TypeOK => SearchGoesOn
  <1> SUFFICES ASSUME TypeOK PROVE SearchGoesOn
    OBVIOUS
  <1>0. /\ INF \in Nat /\ pending \subseteq Vertex /\ open \subseteq Vertex
        /\ Vertex \subseteq Nat /\ \A v \in Vertex : dst[v] \in Nat
    BY RouteNumbers, MapsAssumption, ListedAssumption DEF TypeOK
  <1>1. ASSUME NEW S \in SUBSET Vertex, S # {}
        PROVE  \E x \in S : \A y \in S : dst[x] < dst[y] \/ (dst[x] = dst[y] /\ x <= y)
    <2> DEFINE k == [x \in S |-> dst[x]]
               o == [x \in S |-> x]
    <2>1. k \in [S -> Nat] /\ o \in [S -> Nat]
      BY <1>0
    <2>2. \A x \in S : k[x] = dst[x] /\ o[x] = x
      OBVIOUS
    <2> HIDE DEF k, o
    <2>3. \E x \in S : \A y \in S : k[x] < k[y] \/ (k[x] = k[y] /\ o[x] <= o[y])
      BY <1>1, <2>1, FirstByTwoKeys
    <2> QED BY <2>2, <2>3
  <1>2. ASSUME NEW w \in pending, ~(dst[w] >= INF) PROVE \E v \in Vertex : IsSelected(v)
    <2>1. PICK v \in pending : \A u \in pending : dst[v] < dst[u] \/ (dst[v] = dst[u] /\ v <= u)
      BY <1>0, <1>1
    <2>2. dst[v] < INF
      BY <1>0, <1>2, <2>1
    <2> QED BY <1>0, <2>1, <2>2 DEF IsSelected
  <1>3. open # {} => \E s \in open : IsTarget(s)
    BY <1>0, <1>1 DEF IsTarget
  <1> QED BY <1>2, <1>3 DEF SearchGoesOn

(* DijkstraRouteCalculationforGeographicInfo, whose loop is "while(true)": *)
(* on every road map each step brings the search nearer to its end, and a  *)
(* step is possible until then.                                            *)
THEOREM SearchTerminates ==
  Spec => [][SearchNearsEnd]_vars /\ []SearchGoesOn
  <1>1. TypeOK /\ TypeOK' /\ [Next]_vars => [SearchNearsEnd]_vars
    BY SearchDescends
  <1> QED BY <1>1, SearchTypeCorrect, SearchNotStuck, PTL DEF Spec

(* dijkstra_pair: a step lowers distances and raises none, or takes an     *)
(* entry from the queue and leaves the distances, or it is the last.       *)
Lowers ==
    /\ \A v \in Vertex : dist'[v] <= dist[v]
    /\ \E v \in Vertex : dist'[v] < dist[v]

Shrinks == dist' = dist /\ IsFiniteSet(pq) /\ \E e \in pq : pq' = pq \ {e}

Stores == pq = {} /\ stored = << >> /\ stored' # << >>

QueueGoesOn == IsFiniteSet(pq) /\ (pq # {} => \E e \in pq : IsTop(e))

(* All distances in the queue are below INF.                               *)
LEMMA QueueFinite == PairInv => IsFiniteSet(pq)
  <1> SUFFICES ASSUME PairInv PROVE IsFiniteSet(pq)
    OBVIOUS
  <1>1. IsFiniteSet(0 .. INF) /\ IsFiniteSet(Vertex)
    BY MapsAssumption, FS_Interval
  <1>2. IsFiniteSet((0 .. INF) \X Vertex)
    BY <1>1, FS_Product
  <1>3. pq \subseteq (0 .. INF) \X Vertex
    BY PairNumbers
  <1> QED BY <1>2, <1>3, FS_Subset

LEMMA PairDescends ==
  ASSUME PairInv, PairStep
  PROVE  Lowers \/ Shrinks \/ Stores
  <1>0. IsFiniteSet(pq)
    BY QueueFinite
  <1>1. ASSUME NEW e \in pq, Pop(e) PROVE Lowers \/ Shrinks
    <2> DEFINE u == e[2]
               R == {v \in Vertex : IsRelaxed(u, v)}
    <2>0. u \in Vertex /\ \A v \in Vertex : dist[v] \in Nat /\ roads.len[u][v] \in Nat
      BY PairNumbers
    <2>1. CASE pq' = pq \ {e} /\ dist' = dist
      BY <1>0, <2>1 DEF Shrinks
    <2>2. CASE ~IsStale(e)
      <3>1. /\ dist' = [v \in Vertex |-> IF v \in R THEN dist[u] + roads.len[u][v] ELSE dist[v]]
            /\ pq' = (pq \ {e}) \cup {<< dist[u] + roads.len[u][v], v >> : v \in R}
        BY <1>1, <2>2 DEF Pop
      <3>2. \A v \in R : dist[u] + roads.len[u][v] < dist[v]
        BY DEF IsRelaxed
      <3>3. CASE R = {}
        <4>1. dist' = dist
          BY <3>1, <3>3 DEF PairInv, PairTypeOK
        <4>2. pq' = pq \ {e}
          BY <3>1, <3>3
        <4> QED BY <1>0, <4>1, <4>2 DEF Shrinks
      <3>4. CASE R # {}
        <4> HIDE DEF R
        <4>1. PICK w \in R : TRUE
          BY <3>4
        <4>2. R \subseteq Vertex
          BY DEF R
        <4>3. \A v \in Vertex : dist'[v] <= dist[v]
          BY <2>0, <3>1, <3>2
        <4>4. dist'[w] < dist[w] /\ w \in Vertex
          BY <2>0, <3>1, <3>2, <4>1, <4>2
        <4> QED BY <4>3, <4>4 DEF Lowers
      <3> QED BY <3>3, <3>4
    <2> QED BY <1>1, <2>1, <2>2 DEF Pop
  <1>2. CASE Store
    BY <1>2 DEF Store, Stores
  <1> QED BY <1>1, <1>2 DEF PairStep, DPNext

LEMMA QueueNotStuck == PairInv => QueueGoesOn
  <1> SUFFICES ASSUME PairInv, pq # {} PROVE \E e \in pq : IsTop(e)
    BY QueueFinite DEF QueueGoesOn
  <1> DEFINE k == [e \in pq |-> e[1]]
             o == [e \in pq |-> e[2]]
  <1>1. \A e \in pq : e[1] \in Nat /\ e[2] \in Nat
    BY PairNumbers, MapsAssumption
  <1>2. k \in [pq -> Nat] /\ o \in [pq -> Nat]
    BY <1>1
  <1>3. \A e \in pq : k[e] = e[1] /\ o[e] = e[2]
    OBVIOUS
  <1> HIDE DEF k, o
  <1>4. \E e \in pq : \A f \in pq : k[e] < k[f] \/ (k[e] = k[f] /\ o[e] <= o[f])
    BY <1>2, FirstByTwoKeys
  <1> QED BY <1>3, <1>4 DEF IsTop

(* dijkstra_pair on every road map: although a vertex is pushed again when *)
(* a shorter way is found, no sequence of steps is endless, since          *)
(* distances of finitely many vertices fall, or the finite queue does; and *)
(* the queue has a top until it is empty.                                  *)
THEOREM PairSearchTerminates ==
  DPSpec => [][Lowers \/ Shrinks \/ Stores]_pairVars /\ []QueueGoesOn
  <1>1. PairInv /\ [PairStep]_pairVars => [Lowers \/ Shrinks \/ Stores]_pairVars
    BY PairDescends
  <1> QED
    BY <1>1, QueueNotStuck, PairInitial, PairInductive, PTL DEF DPSpec, PairStep, pairVars
=============================================================================
