-------------------------- MODULE SimpleAodvProofs --------------------------
(* Proofs about SimpleAodv for any nodes, topologies, losses and movements. *)
EXTENDS SimpleAodv, WellFoundedInduction, TLAPS

-----------------------------------------------------------------------------
(* The inductive invariant. *)

(* One exchange: either a way is looked for and only a reply is under way, *)
(* or data has been sent and only it or its acknowledgement is.  A request *)
(* still spreading then finds that Dest has replied.                       *)
Exchange ==
    /\ ~started => floods = {} /\ carried = {} /\ armed = {}
    /\ \A p, q \in carried : p = q
    /\ \A s, t \in armed : s = t
    /\ armed = {} => dsn = asn /\ \A p \in carried : p.type = "rrep"
    /\ armed # {} => /\ dsn \in {asn, asn + 1}
                     /\ \A p \in carried : p.type # "rrep" /\ dsn = asn + 1
    /\ \A p, q \in floods : p.id = q.id
    /\ carried # {} \/ armed # {} => \A p \in floods : p.id \in seen[Dest]

(* w is nearer to Source than v, by the request that set its route. *)
Below(v, w) ==
    /\ v # Source
    /\ w # Source => at[w] > at[v] \/ (at[w] = at[v] /\ left[w] > left[v])

(* Routes to Source lead to nodes reached by a later request, or sooner by *)
(* the same; what has been reached in this round knows the request.        *)
Backward ==
    /\ ~started => \A n \in Node : at[n] < round /\ seen[n] = {}
    /\ \A n \in Node : at[n] <= round /\ left[n] <= TTL
    /\ \A p \in floods :
        /\ p.from # Dest /\ p.id \in seen[p.from] /\ p.id \in seen[Source]
        /\ p.from # Source => at[p.from] = round /\ left[p.from] > p.ttl
        /\ \A n \in Node : at[n] = round => p.id \in seen[n]
        /\ \A n \in Node \ {Source} : p.id \in seen[n] => at[n] = round
    /\ \A n \in Node \ {Source} : route[n][Source] # None => Below(n, route[n][Source])

(* n, to which m leads, is nearer to Dest than m. *)
Nearer(m, n) == num[n] > num[m] \/ (num[n] = num[m] /\ far[n] < far[m])

(* Routes to Dest lead to nodes passed by a later packet of Dest, or       *)
(* sooner by the same.  A packet of Dest goes on to a node nearer to       *)
(* Source than all it has passed.                                          *)
Forward ==
    /\ \A n \in Node : num[n] <= tokens
    /\ \A n \in Node \ {Dest} :
        route[n][Dest] \notin {None, Dest} => Nearer(n, route[n][Dest])
    /\ \A p \in carried : p.type # "data" =>
        /\ p.num = tokens /\ p.num > 0
        /\ p.from = Dest \/ (num[p.from] = p.num /\ far[p.from] = p.hops)
        /\ \A v \in Node :
            v = Dest \/ num[v] = p.num => Below(v, p.to) /\ at[Dest] <= at[v]

Hops ==
    \A n, d \in Node : route[n][d] # None =>
        /\ route[n][route[n][d]] = route[n][d]
        /\ route[n][d] \in {Source, Dest} => route[n][d] = d

Inv == TypeOK /\ Exchange /\ Backward /\ Forward /\ Hops

-----------------------------------------------------------------------------
(* What the operators of the model return. *)

Tables == [Node -> [Node -> Node \cup {None}]]

LEMMA BroadcastIs ==
  ASSUME NEW n \in Node, NEW id \in Nat, NEW seq \in Nat, NEW ttl \in 0 .. TTL
  PROVE  /\ Broadcast(n, id, seq, ttl) \subseteq Flood
         /\ \A q \in Broadcast(n, id, seq, ttl) : q.from = n /\ q.id = id /\ q.ttl = ttl
  <1> SUFFICES ASSUME NEW q \in Broadcast(n, id, seq, ttl)
               PROVE  q \in Flood /\ q.from = n /\ q.id = id /\ q.ttl = ttl
    OBVIOUS
  <1>1. PICK m \in Node :
            q = [from |-> n, to |-> m, id |-> id, seq |-> seq, ttl |-> ttl]
    BY DEF Broadcast
  <1> QED BY <1>1 DEF Flood

(* At most one packet, to the next hop of an entry that exists. *)
LEMMA TowardsIs ==
  ASSUME NEW r \in Tables, NEW n \in Node, NEW d \in Node, NEW p \in Packet
  PROVE  /\ Towards(r, n, d, p) \subseteq Packet
         /\ \A q \in Towards(r, n, d, p) :
                /\ r[n][d] \in Node /\ q.from = n /\ q.to = r[n][d]
                /\ q.type = p.type /\ q.num = p.num /\ q.hops = p.hops
         /\ \A q, s \in Towards(r, n, d, p) : q = s
  <1> DEFINE u == [p EXCEPT !.from = n, !.to = r[n][d]]
  <1>1. CASE r[n][d] = None
    BY <1>1 DEF Towards
  <1>2. CASE r[n][d] # None
    <2>1. r[n][d] \in Node
      BY <1>2 DEF Tables
    <2>2. u \in Packet /\ u.from = n /\ u.to = r[n][d]
          /\ u.type = p.type /\ u.num = p.num /\ u.hops = p.hops
      BY <2>1 DEF Packet
    <2>3. Towards(r, n, d, p) \subseteq {u}
      BY <1>2 DEF Towards, Unicast
    <2> HIDE DEF u
    <2> QED BY <2>1, <2>2, <2>3
  <1> QED BY <1>1, <1>2

LEMMA SetRoutesIs ==
  ASSUME route \in Tables, NEW n \in Node, NEW next \in Node, NEW dst \in Node
  PROVE  /\ SetRoutes(n, next, dst) \in Tables
         /\ SetRoutes(n, next, dst)[n][next] = next /\ SetRoutes(n, next, dst)[n][dst] = next
         /\ \A k, m \in Node : k # n \/ (m # next /\ m # dst) =>
                SetRoutes(n, next, dst)[k][m] = route[k][m]
  BY DEF SetRoutes, Tables

LEMMA Constants ==
    /\ Source \in Node /\ Dest \in Node /\ Source # Dest /\ None \notin Node
    /\ TTL \in Nat /\ TTL \in 0 .. TTL
  BY NodeAssumption

(* A packet of Dest. *)
LEMMA ReplyIs ==
  ASSUME NEW r \in Tables, NEW type \in {"rrep", "ack"}, tokens \in Nat
  PROVE  /\ Reply(r, type, 0) \subseteq Packet
         /\ \A q \in Reply(r, type, 0) :
                /\ r[Dest][Source] \in Node /\ q.from = Dest /\ q.to = r[Dest][Source]
                /\ q.type = type /\ q.num = tokens + 1 /\ q.hops = 0
         /\ \A q, s \in Reply(r, type, 0) : q = s
  <1> DEFINE p == [type |-> type, from |-> Dest, to |-> Source,
                   seq |-> 0, num |-> tokens + 1, hops |-> 0]
  <1>1. p \in Packet /\ p.type = type /\ p.num = tokens + 1 /\ p.hops = 0
    BY NodeAssumption DEF Packet
  <1>2. Reply(r, type, 0) = Towards(r, Dest, Source, p)
    BY DEF Reply
  <1> HIDE DEF p
  <1> QED BY <1>1, <1>2, TowardsIs, NodeAssumption

(* The packet that goes on. *)
LEMMA ForwardedIs ==
  ASSUME NEW r \in Tables, NEW p \in carried, NEW d \in Node, carried \subseteq Packet,
         \A q, s \in carried : q = s
  PROVE  /\ Forwarded(p, d, r) \subseteq Packet
         /\ \A q \in Forwarded(p, d, r) :
                /\ r[p.to][d] \in Node /\ q.from = p.to /\ q.to = r[p.to][d]
                /\ q.type = p.type /\ q.num = p.num /\ q.hops = p.hops + 1
         /\ \A q, s \in Forwarded(p, d, r) : q = s
  <1> DEFINE u == [p EXCEPT !.hops = @ + 1]
  <1>1. p \in Packet /\ p.to \in Node
    BY DEF Packet
  <1>2. u \in Packet /\ u.type = p.type /\ u.num = p.num /\ u.hops = p.hops + 1
    BY <1>1 DEF Packet
  <1>3. Forwarded(p, d, r) = Towards(r, p.to, d, u)
    BY DEF Forwarded
  <1> HIDE DEF u
  <1> QED BY <1>1, <1>2, <1>3, TowardsIs

-----------------------------------------------------------------------------
(* What every action leaves typed. *)

LEMMA Typing ==
  ASSUME TypeOK
  PROVE  /\ route \in Tables /\ carried \subseteq Packet
         /\ \A p \in floods : p.from \in Node /\ p.to \in Node /\ p.id \in Nat
                              /\ p.seq \in Nat /\ p.ttl \in 0 .. TTL
         /\ \A p \in carried : /\ p.from \in Node /\ p.to \in Node /\ p.num \in Nat
                               /\ p.hops \in Nat /\ p.seq \in Nat
                               /\ p.type \in {"rrep", "data", "ack"}
  BY DEF TypeOK, Tables, Flood, Packet

(* SendDataAsUnicast, of the number seq along table r. *)
LEMMA SendIs ==
  ASSUME TypeOK, Exchange, NEW seq \in Nat, NEW r \in Tables, NEW A \in SUBSET Nat,
         NEW S \in [Node -> SUBSET Nat], NEW C, C = {},
         SendDataAsUnicast(seq, r, A, S, C)
  PROVE  /\ dsn' \in Nat /\ armed' \subseteq Nat /\ rreqId' \in Nat
         /\ carried' \subseteq Packet /\ floods' \subseteq Flood
         /\ db' \in [Node -> SUBSET (Node \X Nat)] /\ seen' \in [Node -> SUBSET Nat]
         /\ \A p, q \in carried' : p = q
         /\ \A p \in carried' : p.type = "data"
         /\ IF dsn = asn
            THEN /\ floods' = floods /\ seen' = S
                 /\ \/ armed' = A /\ dsn' = dsn /\ carried' = {}
                    \/ armed' = A \cup {seq} /\ dsn' = dsn + 1
            ELSE /\ dsn' = asn /\ armed' = A /\ carried' = {}
                 /\ floods' = floods \cup Broadcast(Source, rreqId, dsn', TTL)
                 /\ seen' = [S EXCEPT ![Source] = @ \cup {rreqId}]
  <1>1. dsn \in Nat /\ asn \in Nat /\ dsn \in {asn, asn + 1}
    BY DEF TypeOK, Exchange
  <1>2. CASE dsn = asn
    <2> DEFINE p == [type |-> "data", from |-> Source, to |-> Dest,
                     seq |-> seq, num |-> 0, hops |-> 0]
    <2>1. p \in Packet /\ p.type = "data"
      BY NodeAssumption DEF Packet
    <2>2. carried' = {} \/ carried' = Towards(r, Source, Dest, p)
      BY <1>2 DEF SendDataAsUnicast
    <2>3. /\ carried' \subseteq Packet
          /\ \A q \in carried' : q.type = "data"
          /\ \A q, s \in carried' : q = s
      <3> HIDE DEF p
      <3> QED BY <2>1, <2>2, TowardsIs, NodeAssumption
    <2>4. floods' = floods /\ rreqId' = rreqId /\ db' = db /\ seen' = S
      BY <1>2 DEF SendDataAsUnicast
    <2>5. \/ armed' = A /\ dsn' = dsn /\ carried' = {}
          \/ armed' = A \cup {seq} /\ dsn' = dsn + 1
      BY <1>2 DEF SendDataAsUnicast
    <2>6. /\ dsn' \in Nat /\ armed' \subseteq Nat
          /\ rreqId' \in Nat /\ floods' \subseteq Flood
          /\ db' \in [Node -> SUBSET (Node \X Nat)]
      <3>1. dsn' \in Nat
        BY <1>1, <2>5
      <3>5. armed' \subseteq A \cup {seq}
        BY <2>5
      <3>4. armed' \subseteq Nat
        BY <3>5
      <3>2. rreqId' \in Nat /\ floods' \subseteq Flood
        BY <2>4 DEF TypeOK
      <3>3. db' \in [Node -> SUBSET (Node \X Nat)]
        BY <2>4 DEF TypeOK
      <3> QED BY <3>1, <3>2, <3>3, <3>4
    <2> HIDE DEF p
    <2> QED BY <1>2, <2>3, <2>4, <2>5, <2>6, Zenon
  <1>3. CASE dsn # asn
    <2>1. /\ dsn' = dsn - 1 /\ armed' = A /\ carried' = {}
          /\ db' = [db EXCEPT ![Source] = @ \cup {<< Dest, dsn - 1 >>}]
          /\ floods' = floods \cup Broadcast(Source, rreqId, dsn - 1, TTL)
          /\ rreqId' = rreqId + 1
          /\ seen' = [S EXCEPT ![Source] = @ \cup {rreqId}]
      BY <1>3 DEF SendDataAsUnicast, SendRouteRequest
    <2>2. dsn - 1 = asn
      BY <1>1, <1>3
    <2>3. Broadcast(Source, rreqId, dsn - 1, TTL) \subseteq Flood
      <3>1. rreqId \in Nat /\ dsn - 1 \in Nat
        BY <1>1, <2>2 DEF TypeOK
      <3> QED BY <3>1, BroadcastIs, Constants
    <2>4. db' \in [Node -> SUBSET (Node \X Nat)] /\ seen' \in [Node -> SUBSET Nat]
      BY <2>1, <2>2, <1>1, NodeAssumption DEF TypeOK
    <2> QED BY <1>1, <1>3, <2>1, <2>2, <2>3, <2>4 DEF TypeOK
  <1> QED BY <1>2, <1>3

(* A packet of Dest that passes leaves the tables typed. *)
LEMMA PassesIs ==
  ASSUME TypeOK, NEW p, Passes(p)
  PROVE  /\ p \in carried /\ p.to \in Node /\ p.from \in Node
         /\ route' \in Tables
         /\ route'[p.to][p.from] = p.from /\ route'[p.to][Dest] = p.from
         /\ \A k, m \in Node : k # p.to \/ (m # p.from /\ m # Dest) =>
                route'[k][m] = route[k][m]
         /\ num' \in [Node -> Nat] /\ far' \in [Node -> Nat]
         /\ at' = at /\ left' = left
         /\ \A k \in Node : num'[k] = (IF k = p.to THEN p.num ELSE num[k])
         /\ \A k \in Node : far'[k] = (IF k = p.to THEN p.hops + 1 ELSE far[k])
  <1>1. p \in carried /\ route' = SetRoutes(p.to, p.from, Dest)
    BY DEF Passes
  <1>2. route \in Tables /\ p.to \in Node /\ p.from \in Node /\ p.num \in Nat /\ p.hops \in Nat
    BY <1>1, Typing
  <1>3. /\ route' \in Tables
        /\ route'[p.to][p.from] = p.from /\ route'[p.to][Dest] = p.from
        /\ \A k, m \in Node : k # p.to \/ (m # p.from /\ m # Dest) =>
                route'[k][m] = route[k][m]
    BY <1>1, <1>2, SetRoutesIs, Constants
  <1>4. /\ num' = [num EXCEPT ![p.to] = p.num] /\ far' = [far EXCEPT ![p.to] = p.hops + 1]
        /\ at' = at /\ left' = left /\ num \in [Node -> Nat] /\ far \in [Node -> Nat]
    BY DEF Passes, TypeOK
  <1>5. num' \in [Node -> Nat] /\ far' \in [Node -> Nat]
    BY <1>2, <1>4
  <1> QED BY <1>1, <1>2, <1>3, <1>4, <1>5

(* A request that is not a duplicate. *)
LEMMA RequestIs ==
  ASSUME TypeOK, NEW p, RecvRouteRequest(p), ~IsDuplicate(p)
  PROVE  /\ p \in floods /\ p.to \in Node /\ p.from \in Node /\ p.id \notin seen[p.to]
         /\ route' \in Tables
         /\ route'[p.to][p.from] = p.from /\ route'[p.to][Source] = p.from
         /\ \A k, m \in Node : k # p.to \/ (m # p.from /\ m # Source) =>
                route'[k][m] = route[k][m]
         /\ seen' \in [Node -> SUBSET Nat]
         /\ \A k \in Node : seen'[k] = (IF k = p.to THEN seen[k] \cup {p.id} ELSE seen[k])
         /\ at' \in [Node -> Nat] /\ left' \in [Node -> Nat]
         /\ \A k \in Node : at'[k] = (IF k = p.to THEN round ELSE at[k])
         /\ \A k \in Node : left'[k] = (IF k = p.to THEN p.ttl ELSE left[k])
         /\ floods' \subseteq Flood
         /\ \A q \in floods' : \/ q \in floods
                               \/ p.to # Dest /\ q.from = p.to /\ q.id = p.id /\ q.ttl < p.ttl
         /\ \/ carried' = carried /\ tokens' = tokens
            \/ p.to = Dest /\ carried' = carried \cup Reply(route', "rrep", 0)
               /\ tokens' = tokens + 1
         /\ num' = num /\ far' = far
  <1>1. /\ p \in floods /\ route' = SetRoutes(p.to, p.from, Source)
        /\ seen' = [seen EXCEPT ![p.to] = @ \cup {p.id}]
        /\ at' = [at EXCEPT ![p.to] = round] /\ left' = [left EXCEPT ![p.to] = p.ttl]
        /\ floods' = (floods \ {p}) \cup (IF p.to = Dest THEN {} ELSE ForwardRouteRequest(p))
        /\ num' = num /\ far' = far /\ p.id \notin seen[p.to]
    BY DEF RecvRouteRequest, IsDuplicate
  <1>2. \/ carried' = carried /\ tokens' = tokens
        \/ p.to = Dest /\ carried' = carried \cup Reply(route', "rrep", 0)
           /\ tokens' = tokens + 1
    BY DEF RecvRouteRequest
  <1>3. /\ route \in Tables /\ p.to \in Node /\ p.from \in Node /\ p.id \in Nat
        /\ p.seq \in Nat /\ p.ttl \in 0 .. TTL
    BY <1>1, Typing
  <1>4. /\ route' \in Tables
        /\ route'[p.to][p.from] = p.from /\ route'[p.to][Source] = p.from
        /\ \A k, m \in Node : k # p.to \/ (m # p.from /\ m # Source) =>
                route'[k][m] = route[k][m]
    <2>1. route' = SetRoutes(p.to, p.from, Source)
      BY <1>1
    <2> QED BY <1>3, <2>1, SetRoutesIs, Constants
  <1>5. /\ seen' \in [Node -> SUBSET Nat] /\ at' \in [Node -> Nat] /\ left' \in [Node -> Nat]
        /\ \A k \in Node : seen'[k] = (IF k = p.to THEN seen[k] \cup {p.id} ELSE seen[k])
        /\ \A k \in Node : at'[k] = (IF k = p.to THEN round ELSE at[k])
        /\ \A k \in Node : left'[k] = (IF k = p.to THEN p.ttl ELSE left[k])
    <2>1. round \in Nat /\ p.ttl \in Nat
      BY <1>3, NodeAssumption DEF TypeOK
    <2> QED BY <1>1, <1>3, <2>1 DEF TypeOK
  <1>6. /\ ForwardRouteRequest(p) \subseteq Flood
        /\ \A q \in ForwardRouteRequest(p) : q.from = p.to /\ q.id = p.id /\ q.ttl < p.ttl
    <2>1. CASE p.ttl > 0
      <3>1. p.ttl - 1 \in 0 .. TTL /\ p.ttl - 1 < p.ttl
        BY <2>1, <1>3, NodeAssumption
      <3>2. ForwardRouteRequest(p) = Broadcast(p.to, p.id, p.seq, p.ttl - 1)
        BY <2>1 DEF ForwardRouteRequest
      <3> QED BY <1>3, <3>1, <3>2, BroadcastIs
    <2>2. CASE ~(p.ttl > 0)
      BY <2>2 DEF ForwardRouteRequest
    <2> QED BY <2>1, <2>2
  <1>7. floods \subseteq Flood
    BY DEF TypeOK
  <1> QED BY <1>1, <1>2, <1>3, <1>4, <1>5, <1>6, <1>7

LEMMA TypeStep ==
  ASSUME TypeOK, Exchange, Next
  PROVE  TypeOK'
  <1>1. CASE HandleData
    <2>1. Broadcast(Source, rreqId, dsn, TTL) \subseteq Flood
      <3>1. rreqId \in Nat /\ dsn \in Nat
        BY DEF TypeOK
      <3> QED BY <3>1, BroadcastIs, Constants
    <2>2. floods' \subseteq Flood /\ rreqId' \in Nat
      BY <1>1, <2>1 DEF TypeOK, HandleData, SendRouteRequest
    <2>3. db' \in [Node -> SUBSET (Node \X Nat)] /\ seen' \in [Node -> SUBSET Nat]
      BY <1>1, Constants DEF TypeOK, HandleData
    <2>4. started' \in BOOLEAN
      BY <1>1 DEF HandleData
    <2> QED BY <1>1, <2>2, <2>3, <2>4 DEF TypeOK, HandleData, tables, air
  <1>2. ASSUME NEW seq \in armed, FireTimer(seq) PROVE TypeOK'
    <2>1. SendDataAsUnicast(seq, route, armed \ {seq}, [n \in Node |-> {}], carried)
      BY <1>2 DEF FireTimer
    <2>2. /\ seq \in Nat /\ route \in Tables /\ armed \ {seq} \in SUBSET Nat
          /\ [n \in Node |-> {}] \in [Node -> SUBSET Nat] /\ carried = {}
      BY <1>2, Typing DEF TypeOK, FireTimer, IsDue
    <2>3. /\ dsn' \in Nat /\ armed' \subseteq Nat /\ rreqId' \in Nat
          /\ carried' \subseteq Packet /\ floods' \subseteq Flood
          /\ db' \in [Node -> SUBSET (Node \X Nat)] /\ seen' \in [Node -> SUBSET Nat]
      BY <2>1, <2>2, SendIs
    <2>4. round' \in 1 .. MaxRounds + 1 /\ dataSeen' \in [Node -> SUBSET Nat]
      BY <1>2, NodeAssumption DEF FireTimer, TypeOK
    <2> QED BY <1>2, <2>3, <2>4 DEF TypeOK, FireTimer, tables, air
  <1>3. ASSUME NEW p \in floods, RecvRouteRequest(p) PROVE TypeOK'
    <2>1. CASE IsDuplicate(p)
      <3>1. floods' \subseteq floods
        BY <1>3, <2>1 DEF RecvRouteRequest
      <3>2. UNCHANGED << carried, tables, seen, tokens, air, sender, dataSeen, db >>
        BY <1>3, <2>1 DEF RecvRouteRequest
      <3> QED BY <3>1, <3>2 DEF TypeOK, tables, sender, air
    <2>2. CASE ~IsDuplicate(p)
      <3>1. /\ route' \in Tables /\ seen' \in [Node -> SUBSET Nat]
            /\ at' \in [Node -> Nat] /\ left' \in [Node -> Nat] /\ floods' \subseteq Flood
            /\ \/ carried' = carried /\ tokens' = tokens
               \/ carried' = carried \cup Reply(route', "rrep", 0) /\ tokens' = tokens + 1
            /\ num' = num /\ far' = far
        BY <1>3, <2>2, RequestIs
      <3>2. tokens' \in Nat /\ carried' \subseteq Packet
        BY <3>1, ReplyIs DEF TypeOK
      <3>3. UNCHANGED << air, sender, dataSeen, db >>
        BY <1>3 DEF RecvRouteRequest
      <3> QED BY <3>1, <3>2, <3>3 DEF TypeOK, sender, Tables, air
    <2> QED BY <2>1, <2>2
  <1>4. ASSUME NEW p \in carried, RecvRouteReply(p) PROVE TypeOK'
    <2>1. /\ route' \in Tables /\ num' \in [Node -> Nat] /\ far' \in [Node -> Nat]
          /\ at' = at /\ left' = left
      BY <1>4, PassesIs DEF RecvRouteReply
    <2>2. carried \ {p} = {}
      BY DEF Exchange
    <2>3. UNCHANGED << air, asn, started, round, dataSeen, tokens >>
      BY <1>4 DEF RecvRouteReply
    <2>4. /\ dsn' \in Nat /\ armed' \subseteq Nat /\ rreqId' \in Nat
          /\ carried' \subseteq Packet /\ floods' \subseteq Flood
          /\ db' \in [Node -> SUBSET (Node \X Nat)] /\ seen' \in [Node -> SUBSET Nat]
      <3>1. CASE p.to = Source /\ << Dest, dsn >> \in db[Source]
        <4>1. SendDataAsUnicast(dsn, route', armed, seen, carried \ {p})
          BY <1>4, <3>1 DEF RecvRouteReply
        <4>2. dsn \in Nat /\ armed \in SUBSET Nat /\ seen \in [Node -> SUBSET Nat]
          BY DEF TypeOK
        <4> QED BY <2>1, <2>2, <4>1, <4>2, SendIs
      <3>2. CASE ~(p.to = Source /\ << Dest, dsn >> \in db[Source])
        <4>1. UNCHANGED << armed, dsn, db, seen, floods, rreqId >>
          BY <1>4, <3>2 DEF RecvRouteReply
        <4>2. carried' = {} \/ carried' = Forwarded(p, Source, route')
          BY <1>4, <2>2, <3>2 DEF RecvRouteReply
        <4>3. carried' \subseteq Packet
          BY <2>1, <4>2, Typing, ForwardedIs, Constants DEF Exchange
        <4> QED BY <4>1, <4>3 DEF TypeOK
      <3> QED BY <3>1, <3>2
    <2> QED BY <2>1, <2>3, <2>4 DEF TypeOK, Tables, air
  <1>5. ASSUME NEW p \in carried, RecvData(p) PROVE TypeOK'
    <2>1. p.seq \in Nat /\ p.to \in Node /\ route \in Tables /\ carried \subseteq Packet
      BY Typing
    <2>2. UNCHANGED << air, floods, tables, sender, seen >>
      BY <1>5 DEF RecvData
    <2>3. dataSeen' \in [Node -> SUBSET Nat]
      BY <1>5, <2>1 DEF RecvData, TypeOK
    <2>4. db' = db \/ db' = [db EXCEPT ![Dest] = @ \cup {<< Dest, p.seq >>}]
      BY <1>5 DEF RecvData
    <2>5. db' \in [Node -> SUBSET (Node \X Nat)]
      BY <2>1, <2>4, Constants DEF TypeOK
    <2>6. \/ carried' = carried \ {p} /\ tokens' = tokens
          \/ carried' = (carried \ {p}) \cup Reply(route, "ack", 0) /\ tokens' = tokens + 1
          \/ carried' = Forwarded(p, Dest, route) /\ tokens' = tokens
      BY <1>5 DEF RecvData
    <2>7. tokens \in Nat
      BY DEF TypeOK
    <2>8. Reply(route, "ack", 0) \subseteq Packet
      BY <2>1, <2>7, ReplyIs
    <2>9. Forwarded(p, Dest, route) \subseteq Packet
      BY <2>1, ForwardedIs, Constants DEF Exchange
    <2>10. tokens' \in Nat /\ carried' \subseteq Packet
      BY <2>1, <2>6, <2>7, <2>8, <2>9
    <2> QED BY <2>2, <2>3, <2>5, <2>10 DEF TypeOK, tables, sender, air
  <1>6. ASSUME NEW p \in carried, RecvAck(p) PROVE TypeOK'
    <2>1. /\ route' \in Tables /\ num' \in [Node -> Nat] /\ far' \in [Node -> Nat]
          /\ at' = at /\ left' = left
      BY <1>6, PassesIs DEF RecvAck
    <2>2. UNCHANGED << air, floods, seen, dataSeen, db, rreqId, dsn, armed, started, round, tokens >>
      BY <1>6 DEF RecvAck
    <2>3. \/ asn' = asn + 1 /\ carried' = carried \ {p}
          \/ asn' = asn /\ carried' = Forwarded(p, Source, route')
      BY <1>6 DEF RecvAck
    <2>4. Forwarded(p, Source, route') \subseteq Packet
      BY <2>1, Typing, ForwardedIs, Constants DEF Exchange
    <2>5. asn' \in Nat /\ carried' \subseteq Packet
      BY <2>3, <2>4 DEF TypeOK
    <2> QED BY <2>1, <2>2, <2>5 DEF TypeOK, Tables, air
  <1>7. CASE Move
    BY <1>7 DEF Move, TypeOK, tables, sender
  <1>8. CASE Lose
    <2>1. floods' \subseteq floods /\ carried' \subseteq carried
      BY <1>8 DEF Lose
    <2> QED BY <1>8, <2>1 DEF Lose, TypeOK, tables, sender, air
  <1> QED BY <1>1, <1>2, <1>3, <1>4, <1>5, <1>6, <1>7, <1>8 DEF Next, Fire, Receive

-----------------------------------------------------------------------------
(* One exchange at a time. *)

LEMMA ExchangeStep ==
  ASSUME Inv, Next
  PROVE  Exchange'
  <1> USE DEF Inv
  <1>1. CASE HandleData
    <2>1. carried' = {} /\ armed' = {} /\ dsn' = asn' /\ started' = TRUE
      BY <1>1 DEF HandleData, Exchange
    <2>2. floods' = Broadcast(Source, rreqId, dsn, TTL)
      BY <1>1 DEF HandleData, SendRouteRequest, Exchange
    <2>3. rreqId \in Nat /\ dsn \in Nat
      BY DEF TypeOK
    <2>4. \A q \in floods' : q.id = rreqId
      BY <2>2, <2>3, BroadcastIs, Constants
    <2> QED BY <2>1, <2>4 DEF Exchange
  <1>2. ASSUME NEW seq \in armed, FireTimer(seq) PROVE Exchange'
    <2>1. SendDataAsUnicast(seq, route, armed \ {seq}, [n \in Node |-> {}], carried)
      BY <1>2 DEF FireTimer
    <2>2. /\ seq \in Nat /\ route \in Tables /\ armed \ {seq} \in SUBSET Nat
          /\ [n \in Node |-> {}] \in [Node -> SUBSET Nat] /\ carried = {}
      BY <1>2, Typing DEF TypeOK, FireTimer, IsDue
    <2>3. armed \ {seq} = {} /\ floods = {} /\ asn' = asn /\ started' = started /\ started
      BY <1>2 DEF FireTimer, IsDue, Exchange
    <2>4. dsn \in Nat /\ asn \in Nat /\ rreqId \in Nat
      BY DEF TypeOK
    <2>5. CASE dsn = asn
      <3>1. /\ floods' = {} /\ \A p, q \in carried' : p = q
            /\ \A p \in carried' : p.type = "data"
            /\ \/ armed' = {} /\ dsn' = asn' /\ carried' = {}
               \/ armed' = {seq} /\ dsn' = asn' + 1
        <4>1. /\ floods' = floods /\ \A p, q \in carried' : p = q
              /\ \A p \in carried' : p.type = "data"
              /\ \/ armed' = armed \ {seq} /\ dsn' = dsn /\ carried' = {}
                 \/ armed' = (armed \ {seq}) \cup {seq} /\ dsn' = dsn + 1
          BY <2>1, <2>2, <2>5, SendIs
        <4> QED BY <2>3, <2>5, <4>1
      <3>2. CASE armed' = {} /\ dsn' = asn' /\ carried' = {}
        BY <2>3, <3>1, <3>2 DEF Exchange
      <3>3. CASE armed' = {seq} /\ dsn' = asn' + 1
        <4>1. armed' # {} /\ \A s, t \in armed' : s = t
          BY <3>3
        <4> QED BY <2>3, <3>1, <3>3, <4>1 DEF Exchange
      <3> QED BY <3>1, <3>2, <3>3
    <2>6. CASE dsn # asn
      <3>1. /\ armed' = {} /\ dsn' = asn' /\ carried' = {}
            /\ floods' = Broadcast(Source, rreqId, asn, TTL)
        BY <2>1, <2>2, <2>3, <2>6, SendIs
      <3>2. \A q \in floods' : q.id = rreqId
        BY <2>4, <3>1, BroadcastIs, Constants
      <3> QED BY <2>3, <3>1, <3>2 DEF Exchange
    <2> QED BY <2>5, <2>6
  <1>3. ASSUME NEW p \in floods, RecvRouteRequest(p) PROVE Exchange'
    <2>1. started' = started /\ armed' = armed /\ dsn' = dsn /\ asn' = asn /\ started
      BY <1>3 DEF RecvRouteRequest, sender, Exchange
    <2>2. CASE IsDuplicate(p)
      <3>1. floods' \subseteq floods /\ carried' = carried /\ seen' = seen
        BY <1>3, <2>2 DEF RecvRouteRequest
      <3> QED BY <2>1, <3>1 DEF Exchange
    <2>3. CASE ~IsDuplicate(p)
      <3>1. /\ p.to \in Node /\ p.id \notin seen[p.to] /\ route' \in Tables
            /\ \A k \in Node : seen'[k] = (IF k = p.to THEN seen[k] \cup {p.id} ELSE seen[k])
            /\ \A q \in floods' : q \in floods \/ q.id = p.id
            /\ \/ carried' = carried
               \/ p.to = Dest /\ carried' = carried \cup Reply(route', "rrep", 0)
        BY <1>3, <2>3, RequestIs
      <3>2. \A q \in floods' : q.id = p.id
        BY <3>1 DEF Exchange
      <3>3. CASE p.to = Dest
        <4>1. carried = {} /\ armed = {}
          BY <3>1, <3>3 DEF Exchange
        <4>2. p.id \in seen'[Dest]
          BY <3>1, <3>3
        <4>3. carried' = {} \/ carried' = Reply(route', "rrep", 0)
          BY <3>1, <4>1
        <4>4. (\A q, s \in carried' : q = s) /\ \A q \in carried' : q.type = "rrep"
          BY <3>1, <4>3, ReplyIs DEF TypeOK
        <4> QED BY <2>1, <3>2, <4>1, <4>2, <4>4 DEF Exchange
      <3>4. CASE p.to # Dest
        <4>1. carried' = carried /\ seen'[Dest] = seen[Dest]
          BY <3>1, <3>4, Constants
        <4> QED BY <2>1, <3>2, <4>1 DEF Exchange
      <3> QED BY <3>3, <3>4
    <2> QED BY <2>2, <2>3
  <1>4. ASSUME NEW p \in carried, RecvRouteReply(p) PROVE Exchange'
    <2>1. /\ carried \ {p} = {} /\ armed = {} /\ dsn = asn /\ started
          /\ \A q \in floods : q.id \in seen[Dest]
      BY <1>4 DEF Exchange, RecvRouteReply
    <2>2. route' \in Tables
      BY <1>4, PassesIs DEF RecvRouteReply
    <2>3. asn' = asn /\ started' = started
      BY <1>4 DEF RecvRouteReply
    <2>4. CASE p.to = Source /\ << Dest, dsn >> \in db[Source]
      <3>1. SendDataAsUnicast(dsn, route', armed, seen, carried \ {p})
        BY <1>4, <2>4 DEF RecvRouteReply
      <3>2. dsn \in Nat /\ asn \in Nat /\ armed \in SUBSET Nat /\ seen \in [Node -> SUBSET Nat]
        BY DEF TypeOK
      <3>3. /\ floods' = floods /\ seen' = seen /\ \A r, q \in carried' : r = q
            /\ \A q \in carried' : q.type = "data"
            /\ \/ armed' = armed /\ dsn' = dsn /\ carried' = {}
               \/ armed' = armed \cup {dsn} /\ dsn' = dsn + 1
        BY <2>1, <2>2, <3>1, <3>2, SendIs
      <3>4. \/ armed' = {} /\ dsn' = asn' /\ carried' = {}
            \/ armed' = {dsn} /\ dsn' = asn' + 1
        BY <2>1, <2>3, <3>3
      <3> QED BY <2>1, <2>3, <3>3, <3>4 DEF Exchange
    <2>5. CASE ~(p.to = Source /\ << Dest, dsn >> \in db[Source])
      <3>1. UNCHANGED << armed, dsn, seen, floods >>
        BY <1>4, <2>5 DEF RecvRouteReply
      <3>2. carried' = {} \/ carried' = Forwarded(p, Source, route')
        BY <1>4, <2>1, <2>5 DEF RecvRouteReply
      <3>3. (\A q, s \in carried' : q = s) /\ \A q \in carried' : q.type = "rrep"
        BY <1>4, <2>2, <3>2, Typing, ForwardedIs, Constants DEF Exchange, RecvRouteReply
      <3> QED BY <2>1, <2>3, <3>1, <3>3 DEF Exchange
    <2> QED BY <2>4, <2>5
  <1>5. ASSUME NEW p \in carried, RecvData(p) PROVE Exchange'
    <2>1. /\ carried \ {p} = {} /\ armed # {} /\ dsn = asn + 1 /\ started
          /\ \A q \in floods : q.id \in seen[Dest]
      BY <1>5 DEF Exchange, RecvData
    <2>2. UNCHANGED << floods, dsn, asn, armed, started, seen >>
      BY <1>5 DEF RecvData, sender
    <2>3. \/ carried' = {}
          \/ carried' = Reply(route, "ack", 0)
          \/ carried' = Forwarded(p, Dest, route)
      BY <1>5, <2>1 DEF RecvData
    <2>4. route \in Tables /\ carried \subseteq Packet /\ tokens \in Nat
      BY Typing DEF TypeOK
    <2>5. /\ \A q, s \in Reply(route, "ack", 0) : q = s
          /\ \A q \in Reply(route, "ack", 0) : q.type # "rrep"
      BY <2>4, ReplyIs
    <2>6. /\ \A q, s \in Forwarded(p, Dest, route) : q = s
          /\ \A q \in Forwarded(p, Dest, route) : q.type # "rrep"
      BY <1>5, <2>4, ForwardedIs, Constants DEF Exchange, RecvData
    <2>7. (\A q, s \in carried' : q = s) /\ \A q \in carried' : q.type # "rrep"
      BY <2>3, <2>5, <2>6
    <2> QED BY <2>1, <2>2, <2>7 DEF Exchange
  <1>6. ASSUME NEW p \in carried, RecvAck(p) PROVE Exchange'
    <2>1. /\ carried \ {p} = {} /\ armed # {} /\ dsn = asn + 1 /\ started
          /\ \A q \in floods : q.id \in seen[Dest]
      BY <1>6 DEF Exchange, RecvAck
    <2>2. UNCHANGED << floods, dsn, armed, started, seen >>
      BY <1>6 DEF RecvAck
    <2>3. \/ asn' = asn + 1 /\ carried' = {}
          \/ asn' = asn /\ carried' = Forwarded(p, Source, route')
      BY <1>6, <2>1 DEF RecvAck
    <2>4. route' \in Tables
      BY <1>6, PassesIs DEF RecvAck
    <2>5. /\ \A q, s \in Forwarded(p, Source, route') : q = s
          /\ \A q \in Forwarded(p, Source, route') : q.type # "rrep"
      BY <1>6, <2>4, Typing, ForwardedIs, Constants DEF Exchange, RecvAck
    <2> QED BY <2>1, <2>2, <2>3, <2>5 DEF Exchange
  <1>7. CASE Move
    BY <1>7 DEF Move, Exchange, sender
  <1>8. CASE Lose
    <2>1. floods' \subseteq floods /\ carried' \subseteq carried
      BY <1>8 DEF Lose
    <2>2. UNCHANGED << sender, seen >>
      BY <1>8 DEF Lose
    <2> QED BY <2>1, <2>2 DEF Exchange, sender
  <1> QED BY <1>1, <1>2, <1>3, <1>4, <1>5, <1>6, <1>7, <1>8 DEF Next, Fire, Receive

-----------------------------------------------------------------------------
(* Nearness to Source is a strict order, and a packet of Dest goes down it. *)

LEMMA BelowOrder ==
  ASSUME TypeOK
  PROVE  /\ \A v \in Node : ~Below(v, v)
         /\ \A u, v, w \in Node : Below(u, v) /\ Below(v, w) => Below(u, w)
         /\ \A v, w \in Node : Below(v, w) /\ w # Source => at[v] <= at[w]
  BY DEF TypeOK, Below

LEMMA TokenIs ==
  ASSUME TypeOK, Forward, NEW p \in carried, p.type # "data"
  PROVE  /\ p.to \in Node /\ p.from \in Node /\ p.num = tokens
         /\ p.to # Dest /\ p.from # Source /\ p.from # p.to
         /\ p.from = Dest \/ (num[p.from] = p.num /\ far[p.from] = p.hops)
         /\ \A v \in Node : v = Dest \/ num[v] = p.num => Below(v, p.to) /\ at[Dest] <= at[v]
  <1>1. p.to \in Node /\ p.from \in Node
    BY Typing
  <1>2. /\ p.num = tokens
        /\ p.from = Dest \/ (num[p.from] = p.num /\ far[p.from] = p.hops)
        /\ \A v \in Node : v = Dest \/ num[v] = p.num => Below(v, p.to) /\ at[Dest] <= at[v]
    BY DEF Forward
  <1>3. Below(p.from, p.to) /\ Below(Dest, p.to)
    BY <1>1, <1>2, Constants
  <1>4. p.from # p.to /\ p.to # Dest
    BY <1>1, <1>3, BelowOrder, Constants
  <1>5. p.from # Source
    BY <1>3 DEF Below
  <1> QED BY <1>1, <1>2, <1>4, <1>5

-----------------------------------------------------------------------------
(* Next hops stay neighbours: entries are set two at a time. *)

(* Both entries at n are set to next, the neighbour a packet came from. *)
LEMMA HopsSet ==
  ASSUME TypeOK, Hops, NEW n \in Node, NEW next \in Node, NEW dst \in {Source, Dest},
         next \in {Source, Dest} => next = dst,
         NEW r \in Tables, r[n][next] = next, r[n][dst] = next,
         \A k, m \in Node : k # n \/ (m # next /\ m # dst) => r[k][m] = route[k][m],
         NEW k \in Node, NEW d \in Node, r[k][d] # None
  PROVE  r[k][r[k][d]] = r[k][d] /\ (r[k][d] \in {Source, Dest} => r[k][d] = d)
  <1>1. CASE k = n /\ (d = next \/ d = dst)
    BY <1>1
  <1>2. CASE k # n \/ (d # next /\ d # dst)
    <2>1. r[k][d] = route[k][d] /\ route[k][d] \in Node
      BY <1>2 DEF Tables
    <2>2. /\ route[k][route[k][d]] = route[k][d]
          /\ route[k][d] \in {Source, Dest} => route[k][d] = d
      BY <2>1 DEF Hops
    <2>3. CASE k # n \/ (route[k][d] # next /\ route[k][d] # dst)
      BY <2>1, <2>2, <2>3
    <2>4. CASE k = n /\ route[k][d] = next
      BY <2>1, <2>2, <2>4
    <2>5. CASE k = n /\ route[k][d] = dst
      BY <1>2, <2>2, <2>5
    <2> QED BY <2>3, <2>4, <2>5
  <1> QED BY <1>1, <1>2

LEMMA HopsStep ==
  ASSUME Inv, Next
  PROVE  Hops'
  <1> USE DEF Inv
  <1>1. CASE route' = route
    BY <1>1 DEF Hops
  <1>2. ASSUME NEW p \in floods, RecvRouteRequest(p), ~IsDuplicate(p) PROVE Hops'
    <2>1. /\ p.to \in Node /\ p.from \in Node /\ route' \in Tables
          /\ route'[p.to][p.from] = p.from /\ route'[p.to][Source] = p.from
          /\ \A k, m \in Node : k # p.to \/ (m # p.from /\ m # Source) =>
                route'[k][m] = route[k][m]
      BY <1>2, RequestIs
    <2>2. p.from # Dest
      BY DEF Backward
    <2>3. \A k, d \in Node : route'[k][d] # None =>
            /\ route'[k][route'[k][d]] = route'[k][d]
            /\ route'[k][d] \in {Source, Dest} => route'[k][d] = d
      BY <2>1, <2>2, HopsSet
    <2> QED BY <2>3 DEF Hops
  <1>3. ASSUME NEW p \in carried, p.type # "data", Passes(p) PROVE Hops'
    <2>1. /\ p.to \in Node /\ p.from \in Node /\ route' \in Tables
          /\ route'[p.to][p.from] = p.from /\ route'[p.to][Dest] = p.from
          /\ \A k, m \in Node : k # p.to \/ (m # p.from /\ m # Dest) =>
                route'[k][m] = route[k][m]
      BY <1>3, PassesIs
    <2>2. p.from # Source
      BY <1>3, TokenIs
    <2>3. \A k, d \in Node : route'[k][d] # None =>
            /\ route'[k][route'[k][d]] = route'[k][d]
            /\ route'[k][d] \in {Source, Dest} => route'[k][d] = d
      BY <2>1, <2>2, HopsSet
    <2> QED BY <2>3 DEF Hops
  <1>4. \/ route' = route
        \/ \E p \in floods : RecvRouteRequest(p) /\ ~IsDuplicate(p)
        \/ \E p \in carried : p.type # "data" /\ Passes(p)
    BY DEF Next, HandleData, Fire, FireTimer, Receive, RecvRouteRequest, RecvRouteReply,
           RecvData, RecvAck, Move, Lose, tables
  <1> QED BY <1>1, <1>2, <1>3, <1>4

-----------------------------------------------------------------------------
(* Routes to Source. *)

LEMMA BackwardStep ==
  ASSUME Inv, Next
  PROVE  Backward'
  <1> USE DEF Inv
  <1>1. /\ round \in Nat /\ at \in [Node -> Nat] /\ left \in [Node -> Nat]
        /\ seen \in [Node -> SUBSET Nat] /\ rreqId \in Nat /\ dsn \in Nat /\ asn \in Nat
    BY NodeAssumption DEF TypeOK
  (* A new flood, of which only Source knows, in a round that is new. *)
  <1>2. ASSUME started', UNCHANGED << route, at, left >>, NEW seq \in Nat,
               floods' = Broadcast(Source, rreqId, seq, TTL),
               round' \in Nat, \A n \in Node : at[n] < round',
               rreqId \in seen'[Source],
               \A n \in Node \ {Source} : seen'[n] = {}
        PROVE  Backward'
    <2>1. \A q \in floods' : q.from = Source /\ q.id = rreqId
      <3>1. \A q \in Broadcast(Source, rreqId, seq, TTL) : q.from = Source /\ q.id = rreqId
        BY <1>1, BroadcastIs, Constants
      <3> QED BY <1>2, <3>1
    <2>2. \A n \in Node : at'[n] < round' /\ at'[n] <= round' /\ left'[n] <= TTL
      BY <1>1, <1>2 DEF Backward
    <2>3. \A q \in floods' :
            /\ q.from # Dest /\ q.id \in seen'[q.from] /\ q.id \in seen'[Source]
            /\ q.from # Source => at'[q.from] = round' /\ left'[q.from] > q.ttl
            /\ \A n \in Node : at'[n] = round' => q.id \in seen'[n]
            /\ \A n \in Node \ {Source} : q.id \in seen'[n] => at'[n] = round'
      BY <1>1, <1>2, <2>1, <2>2, Constants
    <2>4. \A n \in Node \ {Source} :
            route'[n][Source] # None => Below(n, route[n][Source])'
      BY <1>2 DEF Backward, Below
    <2> QED BY <1>2, <2>2, <2>3, <2>4 DEF Backward
  (* No flood is added and no route to Source is set. *)
  <1>3. ASSUME floods' \subseteq floods, UNCHANGED << round, seen, at, left >>,
               started => started',
               \A n \in Node : route'[n][Source] = route[n][Source]
        PROVE  Backward'
    <2>1. \A n \in Node \ {Source} :
            route'[n][Source] # None => Below(n, route[n][Source])'
      BY <1>3 DEF Backward, Below
    <2> QED BY <1>3, <2>1 DEF Backward
  <1>4. CASE HandleData
    <2>1. floods' = Broadcast(Source, rreqId, dsn, TTL)
      BY <1>4 DEF HandleData, SendRouteRequest, Exchange
    <2>2. /\ started' /\ UNCHANGED << route, at, left, round >>
          /\ \A n \in Node : at[n] < round /\ seen[n] = {}
          /\ seen' = [seen EXCEPT ![Source] = @ \cup {rreqId}]
      BY <1>4 DEF HandleData, tables, Backward
    <2>3. rreqId \in seen'[Source] /\ \A n \in Node \ {Source} : seen'[n] = {}
      BY <1>1, <2>2, Constants
    <2> QED BY <1>1, <1>2, <2>1, <2>2, <2>3
  <1>5. ASSUME NEW seq \in armed, FireTimer(seq) PROVE Backward'
    <2>1. SendDataAsUnicast(seq, route, armed \ {seq}, [n \in Node |-> {}], carried)
      BY <1>5 DEF FireTimer
    <2>2. /\ seq \in Nat /\ route \in Tables /\ armed \ {seq} \in SUBSET Nat
          /\ [n \in Node |-> {}] \in [Node -> SUBSET Nat] /\ carried = {} /\ floods = {}
      BY <1>5, Typing DEF TypeOK, FireTimer, IsDue
    <2>3. /\ UNCHANGED << route, at, left, asn, started >> /\ started /\ round' = round + 1
      BY <1>5 DEF FireTimer, tables, Exchange
    <2>4. \A n \in Node : at[n] < round' /\ at[n] <= round' /\ left[n] <= TTL
      BY <1>1, <2>3 DEF Backward
    <2>5. CASE dsn = asn
      <3>1. floods' = {}
        BY <2>1, <2>2, <2>5, SendIs
      <3>2. \A n \in Node \ {Source} :
              route'[n][Source] # None => Below(n, route[n][Source])'
        BY <2>3 DEF Backward, Below
      <3> QED BY <2>3, <2>4, <3>1, <3>2 DEF Backward
    <2>6. CASE dsn # asn
      <3>1. /\ floods' = floods \cup Broadcast(Source, rreqId, dsn', TTL) /\ dsn' = asn
            /\ seen' = [[n \in Node |-> {}] EXCEPT ![Source] = @ \cup {rreqId}]
        BY <2>1, <2>2, <2>6, SendIs
      <3>2. rreqId \in seen'[Source] /\ \A n \in Node \ {Source} : seen'[n] = {}
        BY <3>1, Constants
      <3>3. floods' = Broadcast(Source, rreqId, asn, TTL)
        BY <2>2, <3>1
      <3> QED BY <1>1, <1>2, <2>3, <2>4, <3>2, <3>3
    <2> QED BY <2>5, <2>6
  <1>6. ASSUME NEW p \in floods, RecvRouteRequest(p) PROVE Backward'
    <2>1. UNCHANGED << round, started >> /\ started
      BY <1>6 DEF RecvRouteRequest, sender, Exchange
    <2>2. CASE IsDuplicate(p)
      <3>1. floods' \subseteq floods /\ UNCHANGED << seen, at, left, route >>
        BY <1>6, <2>2 DEF RecvRouteRequest, tables
      <3> QED BY <1>3, <2>1, <3>1
    <2>3. CASE ~IsDuplicate(p)
      <3> DEFINE n == p.to
      <3>1. /\ n \in Node /\ p.from \in Node /\ p.id \notin seen[n] /\ route' \in Tables
            /\ route'[n][Source] = p.from
            /\ \A k \in Node : k # n => route'[k][Source] = route[k][Source]
            /\ \A k \in Node : seen'[k] = (IF k = n THEN seen[k] \cup {p.id} ELSE seen[k])
            /\ \A k \in Node : at'[k] = (IF k = n THEN round ELSE at[k])
            /\ \A k \in Node : left'[k] = (IF k = n THEN p.ttl ELSE left[k])
            /\ \A q \in floods' : \/ q \in floods
                                  \/ n # Dest /\ q.from = n /\ q.id = p.id /\ q.ttl < p.ttl
        BY <1>6, <2>3, RequestIs, Constants
      <3>2. p.ttl \in Nat /\ p.ttl <= TTL
        BY Typing, NodeAssumption
      <3>3. \A q \in floods : q.from \in Node /\ q.ttl \in Nat
        BY Typing, NodeAssumption
      <3>4. \A q \in floods :
              /\ q.id = p.id /\ q.from # Dest /\ p.id \in seen[q.from] /\ p.id \in seen[Source]
              /\ q.from # Source => at[q.from] = round /\ left[q.from] > q.ttl
              /\ \A k \in Node : at[k] = round => p.id \in seen[k]
              /\ \A k \in Node \ {Source} : p.id \in seen[k] => at[k] = round
        BY DEF Backward, Exchange
      <3>5. n # Source /\ \A q \in floods : q.from # n
        BY <3>1, <3>4
      <3>6. \A k \in Node : at'[k] <= round' /\ left'[k] <= TTL
        BY <1>1, <2>1, <3>1, <3>2 DEF Backward
      <3> HIDE DEF n
      <3>7. \A q \in floods' :
            /\ q.from # Dest /\ q.id \in seen'[q.from] /\ q.id \in seen'[Source]
            /\ q.from # Source => at'[q.from] = round' /\ left'[q.from] > q.ttl
            /\ \A k \in Node : at'[k] = round' => q.id \in seen'[k]
            /\ \A k \in Node \ {Source} : q.id \in seen'[k] => at'[k] = round'
        <4> SUFFICES ASSUME NEW q \in floods'
                     PROVE  /\ q.from # Dest /\ q.id \in seen'[q.from] /\ q.id \in seen'[Source]
                            /\ q.from # Source => at'[q.from] = round' /\ left'[q.from] > q.ttl
                            /\ \A k \in Node : at'[k] = round' => q.id \in seen'[k]
                            /\ \A k \in Node \ {Source} : q.id \in seen'[k] => at'[k] = round'
          OBVIOUS
        <4>1. q.id = p.id
          BY <3>1, <3>4
        <4>2. q.from # Dest /\ p.id \in seen'[q.from] /\ p.id \in seen'[Source]
          BY <3>1, <3>3, <3>4, Constants
        <4>3. q.from # Source => at'[q.from] = round' /\ left'[q.from] > q.ttl
          BY <2>1, <3>1, <3>3, <3>4, <3>5
        <4>4. \A k \in Node : at'[k] = round' => p.id \in seen'[k]
          BY <2>1, <3>1, <3>4
        <4>5. \A k \in Node \ {Source} : p.id \in seen'[k] => at'[k] = round'
          BY <2>1, <3>1, <3>4
        <4> QED BY <4>1, <4>2, <4>3, <4>4, <4>5
      <3>8. ASSUME NEW k \in Node \ {Source}, route'[k][Source] # None
            PROVE  Below(k, route[k][Source])'
        <4> DEFINE w == route'[k][Source]
        <4>1. w \in Node
          BY <3>1, <3>8, Constants DEF Tables
        <4> SUFFICES w # Source => at'[w] > at'[k] \/ (at'[w] = at'[k] /\ left'[w] > left'[k])
          BY DEF Below
        <4>2. CASE k = n
          BY <3>1, <3>4, <3>5, <4>2
        <4>3. CASE k # n
          <5>1. w = route[k][Source] /\ Below(k, w)
            BY <3>1, <3>8, <4>3 DEF Backward
          <5>2. CASE w # n
            BY <3>1, <4>1, <4>3, <5>1, <5>2 DEF Below
          <5>3. CASE w = n
            <6>1. at[w] # round /\ at[w] <= round /\ at[k] <= round
              BY <3>1, <3>4, <5>3 DEF Backward
            <6>2. at[w] >= at[k]
              BY <1>1, <3>5, <4>1, <5>1, <5>3 DEF Below
            <6>3. at[k] < round
              BY <1>1, <4>1, <6>1, <6>2
            <6> HIDE DEF w
            <6> QED BY <1>1, <3>1, <4>3, <5>3, <6>3
          <5> QED BY <5>2, <5>3
        <4> QED BY <4>2, <4>3
      <3> QED BY <2>1, <3>6, <3>7, <3>8 DEF Backward
    <2> QED BY <2>2, <2>3
  <1>7. ASSUME NEW p \in carried, p.type # "data", Passes(p)
        PROVE  at' = at /\ left' = left /\ \A k \in Node : route'[k][Source] = route[k][Source]
    BY <1>7, PassesIs, TokenIs, Constants
  <1>8. ASSUME NEW p \in carried, RecvRouteReply(p) PROVE Backward'
    <2>1. /\ carried \ {p} = {} /\ armed = {} /\ dsn = asn /\ route' \in Tables
      BY <1>8, PassesIs DEF Exchange, RecvRouteReply
    <2>2. floods' = floods /\ seen' = seen
      BY <1>8, <2>1 DEF RecvRouteReply, SendDataAsUnicast
    <2>3. UNCHANGED << started, round >>
      BY <1>8 DEF RecvRouteReply
    <2> QED BY <1>3, <1>7, <1>8, <2>2, <2>3 DEF RecvRouteReply
  <1>9. ASSUME NEW p \in carried, RecvData(p) PROVE Backward'
    BY <1>3, <1>9 DEF RecvData, tables, sender
  <1>10. ASSUME NEW p \in carried, RecvAck(p) PROVE Backward'
    BY <1>3, <1>7, <1>10 DEF RecvAck
  <1>11. CASE Move
    BY <1>3, <1>11 DEF Move, tables, sender
  <1>12. CASE Lose
    <2>1. floods' \subseteq floods
      BY <1>12 DEF Lose
    <2> QED BY <1>3, <1>12, <2>1 DEF Lose, tables, sender
  <1> QED
    BY <1>4, <1>5, <1>6, <1>8, <1>9, <1>10, <1>11, <1>12 DEF Next, Fire, Receive

-----------------------------------------------------------------------------
(* Routes to Dest. *)

LEMMA ForwardStep ==
  ASSUME Inv, TypeOK', Backward', Next
  PROVE  Forward'
  <1> USE DEF Inv
  <1>1. /\ tokens \in Nat /\ num \in [Node -> Nat] /\ far \in [Node -> Nat]
        /\ at \in [Node -> Nat] /\ round \in Nat
    BY NodeAssumption DEF TypeOK
  (* No route to Dest is set, and packets of Dest are lost at most. *)
  <1>2. ASSUME UNCHANGED << num, far, tokens, at, left >>,
               \A k \in Node : route'[k][Dest] = route[k][Dest],
               \A p \in carried' : p.type # "data" => p \in carried
        PROVE  Forward'
    <2>1. \A n \in Node \ {Dest} :
            route'[n][Dest] \notin {None, Dest} => Nearer(n, route[n][Dest])'
      BY <1>2 DEF Forward, Nearer
    <2>2. \A v, w : Below(v, w) => Below(v, w)'
      BY <1>2 DEF Below
    <2>3. \A p \in carried' : p.type # "data" =>
            /\ p.num = tokens' /\ p.num > 0
            /\ p.from = Dest \/ (num'[p.from] = p.num /\ far'[p.from] = p.hops)
            /\ \A v \in Node :
                v = Dest \/ num'[v] = p.num => Below(v, p.to)' /\ at'[Dest] <= at'[v]
      BY <1>2, <2>2 DEF Forward
    <2>4. \A n \in Node : num'[n] <= tokens'
      BY <1>2 DEF Forward
    <2> QED BY <2>1, <2>3, <2>4 DEF Forward, Nearer
  (* Dest sends a packet of its own. *)
  <1>3. ASSUME UNCHANGED << num, far >>, tokens' = tokens + 1,
               \A k \in Node : route'[k][Dest] = route[k][Dest],
               \A p \in carried' : /\ p.from = Dest /\ p.to = route'[Dest][Source]
                                   /\ p.to \in Node /\ p.num = tokens + 1
        PROVE  Forward'
    <2>1. \A n \in Node : num'[n] <= tokens' /\ num'[n] # tokens'
      BY <1>1, <1>3 DEF Forward
    <2>2. \A n \in Node \ {Dest} :
            route'[n][Dest] \notin {None, Dest} => Nearer(n, route[n][Dest])'
      BY <1>3 DEF Forward, Nearer
    <2>3. ASSUME NEW p \in carried'
          PROVE  /\ p.num = tokens' /\ p.num > 0 /\ p.from = Dest
                 /\ \A v \in Node :
                     v = Dest \/ num'[v] = p.num => Below(v, p.to)' /\ at'[Dest] <= at'[v]
      <3>1. p.to \in Node /\ p.to = route'[Dest][Source] /\ p.num = tokens'
        BY <1>3
      <3>2. Below(Dest, route[Dest][Source])'
        BY <3>1, Constants DEF Backward
      <3>3. Below(Dest, p.to)'
        BY <3>1, <3>2 DEF Below
      <3>4. at'[Dest] <= at'[Dest]
        BY Constants DEF TypeOK
      <3>5. \A v \in Node : v = Dest \/ num'[v] = p.num => v = Dest
        BY <2>1, <3>1
      <3>6. p.num > 0
        BY <1>1, <1>3
      <3> QED BY <1>3, <3>1, <3>3, <3>4, <3>5, <3>6
    <2> QED BY <2>1, <2>2, <2>3 DEF Forward, Nearer
  (* A packet of Dest passes, and goes on unless it has arrived. *)
  <1>4. ASSUME NEW p \in carried, p.type # "data", Passes(p), tokens' = tokens,
               \A q \in carried' :
                    q.type = "data" \/ (p.to # Source /\ q \in Forwarded(p, Source, route'))
        PROVE  Forward'
    <2> DEFINE n == p.to
    <2>1. /\ n \in Node /\ p.from \in Node /\ p.num = tokens
          /\ n # Dest /\ p.from # Source /\ p.from # n
          /\ p.from = Dest \/ (num[p.from] = p.num /\ far[p.from] = p.hops)
          /\ \A v \in Node : v = Dest \/ num[v] = p.num => Below(v, n) /\ at[Dest] <= at[v]
      BY <1>4, TokenIs
    <2>2. /\ route' \in Tables /\ route'[n][Dest] = p.from
          /\ \A k \in Node \ {n} : route'[k][Dest] = route[k][Dest]
          /\ at' = at /\ left' = left
          /\ \A k \in Node : num'[k] = (IF k = n THEN p.num ELSE num[k])
          /\ \A k \in Node : far'[k] = (IF k = n THEN p.hops + 1 ELSE far[k])
      BY <1>4, PassesIs, Constants
    <2>3. p.hops \in Nat /\ p.num > 0
      BY <1>4, Typing DEF Forward
    <2> HIDE DEF n
    <2>4. \A k \in Node : num'[k] <= tokens'
      BY <1>1, <1>4, <2>1, <2>2 DEF Forward
    <2>5. ASSUME NEW m \in Node \ {Dest}, route'[m][Dest] \notin {None, Dest}
          PROVE  Nearer(m, route[m][Dest])'
      <3> DEFINE k == route'[m][Dest]
      <3>1. k \in Node
        BY <2>2, <2>5, Constants DEF Tables
      <3> SUFFICES num'[k] > num'[m] \/ (num'[k] = num'[m] /\ far'[k] < far'[m])
        BY DEF Nearer
      <3>2. CASE m = n
        <4>1. k = p.from /\ num[k] = p.num /\ far[k] = p.hops /\ k # n
          BY <2>1, <2>2, <2>5, <3>2
        <4> HIDE DEF k
        <4> QED BY <2>1, <2>2, <2>3, <3>1, <3>2, <4>1
      <3>3. CASE m # n
        <4>1. k = route[m][Dest] /\ k \notin {None, Dest}
          BY <2>2, <2>5, <3>3
        <4>2. num[k] > num[m] \/ (num[k] = num[m] /\ far[k] < far[m])
          BY <4>1 DEF Forward, Nearer
        <4> HIDE DEF k
        <4>3. CASE k # n
          BY <2>2, <3>1, <3>3, <4>2, <4>3
        <4>4. CASE k = n
          <5>1. num[m] <= tokens /\ num[n] <= tokens
            BY <2>1 DEF Forward
          <5>2. num[n] # p.num
            BY <2>1, BelowOrder
          <5>3. num[m] < tokens
            BY <1>1, <2>1, <4>2, <4>4, <5>1, <5>2
          <5> QED BY <2>1, <2>2, <3>3, <4>4, <5>3
        <4> QED BY <4>3, <4>4
      <3> QED BY <3>2, <3>3
    <2>6. ASSUME NEW q \in carried', q.type # "data"
          PROVE  /\ q.num = tokens' /\ q.num > 0
                 /\ num'[q.from] = q.num /\ far'[q.from] = q.hops
                 /\ \A v \in Node :
                     v = Dest \/ num'[v] = q.num => Below(v, q.to)' /\ at'[Dest] <= at'[v]
      <3>1. p.to # Source /\ q \in Forwarded(p, Source, route')
        BY <1>4, <2>6
      <3>2. /\ q.to \in Node /\ q.from = n /\ q.to = route'[n][Source]
            /\ q.num = p.num /\ q.hops = p.hops + 1
        BY <2>2, <3>1, Typing, ForwardedIs, Constants DEF Exchange, n
      <3>3. n # Source
        BY <3>1 DEF n
      <3>4. Below(n, route[n][Source])'
        BY <2>1, <3>2, <3>3, Constants DEF Backward
      <3>5. Below(n, q.to)
        BY <2>2, <3>2, <3>4 DEF Below
      <3>6. ASSUME NEW v \in Node, v = Dest \/ num'[v] = q.num
            PROVE  Below(v, q.to) /\ at[Dest] <= at[v]
        <4>1. CASE v = n
          BY <2>1, <3>3, <3>5, <4>1, BelowOrder, Constants
        <4>2. CASE v # n
          <5>1. Below(v, n) /\ at[Dest] <= at[v]
            BY <2>1, <2>2, <3>2, <3>6, <4>2
          <5> QED BY <2>1, <3>2, <3>5, <5>1, BelowOrder
        <4> QED BY <4>1, <4>2
      <3>7. \A v \in Node :
              v = Dest \/ num'[v] = q.num => Below(v, q.to)' /\ at'[Dest] <= at'[v]
        BY <2>2, <3>6 DEF Below
      <3> QED BY <1>4, <2>1, <2>2, <2>3, <3>2, <3>7
    <2> QED BY <2>4, <2>5, <2>6 DEF Forward, Nearer
  <1>5. CASE HandleData
    BY <1>2, <1>5 DEF HandleData, tables
  <1>6. ASSUME NEW seq \in armed, FireTimer(seq) PROVE Forward'
    <2>1. SendDataAsUnicast(seq, route, armed \ {seq}, [n \in Node |-> {}], carried)
      BY <1>6 DEF FireTimer
    <2>2. /\ seq \in Nat /\ route \in Tables /\ armed \ {seq} \in SUBSET Nat
          /\ [n \in Node |-> {}] \in [Node -> SUBSET Nat] /\ carried = {}
      BY <1>6, Typing DEF TypeOK, FireTimer, IsDue
    <2>3. \A p \in carried' : p.type = "data"
      BY <2>1, <2>2, SendIs
    <2> QED BY <1>2, <1>6, <2>3 DEF FireTimer, tables
  <1>7. ASSUME NEW p \in floods, RecvRouteRequest(p) PROVE Forward'
    <2>1. CASE IsDuplicate(p)
      BY <1>2, <1>7, <2>1 DEF RecvRouteRequest, tables
    <2>2. CASE ~IsDuplicate(p)
      <3> DEFINE n == p.to
      <3>1. /\ n \in Node /\ p.id \notin seen[n] /\ route' \in Tables
            /\ \A k, m \in Node : k # n \/ (m # p.from /\ m # Source) =>
                    route'[k][m] = route[k][m]
            /\ \A k \in Node : at'[k] = (IF k = n THEN round ELSE at[k])
            /\ \A k \in Node : left'[k] = (IF k = n THEN p.ttl ELSE left[k])
            /\ \/ carried' = carried /\ tokens' = tokens
               \/ n = Dest /\ carried' = carried \cup Reply(route', "rrep", 0)
                  /\ tokens' = tokens + 1
            /\ num' = num /\ far' = far
        BY <1>7, <2>2, RequestIs
      <3>2. /\ p.from # Dest /\ p.id \in seen[Source]
            /\ \A k \in Node : at[k] = round => p.id \in seen[k]
            /\ \A k \in Node \ {Source} : p.id \in seen[k] => at[k] = round
        BY DEF Backward
      <3> HIDE DEF n
      <3>3. n # Source /\ \A k \in Node : route'[k][Dest] = route[k][Dest]
        BY <3>1, <3>2, Constants
      <3>4. n = Dest => carried = {}
        BY <3>1 DEF Exchange
      <3>5. CASE n = Dest /\ carried' = Reply(route', "rrep", 0) /\ tokens' = tokens + 1
        BY <1>1, <1>3, <3>1, <3>3, <3>5, ReplyIs
      <3>6. CASE carried' = carried /\ tokens' = tokens
        <4>1. ASSUME NEW q \in carried, q.type # "data", NEW v \in Node,
                     v = Dest \/ num[v] = q.num
              PROVE  Below(v, q.to)' /\ at'[Dest] <= at'[v]
          <5>1. q.to \in Node /\ Below(v, q.to) /\ at[Dest] <= at[v] /\ v # Source
            BY <4>1, TokenIs DEF Below
          <5>2. p.id \in seen[Dest]
            BY DEF Exchange
          <5>3. at[Dest] = round /\ at[v] <= round
            BY <3>2, <5>2, Constants DEF Backward
          <5>4. at[v] = round
            BY <1>1, <5>1, <5>3, Constants
          <5>5. v # n /\ Dest # n
            BY <3>1, <3>2, <5>2, <5>4
          <5>6. q.to # n
            <6>1. CASE q.to = Source
              BY <3>3, <6>1
            <6>2. CASE q.to # Source
              <7>1. at[v] <= at[q.to] /\ at[q.to] <= round
                BY <5>1, <6>2, BelowOrder DEF Backward
              <7>2. at[q.to] = round
                BY <1>1, <5>1, <5>4, <7>1
              <7> QED BY <3>1, <3>2, <5>1, <7>2
            <6> QED BY <6>1, <6>2
          <5>7. /\ at'[v] = at[v] /\ at'[Dest] = at[Dest] /\ at'[q.to] = at[q.to]
                /\ left'[v] = left[v] /\ left'[q.to] = left[q.to]
            BY <3>1, <5>1, <5>5, <5>6, Constants
          <5> QED BY <5>1, <5>7 DEF Below
        <4>2. \A k \in Node \ {Dest} :
                route'[k][Dest] \notin {None, Dest} => Nearer(k, route[k][Dest])'
          BY <3>1, <3>3 DEF Forward, Nearer
        <4>3. \A q \in carried' : q.type # "data" =>
                /\ q.num = tokens' /\ q.num > 0
                /\ q.from = Dest \/ (num'[q.from] = q.num /\ far'[q.from] = q.hops)
          BY <3>1, <3>6 DEF Forward
        <4>4. \A k \in Node : num'[k] <= tokens'
          BY <3>1, <3>6 DEF Forward
        <4> QED BY <3>1, <3>6, <4>1, <4>2, <4>3, <4>4 DEF Forward, Nearer
      <3> QED BY <3>1, <3>4, <3>5, <3>6
    <2> QED BY <2>1, <2>2
  <1>8. ASSUME NEW p \in carried, RecvRouteReply(p) PROVE Forward'
    <2>1. /\ carried \ {p} = {} /\ armed = {} /\ dsn = asn /\ route' \in Tables
      BY <1>8, PassesIs DEF Exchange, RecvRouteReply
    <2>2. CASE p.to = Source /\ << Dest, dsn >> \in db[Source]
      <3>1. SendDataAsUnicast(dsn, route', armed, seen, carried \ {p})
        BY <1>8, <2>2 DEF RecvRouteReply
      <3>2. dsn \in Nat /\ armed \in SUBSET Nat /\ seen \in [Node -> SUBSET Nat]
        BY DEF TypeOK
      <3>3. \A q \in carried' : q.type = "data"
        BY <2>1, <3>1, <3>2, SendIs
      <3> QED BY <1>4, <1>8, <3>3 DEF RecvRouteReply
    <2>3. CASE ~(p.to = Source /\ << Dest, dsn >> \in db[Source])
      <3>1. carried' = {} \/ (p.to # Source /\ carried' = Forwarded(p, Source, route'))
        BY <1>8, <2>1, <2>3 DEF RecvRouteReply
      <3> QED BY <1>4, <1>8, <3>1 DEF RecvRouteReply
    <2> QED BY <2>2, <2>3
  <1>9. ASSUME NEW p \in carried, RecvData(p) PROVE Forward'
    <2>1. carried \ {p} = {} /\ p.type = "data"
      BY <1>9 DEF Exchange, RecvData
    <2>2. UNCHANGED << route, num, far, at, left >>
      BY <1>9 DEF RecvData, tables
    <2>3. \/ carried' = {} /\ tokens' = tokens
          \/ carried' = Reply(route, "ack", 0) /\ tokens' = tokens + 1
          \/ carried' = Forwarded(p, Dest, route) /\ tokens' = tokens
      BY <1>9, <2>1 DEF RecvData
    <2>4. route \in Tables /\ carried \subseteq Packet
      BY Typing
    <2>5. CASE carried' = {} /\ tokens' = tokens
      BY <1>2, <2>2, <2>5
    <2>6. CASE carried' = Reply(route, "ack", 0) /\ tokens' = tokens + 1
      BY <1>1, <1>3, <2>2, <2>4, <2>6, ReplyIs
    <2>7. CASE carried' = Forwarded(p, Dest, route) /\ tokens' = tokens
      <3>1. \A q \in carried' : q.type = "data"
        BY <2>1, <2>4, <2>7, ForwardedIs, Constants DEF Exchange
      <3> QED BY <1>2, <2>2, <2>7, <3>1
    <2> QED BY <2>3, <2>5, <2>6, <2>7
  <1>10. ASSUME NEW p \in carried, RecvAck(p) PROVE Forward'
    <2>1. carried \ {p} = {}
      BY DEF Exchange
    <2>2. carried' = {} \/ (p.to # Source /\ carried' = Forwarded(p, Source, route'))
      BY <1>10, <2>1 DEF RecvAck
    <2> QED BY <1>4, <1>10, <2>2 DEF RecvAck
  <1>11. CASE Move
    BY <1>2, <1>11 DEF Move, tables
  <1>12. CASE Lose
    <2>1. carried' \subseteq carried
      BY <1>12 DEF Lose
    <2> QED BY <1>2, <1>12, <2>1 DEF Lose, tables
  <1> QED
    BY <1>5, <1>6, <1>7, <1>8, <1>9, <1>10, <1>11, <1>12 DEF Next, Fire, Receive

-----------------------------------------------------------------------------
(* The invariant, and what follows from it. *)

LEMMA InvInit == Init => Inv
  <1> SUFFICES ASSUME Init PROVE Inv
    OBVIOUS
  <1>1. TypeOK
    <2>1. /\ floods \subseteq Flood /\ carried \subseteq Packet /\ armed \subseteq Nat
          /\ link \in Topologies /\ started \in BOOLEAN /\ calm \in BOOLEAN
      BY DEF Init
    <2>2. route \in [Node -> [Node -> Node \cup {None}]]
      BY DEF Init
    <2>3. /\ seen \in [Node -> SUBSET Nat] /\ dataSeen \in [Node -> SUBSET Nat]
          /\ db \in [Node -> SUBSET (Node \X Nat)]
      BY DEF Init
    <2>4. /\ at \in [Node -> Nat] /\ left \in [Node -> Nat]
          /\ num \in [Node -> Nat] /\ far \in [Node -> Nat]
      BY DEF Init
    <2>5. /\ rreqId \in Nat /\ dsn \in Nat /\ asn \in Nat /\ tokens \in Nat
          /\ round \in 1 .. MaxRounds + 1
      BY NodeAssumption DEF Init
    <2> QED BY <2>1, <2>2, <2>3, <2>4, <2>5 DEF TypeOK
  <1>2. Exchange
    BY DEF Init, Exchange
  <1>3. Backward
    BY Constants DEF Init, Backward
  <1>4. Forward
    BY Constants DEF Init, Forward
  <1>5. Hops
    BY DEF Init, Hops
  <1> QED BY <1>1, <1>2, <1>3, <1>4, <1>5 DEF Inv

LEMMA InvStep == Inv /\ [Next]_vars => Inv'
  <1>1. ASSUME Inv, Next PROVE Inv'
    <2>1. TypeOK'
      BY <1>1, TypeStep DEF Inv
    <2>2. Backward'
      BY <1>1, BackwardStep
    <2> QED BY <1>1, <2>1, <2>2, ExchangeStep, ForwardStep, HopsStep DEF Inv
  <1>2. ASSUME Inv, UNCHANGED vars PROVE Inv'
    <2>1. /\ UNCHANGED << link, calm, floods, carried, route, at, left, num, far, seen, dataSeen >>
          /\ UNCHANGED << rreqId, dsn, asn, armed, started, round, db, tokens >>
      BY <1>2 DEF vars, air, tables, sender
    <2>2. TypeOK'
      BY <1>2, <2>1 DEF Inv, TypeOK
    <2>3. Exchange' /\ Hops'
      BY <1>2, <2>1 DEF Inv, Exchange, Hops
    <2>4. Backward'
      BY <1>2, <2>1 DEF Inv, Backward, Below
    <2>5. Forward'
      BY <1>2, <2>1 DEF Inv, Forward, Nearer, Below
    <2> QED BY <2>2, <2>3, <2>4, <2>5 DEF Inv
  <1> QED BY <1>1, <1>2

LEMMA InvHolds == Spec => []Inv
  BY InvInit, InvStep, PTL DEF Spec

(* The number of data not acknowledged never goes below zero: every        *)
(* variable keeps its type (m_dataseqno is unsigned).                      *)
THEOREM AodvTypeCorrect == Spec => []TypeOK
  BY InvHolds, PTL DEF Inv

(* For any nodes, losses and movements at most one data is not             *)
(* acknowledged, its timer runs, and one packet is under way.              *)
THEOREM StopAndWaitHolds == Spec => []StopAndWait
  <1>1. Inv => StopAndWait
    BY DEF Inv, Exchange, StopAndWait
  <1> QED BY <1>1, InvHolds, PTL

(* Every next hop is a neighbour with an entry of its own. *)
THEOREM HopsAreDirectHolds == Spec => []HopsAreDirect
  <1>1. Inv => HopsAreDirect
    BY DEF Inv, Hops, HopsAreDirect
  <1> QED BY <1>1, InvHolds, PTL

LEMMA NatMinimum ==
  ASSUME NEW T \in SUBSET Nat, T # {}
  PROVE  \E x \in T : \A y \in T : x <= y
  <1>1. PICK x \in T : \A y \in T : ~(<< y, x >> \in OpToRel(<, Nat))
    BY WFMin, NatLessThanWellFounded
  <1>2. \A y \in T : ~(y < x)
    BY <1>1 DEF OpToRel
  <1> QED BY <1>2

(* A set has a member with the least first and, among these, the least     *)
(* second measure.                                                         *)
LEMMA LexicalMinimum ==
  ASSUME NEW S, S # {}, NEW f \in [S -> Nat], NEW g \in [S -> Nat]
  PROVE  \E n \in S : \A m \in S : f[n] <= f[m] /\ (f[n] = f[m] => g[n] <= g[m])
  <1>1. PICK x \in {f[n] : n \in S} : \A y \in {f[n] : n \in S} : x <= y
    <2>1. {f[n] : n \in S} \in SUBSET Nat /\ {f[n] : n \in S} # {}
      OBVIOUS
    <2> QED BY <2>1, NatMinimum
  <1> DEFINE M == {n \in S : f[n] = x}
  <1>2. PICK x2 \in {g[n] : n \in M} : \A y \in {g[n] : n \in M} : x2 <= y
    <2>1. {g[n] : n \in M} \in SUBSET Nat /\ {g[n] : n \in M} # {}
      BY <1>1
    <2> QED BY <2>1, NatMinimum
  <1>3. PICK n \in M : g[n] = x2
    BY <1>2
  <1> QED BY <1>1, <1>2, <1>3

(* For any nodes, losses and movements: neither are replies and            *)
(* acknowledgements passed round among nodes, whatever floods their routes *)
(* to Source come from, nor is data on its way to Dest, over routes that   *)
(* packets of different rounds have set.                                   *)
THEOREM NoLoopHolds == Spec => []NoLoop
  <1>1. Inv => LeadsTo(Source)
    <2> SUFFICES ASSUME Inv, NEW S \in SUBSET (Node \ {Source}), S # {},
                        \A n \in S : route[n][Source] \in S
                 PROVE  FALSE
      BY DEF LeadsTo
    <2> DEFINE f == [n \in S |-> round - at[n]]
               g == [n \in S |-> TTL - left[n]]
    <2>1. /\ round \in Nat /\ TTL \in Nat /\ at \in [Node -> Nat] /\ left \in [Node -> Nat]
          /\ \A n \in Node : at[n] <= round /\ left[n] <= TTL
      BY NodeAssumption DEF Inv, TypeOK, Backward
    <2>2. f \in [S -> Nat] /\ g \in [S -> Nat]
      BY <2>1
    <2>3. PICK n \in S : \A m \in S : f[n] <= f[m] /\ (f[n] = f[m] => g[n] <= g[m])
      <3> HIDE DEF f, g
      <3> QED BY <2>2, LexicalMinimum
    <2>4. PICK w \in S : w = route[n][Source]
      OBVIOUS
    <2>5. w # Source /\ w \in Node /\ Below(n, w)
      BY <2>4, Constants DEF Inv, Backward
    <2>6. at[w] > at[n] \/ (at[w] = at[n] /\ left[w] > left[n])
      BY <2>5 DEF Below
    <2>7. f[n] <= f[w] /\ (f[n] = f[w] => g[n] <= g[w])
      BY <2>3
    <2> QED BY <2>1, <2>5, <2>6, <2>7
  <1>2. Inv => LeadsTo(Dest)
    <2> SUFFICES ASSUME Inv, NEW S \in SUBSET (Node \ {Dest}), S # {},
                        \A n \in S : route[n][Dest] \in S
                 PROVE  FALSE
      BY DEF LeadsTo
    <2> DEFINE f == [n \in S |-> tokens - num[n]]
               g == [n \in S |-> far[n]]
    <2>1. /\ tokens \in Nat /\ num \in [Node -> Nat] /\ far \in [Node -> Nat]
          /\ \A n \in Node : num[n] <= tokens
      BY DEF Inv, TypeOK, Forward
    <2>2. f \in [S -> Nat] /\ g \in [S -> Nat]
      BY <2>1
    <2>3. PICK n \in S : \A m \in S : f[n] <= f[m] /\ (f[n] = f[m] => g[n] <= g[m])
      <3> HIDE DEF f, g
      <3> QED BY <2>2, LexicalMinimum
    <2>4. PICK w \in S : w = route[n][Dest]
      OBVIOUS
    <2>5. w \notin {None, Dest} /\ w \in Node
      BY <2>4, Constants
    <2>6. num[w] > num[n] \/ (num[w] = num[n] /\ far[w] < far[n])
      BY <2>4, <2>5 DEF Inv, Forward, Nearer
    <2>7. f[n] <= f[w] /\ (f[n] = f[w] => g[n] <= g[w])
      BY <2>3
    <2> QED BY <2>1, <2>5, <2>6, <2>7
  <1> QED BY <1>1, <1>2, InvHolds, PTL DEF NoLoop
=============================================================================
