----------------------------- MODULE SimpleAodv -----------------------------
(* simpleaodv-a, the ancestor of the protocol of ferry2: node 1 sends data *)
(* to node 100 over a way found by flooding a route request, and goes on   *)
(* when the data has been acknowledged (RoutingProtocol in                 *)
(* simple-protocol.cc).                                                    *)
(*                                                                         *)
(* Time is left out but for this: the delays of all packets of a round     *)
(* (at most 100 ms for a request, 20 to 30 ms for every hop) stay below    *)
(* the 1 s for which an IdCache remembers, and that below the 2 s of       *)
(* DataSendUnicastTimer.  So when that timer fires no packet is under way  *)
(* and all caches have forgotten.  The timer that repeats a request never  *)
(* fires: UnicastTimeoutTimer, set to current_data_send = 0 s together     *)
(* with it, cancels it at once.                                            *)
EXTENDS Integers, FiniteSets

CONSTANTS
    Node,
    Source, Dest,          \* the nodes 1 and 100
    None,                  \* no entry in a routing table
    TTL,                   \* of a route request, 18
    Topologies,            \* sets of pairs of nodes in range of each other
    MaxRounds              \* bound: how often DataSendUnicastTimer fires

ASSUME NodeAssumption ==
    /\ Source \in Node /\ Dest \in Node /\ Source # Dest /\ None \notin Node
    /\ TTL \in Nat /\ MaxRounds \in Nat /\ Topologies \subseteq SUBSET (Node \X Node)

VARIABLES
    link,         \* who is in range of whom
    calm,         \* never changes: no node moves and no packet is lost
    floods,       \* route requests under way, one for each receiver
    carried,      \* other packets under way
    route,        \* m_routingTablemagr: next hop
    seen,         \* m_rreqIdCache, ids of requests of Source
    dataSeen,     \* m_dataIdCache, numbers of data of Source
    db,           \* m_db: keys of the data held, a node and a number
    rreqId,       \* m_rreqId of Source
    dsn,          \* m_dataseqno of Source; the other nodes only write theirs
    asn,          \* m_ackseqno of Source
    armed,        \* numbers of data whose DataSendUnicastTimer runs
    started,      \* HandleDataTimer has fired
    round,        \* rounds begun: one more than DataSendUnicastTimer has fired
    (* History: the round and the ttl of the request that set the route to *)
    (* Source, and the number and the hops of the packet that set the      *)
    (* route to Dest.                                                      *)
    at, left, num, far,
    tokens        \* history: packets sent by Dest

air == << link, calm >>
tables == << route, at, left, num, far >>
sender == << rreqId, dsn, asn, armed, started, round >>
vars == << air, floods, carried, tables, sender, seen, dataSeen, db, tokens >>

Flood == [from : Node, to : Node, id : Nat, seq : Nat, ttl : 0 .. TTL]
Packet == [type : {"rrep", "data", "ack"}, from : Node, to : Node,
           seq : Nat, num : Nat, hops : Nat]

Init ==
    /\ link \in Topologies /\ calm \in BOOLEAN /\ floods = {} /\ carried = {}
    /\ route = [n \in Node |-> [m \in Node |-> None]]
    /\ seen = [n \in Node |-> {}] /\ dataSeen = [n \in Node |-> {}]
    /\ db = [n \in Node |-> {}]
    /\ rreqId = 0 /\ dsn = 0 /\ asn = 0 /\ armed = {}
    /\ started = FALSE /\ round = 1 /\ tokens = 0
    /\ at = [n \in Node |-> 0] /\ left = [n \in Node |-> 0]
    /\ num = [n \in Node |-> 0] /\ far = [n \in Node |-> 0]

-----------------------------------------------------------------------------
(* The radio, and the network layer under SendTo. *)

Broadcast(n, id, seq, ttl) ==
    {[from |-> n, to |-> m, id |-> id, seq |-> seq, ttl |-> ttl] :
        m \in {k \in Node : << n, k >> \in link}}

(* RouteOutput looks the next hop up again: only its own entry leads there. *)
Unicast(p, r) ==
    IF r[p.from][p.to] = p.to /\ << p.from, p.to >> \in link THEN {p} ELSE {}

(* To d along the table r of node n, as type; nothing without an entry. *)
Towards(r, n, d, p) ==
    IF r[n][d] = None THEN {} ELSE Unicast([p EXCEPT !.from = n, !.to = r[n][d]], r)

(* SetRoute(next, next) and SetRoute(next, dst) at node n. *)
SetRoutes(n, next, dst) ==
    [route EXCEPT ![n] = [m \in Node |-> IF m \in {next, dst} THEN next ELSE route[n][m]]]

-----------------------------------------------------------------------------
(* TryUnicastRouting: one flood, which nothing repeats. *)
SendRouteRequest(seq) ==
    /\ floods' = floods \cup Broadcast(Source, rreqId, seq, TTL)
    /\ rreqId' = rreqId + 1

(* SendDataAsUnicast.  With the number of the last data not acknowledged,  *)
(* the number is taken back and a new way is looked for; else the data is  *)
(* sent along table r and the timer set.  A are the timers left running, S *)
(* and C the caches and the packets left.                                  *)
SendDataAsUnicast(seq, r, A, S, C) ==
    IF dsn # asn
    THEN /\ dsn' = dsn - 1
         /\ db' = [db EXCEPT ![Source] = @ \cup {<< Dest, dsn - 1 >>}]
         /\ SendRouteRequest(dsn - 1)
         /\ seen' = [S EXCEPT ![Source] = @ \cup {rreqId}]
         /\ armed' = A /\ carried' = C
    ELSE /\ IF r[Source][Dest] = None
            THEN armed' = A /\ dsn' = dsn /\ carried' = C
            ELSE /\ armed' = A \cup {seq} /\ dsn' = dsn + 1
                 /\ carried' = C \cup Towards(r, Source, Dest,
                        [type |-> "data", from |-> Source, to |-> Dest,
                         seq |-> seq, num |-> 0, hops |-> 0])
         /\ seen' = S /\ UNCHANGED << floods, rreqId, db >>

HandleData ==
    /\ ~started /\ started' = TRUE
    /\ db' = [db EXCEPT ![Source] = @ \cup {<< Dest, dsn >>}]
    /\ SendRouteRequest(dsn)
    /\ seen' = [seen EXCEPT ![Source] = @ \cup {rreqId}]
    /\ UNCHANGED << air, carried, tables, dataSeen, dsn, asn, armed, round, tokens >>

FiresEarly(seq) == seq \in armed          \* mutant: the acknowledgement may still come

(* DataSendUnicastTimer is due. *)
IsDue(seq) == seq \in armed /\ floods = {} /\ carried = {}

FireTimer(seq) ==
    /\ IsDue(seq) /\ round <= MaxRounds
    /\ round' = round + 1
    /\ dataSeen' = [n \in Node |-> {}]
    /\ SendDataAsUnicast(seq, route, armed \ {seq}, [n \in Node |-> {}], carried)
    /\ UNCHANGED << air, tables, asn, started, tokens >>

-----------------------------------------------------------------------------
(* Dest sends a packet of its own back to Source. *)
Reply(r, type, seq) ==
    Towards(r, Dest, Source,
        [type |-> type, from |-> Dest, to |-> Source,
         seq |-> seq, num |-> tokens + 1, hops |-> 0])

ForwardsEarlyEnd(p) ==                    \* mutant: the last hop is not taken
    IF p.ttl > 1 THEN Broadcast(p.to, p.id, p.seq, p.ttl - 1) ELSE {}

ForwardRouteRequest(p) ==
    IF p.ttl > 0 THEN Broadcast(p.to, p.id, p.seq, p.ttl - 1) ELSE {}

NotRemembered(p) == p.to = Source         \* mutant: a request is taken up at every copy

IsDuplicate(p) == p.id \in seen[p.to]

(* RecvRouteRequest.  Dest replies unless it holds the data asked for; it  *)
(* looks under the key of Source, where data is kept under that of Dest.   *)
RecvRouteRequest(p) ==
    /\ p \in floods
    /\ IF IsDuplicate(p)
       THEN /\ floods' = floods \ {p}
            /\ UNCHANGED << carried, tables, seen, tokens >>
       ELSE LET r == SetRoutes(p.to, p.from, Source)
                replies == p.to = Dest /\ << Source, p.seq >> \notin db[Dest]
            IN  /\ seen' = [seen EXCEPT ![p.to] = @ \cup {p.id}]
                /\ route' = r
                /\ at' = [at EXCEPT ![p.to] = round]
                /\ left' = [left EXCEPT ![p.to] = p.ttl]
                /\ floods' = (floods \ {p}) \cup
                        (IF p.to = Dest THEN {} ELSE ForwardRouteRequest(p))
                /\ carried' = carried \cup (IF replies THEN Reply(r, "rrep", 0) ELSE {})
                /\ tokens' = IF replies THEN tokens + 1 ELSE tokens
                /\ UNCHANGED << num, far >>
    /\ UNCHANGED << air, sender, dataSeen, db >>

(* A packet from Dest to Source passes: the route to Dest is that to the   *)
(* neighbour it came from.                                                 *)
Passes(p) ==
    /\ p \in carried
    /\ route' = SetRoutes(p.to, p.from, Dest)
    /\ num' = [num EXCEPT ![p.to] = p.num]
    /\ far' = [far EXCEPT ![p.to] = p.hops + 1]
    /\ UNCHANGED << at, left >>

Forwarded(p, d, r) == (carried \ {p}) \cup Towards(r, p.to, d, [p EXCEPT !.hops = @ + 1])

RecvRouteReply(p) ==
    /\ p.type = "rrep" /\ Passes(p)
    /\ IF p.to = Source /\ << Dest, dsn >> \in db[Source]
       THEN SendDataAsUnicast(dsn, route', armed, seen, carried \ {p})
       ELSE /\ carried' = IF p.to = Source THEN carried \ {p} ELSE Forwarded(p, Source, route')
            /\ UNCHANGED << armed, dsn, db, seen, floods, rreqId >>
    /\ UNCHANGED << air, asn, started, round, dataSeen, tokens >>

(* RecvDataAsAdhoc, with StoreData, SendAck and ForwardDataAsUnicast. *)
RecvData(p) ==
    /\ p \in carried /\ p.type = "data"
    /\ dataSeen' = [dataSeen EXCEPT ![p.to] = @ \cup {p.seq}]
    /\ IF p.seq \in dataSeen[p.to]
       THEN carried' = carried \ {p} /\ UNCHANGED << db, tokens >>
       ELSE IF p.to = Dest
       THEN /\ db' = [db EXCEPT ![Dest] = @ \cup {<< Dest, p.seq >>}]
            /\ carried' = (carried \ {p}) \cup Reply(route, "ack", 0)
            /\ tokens' = tokens + 1
       ELSE /\ carried' = Forwarded(p, Dest, route)
            /\ UNCHANGED << db, tokens >>
    /\ UNCHANGED << air, floods, tables, sender, seen >>

RecvAck(p) ==
    /\ p.type = "ack" /\ Passes(p)
    /\ IF p.to = Source
       THEN asn' = asn + 1 /\ carried' = carried \ {p}
       ELSE asn' = asn /\ carried' = Forwarded(p, Source, route')
    /\ UNCHANGED << air, floods, seen, dataSeen, db, rreqId, dsn, armed, started, round, tokens >>

(* A node moves (MyUser::MoveOnce); a packet is lost. *)
Move ==
    /\ ~calm /\ link' \in Topologies
    /\ UNCHANGED << calm, floods, carried, tables, sender, seen, dataSeen, db, tokens >>

Lose ==
    /\ ~calm
    /\ \/ \E p \in floods : floods' = floods \ {p} /\ UNCHANGED carried
       \/ \E p \in carried : carried' = carried \ {p} /\ UNCHANGED floods
    /\ UNCHANGED << air, tables, sender, seen, dataSeen, db, tokens >>

Receive ==
    \/ \E p \in floods : RecvRouteRequest(p)
    \/ \E p \in carried : RecvRouteReply(p) \/ RecvData(p) \/ RecvAck(p)

Fire == \E seq \in armed : FireTimer(seq)

Next == HandleData \/ Fire \/ Receive \/ Move \/ Lose

(* Packets that are not lost arrive, and timers fire. *)
Spec == Init /\ [][Next]_vars /\ WF_vars(HandleData) /\ WF_vars(Fire) /\ WF_vars(Receive)

-----------------------------------------------------------------------------
TypeOK ==
    /\ link \in Topologies /\ calm \in BOOLEAN
    /\ floods \subseteq Flood /\ carried \subseteq Packet
    /\ route \in [Node -> [Node -> Node \cup {None}]]
    /\ seen \in [Node -> SUBSET Nat] /\ dataSeen \in [Node -> SUBSET Nat]
    /\ db \in [Node -> SUBSET (Node \X Nat)]
    /\ rreqId \in Nat /\ dsn \in Nat /\ asn \in Nat /\ tokens \in Nat
    /\ armed \subseteq Nat /\ started \in BOOLEAN /\ round \in 1 .. MaxRounds + 1
    /\ at \in [Node -> Nat] /\ left \in [Node -> Nat]
    /\ num \in [Node -> Nat] /\ far \in [Node -> Nat]

(* The numbers that decide between going on and starting again count the   *)
(* same things, whatever is lost: at most one data is not acknowledged, a  *)
(* timer watches over it, and requests apart one packet is under way.  One *)
(* acknowledgement counted too much would send the numbers below zero.     *)
StopAndWait ==
    /\ dsn \in {asn, asn + 1}
    /\ dsn # asn => armed # {}
    /\ \A s, t \in armed : s = t
    /\ \A p, q \in carried : p = q

(* No set of nodes passes a packet to d round among themselves. *)
LeadsTo(d) ==
    \A S \in SUBSET (Node \ {d}) : S # {} => \E n \in S : route[n][d] \notin S

(* Routes have no loop although nodes keep routes set in different rounds: *)
(* replies and acknowledgements, which no cache and no ttl stops, do not   *)
(* go round for ever, nor does data return to a node that drops it.        *)
NoLoop == LeadsTo(Source) /\ LeadsTo(Dest)

(* The next hop of every route is a neighbour with an entry of its own, so *)
(* that the network layer, which looks it up again, does not divert the    *)
(* packet.                                                                 *)
HopsAreDirect ==
    \A n, d \in Node : route[n][d] # None => route[n][route[n][d]] = route[n][d]

(* On a radio that loses nothing every data is acknowledged before its     *)
(* timer fires, so the transmission goes on without a second flood.        *)
KeepsSending == calm => <>(asn = MaxRounds + 1)
=============================================================================
