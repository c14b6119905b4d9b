----------------------------- MODULE DTNProtocol -----------------------------
(***************************************************************************)
(* The store-carry-forward protocol of scratch/ferry2: class               *)
(* RoutingProtocol (DTN-protocol.cc) together with the knowledge that it   *)
(* keeps in MyUser (evacuation-user.cc).                                   *)
(*                                                                         *)
(* Every node carries a map "blocked road node -> time of discovery" and a *)
(* map "shelter -> (remaining space, time of that reading)".  Hello        *)
(* packets carry a summary of the first map only; a receiver that misses   *)
(* an item asks for it with a Request; the holder collects requests for    *)
(* one second and then answers the first one.  Shelters broadcast their    *)
(* remaining space, ferries (UAVs) read it on the spot.                    *)
(*                                                                         *)
(* The program is a single-threaded discrete event simulator, so one       *)
(* action is one event handler, run to completion.  What interleaves is    *)
(* the order of the events: packets with random send delays, packets lost  *)
(* on the radio, timers, and the movement of the users.                    *)
(***************************************************************************)
EXTENDS Integers, Sequences, FiniteSets

CONSTANTS
    User,                \* EVC_USER nodes: evacuees present from the start
    AddUser,             \* ADD_EVC_USER nodes: evacuees activated later
    Shelter,             \* EVC_AP nodes: one access point per shelter
    Ferry,               \* FERRY_NODE nodes: the UAVs
    Block,               \* ids of the impassable road nodes
    Capacity,            \* first_exit_info: initial space of every shelter
    UseQuickHello,       \* quickhelloflag
    UseEraseInfo,        \* eraseinfoflag
    EraseAoI,            \* age at which road information is thrown away
    AoIThreshold,        \* age up to which information counts as fresh
    FirstHello,          \* delay of a user's first Hello (60 s)
    HelloInterval,       \* base interval between Hellos
    HelloCap,            \* upper limit of the ordinary interval (10 s)
    QuickHelloInterval,  \* interval while the node holds fresh information
    FerryHelloInterval,  \* interval of the ferries
    ShelterDataInterval, \* interval of a shelter's broadcasts
    RequestWindow,       \* how long requests are collected (1 s)
    IdLifetime,          \* lifetime of an IdCache entry (1 s)
    Lossy,               \* may packets be lost or be out of range
    Duplicates,          \* may a broadcast be delivered again
    StopTime,            \* Simulator::Stop
    MaxFinds             \* bound: discoveries of blocks in one behaviour

Evacuee == User \cup AddUser
Node == Evacuee \cup Shelter \cup Ferry

ASSUME DisjointKinds ==
    /\ User \cap (AddUser \cup Shelter \cup Ferry) = {}
    /\ AddUser \cap (Shelter \cup Ferry) = {}
    /\ Shelter \cap Ferry = {}

ASSUME FlagsAreBoolean ==
    /\ UseQuickHello \in BOOLEAN /\ UseEraseInfo \in BOOLEAN
    /\ Lossy \in BOOLEAN /\ Duplicates \in BOOLEAN

ASSUME TimesAreNaturals ==
    /\ Capacity \in Nat /\ EraseAoI \in Nat /\ AoIThreshold \in Nat
    /\ FirstHello \in Nat \ {0} /\ HelloInterval \in Nat \ {0}
    /\ HelloCap \in Nat \ {0} /\ QuickHelloInterval \in Nat \ {0}
    /\ FerryHelloInterval \in Nat \ {0} /\ ShelterDataInterval \in Nat \ {0}
    /\ RequestWindow \in Nat \ {0} /\ IdLifetime \in Nat /\ StopTime \in Nat
    /\ MaxFinds \in Nat

ASSUME NodesAreFinite == IsFiniteSet(Node)

VARIABLES
    now,          \* Simulator::Now, in seconds
    status,       \* isWait / m_status of MyUser: "wait", "move" or "exit"
    blocked,      \* m_blockednodeid_and_time; Unknown when b is not held
    cut,          \* blocks whose last call was UpdateGraphInfo on m_graph
    exitinfo,     \* m_aoi_exitinfo: remaining space of a shelter and its time
    quick,        \* while_quick_send_flag (and quick_send_flag, set with it)
    helloAt,      \* expiry of HelloTimer, or NoTimer
    broadcastId,  \* m_broadcast_id
    idCache,      \* m_IdCache
    buffer,       \* m_requestBuffer
    collecting,   \* m_requestCollecting
    replyAt,      \* expiry of m_requestReplyEvent, or NoTimer
    space,        \* MyBuilding::exit_nodes: remaining space of a shelter
    shelterAt,    \* expiry of shelterdataTimer
    net,          \* packets handed to a socket and not yet received
    discovered    \* history: who saw which blocked node, and when

clockVars == <<now>>
knowledge == <<blocked, cut, exitinfo>>
helloVars == <<quick, helloAt, broadcastId>>
requestVars == <<buffer, collecting, replyAt>>
shelterVars == <<space, shelterAt>>
vars == <<now, status, blocked, cut, exitinfo, quick, helloAt, broadcastId,
          idCache, buffer, collecting, replyAt, space, shelterAt, net,
          discovered>>

Unknown == -1      \* no entry in the map
NoTimer == -1      \* timer not running
Time == Nat
KnownTime == Time \cup {Unknown}
TimerTime == Time \cup {NoTimer}
Summary == [Block -> KnownTime]
Reading == [num : Nat, time : Time]

HelloMsg == [type : {"HELLO"}, from : Node, to : Node, bid : Nat,
             summary : Summary, at : Time]
RequestMsg == [type : {"REQUEST"}, from : Node, to : Node,
               blockIds : SUBSET Block, at : Time]
UserDataMsg == [type : {"USERDATA"}, from : Node, to : Node,
                info : Summary, at : Time]
ShelterMsg == [type : {"SHELTERDATA"}, from : Shelter, to : Node, bid : Nat,
               data : Reading, at : Time]
Message == HelloMsg \cup RequestMsg \cup UserDataMsg \cup ShelterMsg

CacheEntry == [addr : Node, id : Nat, expire : Nat]
BufferedRequest == [requester : Node, blockIds : SUBSET Block]

TypeOK ==
    /\ now \in Time
    /\ status \in [Node -> {"wait", "move", "exit"}]
    /\ blocked \in [Node -> Summary]
    /\ cut \in [Node -> SUBSET Block]
    /\ exitinfo \in [Node -> [Shelter -> Reading]]
    /\ quick \in [Node -> BOOLEAN]
    /\ helloAt \in [Node -> TimerTime]
    /\ broadcastId \in [Node -> Nat]
    /\ idCache \in [Node -> SUBSET CacheEntry]
    /\ buffer \in [Node -> Seq(BufferedRequest)]
    /\ collecting \in [Node -> BOOLEAN]
    /\ replyAt \in [Node -> TimerTime]
    /\ space \in [Shelter -> Nat]
    /\ shelterAt \in [Shelter -> Time]
    /\ net \subseteq Message
    /\ discovered \subseteq [who : Node, block : Block, time : Time]
-----------------------------------------------------------------------------
(* Start: users wait FirstHello for their first Hello, ferries their own   *)
(* interval; added users and access points have no Hello timer yet.  The   *)
(* first HandleShelterData finds an unchanged space and only re-arms.      *)
Init ==
    /\ now = 0
    /\ status = [n \in Node |-> IF n \in AddUser THEN "wait" ELSE "move"]
    /\ blocked = [n \in Node |-> [b \in Block |-> Unknown]]
    /\ cut = [n \in Node |-> {}]
    /\ exitinfo = [n \in Node |-> [s \in Shelter |->
                                     [num |-> Capacity, time |-> 0]]]
    /\ quick = [n \in Node |-> FALSE]
    /\ helloAt = [n \in Node |-> IF n \in User THEN FirstHello
                                 ELSE IF n \in Ferry THEN FerryHelloInterval
                                 ELSE NoTimer]
    /\ broadcastId = [n \in Node |-> 0]
    /\ idCache = [n \in Node |-> {}]
    /\ buffer = [n \in Node |-> << >>]
    /\ collecting = [n \in Node |-> FALSE]
    /\ replyAt = [n \in Node |-> NoTimer]
    /\ space = [s \in Shelter |-> Capacity]
    /\ shelterAt = [s \in Shelter |-> ShelterDataInterval]
    /\ net = {}
    /\ discovered = {}
-----------------------------------------------------------------------------
(* IdCache: expired entries are purged on every look-up.                   *)
Purge(cache) == {e \in cache : e.expire >= now}

IsDuplicate(cache, addr, id) ==
    \E e \in Purge(cache) : e.addr = addr /\ e.id = id

Remember(cache, addr, id) ==
    IF IsDuplicate(cache, addr, id)
    THEN Purge(cache)
    ELSE Purge(cache) \cup
           {[addr |-> addr, id |-> id, expire |-> now + IdLifetime]}

(* The radio: a broadcast reaches any set of other nodes, or all of them   *)
(* when the run assumes a loss-free, fully connected neighbourhood.        *)
Audience(n) ==
    IF Lossy THEN SUBSET (Node \ {n}) ELSE {Node \ {n}}

(* What stays in flight after m was received.                              *)
AfterReceipt(m) ==
    IF Duplicates /\ m.type = "HELLO" THEN {net, net \ {m}} ELSE {net \ {m}}

(* CheckAoI: does the node hold anything that is still fresh?              *)
HoldsFreshInfo(held, info) ==
    \/ \E s \in Shelter : now - info[s].time <= AoIThreshold
    \/ \E b \in Block : held[b] # Unknown /\ now - held[b] <= AoIThreshold

(* The ordinary interval is stretched by the density of the neighbourhood  *)
(* (1, 2 or 4 times, from the Hellos seen in the last 50 s) and then       *)
(* capped; which density applies is left open.                             *)
OrdinaryIntervals ==
    {IF HelloInterval * dense > HelloCap THEN HelloCap ELSE HelloInterval * dense :
        dense \in {1, 2, 4}}

HelloDelays(n, fresh) ==
    IF n \in Ferry THEN {FerryHelloInterval}
    ELSE IF UseQuickHello /\ fresh THEN {QuickHelloInterval}
    ELSE OrdinaryIntervals

(* News makes a node send a Hello at once, unless it is in quick mode      *)
(* already or is a ferry.                                                  *)
AnnouncesInQuickMode(n, gotNews) ==       \* mutant: the flag is inverted
    UseQuickHello /\ gotNews /\ quick[n] /\ n \notin Ferry

Announces(n, gotNews) ==
    UseQuickHello /\ gotNews /\ ~quick[n] /\ n \notin Ferry

(* SendHello by a node that has not evacuated, where held, info and cache  *)
(* are the values of its maps at the moment of the call and flying the     *)
(* packets in flight without the new ones.                                 *)
SendHello(n, held, info, cache, flying) ==
    LET id == broadcastId[n] + 1
        fresh == HoldsFreshInfo(held, info)
    IN /\ broadcastId' = [broadcastId EXCEPT ![n] = id]
       /\ idCache' = [idCache EXCEPT ![n] = Remember(cache, n, id)]
       /\ quick' = [quick EXCEPT ![n] = fresh]
       /\ \E delay \in HelloDelays(n, fresh) :
             helloAt' = [helloAt EXCEPT ![n] = now + delay]
       /\ \E hearers \in Audience(n) :
             net' = flying \cup
                {[type |-> "HELLO", from |-> n, to |-> r, bid |-> id,
                  summary |-> held, at |-> now] : r \in hearers}
-----------------------------------------------------------------------------
(* HelloTimer expires.  An evacuated node leaves SendHello at once: the    *)
(* counter has been stepped, the timer is not set again.                   *)
HelloTimer(n) ==
    /\ helloAt[n] = now
    /\ \/ /\ status[n] = "exit"
          /\ broadcastId' = [broadcastId EXCEPT ![n] = @ + 1]
          /\ helloAt' = [helloAt EXCEPT ![n] = NoTimer]
          /\ UNCHANGED <<quick, idCache, net>>
       \/ /\ status[n] # "exit"
          /\ SendHello(n, blocked[n], exitinfo[n], idCache[n], net)
    /\ UNCHANGED <<now, status, knowledge, requestVars, shelterVars,
                   discovered>>

(* RecvProto throws a packet away: Hello and shelter data reach only nodes *)
(* that move; the unicast socket of an evacuated node is closed.           *)
Discard(m) ==
    /\ \/ m.type \in {"HELLO", "SHELTERDATA"} /\ status[m.to] # "move"
       \/ m.type \in {"REQUEST", "USERDATA"} /\ status[m.to] = "exit"
    /\ net' = net \ {m}
    /\ UNCHANGED <<now, status, knowledge, helloVars, idCache, requestVars,
                   shelterVars, discovered>>

(* RecvHello of a Hello the IdCache already knows.                         *)
RecvHelloAgain(m) ==
    /\ m.type = "HELLO" /\ status[m.to] = "move"
    /\ IsDuplicate(idCache[m.to], m.from, m.bid)
    /\ idCache' = [idCache EXCEPT ![m.to] = Purge(@)]
    /\ net' \in AfterReceipt(m)
    /\ UNCHANGED <<now, status, knowledge, helloVars, requestVars,
                   shelterVars, discovered>>

(* The items of a summary that the receiver misses or holds older.         *)
Missing(held, summary) == {b \in Block : held[b] < summary[b]}

(* A shelter reading replaces an earlier one, never one of the same second.*)
Newer(reading, time) == reading.time < time

(* Mutant of ReadSpace: the time of the reading is not updated.            *)
ReadSpaceOldTime(info, s) ==
    IF Newer(info[s], now) THEN [info EXCEPT ![s].num = space[s]] ELSE info

(* What a ferry that reads the space of a shelter on the spot then holds:  *)
(* a reading taken in the same second as the one it has is not stored.     *)
ReadSpace(info, s) ==
    IF Newer(info[s], now)
    THEN [info EXCEPT ![s] = [num |-> space[s], time |-> now]]
    ELSE info

(* RecvHello of a new Hello.  A ferry ends it with ChangePatrolRoute, and  *)
(* when the block it holds lies on nobody's way that reads the shelter it  *)
(* visited last; where the ferry is, is left open.                         *)
RecvHello(m) ==
    LET wanted == Missing(blocked[m.to], m.summary)
        request == [type |-> "REQUEST", from |-> m.to, to |-> m.from,
                    blockIds |-> wanted, at |-> now]
    IN /\ m.type = "HELLO" /\ status[m.to] = "move"
       /\ ~IsDuplicate(idCache[m.to], m.from, m.bid)
       /\ idCache' = [idCache EXCEPT ![m.to] = Remember(@, m.from, m.bid)]
       /\ \E rest \in AfterReceipt(m) :
             net' = IF wanted = {} THEN rest ELSE rest \cup {request}
       /\ \/ UNCHANGED exitinfo
          \/ /\ m.to \in Ferry /\ \E b \in Block : blocked[m.to][b] # Unknown
             /\ \E s \in Shelter :
                   exitinfo' = [exitinfo EXCEPT ![m.to] = ReadSpace(@, s)]
       /\ UNCHANGED <<now, status, blocked, cut, helloVars, requestVars,
                      shelterVars, discovered>>

(* A request opens a window, with its reply event, unless one is open.     *)
OpenWindow(n) ==
    /\ collecting' = [collecting EXCEPT ![n] = TRUE]
    /\ replyAt' = IF collecting[n] THEN replyAt
                  ELSE [replyAt EXCEPT ![n] = now + RequestWindow]

(* The reply event ends the window; the requests it held are dropped.      *)
CloseWindowKeepingFlag(n) ==              \* mutant: m_requestCollecting stays
    /\ replyAt' = [replyAt EXCEPT ![n] = NoTimer]
    /\ buffer' = [buffer EXCEPT ![n] = << >>]
    /\ UNCHANGED collecting

CloseWindow(n) ==
    /\ replyAt' = [replyAt EXCEPT ![n] = NoTimer]
    /\ buffer' = [buffer EXCEPT ![n] = << >>]
    /\ collecting' = [collecting EXCEPT ![n] = FALSE]

RecvRequest(m) ==
    LET n == m.to
    IN /\ m.type = "REQUEST" /\ status[n] # "exit"
       /\ buffer' = [buffer EXCEPT ![n] =
             Append(@, [requester |-> m.from, blockIds |-> m.blockIds])]
       /\ OpenWindow(n)
       /\ net' = net \ {m}
       /\ UNCHANGED <<now, status, knowledge, helloVars, idCache,
                      shelterVars, discovered>>

(* MakeSendDataFromRequest: the requested items that are held right now.   *)
Answer(held, ids) == [b \in Block |-> IF b \in ids THEN held[b] ELSE Unknown]

(* ProcessRequestBuffer: only the first buffered request is answered, the  *)
(* others are dropped with it.  The socket of an evacuated node is closed  *)
(* and swallows the answer.                                                *)
ProcessRequestBuffer(n) ==
    LET selected == Head(buffer[n])
        reply == [type |-> "USERDATA", from |-> n, to |-> selected.requester,
                  info |-> Answer(blocked[n], selected.blockIds), at |-> now]
    IN /\ replyAt[n] = now
       /\ CloseWindow(n)
       /\ net' = IF buffer[n] = << >> \/ status[n] = "exit"
                 THEN net ELSE net \cup {reply}
       /\ UNCHANGED <<now, status, knowledge, helloVars, idCache,
                      shelterVars, discovered>>

(* Mutants of Accepted: times are not compared; the age is not checked.    *)
AcceptedInAnyOrder(held, info) ==
    {b \in Block : /\ info[b] # Unknown
                   /\ UseEraseInfo => now - info[b] < EraseAoI}

AcceptedAtAnyAge(held, info) == Missing(held, info)

(* The items of a reply that RecvUserDataAsUnicast takes over: newer than  *)
(* what is held and, when old information is erased, not too old.          *)
Accepted(held, info) ==
    {b \in Missing(held, info) : UseEraseInfo => now - info[b] < EraseAoI}

MergeRestamped(held, info, news) ==       \* mutant: time of receipt is stored
    [b \in Block |-> IF b \in news THEN now ELSE held[b]]

Merge(held, info, news) ==
    [b \in Block |-> IF b \in news THEN info[b] ELSE held[b]]

RecvUserDataAsUnicast(m) ==
    LET n == m.to
        news == Accepted(blocked[n], m.info)
        held == Merge(blocked[n], m.info, news)
    IN /\ m.type = "USERDATA" /\ status[n] # "exit"
       /\ blocked' = [blocked EXCEPT ![n] = held]
       /\ cut' = [cut EXCEPT ![n] = IF n \in Ferry THEN @ ELSE @ \cup news]
       /\ IF Announces(n, news # {})
          THEN SendHello(n, held, exitinfo[n], idCache[n], net \ {m})
          ELSE net' = net \ {m} /\ UNCHANGED <<helloVars, idCache>>
       /\ UNCHANGED <<now, status, exitinfo, requestVars, shelterVars,
                      discovered>>
-----------------------------------------------------------------------------
(* HandleShelterData: nothing is sent while nobody has arrived.            *)
HandleShelterData(s) ==
    LET id == broadcastId[s] + 1
    IN /\ shelterAt[s] = now
       /\ shelterAt' = [shelterAt EXCEPT ![s] = now + ShelterDataInterval]
       /\ \/ space[s] = Capacity /\ UNCHANGED <<net, broadcastId, idCache>>
          \/ /\ space[s] # Capacity
             /\ broadcastId' = [broadcastId EXCEPT ![s] = id]
             /\ idCache' = [idCache EXCEPT ![s] = Remember(@, s, id)]
             /\ \E hearers \in Audience(s) :
                   net' = net \cup
                     {[type |-> "SHELTERDATA", from |-> s, to |-> r,
                       bid |-> id, at |-> now,
                       data |-> [num |-> space[s], time |-> now]] :
                       r \in hearers}
       /\ UNCHANGED <<now, status, knowledge, quick, helloAt, requestVars,
                      space, discovered>>

(* RecvShelterDataAsBroadcast.  Only a newer reading is stored, and only a *)
(* stored reading makes an ordinary node announce it at once.              *)
RecvShelterDataAsBroadcast(m) ==
    LET n == m.to
        s == m.from
        again == IsDuplicate(idCache[n], s, m.bid)
        newer == ~again /\ Newer(exitinfo[n][s], m.data.time)
        info == IF newer THEN [exitinfo[n] EXCEPT ![s] = m.data]
                ELSE exitinfo[n]
        cache == Remember(idCache[n], s, m.bid)
    IN /\ m.type = "SHELTERDATA" /\ status[n] = "move"
       /\ exitinfo' = [exitinfo EXCEPT ![n] = info]
       /\ IF Announces(n, newer)
          THEN SendHello(n, blocked[n], info, cache, net \ {m})
          ELSE /\ idCache' = [idCache EXCEPT ![n] = cache]
               /\ net' = net \ {m}
               /\ UNCHANGED helloVars
       /\ UNCHANGED <<now, status, blocked, cut, requestVars, shelterVars,
                      discovered>>

(* GetExitInfoforFerry: a ferry that arrives at shelter s reads its space. *)
GetExitInfoforFerry(f, s) ==
    /\ exitinfo' = [exitinfo EXCEPT ![f] = ReadSpace(@, s)]
    /\ UNCHANGED <<now, status, blocked, cut, helloVars, idCache, requestVars,
                   shelterVars, net, discovered>>
-----------------------------------------------------------------------------
(* MyUser::CheckAoI, run at the head of every HandleUserMovement: the road *)
(* information that has become too old is forgotten.                       *)
TooOld(held) ==
    {b \in Block : UseEraseInfo /\ held[b] # Unknown /\ now - held[b] > EraseAoI}

ForgetNothing(held) == held              \* mutant: the pruned map is not saved

Forget(held) == [b \in Block |-> IF b \in TooOld(held) THEN Unknown ELSE held[b]]

(* HandleUserMovement of a user that walks on along its way.               *)
HandleUserMovement(n) ==
    /\ status[n] = "move"
    /\ blocked' = [blocked EXCEPT ![n] = Forget(@)]
    /\ cut' = [cut EXCEPT ![n] = @ \ TooOld(blocked[n])]
    /\ UNCHANGED <<now, status, exitinfo, helloVars, idCache, requestVars,
                   shelterVars, net, discovered>>

(* HandleUserMovement / GetWayNextVector of a user that finds the next     *)
(* node of its way blocked.                                                *)
FindBlock(n, b) ==
    /\ status[n] = "move" /\ Cardinality(discovered) < MaxFinds
    /\ blocked' = [blocked EXCEPT ![n] = [Forget(@) EXCEPT ![b] = now]]
    /\ cut' = [cut EXCEPT ![n] = (@ \ TooOld(blocked[n])) \cup {b}]
    /\ discovered' = discovered \cup {[who |-> n, block |-> b, time |-> now]}
    /\ UNCHANGED <<now, status, exitinfo, helloVars, idCache, requestVars,
                   shelterVars, net>>

(* Mutant of HasRoom: the arrival is not refused at a full shelter.        *)
HasRoomAlways(s) == TRUE

HasRoom(s) == space[s] > 0

(* HandleUserMovement / CompleteEvacuation of a user standing at shelter s *)
(* that has room.  Sends still pending on its socket are lost with it.     *)
CompleteEvacuation(n, s) ==
    /\ status[n] = "move" /\ HasRoom(s)
    /\ status' = [status EXCEPT ![n] = "exit"]
    /\ space' = [space EXCEPT ![s] = @ - 1]
    /\ blocked' = [blocked EXCEPT ![n] = Forget(@)]
    /\ cut' = [cut EXCEPT ![n] = @ \ TooOld(blocked[n])]
    /\ \E lost \in SUBSET {m \in net : m.from = n} : net' = net \ lost
    /\ UNCHANGED <<now, exitinfo, helloVars, idCache, requestVars, shelterAt,
                   discovered>>

(* Mutant of ActivateReservedAddUser: the first Hello is not scheduled.    *)
ActivateWithoutHello(n) ==
    /\ status[n] = "wait"
    /\ status' = [status EXCEPT ![n] = "move"]
    /\ UNCHANGED <<now, knowledge, helloVars, idCache, requestVars,
                   shelterVars, net, discovered>>

(* NetSim::ActivateReservedAddUsers for one waiting user.                  *)
ActivateReservedAddUser(n) ==
    /\ status[n] = "wait"
    /\ status' = [status EXCEPT ![n] = "move"]
    /\ helloAt' = [helloAt EXCEPT ![n] = now]
    /\ UNCHANGED <<now, knowledge, quick, broadcastId, idCache, requestVars,
                   shelterVars, net, discovered>>
-----------------------------------------------------------------------------
(* A unicast packet is lost on the radio.                                  *)
Lose(m) ==
    /\ Lossy /\ m.type \in {"REQUEST", "USERDATA"}
    /\ net' = net \ {m}
    /\ UNCHANGED <<now, status, knowledge, helloVars, idCache, requestVars,
                   shelterVars, discovered>>

(* The clock moves on when every event due now has run.  A packet is       *)
(* received at most one second after it was handed to the socket.          *)
Tick ==
    /\ now < StopTime
    /\ \A n \in Node : helloAt[n] # now /\ replyAt[n] # now
    /\ \A s \in Shelter : shelterAt[s] # now
    /\ \A m \in net : m.at = now
    /\ now' = now + 1
    /\ UNCHANGED <<status, knowledge, helloVars, idCache, requestVars,
                   shelterVars, net, discovered>>

(* Simulator::Stop: pending events are never run.                          *)
Stop == now = StopTime /\ UNCHANGED vars

Receive(m) ==
    \/ RecvHello(m) \/ RecvHelloAgain(m) \/ RecvRequest(m)
    \/ RecvUserDataAsUnicast(m) \/ RecvShelterDataAsBroadcast(m)

Movement(n) ==
    \/ HandleUserMovement(n)
    \/ \E b \in Block : FindBlock(n, b)
    \/ \E s \in Shelter : CompleteEvacuation(n, s)

Next ==
    \/ \E n \in Node : HelloTimer(n) \/ ProcessRequestBuffer(n)
    \/ \E s \in Shelter : HandleShelterData(s)
    \/ \E m \in net : Receive(m) \/ Discard(m) \/ Lose(m)
    \/ \E n \in Evacuee : Movement(n)
    \/ \E n \in AddUser : ActivateReservedAddUser(n)
    \/ \E f \in Ferry, s \in Shelter : GetExitInfoforFerry(f, s)
    \/ Tick
    \/ Stop

Spec == Init /\ [][Next]_vars

(* The event loop runs every scheduled event: timers, receptions, clock.   *)
Fairness ==
    /\ WF_vars(Tick)
    /\ \A n \in Node : WF_vars(HelloTimer(n)) /\ WF_vars(ProcessRequestBuffer(n))
    /\ \A s \in Shelter : WF_vars(HandleShelterData(s))
    /\ WF_vars(\E m \in net : Receive(m) \/ Discard(m))

FairSpec == Spec /\ Fairness
-----------------------------------------------------------------------------
(* Every discovery time that a node holds, or that travels in a Hello or a *)
(* reply, is the time at which some evacuee really stood before that       *)
(* block, in the past: relaying information through Hello, Request and     *)
(* reply never makes it look younger (or older) than it is.                *)
RealTimes(seen, held) ==
    \A b \in Block :
        held[b] = Unknown \/ \E d \in seen : d.block = b /\ d.time = held[b]

RealPacket(seen, m) ==
    /\ m.type = "HELLO" => RealTimes(seen, m.summary)
    /\ m.type = "USERDATA" => RealTimes(seen, m.info)

Provenance ==
    /\ \A n \in Node : RealTimes(discovered, blocked[n])
    /\ \A m \in net : RealPacket(discovered, m)
    /\ \A d \in discovered : d.time <= now

(* m_requestCollecting, m_requestBuffer and m_requestReplyEvent agree: a   *)
(* window is open exactly while requests are buffered and the reply event  *)
(* is pending, due within RequestWindow.  ProcessRequestBuffer therefore   *)
(* never finds the buffer empty and no request is stranded.                *)
WindowConsistent ==
    \A n \in Node :
        /\ collecting[n] <=> buffer[n] # << >>
        /\ collecting[n] <=> replyAt[n] # NoTimer
        /\ collecting[n] => replyAt[n] \in now .. now + RequestWindow

(* The road graph follows the information map through discovery, reception *)
(* and erasure: at an evacuee or access point, UpdateGraphInfo was called  *)
(* for every block in the map and, since the last such call, no            *)
(* RestoreGraphInfo; no other block is left cut.                           *)
GraphFollowsKnowledge ==
    \A n \in Node \ Ferry : cut[n] = {b \in Block : blocked[n][b] # Unknown}

LongestHelloDelay ==
    CHOOSE d \in {FirstHello, QuickHelloInterval, FerryHelloInterval, HelloCap} :
        \A e \in {FirstHello, QuickHelloInterval, FerryHelloInterval, HelloCap} :
            e <= d

(* The chain of Hello timers never breaks before the evacuation: a moving  *)
(* user or ferry always has a Hello due, no further away than the longest  *)
(* of the intervals; in quick mode no further than QuickHelloInterval.     *)
HelloChainAlive ==
    \A n \in Node :
        status[n] = "move" =>
            /\ n \in Evacuee \cup Ferry => helloAt[n] # NoTimer
            /\ helloAt[n] # NoTimer =>
                  helloAt[n] \in now .. now + LongestHelloDelay
            /\ UseQuickHello /\ quick[n] /\ n \notin Ferry =>
                  helloAt[n] \in now .. now + QuickHelloInterval

(* No step replaces road information by an older reading of the same       *)
(* block, whatever the order in which replies arrive, except that an       *)
(* evacuee forgets what is older than EraseAoI; shelter readings never     *)
(* go back in time.                                                        *)
NeverOlder ==
    [][/\ \A n \in Node, b \in Block :
             \/ blocked'[n][b] >= blocked[n][b]
             \/ n \in Evacuee /\ b \in TooOld(blocked[n])
       /\ \A n \in Node, s \in Shelter :
             exitinfo'[n][s].time >= exitinfo[n][s].time]_vars

(* With erasure on, no node takes over information that is EraseAoI or     *)
(* more old, so what an evacuee forgot does not come back from a ferry or  *)
(* access point that still carries it.                                     *)
NoStaleAdoption ==
    [][\A n \in Node, b \in Block :
          UseEraseInfo /\ EraseAoI > 0 /\ blocked'[n][b] > blocked[n][b]
             => now - blocked'[n][b] < EraseAoI]_vars

(* News taken over from a reply is announced: in the same event, or, when  *)
(* the node is already in quick mode, by a Hello at most                   *)
(* QuickHelloInterval away.                                                *)
NewsAnnounced ==
    [][\A n \in Node \ Ferry :
          /\ UseQuickHello /\ discovered' = discovered
          /\ \E b \in Block : blocked'[n][b] > blocked[n][b]
          => \/ broadcastId'[n] > broadcastId[n]
             \/ helloAt[n] \in now .. now + QuickHelloInterval]_vars

(* Readings of a shelter are consistent across nodes and packets: none is  *)
(* below the space really left, and a later reading never shows more.      *)
ReadingsOf(s) ==
    {exitinfo[n][s] : n \in Node} \cup
        {m.data : m \in {p \in net : p.type = "SHELTERDATA" /\ p.from = s}}

ReadingsConsistent ==
    \A s \in Shelter : \A r \in ReadingsOf(s) :
        /\ r.num >= space[s] /\ r.time <= now
        /\ \A q \in ReadingsOf(s) : r.time < q.time => r.num >= q.num

(* The longest wait of an evacuee for its next Hello.                      *)
EvacueeHelloDelay ==
    CHOOSE d \in {FirstHello, QuickHelloInterval, HelloCap} :
        \A e \in {FirstHello, QuickHelloInterval, HelloCap} : e <= d

(* How long the finder of a block may need to inform everybody.  A Hello,  *)
(* a request and a reply each travel for at most a second, so the first    *)
(* answer is there after FirstService seconds.  A later one may have to    *)
(* wait for a window that was opened by a request answered already, and    *)
(* NextService seconds then pass.  MaxFinds blocks, each wanted by all     *)
(* nodes but its finder, compete for the windows.                          *)
FirstService == EvacueeHelloDelay + RequestWindow + 3
NextService == EvacueeHelloDelay + 2 * RequestWindow + 4
AllWants == MaxFinds * (Cardinality(Node) - 1)
ServiceBound == (AllWants - 1) * NextService + FirstService + 1

(* In a connected, loss-free neighbourhood without erasure information     *)
(* spreads from a finder under way to every node that was there from the   *)
(* start within ServiceBound seconds of its discovery, although a holder   *)
(* answers only the first request of each window and drops the others: the *)
(* losers ask again after the next Hello.                                  *)
ServedWithinBound ==
    \A d \in discovered :
        status[d.who] = "move" /\ d.time + ServiceBound <= now =>
            \A n \in Node \ AddUser :
                status[n] = "move" => blocked[n][d.block] >= d.time

(* Every request window closes: a pending reply event that is due before   *)
(* the end of the simulation runs, however many further requests arrive.   *)
WindowCloses ==
    \A n \in Node :
        (collecting[n] /\ replyAt[n] <= StopTime) ~> ~collecting[n]
==============================================================================
