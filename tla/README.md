# Verification of the evacuation simulator in `scratch/ferry2`

The repository is a research environment on top of ns-3.35: evacuees walk
through a road network after a disaster, their phones exchange information
about impassable roads without infrastructure, shelters announce how much room
they have, and UAVs ("ferries") carry information between groups that never
meet. Everything under `src/src`, `src/bindings`, `src/doc` and `src/examples`
is ns-3 itself. The program's own logic is in `src/scratch`, where `ferry`,
`ferry2` and `ferry3` are versions of the same program; `src/obayashi.sh` runs
`ferry2` with `--mode=ON --usequickhello=ON --useexitinfo=ON --useeraseinfo=ON`,
so `ferry2` is the version modelled here, together with `simpleaodv-a`, the
unicast protocol from which its own was derived. Paths below are relative to
`src/scratch/ferry2` unless they begin with `simpleaodv-a`.

The program is a single-threaded discrete event simulation. Every handler runs
to completion, so an action of a module is one handler; what interleaves is the
order of the events of different nodes: timers, packets with random delays,
movements, activations.

## 1. Inventory

| part | state | operations | talks to |
|---|---|---|---|
| DTN protocol (`DTN-protocol.cc`) | Hello timer, quick-mode flag, broadcast counter, request buffer, collecting flag and reply event, shelter timer | `SendHello`, `RecvHello`, `SendRequest`, `RecvRequest`, `ProcessRequestBuffer`, `RecvUserDataAsUnicast`, `HandleShelterData`, `RecvShelterDataAsBroadcast` | the knowledge of `MyUser`; the radio; `ChangePatrolRoute` of a ferry |
| duplicate detection (`simple-id-cache.cc`) | (address, id) with an expiry | `IsDuplicate`, `Purge` | called on every broadcast received |
| knowledge of a node (`evacuation-user.*`) | map block → time of discovery; map shelter → (space, time) | discovery, merge, erasure by age | protocol, movement, road graph |
| movement of evacuees (`evacuation-user.cc`, placed by `test.cc`) | way in progress, `m_shortest`, `isDijkstra`, marks of full shelters, target | `HandleUserMovement`, `GetWayNextVector`, `TaskOfCrossing`, the route calculation, `CompleteEvacuation` | shared counters of `MyBuilding` |
| counting of users under way | `moving_user_num`, two flags per user, a timer | `CheckMovingUserNum`, the recount in the route calculation | the movement of every user |
| ferry patrol (`evacuation-user.cc`) | route, index, flag, area, start time | `HandleFerryNodeMovement`, `ChangePatrolRoute`, `GetExitInfoforFerry` | `RecvHello`, shelter counters |
| patrol routes (`evacuation-building.cc`) | distances between shelters | `SetExitNodeDistance`, `CalculatePatrolRoute`, the route round a block | set-up, ferry patrol |
| road graph of a node (`evacuation-user.cc`) | `m_graph`: vertex → neighbours with lengths | `UpdateGraphInfo`, `UpdateGraphInfoReceivedPacket`, `RestoreGraphInfo`, `CheckAoI` | movement, protocol, search |
| shortest ways (`evacuation-user.cc`, `json_data.cc`) | distances, predecessors, queue | the loop of `DijkstraRouteCalculationforGeographicInfo`; `dijkstra_pair`, `reconstruct_path_pair`, `precalculate_shortest_paths` | road graph; patrol routes round a block |
| road map (`json_data.cc`) | ways, nodes, crossings | reading and splitting of GeoJSON | everything |
| change of the map (`json_data.cc`, `evacuation-building.*`) | lists of new, erased and present blocks, flags of the nodes | `update_mapinfo`, `SetBlockedNodes`, `EraseBlockedNodes` and their likes for other marks | a timer; the flags are what evacuees see |
| settings (`evacuation-building.*`) | static fields | `SettingLoad` | everything |
| set-up (`test.cc`) | nodes, list of reserved users | `MakeNetworkTopologyforJSON`, `ActivateReservedAddUsers` | starts the timers |
| ancestor of the protocol (`simpleaodv-a/`) | routing table, caches of requests and data, numbers of data and of acknowledgements, timer of every data | `HandleData`, `SendRouteRequest`, `RecvRouteRequest`, `RecvRouteReply`, `SendDataAsUnicast`, `RecvDataAsAdhoc`, `RecvAck` | the radio; the movement of the nodes |
| routing table, headers, logs, sections and clusters, plots | | | see section 7 |

What is hard here, and what makes each part correct:

* **Protocol.** A node answers only the first request of a window, replies of
  several holders arrive in any order, evacuees erase old information that
  ferries still carry, and three pieces of state (flag, buffer, event)
  describe one window. Correct means: times stay the times of real
  discoveries, nothing goes back in time, erased information does not return,
  windows close and lose nobody for good, the Hello chain never breaks.
* **Movement.** Room in a shelter is tested in one place and taken in another,
  by users that calculate, forecast and turn round in between; unsigned
  counters are decremented unchecked and look-ups may throw past every handler.
  Correct means: each place is handed out once, marks are right, everyone gets
  in while there is room, counts add up.
* **Ferries.** The route is replaced by an event that fires between two runs of
  the movement timer, and the index is not. Correct means: route, flag and
  area agree, accesses stay in range, every stop is visited.
* **Road graph.** Blocks are learnt, learnt again and forgotten in any order;
  each change rewrites the entries of several vertices, and look-ups of entries
  that are gone throw. Correct means: the graph is always the map minus the
  blocks held.
* **Walking.** The evacuee keeps the id of a way, the rest of its nodes, the
  list before that one, a route and a flag that a search is due; seeing a
  block, hearing of one, reaching a crossing and the end of a way change
  different parts of these. Correct means: the parts fit each other, it follows
  no route it knows to be closed, it arrives once the roads stay open.
* **Shortest ways.** One search loops `while(true)` and stops only because of
  an exception, the other leaves old entries in its queue, and both keep
  distances twice. Correct means: the ways are shortest ways, and both end.
* **Change of the map.** The names to set accumulate from file to file, the
  names to erase are never forgotten, and list and flags are changed at
  different points of one update. Correct means: the flags follow the files,
  and nothing is closed for ever by accident.
* **Ancestor of the protocol.** A timer judges from two counters whether data
  was acknowledged; every packet overwrites routes at the nodes it reaches and
  may be lost at any of them, while nodes move; no route ever expires. Correct
  means: the counters stay in step, routes of different rounds form no loop,
  a reliable radio keeps the transmission going.

The hazards, at their lines and with the properties that cover them, are in
`PROJECT.json`.

## 2. Plan

Modules in order of importance; M1 to M7 exist.

| | modules | content |
|---|---|---|
| M1 | `DTNProtocol`, `MCDTNProtocol`, `DTNProtocolProofs` | protocol, IdCache and knowledge of all nodes, composed with an external radio |
| M2 | `FerryPatrol`, `PatrolRoutes`, `MCFerryPatrol`, `MCFerryRivals`, `FerryPatrolProofs` | patrol of the ferries; `MCFerryPatrol` composes it with the computation of the routes, `MCFerryRivals` records what Hellos tell of other patrols |
| M3 | `Evacuation`, `MCEvacuation`, `EvacuationProofs` | many evacuees that compete for places, together with the counting |
| M4 | `RoadGraph`, `OpenRoads`, `WayWalk`, `MCWayWalk`, `WayWalkProofs` | cutting and restoring roads, and one evacuee that walks node by node on them; `OpenRoads` is the abstract specification: the graph is the map minus the blocks held |
| M5 | `RoadLengths`, `DijkstraRoute`, `DijkstraPair`, `MCRoutes`, `DijkstraProofs` | both searches for shortest ways against the set of all ways; `MCRoutes` composes them and the round of the ferries |
| M6 | `MapUpdate`, `MCMapUpdate`, `MapUpdateProofs` | setting and erasing of blocks and marks by file and at random |
| M7 | `SimpleAodv`, `MCSimpleAodv`, `SimpleAodvProofs` | `simpleaodv-a`: discovery of routes, data, acknowledgement, time-out |
| M8 | (planned) | `IdCache` and `RoutingTable` as modules with proofs, `IdCache` as what `DTNProtocol` assumes |
| M9 | (planned) | reservation of users in `test.cc` |

`MCParts` puts `MCRoutes`, `MCEvacuation` and `MCMapUpdate` side by side for one
run. `DataInduction` holds the induction and recursion lemmas that the proofs of
M3 to M6 share. Every safety property of M1 to M7 that a passing run checks is a
theorem, and four of the five findings have one that says when the code does
what the violated property asks, or how far it misses it. Further theorems
worth stating: `ServedWithinBound` with erasure, which needs a bound on the age
of what is passed on, and a condition on the blocks, weaker than that none is
beside a crossing, under which an evacuee stays on its way.

## 3. Modules and code

**`DTNProtocol`.** One variable per field of `RoutingProtocol` and `MyUser`
that a handler reads (the comment of each variable names the field). The
timers are the times at which they expire; `Tick` advances the clock only when
nothing is due. The map of blocks is a function to discovery times with
`Unknown` for a missing key. `cut` records, for every node, the blocks for
which the last call was `UpdateGraphInfo` rather than `RestoreGraphInfo`.
Messages carry the fields their handlers use. The radio is external: a
broadcast may reach any set of nodes (`Lossy`), a packet may overtake another,
a broadcast may arrive twice (`Duplicates`). `discovered` is a history
variable. The random part of the Hello interval is a choice among its values
in whole seconds; random delays below a second are an order of events within
the second. `CheckHelloData` is not modelled because nothing calls it, and hop
records are off (`SendHopFlag`).

**`FerryPatrol`.** `route`, `idx`, `switched`, `area`, `start` are the fields
of a ferry; `assigned` and `rival` are the maps about other ferries, which
only commented-out code would fill (`DTN-protocol.cc:2239-2271`). A read past
the end of a vector yields `Garbage`, and using it as a key ends the program
(`aborted`). The index has the unsigned arithmetic of the code with 2^32
replaced by `IndexModulus`. `MCFerryRivals` adds the history variable `told`:
area and start of the patrols of which a ferry on patrol got a Hello.

**`PatrolRoutes`.** The nearest-neighbour loops as functions of the distances
and of the order in which maps are traversed (ties), and what a greedy round is
without a loop (`GreedyRounds`), the reference for them.

**`Evacuation`.** A user is a record of the fields that steer its movement. A
step leads from vertex to vertex of the road graph: at the nodes in between
`HandleUserMovement` only raises `isDijkstra`, which it raises again at the
next vertex. Roads and shortest ways are constants; the assumptions on them
(`RoadAssumption`) are what shortest ways on a road graph with positive
lengths satisfy. The forecast of `TaskOfCrossing` is a free choice wherever
the code can compute one. Exceptions nobody catches are the action `Abort`.
`moving_user_num` and `exit_nodes` wrap at `WordSize`.

**`RoadGraph`.** The first part derives crossings, vertices and roads from the
ways as `json_input` does. `graph` is `m_graph` as a function from the vertices
that have an entry to the sets of their neighbours; lengths are left out
(`RestoreGraphInfo` gives a restored road the length of the straight line; M5
is about lengths). `Cut` and `Restored` have the two branches of the code, for
a node within a road and for a crossing, including what the code really does to
a crossing: its neighbours keep naming it when it is cut, because `insert` does
not replace, and restoring it reads the neighbours of the wrong end. An `at`
that finds no entry makes the graph `Thrown`, since nobody catches it.
`OpenRoads` is what the graph promises to the search, two variables and one
action; `KeepsPromise` instantiates it with `held <- known` and the roads the
search sees in `graph`.

**`WayWalk`** extends `RoadGraph` by one evacuee, whose record has the fields
`m_currentway`, `m_wnlist_buf`, `m_shortest`, `isDijkstra`, `m_passednode`.
One action is one run of `HandleUserMovement`: expiry of information (any
part of it may have become too old), arrival, the search if it is due, and the
next node by `GetWayNextVector` with its turns at a block and at the end of a
way. The route found is any path that ends at the first shelter on it, which
covers every choice of lengths; the length of a walk between two crossings is
its number of nodes. `pop` of an empty `m_wnlist_buf` is the status
`undefined`, which `OnItsWay` excludes (finding 5). `lost` records that the last search
found nothing. Shelters do not fill up here; that is `Evacuation`.

**`RoadLengths`, `DijkstraRoute`, `DijkstraPair`.** Lengths are natural
numbers, 0 where there is no road; vertices are numbered in the order in which
the maps of the code are traversed, so ties are decided as in the code. One
action is one round of a loop. `DijkstraRoute` has the two copies of the
distances (`dst`, `reach`), the three ways to end and the remaining distances
stored for the vertices of the route; a vertex without an entry is one whose
crossing is blocked. `DijkstraPair` has the queue with entries out of date,
`reconstruct_path_pair` and the choice at random among the three nearest
shelters. The reference for both, what a way, its length and a shortest way are
without a search, is the last part of `RoadLengths`.

**`MapUpdate`.** One action is one run of `update_mapinfo`. The contents of
the files are constants, `NoFile` where the file of an update does not exist.
For each of the three kinds the lists of `MyBuilding` and the flags of the
nodes are kept apart; places to rescue people from and congested places share
the definitions, since their code differs only in names. After the last file
the number of the update is kept still.

**`SimpleAodv`.** One node sends to one other, as in the code (1 and 100).
`floods` are the requests under way, one for each receiver, `carried` the
replies, data and acknowledgements. `round` counts the times
`DataSendUnicastTimer` has fired. Time is reduced to one fact: the packets of a
round are gone, and the caches have forgotten them, when the timer of 2 s
fires. The delays of the code add up to less than 0.5 s for a flood and to less
than 1 s for the caches as long as a way has fewer than 50 hops. The timer that
repeats a request has no action: `UnicastTimeout` is scheduled after
`current_data_send` = 0 s together with it and cancels it
(`simpleaodv-a/simple-protocol.cc:50,663,770`). A resent data keeps its old
number, as in the code. `Unicast` is the second look-up of the next hop by
`RouteOutput`; sockets have a TTL of 1, so a diverted packet is lost. Unless
`calm`, nodes move (any topology at any time) and packets are lost. `at` and
`left` (round and remaining TTL of the request that set a route to Source),
`num` and `far` (number and hops of the packet of Dest that set a route to
Dest) and `tokens` are history variables that no guard reads.

Code that the modules leave out on purpose: log files, packet and byte
counters, formatting.

## 4. Runs

| run | instance | states | shows |
|---|---|---|---|
| `exchange` | two late users, one block found twice, lossy, repeating radio, erasure and quick Hello | 1.4 million | `Provenance`, `WindowConsistent`, `GraphFollowsKnowledge`, `HelloChainAlive`, `NeverOlder`, `NoStaleAdoption`, `NewsAnnounced` |
| `crowd` | one user and two ferries that compete for its reply | 300 000 | `ServedWithinBound`: both have the block `ServiceBound` = 15 s after its discovery (14 s is too short here); `WindowCloses` |
| `readings` | three users, two places, one ferry, broadcasts of the shelter | 1.1 million | `ReadingsConsistent`, `TypeOK` (the space does not wrap) |
| `ferry` | two ferries, two shelters, three blocks, one on nobody's way | 47 000 | `ModeConsistent`, `ReadsOnlyShelters`, `BlockTakenOn`, `PatrolCovered`, `EveryShelterRead` |
| `ferry_round_of_three` (violation) | three shelters | | `EveryShelterRead`: a shelter is never read again |
| `ferry_index` (violation) | shorter route received in flight | | `IndexInRange`: the index points past the end |
| `ferry_rivals` (violation) | two ferries, one block | | `YieldsToEarlier`: a ferry stays on the block of another that began earlier |
| `parts`, routes | every small road map, start and set of open shelters | 282 000 | `Certified`, `FindsNearest`, `PairCertified`, `StoredIsShortest`, `RoundIsGreedy`, `SearchEnds` |
| `parts`, town | four users (two late), three shelters with one place each | 12 000 | `SpaceAccounted`, `MarksJustified`, `AbortsOnlyWhenFull`, `RefugeIsTarget`, `SumConserved`, `AllEvacuate` |
| `parts`, updates | every schedule of files, every setting | 122 000 | `FollowsSchedule`, `FlaggedListed`, `RandomReleasesAll` |
| `walk` | one evacuee, two dead ends, two ways round to a shelter, a block on each | 4 600 | `KeepsPromise` (refinement of `OpenRoads`), `RouteKnownOpen`, `AbortsOnlyWhenCutOff`, `ArrivesOnceOpen` |
| `walk_turn_back` (violation) | the same map, the block is beside a crossing | | `OnItsWay`: the nodes to come are those of the former way |
| `restore_crossing` (violation) | the same map, the block is a crossing | | `MapComesBack`: forgetting the block does not bring the map back |
| `aodv` | four nodes, two chains and a diamond; they move and lose packets or they do not; two time-outs | 1.0 million | `StopAndWait`, `NoLoop`, `KeepsSending` |

`parts` is the sum, not the product, of three small systems that have no
variable in common: `part`, chosen at the start, says which of them moves, and
fairness as well as the two liveness properties stated in `MCParts` are about
that one. Two configurations are kept beside the runs, each with a property of
the model that no text of the repository promises and that TLC refutes:
`Evac_counts.cfg` (`CountsUsers`) and `Walk_between.cfg` (`WalksOnOpenRoad`);
section 5 tells of both.

*Why the bounds are enough.* `exchange` needs one item that exists in two
versions (`MaxFinds` = 2), because the order of two versions is all that
merging, erasure and announcement distinguish; `StopTime` 3 exceeds `EraseAoI`,
`RequestWindow` and `IdLifetime`, so information ages out, windows close and
ids are forgotten within a behaviour. Both users are late ones, which differ
from the others only in being activated during the run. `crowd` needs one
holder and two requesters for a request to be dropped; it runs to 16 s so that
the bound of 15 s, which `ServiceBound` computes from the intervals, can be
exceeded. `readings` has more users than places and
`HelloInterval` beyond the end, because Hello packets carry no readings.
`IndexModulus` 16 stands for 2^32: both are powers of two, and 15 and
2^32 - 1 have the same remainder for rounds of 2, 3, 4 and 5 stops.
`MaxNow` only limits the times at which patrols begin; `ferry_rivals` has 2,
for two ferries that begin in different seconds, neither of them second 0,
which counts as no time. In the town the line
d-a-b-c has a shelter at a dead end, shelters that are crossings, one
shelter on the way to another, and one user more than places, so that the
route calculation can run out of choices. `WordSize` 16 exceeds the number of
users and is reached by wrapping below zero.
In `walk` the blocks lie in the middle of roads of three inner nodes, so that
the evacuee can see one with nodes left on either side of itself (`MCWayWalk`
has TLC confirm `PlainBlocks`, the hypothesis of section 6); an evacuee placed
in the shelter `s` begins with a way of two nodes used up, for which the code
tries both ends of the way in turn, and one placed in `d` with a longer one. Five
events (`MaxEvents`) are enough for a block that is set, seen, erased, told of
again and followed by another one. The routes have all two-way maps on four
vertices, with and without the entry of the last one, and all one-way maps on
three; the ways calculated in advance, which no shelter's room changes, are
calculated for one of the sets of open shelters only. The lengths 1 and 3 let a
way over three roads tie with and undercut a direct one, and `INF` 100 exceeds every way. Three updates with files
(`MaxFile`) let names accumulate over two files and be erased by a third, and
two nodes let a list hold more than the node it releases. Files that make no
difference are left out: names to erase where erasing by file is off, and an
empty list of them, which is as good as none. In `aodv`
the two chains pass the two inner nodes in opposite orders, so that
the routes of two rounds would form a loop if they were mixed; the diamond lets
copies of one request overtake each other, and TTL 2 is the least that reaches
the end of a chain. Two time-outs (`MaxRounds`) give three rounds: one whose
packets are lost half-way, one that sets other routes, and one that uses both.

*Fairness.* The ns-3 event loop runs every scheduled event, and the handlers
schedule their own next run: `SendHello` and `HandleShelterData` arm their
timers at the end, `RecvRequest` schedules the reply, both movement handlers
re-arm themselves (`evacuation-user.cc:1601-1618`, `2072-2077`), and
`CheckMovingUserNum` does until the user has been counted off. Each therefore
gets weak fairness. In `DTNProtocol` the clock and the delivery of packets are
weakly fair too; loss is never fair. Discovery, activation and news about
blocks get no fairness. The timer of `update_mapinfo` is armed again by every
update, and the loop of a search, once entered, runs within one event to
its end (`Search` in `MCRoutes`); in `WayWalk` the movement timer is weakly fair
and nothing else is. `ArrivesOnceOpen` assumes in its own statement that the
roads stay open from some time on. In `SimpleAodv` timers fire and packets that
are not lost arrive; movement and loss are not fair. `exchange` and `readings` use
specifications without fairness, for properties that do not need it, and so
does the invariant of `ferry_index`.

*Deadlock* is checked in every run but those of `WayWalk` and `SimpleAodv`: the end
of the simulation (`Stop`), the program's end in an exception, a town in which
everyone has arrived and the end of all searches are explicit stuttering
steps. In the three runs of `WayWalk` an evacuee that has arrived has no more
events, which is how the program stops too; in `SimpleAodv` a lost request or
reply leaves the sender silent, and so does the last time-out allowed by
`MaxRounds`.

## 5. Findings

1. `ferry_index`: `ChangePatrolRoute`, called on a Hello in flight, puts in a
   shorter route and leaves the index; the next movement reads past the end.
2. `ferry_round_of_three`: `(index - 1) % size` in unsigned arithmetic is
   `size - 1` at index 0 only if `size` divides 2^32; with three shelters one
   is never read while a block on nobody's way is held.
3. `restore_crossing`: `RestoreGraphInfo` does not bring back the roads of a
   closed crossing: it joins the crossings on both sides of it to each other,
   and takes the neighbours of one end for those of the other
   (`evacuation-user.cc:949`; the commented-out line 954 has the right one).
4. `ferry_rivals`: a ferry hears that another one has patrolled its block since
   an earlier second, and stays. The comments say it leaves
   (`DTN-protocol.cc:2279`, `evacuation-user.cc:1850`), but the lines that would
   note what the Hello tells are commented out (`DTN-protocol.cc:2239-2271`).
5. `walk_turn_back`: at a crossing an evacuee sees a block on the very next node
   of a way that begins there. No node of the way lies on its side, so the list
   before this one (`m_wnlist_buf`) is taken up again (`evacuation-user.cc:766`).
   It belongs to the way before, while the id of the new way is kept, or it has
   one node only and is empty after `pop_front`, which `front()` does not allow.

Seen while reading, outside the runs: a change of target decrements
`moving_user_num` of the old shelter even if the user was never counted there,
as late users never are (`evacuation-user.cc:1468`), so that the unsigned count
of a shelter wraps (`Evac_counts.cfg` for `MCEvacuation` has TLC show a
behaviour; `SumConserved` holds modulo the width and says nothing of a single
count); only the node ahead of an evacuee is tested for a block, so with two
blocks on one road and the evacuee between them it turns back onto a closed node
(`Walk_between.cfg` for `MCWayWalk`; `WalksOnOpenRoad`); `setting.ini` ships a quick Hello
interval of 20 s against an ordinary one capped at 10 s; the search for a
ferry's target stops at the first block in map order with or without a route
(`evacuation-user.cc:1877-2003`); on a bad forecast `TaskOfCrossing` marks the
crossing ahead and not the shelter, so the forecast never changes the choice;
`m_shortest.front()` is compared on an empty list; `SetIncreaseRate` keeps the
first rate for ever (`evacuation-user.h:445`); the number of active users is
kept with ids that differ by one (`test.cc:1315`); the branch of
`RecvShelterDataAsBroadcast` whose message says it cannot be executed
(`DTN-protocol.cc:2338`) is the one for a ferry that has read the shelter in
the same second, and is harmless; the
shelter stored in advance as the nearest is drawn from the three nearest; with
both ways of erasing switched on, a block drawn at random leaves the list but
stays closed (`json_data.cc:845`; `FlaggedListed` exempts this setting); in
`simpleaodv-a` one lost request or reply ends the transmission for good, since the timer that would repeat it is
cancelled at once; the attribute `ActiveRouteTimeout` is the "Period of time
during which the route is considered to be valid"
(`simpleaodv-a/simple-protocol.cc:128`), but routes keep it only to print it and
are used for ever; `Dest` looks for data under the key of the source where
data is stored under its own, so it replies to every request.

## 6. Theorems

All constants are arbitrary, subject to the named `ASSUME`s of the modules;
TLC evaluates these on every instance.

**`DTNProtocolProofs`** proves `TypeOK`, `WindowConsistent`, `Provenance`,
`NeverOlder`, `NoStaleAdoption`, `GraphFollowsKnowledge`, `HelloChainAlive`,
`NewsAnnounced` and `ReadingsConsistent` for any sets of
nodes and blocks, any intervals and any radio. Each invariant is inductive
together with `TypeOK`; `Provenance` needs its part about packets, since
information is stored from a packet sent earlier, and `GraphFollowsKnowledge`
holds because a handler changes map and graph in one event. The two action
properties follow from the same case split over the handlers: `Missing` and
`Accepted` are the only ways by which a time enters a map. `HelloChainAlive` is
inductive with `QuickDue`: a node in quick mode has a Hello due within
`QuickHelloInterval`; it rests on `Rearms`, what sending a Hello does to the
timer from whichever event it is sent. `NewsAnnounced` needs `QuickDue` and
`FindsHeld`: a discovery of this second is still held by who made it, so that a
step which makes an item newer without a new discovery is the arrival of a
reply. `ReadingsConsistent`
is inductive because it speaks of packets under way as well as of maps: a
reading is either copied from one of these or taken now, and space only falls
(`SpaceFalls`).

`ServedWithinBoundHolds` proves the real-time bound for every number of nodes and
discoveries and all intervals: where the radio loses nothing and nothing is
erased (`~Lossy`, `~UseEraseInfo`; duplicates and quick Hello are allowed), a
node that was there from the start has a discovery at most `ServiceBound` seconds
later, as long as it and the finder are under way. `ServiceBound` is a formula:
`FirstService` = longest Hello delay + window + 3 s for a reply,
`NextService` = the same + window + 1 s for each one after it, and `AllWants` = one
reply for every discovery and every node but its finder. The formula is exact on
the instance of `crowd`, where TLC refutes one second less. The argument
counts *wants*: a node that has not left and misses a discovery. `Remaining` is
the number of open ones, with those that discoveries to come may open. It never
grows (`RemainingStep`); if it stays, every open want stays open. A
window answers one request only, so a particular node may be passed over again
and again, but not without cost: whoever is answered instead has a want
satisfied. A request that has become useless (`Wasted`) occupies a window
without satisfying anything; it can only have become so because a want was
satisfied since (`WasteStep`). `CleanBy(u, c)`: the useless requests at u are
out of the way by c. `UnderWay(u, n, c)`: one of the five events on the way from
a Hello of u after c to the arrival of its next useful reply is due in time, with one lemma for
each: `HelloDueStep`, `HelloUnderWayStep`, `RequestUnderWayStep`,
`AnswerDueStep`, `ReplyUnderWayStep`. The invariant `AllOnTrack` says that for
every missing discovery there is such a c, no later than the wants already
satisfied have paid for. A step that satisfies a want may undo what is under way;
then the count is lower by one and a fresh start (`FreshStart`) ends within
`NextService`. The lemmas below it say which packets and ids a step adds and
removes (`StepAdds`, `StepRemoves`, `IdsUsed`: a fresh Hello is no duplicate for
anyone), and that packets stay under way for one second at most. TLC checked
`AllOnTrack` and the count as invariants, with one discovery in full and
with two on several million states, before they were proved.

**`FerryPatrolProofs`** proves `TypeOK`, `ModeConsistent` and
`ReadsOnlyShelters` for any ferries, rounds and routes. The
inductive invariant adds `NoRivalKnown`: the maps about other ferries stay
empty. Without it a ferry could lose its area, and its index, which belongs to
the patrol, would be used on the shelter round.

Four theorems are about findings 1, 2 and 4. `NeverYields`: no ferry ever leaves
a block it patrols, whatever it hears, so that finding 4 is not a matter of
timing. `InRangeOnLongRoutes`: if no route
round a block has fewer stops than the shelter round, `IndexInRange` holds and
the program does not die of a bad access; a shorter route is thus the only
cause. `PreviousCoversRound`: `(index - 1) % size` reaches every position of the
round *if and only if* the number of shelters divides the modulus of the index,
2^32. `LastShelterNeverRead`: if it does not, then in every behaviour a ferry
that holds a block never comes to read the last shelter of the round; TLC
shows one such behaviour for three shelters. The hypothesis that no shelter
occurs twice in the round is what `CalculatedRoundIsGreedy` proves of it. The
arithmetic rests on `ModUnique`, the uniqueness of the remainder.

**`EvacuationProofs`** proves `TypeOK`, `SpaceAccounted`, `MarksJustified`,
`AbortsOnlyWhenFull` and `RefugeIsTarget` for any road graph, users and
capacities. None of them is inductive. `IInv` (at the end of `Evacuation`)
says what a user under way knows: its target is listed, its route leads over
crossings to the target and *past full shelters only*, it never stands at an
open shelter that is not its target, a dead end is entered from and left for
its one neighbour, and what has been taken off its list is marked. "Past full
shelters only" is the heart: the chosen shelter is the nearest of those not
marked, so one on the way is nearer, hence marked, hence full (lemma
`NearerIsFull`), and shelters never empty again. It is the reason why marking
the wrong vertex does no harm and why no look-up of a target fails. The lemmas
follow one run of `HandleUserMovement`: `NotedSound`, `TakeRouteSound`,
`RecalculatedSound`, `WalkSound` (with its cases crossing, dead end, turning
round), `CompleteEvacuationStep` and `ThrowsOnlyWhenFull`.
`SumConserved` is proved too, from `SumInv`: the sum of the counts differs from
the users counted by a whole number of words. In this form a step that wraps a
counter adds or takes a word, and no remainders have to be combined. It needs
`IInv` for the targets under which users are counted. The sum over the shelters is a recursion over sets; `DataInduction` and the lemma
`TotalChange` say how it changes with one or two of the counts.

**`WayWalkProofs`** proves the refinement `GraphKeepsPromise` (the graph of
`WayWalk` implements `OpenRoads`), `RouteStaysOpen` and `AbortMeansCutOff` for
any map, any number of events and any order of them, under one hypothesis:
`PlainBlocks`. It says that every block lies within a road between two crossings
that no other road joins, and is the only one that can be closed on it. The
hypothesis is what the code needs, not what the proof needs: for blocked crossings the
promise is broken (finding 3), and of two blocks on one road the erasure of one
opens the road while the other is still known. TLC confirms the promise on the
map of `walk`, which satisfies the hypothesis. The invariant `RoadInv` says that
the graph has all vertices of the map and offers exactly the roads free of known
blocks, so that (`ForgettingBringsMapBack`) a graph on which all blocks are
forgotten is the whole map: `MapComesBack`, which finding 3 refutes for a
crossing. The lemmas `CutOpens` and `RestoreOpens` show it for the two operations,
`BlockEnds` identifies the two crossings the code finds by walking along the way
with the ends of the road. `WalkInv` adds what a
walking evacuee knows: a route left to it ends at a shelter; with none left and
no search due, the crossing just passed is a shelter; and with that crossing the route is a path of the graph unless a
search is due or the last one failed. It is needed since neither property says
by itself what happens when a route is shortened at a crossing, kept after a
failed search or replaced; the lemmas `TaskFields`, `AdvancedFields` and
`FoundRoute` follow one run of `HandleUserMovement`.

**`DijkstraProofs`** proves type correctness of the search, `Certified` and
`PairCertified` for any road map with natural lengths. `Certified` is not
inductive: `RouteInv` adds that settled vertices have distances not above those
of pending ones (`Ordered`), which is why a settled distance never has to be
corrected. `PairInv` adds `QueueBounds`: an entry of the queue is never below
the distance of its vertex, so for an entry dropped as out of date a smaller
one was pushed later. The certificates are the local conditions under which distances
are shortest distances. The step from there to all ways is proved as well:
`NearestOfAllWays` and `StoredShortestOfAllWays` speak of every sequence of
vertices, `FindsNearestHolds` and `StoredIsShortestHolds` of the ways without a
vertex twice, which the run enumerates. It has two halves. `Potential`: where
no road is a shortcut, a distance grows along any way by no more than the way's
length, so nothing is shorter. `Telescope`: along the way recorded it grows by exactly
the lengths, so the way is as long as its distance says. Both are inductions
over the vertices of a way. `SearchInv` adds to `RouteInv` what is recorded
with the distances (`RoutesRecorded`, `Outcome`), `TreeInv` adds to `PairInv`
that a distance accounts for the road from the parent (`ParentsNear`) and where
stored ways come from. As in the code a way of length `INF` or more counts as
none.

The rounds: `TourVisitsNearestFirst` says of the nearest-neighbour loop, for
any stops, distances and origin, that it comes to every stop once and always goes to the
first of the nearest; `CalculatedRoundIsGreedy` that the
patrol route is a greedy round and (`OneGreedyRound`) that there is no other. The loop is a recursion
over sets of stops; `TourByRule` shows that the function is defined by its
equation. `RoutesCorrect` puts the results together for the composition of
`MCRoutes`.

Termination, as far as it can be shown without fairness: `SearchTerminates`
says that every step of an evacuee's search lowers `SearchLeft`, a natural number, and
that until the end a step is possible (its guard is stated, `ENABLED` being out of
reach). `PairSearchTerminates` says that a step of the search with a queue lowers
distances and raises none, or takes an entry from the queue, which is finite,
and that a queue that is not empty has a top: with finitely many vertices no
endless sequence of such steps exists, although vertices are pushed again.

**`MapUpdateProofs`** proves `TypeOK`, `FlaggedListed` and `FollowsSchedule`
for any nodes, any number of files of any length and any settings. `MapInv`
combines them: `FollowsSchedule` is not inductive, since an update whose list
is empty does not read the names to erase, and only `FlaggedListed` says that
nothing is left for them then; `Follows` adds that the names erased so far are
kept and that the names still to be set are flagged. Setting and erasing run over lists in which names
occur several times; the lemmas say what `Without` leaves of a list.

**`DataInduction`** has what the prover's library cannot offer, its induction
theorems being stated for an operator: `NatMinimum` (a set of numbers has a
least member), `UpTo` (induction stated with a set), and that a recursive
function on an initial part of the numbers, or on the subsets of a finite set,
satisfies the equation that defines it. Each use is an instance for one set or one function, so
that no operator has to be instantiated.

**`SimpleAodvProofs`** proves `TypeOK`, `StopAndWait`, `NoLoop` and
`HopsAreDirect` (which no run checks) for any nodes, topologies, TTL, movements
and losses. The invariant `Inv` has four parts besides the types. `Exchange`:
either a way is looked for and only a reply is under way, or data has been sent
and only it or its acknowledgement is; requests still spreading are then known
to Dest. `Backward`: a route to Source leads to a node reached in a later round
or, in the same round, with more of the TTL left (`Below`); what this round has
reached knows the request. `Forward`: a route to Dest leads to a node passed by
a later packet of Dest, or earlier by the same. It rests on `Backward`: a packet
of Dest goes down the strict order `Below`, so it meets no node twice, and on
`Exchange`: while it is under way the flood of its round no longer changes that
order at the nodes it has passed or goes to next. `Hops`: entries are set in
pairs, and Source and Dest are next hops to themselves only. A set of nodes
without a way out would have a member that is least in the order (lemma
`LexicalMinimum`), and its next hop is smaller still.

Assumptions added for these proofs: `Vertex` (in `RoadLengths`), `Shelter`
(in `Evacuation`) and the nodes of `DTNProtocol` (`NodesAreFinite`) are finite.

Only model-checked: all liveness properties (`WindowCloses`, `BlockTakenOn`, `PatrolCovered`,
`EveryShelterRead`, `AllEvacuate`, `ArrivesOnceOpen`, `SearchEnds`,
`RandomReleasesAll`, `KeepsSending`), since the prover does not reason about
fairness or `ENABLED`. For `SearchEnds` all but the use of fairness is proved
(`SearchTerminates`), for `WindowCloses` that the clock does not pass the time
of the reply while a window is open (`WindowConsistent`), for `EveryShelterRead`
which positions are read (`PreviousCoversRound`). The five findings are
counterexamples and need no proof.

## 7. Not modelled

* The composition of M3 and M4: `Evacuation` has many evacuees on roads that
  do not change, `WayWalk` one evacuee on roads that do and shelters that do
  not fill. Both together are beyond TLC; they share `m_shortest` and the
  search, and the theorems of M3 hold for roads that do not change.
* Lengths in the road graph: a road restored by `RestoreGraphInfo` gets the
  length of the straight line between its ends instead of its own.
* Files that are not well formed: a file of blocks that names a node which is
  not on the map ends the program, since `.at()` throws outside the try blocks
  (`json_data.cc:856`, `json_data.h:201`). The names in the files of `MapUpdate` are nodes of
  the map.
* Two blocks on one road. The condition `PlainBlocks` excludes them, in `walk`
  and in the theorems about it: forgetting one of them opens the road while the
  other is known, and an evacuee between them turns back onto a closed node.
* Reading maps and settings, distances on the ellipsoid, removal of the ways
  outside the largest connected part of the map, log files, packet
  serialisation: input and output that decide nothing while the simulation
  runs.
* The routing table: `SetRoute` enters the destination right before each
  unicast, so the look-ups always succeed.
* Sections, clusters, access points, section data trade: left over from an
  earlier program; nothing calls them.
* `ferry`, `ferry3`: other versions of the same program. Of `simpleaodv-a`
  Hello, flooding of data and clusters, which nothing starts.
* `python/`: plots of the log files. `inicpp.h` and ns-3: third party. The
  Python files of the repository are these plots, the bindings that ns-3
  generates for itself and its build scripts; the program modelled here is C++
  throughout.
