----------------------------- MODULE Evacuation -----------------------------
(* Evacuees walk to a shelter with room (MyUser::HandleUserMovement and    *)
(* what it calls) while the simulation counts how many are heading for     *)
(* each shelter (RoutingProtocol::CheckMovingUserNum).                     *)
(*                                                                         *)
(* The road graph is a constant: Node are its vertices, the crossings and  *)
(* the dead ends of ways; a shelter is a vertex of either kind.  Between   *)
(* two vertices HandleUserMovement also runs at the nodes along the road,  *)
(* where it only raises isDijkstra, which it raises again at the next      *)
(* vertex; a step of the model therefore leads from vertex to vertex.      *)
(* Blocked roads are not part of this module.                              *)
EXTENDS Integers, FiniteSets, Sequences

CONSTANTS
    EvcUser,       \* evacuees present from the start
    AddUser,       \* evacuees added later (ADD_EVC_USER)
    Node,          \* vertices of the road graph
    Crossing,      \* those at which roads meet; the others are dead ends
    Shelter,       \* those with a shelter
    Capacity,      \* its places
    Route,         \* Route[c][s]: vertices of the shortest way from c to s
    Dist,          \* Dist[c][s]: its length
    Turn,          \* the one neighbour of a dead end
    Start,         \* the vertex an evacuee first comes to
    UseExitInfo,   \* --useexitinfo: foresee that the shelter will be full
    WordSize,      \* 2^32 in the code: unsigned counters wrap here
    NoNode         \* no shelter chosen, no node passed

User == EvcUser \cup AddUser

ASSUME UsersAssumption == IsFiniteSet(User) /\ EvcUser \cap AddUser = {}
ASSUME RoadAssumption ==
    /\ Crossing \subseteq Node /\ Shelter \subseteq Node /\ NoNode \notin Node
    /\ IsFiniteSet(Shelter)
    /\ Turn \in [Node \ Crossing -> Crossing]
    /\ Start \in [User -> Node]
    /\ Dist \in [Crossing -> [Shelter -> Nat]]
    /\ Route \in [Crossing -> [Shelter -> Seq(Node) \ {<< >>}]]
    /\ \A c \in Crossing, s \in Shelter :
        /\ Route[c][s][1] = c
        /\ Route[c][s][Len(Route[c][s])] = s
        /\ \A i \in 1 .. Len(Route[c][s]) - 1 : Route[c][s][i] \in Crossing
        \* roads have a length: what lies on the way is nearer
        /\ \A i \in 1 .. Len(Route[c][s]) - 1 :
            Route[c][s][i] \in Shelter => Dist[c][Route[c][s][i]] < Dist[c][s]
        \* a dead end is entered from its one neighbour
        /\ s \notin Crossing => Route[c][s][Len(Route[c][s]) - 1] = Turn[s]
ASSUME CountAssumption ==
    /\ WordSize \in Nat \ {0}
    /\ Capacity \in [Shelter -> 0 .. WordSize - 1]
    /\ UseExitInfo \in BOOLEAN

VARIABLES
    usr,         \* the fields of each MyUser that steer its movement
    space,       \* MyBuilding::exit_nodes: places left
    movingNum,   \* MyBuilding::moving_user_num
    timer,       \* users whose CheckMovingUserNum timer is armed
    aborted      \* an exception nobody catches has ended the program

evVars == << usr, space, movingNum, timer, aborted >>

UserState ==
    [here       : Node,                  \* front of m_currentway
     shortest   : Seq(Node),             \* m_shortest: vertices still to come
     isDijkstra : BOOLEAN,
     full       : SUBSET Node,           \* m_fullexitnodeid
     listed     : SUBSET Shelter,        \* keys of m_exitnodeinfolist
     exitnode   : Shelter \cup {NoNode}, \* m_exitnode, and the target buffer
     passed     : Node \cup {NoNode},    \* back of m_passednode
     onRoute    : SUBSET Node,           \* keys of m_exit_distance_map
     started    : BOOLEAN,               \* the movement timer is armed
     isExit     : BOOLEAN,
     refuge     : Shelter \cup {NoNode}, \* m_exitinfopair.first
     checked    : BOOLEAN,               \* check_move_flag
     already    : BOOLEAN]               \* alreadycountflag

EvTypeOK ==
    /\ usr \in [User -> UserState]
    /\ space \in [Shelter -> 0 .. WordSize - 1]
    /\ movingNum \in [Shelter -> 0 .. WordSize - 1]
    /\ timer \subseteq EvcUser
    /\ aborted \in BOOLEAN

EvInit ==
    /\ usr = [u \in User |->
        [here |-> Start[u], shortest |-> << >>, isDijkstra |-> TRUE,
         full |-> {}, listed |-> Shelter, exitnode |-> NoNode,
         passed |-> NoNode, onRoute |-> {}, started |-> u \in EvcUser,
         isExit |-> FALSE, refuge |-> NoNode, checked |-> FALSE,
         already |-> FALSE]]
    /\ space = Capacity
    /\ movingNum = [s \in Shelter |-> 0]
    /\ timer = EvcUser
    /\ aborted = FALSE

-----------------------------------------------------------------------------
(* Helpers *)

Ends(seq) == seq[Len(seq)]

Elements(seq) == {seq[i] : i \in 1 .. Len(seq)}

(* Unsigned arithmetic of the counters. *)
Decremented(n) == (n - 1) % WordSize

Incremented(n) == (n + 1) % WordSize

FullShelterUnnoticed(r) == FALSE          \* mutant: the room is not checked

AtFullShelter(r) == r.here \in Shelter /\ space[r.here] = 0

(* m_exitnodeinfolist.at(target) throws. *)
TargetLost(r) ==
    /\ r.shortest # << >>
    /\ Ends(r.shortest) \notin r.full \cup r.listed

(* A shelter with room is reached before the route is used up: the target  *)
(* is a dead end, at which TaskOfCrossing does not run.                    *)
ReachesOpenShelter(r) ==
    r.here \in Shelter /\ space[r.here] # 0 /\ r.shortest # << >>

NotedAtCrossings(r) ==                    \* mutant: not recorded at a dead end
    [r EXCEPT
        !.isDijkstra = @ \/ (r.shortest # << >> /\ Ends(r.shortest) \in r.full)
                         \/ AtFullShelter(r),
        !.full = IF AtFullShelter(r) /\ r.here \in Crossing
                 THEN @ \cup {r.here} ELSE @]

(* What HandleUserMovement notes before it decides: the target is known to *)
(* be full, or the user stands before a full shelter.                      *)
Noted(r) ==
    [r EXCEPT
        !.isDijkstra = @ \/ (r.shortest # << >> /\ Ends(r.shortest) \in r.full)
                         \/ AtFullShelter(r),
        !.full = IF AtFullShelter(r) THEN @ \cup {r.here} ELSE @]

(* The choice of DijkstraRouteCalculationforGeographicInfo.  The second    *)
(* number of m_exitnodeinfolist stays the capacity while a user is moving. *)
Eligible(r) == {s \in r.listed \ r.full : Capacity[s] # 0}

AnyEligible(r) == Eligible(r)            \* mutant: distances are not compared

NearestOpen(r) ==
    {s \in Eligible(r) : \A t \in Eligible(r) : Dist[r.here][s] <= Dist[r.here][t]}

MustRecalculate(r) == r.isDijkstra /\ r.here \in Crossing

(* The new route, with the place where the user stands already passed      *)
(* (TaskOfCrossing at the end of the calculation).                         *)
TakeRoute(r, s) ==
    [r EXCEPT !.shortest = Tail(Route[r.here][s]),
              !.passed = r.here,
              !.exitnode = s,
              !.onRoute = Elements(Tail(Route[r.here][s])),
              !.isDijkstra = FALSE]

Recalculated(r) ==
    IF MustRecalculate(r) THEN {TakeRoute(r, s) : s \in NearestOpen(r)} ELSE {r}

RecountedOff(old, new) ==                 \* mutant: not counted at the new one
    IF old = NoNode \/ old = new
    THEN movingNum
    ELSE [movingNum EXCEPT ![old] = Decremented(@)]

(* A user that changes its target takes itself from one count to the       *)
(* other.                                                                  *)
Recounted(old, new) ==
    IF old = NoNode \/ old = new
    THEN movingNum
    ELSE [movingNum EXCEPT ![old] = Decremented(@), ![new] = Incremented(@)]

NextNode(r) == IF r.here \in Crossing THEN Head(r.shortest) ELSE Turn[r.here]

CanForeseeAnywhere(r, n) ==               \* mutant: at the target as well
    UseExitInfo /\ n \in r.onRoute

(* TaskOfCrossing can estimate the number of places left on arrival.  The  *)
(* estimate itself is left open.                                           *)
CanForesee(r, n) == UseExitInfo /\ n \in r.onRoute /\ n # r.exitnode

(* TaskOfCrossing(n): on a bad estimate the id that is marked full is that *)
(* of n, not that of the target; then n is taken off the route.  On an     *)
(* empty route the code compares n with the front of an empty list, which  *)
(* never equals a coordinate.                                              *)
TaskOfCrossing(r, n, foreseen) ==
    LET onFront == r.shortest # << >> /\ Head(r.shortest) = n
    IN  [r EXCEPT
            !.isDijkstra = @ \/ foreseen,
            !.full = IF foreseen THEN @ \cup {n} ELSE @,
            !.listed = IF foreseen THEN @ \ {n} ELSE @,
            !.passed = IF onFront THEN n ELSE @,
            !.shortest = IF onFront THEN Tail(@) ELSE @]

(* GetWayNextVector: at a dead end the user turns round. *)
GetWayNextVector(r, foreseen) ==
    LET n == NextNode(r)
    IN  [(IF n \in Crossing THEN TaskOfCrossing(r, n, foreseen) ELSE r)
            EXCEPT !.here = n]

-----------------------------------------------------------------------------
(* Actions *)

(* The user has used up its route and is not about to choose another.      *)
Arrives(r) == r.shortest = << >> /\ ~r.isDijkstra

(* Look-ups that throw past every handler: the target, or the shelter the  *)
(* user enters, is not in m_exitnodeinfolist, or the route calculation has *)
(* no shelter left to choose.  (At an open shelter on the way the first    *)
(* exception is caught; the code then runs CompleteEvacuation again and    *)
(* the same look-up throws outside the handler.)                           *)
Throws(r) ==
    \/ TargetLost(r)
    \/ ReachesOpenShelter(r) /\ r.here \notin r.listed
    \/ /\ ~ReachesOpenShelter(r)
       /\ \/ MustRecalculate(Noted(r)) /\ Eligible(Noted(r)) = {}
          \/ \E q \in Recalculated(Noted(r)) : Arrives(q) /\ q.passed \notin q.listed

Abort(u) ==
    /\ Throws(usr[u])
    /\ aborted' = TRUE
    /\ UNCHANGED << usr, space, movingNum, timer >>

(* CompleteEvacuation(s) for user u, whose fields are now r. *)
CompleteEvacuation(u, r, s) ==
    /\ usr' = [usr EXCEPT ![u] = [r EXCEPT !.isExit = TRUE, !.refuge = s]]
    /\ space' = [space EXCEPT ![s] = Decremented(@)]
    /\ movingNum' = Recounted(usr[u].exitnode, r.exitnode)
    /\ UNCHANGED << timer, aborted >>

Walk(u, r) ==
    /\ \E foreseen \in {b \in BOOLEAN : b => CanForesee(r, NextNode(r))} :
        usr' = [usr EXCEPT ![u] = GetWayNextVector(r, foreseen)]
    /\ movingNum' = Recounted(usr[u].exitnode, r.exitnode)
    /\ UNCHANGED << space, timer, aborted >>

EnterOnTheWay(u) ==
    /\ ~Throws(usr[u]) /\ ReachesOpenShelter(usr[u])
    /\ CompleteEvacuation(u, Noted(usr[u]), usr[u].here)

EnterOrWalk(u) ==
    /\ ~Throws(usr[u]) /\ ~ReachesOpenShelter(usr[u])
    /\ \E q \in Recalculated(Noted(usr[u])) :
        \/ Arrives(q) /\ CompleteEvacuation(u, q, q.passed)
        \/ ~Arrives(q) /\ Walk(u, q)

(* One run of the movement timer of user u, at a vertex.                   *)
HandleUserMovement(u) ==
    /\ ~aborted /\ usr[u].started /\ ~usr[u].isExit
    /\ Abort(u) \/ EnterOnTheWay(u) \/ EnterOrWalk(u)

(* A reserved user joins in while the simulation runs. *)
ActivateReservedAddUser(u) ==
    /\ ~aborted /\ ~usr[u].started
    /\ usr' = [usr EXCEPT ![u].started = TRUE]
    /\ UNCHANGED << space, movingNum, timer, aborted >>

(* News about a block reaches the user (UpdateGraphInfoReceivedPacket).    *)
HearOfBlock(u) ==
    /\ ~aborted /\ usr[u].started /\ ~usr[u].isExit /\ ~usr[u].isDijkstra
    /\ usr' = [usr EXCEPT ![u].isDijkstra = TRUE]
    /\ UNCHANGED << space, movingNum, timer, aborted >>

(* Count a user under its present target: once when it is first seen, and  *)
(* off again when it is seen to have arrived.                              *)
CountOn(u) ==
    /\ ~usr[u].isExit /\ ~usr[u].checked /\ ~usr[u].already
    /\ movingNum' = [movingNum EXCEPT ![usr[u].exitnode] = Incremented(@)]
    /\ usr' = [usr EXCEPT ![u].checked = TRUE]
    /\ UNCHANGED << space, timer, aborted >>

CountOff(u) ==
    /\ usr[u].isExit /\ usr[u].checked /\ ~usr[u].already
    /\ movingNum' = [movingNum EXCEPT ![usr[u].exitnode] = Decremented(@)]
    /\ usr' = [usr EXCEPT ![u].already = TRUE]
    /\ UNCHANGED << space, timer, aborted >>

StopCounting(u) ==
    /\ usr[u].isExit /\ usr[u].checked /\ usr[u].already
    /\ timer' = timer \ {u}
    /\ UNCHANGED << usr, space, movingNum, aborted >>

(* In all other cases the timer is armed again and nothing changes.        *)
CheckMovingUserNum(u) ==
    /\ ~aborted /\ u \in timer
    /\ usr[u].exitnode \in Shelter
    /\ CountOn(u) \/ CountOff(u) \/ StopCounting(u)

(* Everyone under way is in a shelter: only timers that change nothing go  *)
(* on.                                                                     *)
Finished ==
    /\ aborted \/ \A u \in User : usr[u].started => usr[u].isExit
    /\ UNCHANGED evVars

EvNext ==
    \/ \E u \in User : HandleUserMovement(u) \/ HearOfBlock(u)
    \/ \E u \in EvcUser : CheckMovingUserNum(u)
    \/ \E u \in AddUser : ActivateReservedAddUser(u)
    \/ Finished

EvSpec == EvInit /\ [][EvNext]_evVars

(* Every run of HandleUserMovement schedules the next one, as does every   *)
(* run of CheckMovingUserNum until it has nothing left to do; the event    *)
(* loop runs what is scheduled.                                            *)
EvFairSpec ==
    /\ EvSpec
    /\ \A u \in User : WF_evVars(HandleUserMovement(u))
    /\ \A u \in EvcUser : WF_evVars(CheckMovingUserNum(u))

-----------------------------------------------------------------------------
(* Properties *)

In(s) == {u \in User : usr[u].refuge = s}

(* Every place is accounted for: the unchecked decrement of exit_nodes in  *)
(* ExitNodesPassedUserSet happens once for each user in the shelter, so    *)
(* the counter never wraps although the test for room and the decrement    *)
(* are separated by a route calculation.                                   *)
SpaceAccounted ==
    \A s \in Shelter : space[s] + Cardinality(In(s)) = Capacity[s]

(* A user only ever takes for full a shelter that is, although             *)
(* TaskOfCrossing marks the crossing it is about to pass instead of the    *)
(* target it foresees to be full.                                          *)
MarksJustified ==
    \A u \in User : \A s \in usr[u].full \cap Shelter : space[s] = 0

(* The program only ends in an exception when every place in every shelter *)
(* is taken: neither a look-up of a target or a refuge fails nor does a    *)
(* user run out of shelters to try while there is room somewhere.          *)
AbortsOnlyWhenFull == aborted => \A s \in Shelter : space[s] = 0

(* Where a user ends up is where it was counted to go, so that             *)
(* CheckMovingUserNum, which looks at m_exitnode, takes it off the count   *)
(* of the right shelter.                                                   *)
RefugeIsTarget ==
    \A u \in User : usr[u].isExit => usr[u].refuge = usr[u].exitnode

Counted == {u \in User : usr[u].checked /\ ~usr[u].already}

Total(count) ==
    LET sum[S \in SUBSET DOMAIN count] ==
          IF S = {} THEN 0
          ELSE LET s == CHOOSE s \in S : TRUE IN count[s] + sum[S \ {s}]
    IN  sum[DOMAIN count]

(* Whatever the order of counting, changes of target and arrivals, the     *)
(* counts of all shelters together are the users counted on and not yet    *)
(* off, as long as they are added in the counters' own arithmetic          *)
(* (CheckMovingUserNum logs this sum).                                     *)
SumConserved == Total(movingNum) % WordSize = Cardinality(Counted) % WordSize

-----------------------------------------------------------------------------
(* Why they hold: facts about each user under way.                         *)

(* A user without a target is about to choose one; a target stays listed.  *)
TargetSound(r) ==
    IF r.exitnode = NoNode
    THEN r.isDijkstra /\ r.shortest = << >> /\ r.onRoute = {}
    ELSE r.exitnode \in r.listed

(* The route leads over crossings to the target, past full shelters only.  *)
RouteSound(r) ==
    /\ r.shortest # << >> => Ends(r.shortest) = r.exitnode
    /\ \A i \in 1 .. Len(r.shortest) - 1 : r.shortest[i] \in Crossing
    /\ \A n \in (Elements(r.shortest) \cup r.onRoute) \cap Shelter :
        n # r.exitnode => space[n] = 0

(* Where the user stands: at its target once the route is used up, never   *)
(* at a shelter with room that is not its target.                          *)
PlaceSound(r) ==
    IF r.shortest = << >>
    THEN r.exitnode # NoNode =>
            r.here = r.exitnode /\ r.passed = r.exitnode /\ r.here \in Crossing
    ELSE r.here \in Shelter /\ r.here # r.exitnode => space[r.here] = 0

(* A dead end is entered from its neighbour, and left for it.              *)
DeadEndSound(r) ==
    r.shortest # << >> =>
        IF r.here \in Crossing
        THEN r.exitnode \notin Crossing =>
                Turn[r.exitnode] = IF Len(r.shortest) = 1 THEN r.here
                                   ELSE r.shortest[Len(r.shortest) - 1]
        ELSE /\ r.shortest = << r.here >>
             /\ Turn[r.here] \in Shelter => space[Turn[r.here]] = 0

(* Only marked shelters have been taken off the list, and marks are right. *)
MarksSound(r) ==
    /\ Shelter \ r.listed \subseteq r.full
    /\ \A s \in r.full \cap Shelter : space[s] = 0

(* The inductive invariant. *)
IInv ==
    /\ EvTypeOK
    /\ \A u \in User :
        /\ MarksSound(usr[u])
        /\ IF usr[u].isExit
           THEN usr[u].refuge = usr[u].exitnode /\ usr[u].refuge \in Shelter
           ELSE /\ usr[u].refuge = NoNode
                /\ TargetSound(usr[u]) /\ RouteSound(usr[u])
                /\ PlaceSound(usr[u]) /\ DeadEndSound(usr[u])
    /\ SpaceAccounted
    /\ AbortsOnlyWhenFull
=============================================================================
