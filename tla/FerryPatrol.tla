----------------------------- MODULE FerryPatrol -----------------------------
(***************************************************************************)
(* The patrol of the ferries (UAVs) of scratch/ferry2: the ferry part of   *)
(* MyUser (evacuation-user.cc).                                            *)
(*                                                                         *)
(* A ferry flies round the shelters and reads their space.  Once it knows  *)
(* a blocked road node it tries to patrol the crossings whose way to a     *)
(* shelter leads over that node instead.  Two events call                  *)
(* ChangePatrolRoute: the ferry's own movement timer, on arrival at a      *)
(* stop, and the reception of a Hello, while the ferry is in flight.       *)
(* Only the first of them also advances the patrol index.                  *)
(*                                                                         *)
(* Blocks reach the ferry through DTNProtocol and are never erased by a    *)
(* ferry.  Distances and flying times are abstracted: a ferry arrives at   *)
(* its next stop at any time.                                              *)
(***************************************************************************)
EXTENDS Integers, Sequences

CONSTANTS
    Ferry,          \* FERRY_NODE nodes
    User,           \* other nodes whose Hellos a ferry hears
    Shelter,        \* ids of the shelters
    Crossing,       \* ids of the crossings
    Block,          \* ids of the blocked nodes
    ShelterRound,   \* m_old_patrolRoute: MyBuilding::GetPatrolRoute
    ImpactRoute,    \* for every block the sorted route over its crossings
    Rank,           \* the order of block ids in a std::map
    StartIndex,     \* m_currentPatrolIndex set by test.cc
    IndexModulus,   \* 2^32: m_currentPatrolIndex is a uint32_t
    MaxNow          \* bound: last second at which a patrol start is told apart

NoBlock == -1     \* the empty area id
NoStop == -1      \* nothing read so far
Garbage == -2     \* an element read past the end of a vector
Stop == Shelter \cup Crossing
Positions(r) == 0 .. Len(r) - 1

ASSUME RoutesAreGiven ==
    /\ ShelterRound \in Seq(Shelter) /\ ShelterRound # << >>
    /\ ImpactRoute \in [Block -> Seq(Crossing)]
    /\ Rank \in [Block -> Nat]
    /\ \A b, c \in Block : Rank[b] = Rank[c] => b = c
    /\ StartIndex \in [Ferry -> Positions(ShelterRound)]

ASSUME NumbersAreGiven ==
    /\ IndexModulus \in Nat /\ IndexModulus > Len(ShelterRound)
    /\ \A b \in Block : IndexModulus > Len(ImpactRoute[b])
    /\ MaxNow \in Nat

ASSUME MarkersAreNoIds ==
    /\ NoBlock \notin Block
    /\ NoStop \notin Stop /\ Garbage \notin Stop

VARIABLES
    now,        \* Simulator::Now in seconds
    held,       \* keys of m_blockednodeid_and_time
    route,      \* m_patrolRoute
    idx,        \* m_currentPatrolIndex
    switched,   \* changerouteforUAV
    area,       \* my_patrol_erea_and_start_time.first
    start,      \* my_patrol_erea_and_start_time.second
    assigned,   \* keys of other_UAV_patrol_erea_and_id
    rival,      \* patrol_ereaid_and_time, 0 where there is no entry
    stop,       \* the stop at which the ferry is or to which it flies
    lastRead,   \* argument of the last call of GetExitInfoforFerry
    aborted     \* the process died of an access past the end of a vector

vars == <<now, held, route, idx, switched, area, start, assigned, rival, stop,
          lastRead, aborted>>
modeVars == <<route, switched, area, start>>

TypeOK ==
    /\ now \in 0 .. MaxNow
    /\ held \in [Ferry -> SUBSET Block]
    /\ route \in [Ferry -> Seq(Stop)]
    /\ idx \in [Ferry -> 0 .. IndexModulus - 1]
    /\ switched \in [Ferry -> BOOLEAN]
    /\ area \in [Ferry -> Block \cup {NoBlock}]
    /\ start \in [Ferry -> 0 .. MaxNow]
    /\ assigned \in [Ferry -> SUBSET Block]
    /\ rival \in [Ferry -> [Block -> 0 .. MaxNow]]
    /\ stop \in [Ferry -> Stop]
    /\ lastRead \in [Ferry -> Stop \cup {NoStop, Garbage}]
    /\ aborted \in BOOLEAN

(* The program starts one ferry over each stop of the shelter round.       *)
Init ==
    /\ now = 0
    /\ held = [f \in Ferry |-> {}]
    /\ route = [f \in Ferry |-> ShelterRound]
    /\ idx = StartIndex
    /\ switched = [f \in Ferry |-> FALSE]
    /\ area = [f \in Ferry |-> NoBlock]
    /\ start = [f \in Ferry |-> 0]
    /\ assigned = [f \in Ferry |-> {}]
    /\ rival = [f \in Ferry |-> [b \in Block |-> 0]]
    /\ stop = [f \in Ferry |-> ShelterRound[StartIndex[f] + 1]]
    /\ lastRead = [f \in Ferry |-> NoStop]
    /\ aborted = FALSE
-----------------------------------------------------------------------------
(* m_patrolRoute[i], which is not checked.                                 *)
ElementAt(r, i) == IF i \in Positions(r) THEN r[i + 1] ELSE Garbage

(* (m_currentPatrolIndex - 1) % size: the subtraction wraps in 32 bits,    *)
(* before the remainder is taken.                                          *)
PreviousClamped(i, size) ==              \* mutant: clamped at zero
    IF i = 0 THEN 0 ELSE (i - 1) % size

Previous(i, size) == ((i + IndexModulus - 1) % IndexModulus) % size

(* Is the patrol of the current area to be continued?  The area must still *)
(* be blocked and no other ferry known to have started there earlier.      *)
LostPriority(f) ==
    rival[f][area[f]] > 0 /\ rival[f][area[f]] < start[f]

Continues(f) == switched[f] /\ area[f] \in held[f] /\ ~LostPriority(f)

CandidatesNoEntry(f) ==                  \* mutant: no entry counts as time 0
    {b \in held[f] \ assigned[f] : ~(rival[f][b] < now)}

(* The blocks that no other ferry is known to look after.                  *)
Candidates(f) ==
    {b \in held[f] \ assigned[f] : ~(rival[f][b] > 0 /\ rival[f][b] < now)}

(* The first candidate in the order of the map.                            *)
IsTarget(f, b) ==
    /\ b \in Candidates(f)
    /\ \A c \in Candidates(f) : Rank[b] <= Rank[c]

(* GetExitInfoforFerry for the stop before the current one.                *)
ReadPrevious(f) ==
    lastRead' = [lastRead EXCEPT ![f] =
        ElementAt(ShelterRound, Previous(idx[f], Len(ShelterRound)))]

(* No target: back to the shelter round.                                   *)
ReturnToRound(f, from) ==
    /\ route' = [route EXCEPT ![f] = ShelterRound]
    /\ switched' = [switched EXCEPT ![f] = FALSE]
    /\ area' = [area EXCEPT ![f] = NoBlock]
    /\ start' = [start EXCEPT ![f] = 0]
    /\ IF from = "FROMTIMER" THEN ReadPrevious(f) ELSE UNCHANGED lastRead

(* A target that lies on the way of some crossing: patrol these crossings. *)
SwitchWithoutFlag(f, b) ==               \* mutant: changerouteforUAV not set
    /\ route' = [route EXCEPT ![f] = ImpactRoute[b]]
    /\ area' = [area EXCEPT ![f] = b]
    /\ start' = [start EXCEPT ![f] = now]
    /\ UNCHANGED <<switched, lastRead>>

SwitchTo(f, b) ==
    /\ route' = [route EXCEPT ![f] = ImpactRoute[b]]
    /\ switched' = [switched EXCEPT ![f] = TRUE]
    /\ area' = [area EXCEPT ![f] = b]
    /\ start' = [start EXCEPT ![f] = now]
    /\ UNCHANGED lastRead

(* A target on nobody's way: the shelter round goes on.                    *)
StayOnRound(f) ==
    /\ route' = [route EXCEPT ![f] = ShelterRound]
    /\ switched' = [switched EXCEPT ![f] = FALSE]
    /\ ReadPrevious(f)
    /\ UNCHANGED <<area, start>>

ChangePatrolRoute(f, from) ==
    \/ Continues(f) /\ UNCHANGED <<modeVars, lastRead>>
    \/ ~Continues(f) /\ Candidates(f) = {} /\ ReturnToRound(f, from)
    \/ /\ ~Continues(f)
       /\ \E b \in Block :
             /\ IsTarget(f, b)
             /\ \/ ImpactRoute[b] # << >> /\ SwitchTo(f, b)
                \/ ImpactRoute[b] = << >> /\ StayOnRound(f)
-----------------------------------------------------------------------------
(* A ferry that knows no block reads the shelter at which it arrived.      *)
ReadsAlways(f) == TRUE                   \* mutant: reads at every stop

ReadsOnArrival(f) == held[f] = {}

(* The next position on the route that is in force now.                    *)
AdvanceToEnd(i, size) ==                 \* mutant: the round does not close
    IF i + 1 < size THEN i + 1 ELSE size - 1

Advance(i, size) == (i + 1) % size

(* Fetching the element at which the ferry stands may kill the process     *)
(* when the route has become shorter than the index.                       *)
Abort(f) ==
    /\ idx[f] \notin Positions(route[f])
    /\ aborted' = TRUE
    /\ UNCHANGED <<now, held, modeVars, idx, assigned, rival, stop, lastRead>>

(* HandleFerryNodeMovement: the movement timer of a ferry expires.         *)
HandleFerryNodeMovement(f) ==
    /\ route[f] # << >>
    /\ IF ReadsOnArrival(f)
       THEN /\ lastRead' = [lastRead EXCEPT ![f] = ElementAt(route[f], idx[f])]
            /\ UNCHANGED modeVars
       ELSE IF ~switched[f] THEN ChangePatrolRoute(f, "FROMTIMER")
       ELSE UNCHANGED <<modeVars, lastRead>>
    /\ LET i == Advance(idx[f], Len(route'[f]))
       IN /\ idx' = [idx EXCEPT ![f] = i]
          /\ stop' = [stop EXCEPT ![f] = route'[f][i + 1]]
    /\ UNCHANGED <<now, held, assigned, rival, aborted>>

(* RecvHello at a ferry.  The code that would merge the sender's area into *)
(* assigned and rival is commented out, so they stay as they are.          *)
RecvHello(f, sender) ==
    /\ ChangePatrolRoute(f, "FROMRECV")
    /\ UNCHANGED <<now, held, idx, assigned, rival, stop, aborted>>

(* RecvUserDataAsUnicast at a ferry: a block it did not know.              *)
LearnBlock(f, b) ==
    /\ b \notin held[f]
    /\ held' = [held EXCEPT ![f] = @ \cup {b}]
    /\ UNCHANGED <<now, modeVars, idx, assigned, rival, stop, lastRead,
                   aborted>>

(* The next second begins.                                                 *)
Tick ==
    /\ now < MaxNow /\ now' = now + 1
    /\ UNCHANGED <<held, modeVars, idx, assigned, rival, stop, lastRead,
                   aborted>>

Step(f) ==
    \/ HandleFerryNodeMovement(f)
    \/ Abort(f)
    \/ \E g \in (Ferry \ {f}) \cup User : RecvHello(f, g)
    \/ \E b \in Block : LearnBlock(f, b)

Dead == aborted /\ UNCHANGED vars

Next ==
    \/ ~aborted /\ \E f \in Ferry : Step(f)
    \/ ~aborted /\ Tick
    \/ Dead

Spec == Init /\ [][Next]_vars

(* The movement timer always runs: HandleFerryNodeMovement arms it again.  *)
FairSpec ==
    /\ Spec
    /\ \A f \in Ferry : WF_vars(~aborted /\ HandleFerryNodeMovement(f))
-----------------------------------------------------------------------------
(* changerouteforUAV, the area and the route agree, whichever of the two   *)
(* events changed them last: a switched ferry flies the route of a block   *)
(* that it holds; any other flies the shelter round, with its index inside *)
(* that round, so the unchecked accesses on the round are in bounds.       *)
ModeConsistent ==
    \A f \in Ferry :
        IF switched[f]
        THEN /\ area[f] \in held[f]
             /\ route[f] = ImpactRoute[area[f]] /\ route[f] # << >>
        ELSE route[f] = ShelterRound /\ idx[f] \in Positions(ShelterRound)

(* GetExitInfoforFerry is only ever called with the id of a shelter: its   *)
(* exit_info.at(id) and old_data.at(id) never throw, although the index    *)
(* may point past the end of the route and the stops of a block's patrol   *)
(* are crossings.                                                          *)
ReadsOnlyShelters == \A f \in Ferry : lastRead[f] \in Shelter \cup {NoStop}

(* What the comment on the advance of the index says: it is computed       *)
(* safely although the size of the route may have changed.  The index      *)
(* never points past the end of the route.                                 *)
IndexInRange == \A f \in Ferry : idx[f] \in Positions(route[f])

FirstHeld(f, b) ==
    b \in held[f] /\ \A c \in held[f] : Rank[b] <= Rank[c]

(* A ferry that knows of blocks takes one of them on, whichever of them    *)
(* came first, however late, and whatever it decided on the ones before,   *)
(* unless the first of them in the order of the map is on nobody's way.    *)
(* (That one stays its target: the ferry looks at no other.)               *)
BlockTakenOn ==
    \A f \in Ferry :
        held[f] # {} ~>
            \/ switched[f] \/ aborted
            \/ \E b \in Block : FirstHeld(f, b) /\ ImpactRoute[b] = << >>

(* A ferry that patrols a block flies to every crossing of the route again *)
(* and again, also when the switch came in flight and left the index past  *)
(* the end of the shorter route.                                           *)
PatrolCovered ==
    \A f \in Ferry, b \in Block :
        \A i \in 1 .. Len(ImpactRoute[b]) :
            switched[f] /\ area[f] = b ~> aborted \/ stop[f] = ImpactRoute[b][i]

(* A ferry on the shelter round reads every shelter of the round again and *)
(* again, also when it has heard of a block that is on nobody's way.       *)
EveryShelterRead ==
    \A f \in Ferry : \A i \in 1 .. Len(ShelterRound) :
        []<>(switched[f] \/ aborted \/ lastRead[f] = ShelterRound[i])
==============================================================================
