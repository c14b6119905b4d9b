------------------------- MODULE FerryPatrolProofs ---------------------------
(***************************************************************************)
(* Proofs about FerryPatrol for any number of ferries, any shelter round   *)
(* and any routes round the blocks.                                        *)
(***************************************************************************)
EXTENDS FerryPatrol, TLAPS

(* Nothing is ever learnt about other ferries: the code that would fill    *)
(* the two maps is commented out.                                          *)
NoRivalKnown ==
    \A f \in Ferry : assigned[f] = {} /\ \A b \in Block : rival[f][b] = 0

(* The inductive invariant.  NoRivalKnown makes a switched ferry continue, *)
(* so that only ferries with an index inside the round call ReadPrevious.  *)
IInv == TypeOK /\ ModeConsistent /\ ReadsOnlyShelters /\ NoRivalKnown

(* No ferry gives up a block, nor starts its patrol again.                 *)
KeepsPatrols ==
    \A f \in Ferry :
        switched[f] => /\ switched'[f]
                       /\ area'[f] = area[f] /\ start'[f] = start[f]
-----------------------------------------------------------------------------
(* Remainders are in range.                                                *)
LEMMA ModRange ==
    ASSUME NEW a \in Nat, NEW n \in Nat \ {0} PROVE a % n \in 0 .. n - 1
  BY SMT

(* A non-empty route has stops at all its positions.                       *)
LEMMA RouteFacts ==
    ASSUME NEW S, NEW r \in Seq(S), r # << >>
    PROVE /\ Len(r) \in Nat \ {0}
          /\ \A i \in Positions(r) : r[i + 1] \in S
  BY DEF Positions

(* The round and the stops on it.                                          *)
LEMMA RoundFacts ==
    /\ Len(ShelterRound) \in Nat \ {0}
    /\ Len(ShelterRound) < IndexModulus /\ IndexModulus \in Nat \ {0}
    /\ \A i \in Positions(ShelterRound) : ShelterRound[i + 1] \in Shelter
    /\ ShelterRound \in Seq(Stop)
  <1>1. ShelterRound \in Seq(Shelter) /\ ShelterRound # << >>
    BY RoutesAreGiven
  <1>2. Len(ShelterRound) \in Nat \ {0}
        /\ \A i \in Positions(ShelterRound) : ShelterRound[i + 1] \in Shelter
    BY <1>1, RouteFacts
  <1>3. ShelterRound \in Seq(Stop)
    BY <1>1 DEF Stop
  <1> QED BY <1>2, <1>3, NumbersAreGiven

(* The stop before the current one is a shelter, wrap-around included.     *)
LEMMA PreviousIsShelter ==
    ASSUME NEW i \in 0 .. IndexModulus - 1
    PROVE ElementAt(ShelterRound, Previous(i, Len(ShelterRound))) \in Shelter
  <1>1. (i + IndexModulus - 1) \in Nat
    BY RoundFacts
  <1>2. (i + IndexModulus - 1) % IndexModulus \in Nat
    BY <1>1, RoundFacts, ModRange
  <1>3. Previous(i, Len(ShelterRound)) \in Positions(ShelterRound)
    BY <1>2, RoundFacts, ModRange DEF Previous, Positions
  <1> QED BY <1>3, RoundFacts DEF ElementAt

(* A switched ferry carries on.                                            *)
LEMMA SwitchedContinues ==
    ASSUME IInv, NEW f \in Ferry, switched[f]
    PROVE Continues(f)
  <1>1. area[f] \in held[f] /\ area[f] \in Block
    BY DEF IInv, ModeConsistent, TypeOK
  <1>2. rival[f][area[f]] = 0
    BY <1>1 DEF IInv, NoRivalKnown
  <1> QED BY <1>1, <1>2 DEF Continues, LostPriority

(* What a call of ChangePatrolRoute leaves behind at the calling ferry.    *)
LEMMA ChangeEffect ==
    ASSUME IInv, NEW f \in Ferry, NEW from, ChangePatrolRoute(f, from)
    PROVE /\ switched[f] => UNCHANGED <<modeVars, lastRead>>
          /\ route' \in [Ferry -> Seq(Stop)]
          /\ switched' \in [Ferry -> BOOLEAN]
          /\ area' \in [Ferry -> Block \cup {NoBlock}]
          /\ start' \in [Ferry -> 0 .. MaxNow]
          /\ lastRead' \in [Ferry -> Shelter \cup {NoStop}]
          /\ \A g \in Ferry \ {f} :
                /\ switched'[g] = switched[g] /\ route'[g] = route[g]
                /\ area'[g] = area[g] /\ start'[g] = start[g]
          /\ IF switched'[f]
             THEN /\ area'[f] \in held[f]
                  /\ route'[f] = ImpactRoute[area'[f]] /\ route'[f] # << >>
             ELSE route'[f] = ShelterRound
                  /\ idx[f] \in Positions(ShelterRound)
  <1> USE DEF modeVars
  <1>0. /\ TypeOK /\ ModeConsistent
        /\ lastRead \in [Ferry -> Shelter \cup {NoStop}]
        /\ idx[f] \in 0 .. IndexModulus - 1
    BY DEF IInv, TypeOK, ReadsOnlyShelters
  <1>1. CASE Continues(f) /\ UNCHANGED <<modeVars, lastRead>>
    BY <1>0, <1>1 DEF TypeOK, ModeConsistent
  <1>2. CASE ~Continues(f)
    <2>1. ~switched[f] /\ idx[f] \in Positions(ShelterRound)
      BY <1>0, <1>2, SwitchedContinues DEF ModeConsistent
    <2>2. ReadPrevious(f) => lastRead' \in [Ferry -> Shelter \cup {NoStop}]
      BY <1>0, PreviousIsShelter DEF ReadPrevious
    <2>3. CASE ReturnToRound(f, from)
      <3>1. lastRead' \in [Ferry -> Shelter \cup {NoStop}]
        BY <1>0, <2>2, <2>3 DEF ReturnToRound
      <3>2. 0 \in 0 .. MaxNow
        BY NumbersAreGiven
      <3> QED BY <1>0, <2>1, <2>3, <3>1, <3>2, RoundFacts
              DEF ReturnToRound, TypeOK
    <2>4. CASE \E b \in Block :
                  IsTarget(f, b) /\ ImpactRoute[b] # << >> /\ SwitchTo(f, b)
      <3>1. PICK b \in Block :
                  IsTarget(f, b) /\ ImpactRoute[b] # << >> /\ SwitchTo(f, b)
        BY <2>4
      <3>2. b \in held[f]
        BY <3>1 DEF IsTarget, Candidates
      <3>3. ImpactRoute[b] \in Seq(Stop)
        BY RoutesAreGiven DEF Stop
      <3> QED BY <1>0, <2>1, <3>1, <3>2, <3>3 DEF SwitchTo, TypeOK
    <2>5. CASE StayOnRound(f)
      BY <1>0, <2>1, <2>2, <2>5, RoundFacts DEF StayOnRound, TypeOK
    <2> QED BY <1>2, <2>3, <2>4, <2>5 DEF ChangePatrolRoute
  <1> QED BY <1>1, <1>2 DEF ChangePatrolRoute
-----------------------------------------------------------------------------
(* The initial states.                                                     *)
LEMMA InitIInv == Init => IInv
  <1> SUFFICES ASSUME Init PROVE IInv
    OBVIOUS
  <1>1. StartIndex \in [Ferry -> Positions(ShelterRound)]
    BY RoutesAreGiven
  <1>2. StartIndex \in [Ferry -> 0 .. IndexModulus - 1]
    BY <1>1, RoundFacts DEF Positions
  <1>3. stop \in [Ferry -> Stop]
    BY <1>1, RoundFacts DEF Init, Stop
  <1>4. 0 \in 0 .. MaxNow
    BY NumbersAreGiven
  <1>5. TypeOK
    BY <1>2, <1>3, <1>4, RoundFacts DEF Init, TypeOK
  <1>6. ModeConsistent /\ ReadsOnlyShelters /\ NoRivalKnown
    BY <1>1 DEF Init, ModeConsistent, ReadsOnlyShelters, NoRivalKnown
  <1> QED BY <1>5, <1>6 DEF IInv

(* The movement timer: the index is advanced on the route in force.        *)
LEMMA MovementStep ==
    ASSUME IInv, NEW f \in Ferry, HandleFerryNodeMovement(f)
    PROVE /\ IInv' /\ KeepsPatrols
          /\ idx'[f] \in Positions(route'[f]) /\ aborted' = aborted
          /\ \A g \in Ferry \ {f} : idx'[g] = idx[g] /\ route'[g] = route[g]
  <1> USE DEF modeVars
  <1>0. TypeOK /\ ModeConsistent /\ NoRivalKnown
        /\ lastRead \in [Ferry -> Shelter \cup {NoStop}]
    BY DEF IInv, TypeOK, ReadsOnlyShelters
  <1>1. /\ switched[f] => UNCHANGED modeVars
        /\ route' \in [Ferry -> Seq(Stop)]
        /\ switched' \in [Ferry -> BOOLEAN]
        /\ area' \in [Ferry -> Block \cup {NoBlock}]
        /\ start' \in [Ferry -> 0 .. MaxNow]
        /\ lastRead' \in [Ferry -> Shelter \cup {NoStop}]
        /\ \A g \in Ferry \ {f} :
              /\ switched'[g] = switched[g] /\ route'[g] = route[g]
              /\ area'[g] = area[g] /\ start'[g] = start[g]
        /\ IF switched'[f]
           THEN /\ area'[f] \in held[f]
                /\ route'[f] = ImpactRoute[area'[f]] /\ route'[f] # << >>
           ELSE route'[f] = ShelterRound
    <2>1. CASE ReadsOnArrival(f)
      <3>1. ~switched[f]
        BY <1>0, <2>1 DEF ModeConsistent, ReadsOnArrival
      <3>2. route[f] = ShelterRound /\ idx[f] \in Positions(ShelterRound)
        BY <1>0, <3>1 DEF ModeConsistent
      <3>3. ElementAt(route[f], idx[f]) \in Shelter
        BY <3>2, RoundFacts DEF ElementAt
      <3> QED BY <1>0, <2>1, <3>1, <3>2, <3>3
              DEF HandleFerryNodeMovement, TypeOK
    <2>2. CASE ~ReadsOnArrival(f) /\ ~switched[f]
      <3>1. ChangePatrolRoute(f, "FROMTIMER")
        BY <2>2 DEF HandleFerryNodeMovement
      <3> QED BY <2>2, <3>1, ChangeEffect
    <2>3. CASE ~ReadsOnArrival(f) /\ switched[f]
      BY <1>0, <2>3 DEF HandleFerryNodeMovement, TypeOK, ModeConsistent
    <2> QED BY <2>1, <2>2, <2>3
  <1> DEFINE i == Advance(idx[f], Len(route'[f]))
  <1>2. route'[f] \in Seq(Stop) /\ route'[f] # << >>
    BY <1>1, RoutesAreGiven
  <1>3. Len(route'[f]) \in Nat \ {0} /\ idx[f] + 1 \in Nat
    BY <1>0, <1>2, RouteFacts, RoundFacts DEF TypeOK
  <1>4. i \in Positions(route'[f])
    BY <1>3, ModRange DEF Advance, Positions
  <1>5. Len(route'[f]) < IndexModulus
    <2>1. switched'[f] => area'[f] \in Block /\ route'[f] = ImpactRoute[area'[f]]
      BY <1>0, <1>1 DEF TypeOK
    <2> QED BY <1>1, <2>1, NumbersAreGiven
  <1>6. /\ idx' = [idx EXCEPT ![f] = i]
        /\ stop' = [stop EXCEPT ![f] = route'[f][i + 1]]
        /\ UNCHANGED <<now, held, assigned, rival, aborted>>
    BY DEF HandleFerryNodeMovement
  <1>7. i \in 0 .. IndexModulus - 1
    BY <1>3, <1>4, <1>5, RoundFacts DEF Positions
  <1>8. route'[f][i + 1] \in Stop
    BY <1>2, <1>4, RouteFacts
  <1> HIDE DEF i
  <1>9. TypeOK'
    BY <1>0, <1>1, <1>6, <1>7, <1>8 DEF TypeOK, Stop
  <1>10. ModeConsistent'
    <2> SUFFICES ASSUME NEW g \in Ferry
                 PROVE IF switched'[g]
                       THEN /\ area'[g] \in held'[g]
                            /\ route'[g] = ImpactRoute[area'[g]]
                            /\ route'[g] # << >>
                       ELSE /\ route'[g] = ShelterRound
                            /\ idx'[g] \in Positions(ShelterRound)
      BY DEF ModeConsistent
    <2>1. CASE g = f
      BY <1>0, <1>1, <1>4, <1>6, <2>1 DEF TypeOK
    <2>2. CASE g # f
      BY <1>0, <1>1, <1>6, <2>2 DEF TypeOK, ModeConsistent
    <2> QED BY <2>1, <2>2
  <1>11. ReadsOnlyShelters' /\ NoRivalKnown'
    BY <1>0, <1>1, <1>6 DEF ReadsOnlyShelters, NoRivalKnown
  <1>12. KeepsPatrols
    BY <1>1 DEF KeepsPatrols
  <1>13. idx'[f] = i /\ \A g \in Ferry \ {f} : idx'[g] = idx[g]
    BY <1>0, <1>6 DEF TypeOK
  <1> QED BY <1>1, <1>4, <1>6, <1>9, <1>10, <1>11, <1>12, <1>13 DEF IInv

(* A Hello: the route may change, the index does not.                      *)
LEMMA HelloStep ==
    ASSUME IInv, NEW f \in Ferry, NEW g, RecvHello(f, g)
    PROVE IInv' /\ KeepsPatrols
  <1>1. ChangePatrolRoute(f, "FROMRECV")
        /\ UNCHANGED <<now, held, idx, assigned, rival, stop, aborted>>
    BY DEF RecvHello
  <1>2. TypeOK /\ ModeConsistent /\ NoRivalKnown
    BY DEF IInv
  <1>3. TypeOK'
    BY <1>1, <1>2, ChangeEffect DEF TypeOK, Stop
  <1>4. ModeConsistent'
    BY <1>1, <1>2, ChangeEffect DEF ModeConsistent
  <1>5. ReadsOnlyShelters' /\ NoRivalKnown'
    BY <1>1, <1>2, ChangeEffect DEF ReadsOnlyShelters, NoRivalKnown
  <1>6. KeepsPatrols
    BY <1>1, ChangeEffect DEF KeepsPatrols, modeVars
  <1> QED BY <1>3, <1>4, <1>5, <1>6 DEF IInv

(* The remaining steps change neither the route nor the mode.              *)
LEMMA OtherStep ==
    ASSUME IInv,
           \/ \E f \in Ferry : Abort(f) \/ \E b \in Block : LearnBlock(f, b)
           \/ Tick
           \/ UNCHANGED vars
    PROVE IInv' /\ KeepsPatrols
  <1> USE DEF modeVars
  <1>0. TypeOK /\ ModeConsistent /\ ReadsOnlyShelters /\ NoRivalKnown
    BY DEF IInv
  <1>1. UNCHANGED <<modeVars, idx, assigned, rival, stop, lastRead>>
    BY DEF Abort, LearnBlock, Tick, vars
  <1>2. /\ now' \in 0 .. MaxNow /\ aborted' \in BOOLEAN
        /\ held' \in [Ferry -> SUBSET Block]
        /\ \A f \in Ferry : held[f] \subseteq held'[f]
    <2>1. CASE \E f \in Ferry : Abort(f)
      BY <1>0, <2>1 DEF TypeOK, Abort
    <2>2. CASE \E f \in Ferry : \E b \in Block : LearnBlock(f, b)
      <3>1. PICK f \in Ferry, b \in Block : LearnBlock(f, b)
        BY <2>2
      <3>2. held' = [held EXCEPT ![f] = held[f] \cup {b}]
        BY <3>1 DEF LearnBlock
      <3>3. now' = now /\ aborted' = aborted
        BY <3>1 DEF LearnBlock
      <3> QED BY <1>0, <3>2, <3>3 DEF TypeOK
    <2>3. CASE Tick
      BY <1>0, <2>3, NumbersAreGiven DEF TypeOK, Tick
    <2>4. CASE UNCHANGED vars
      BY <1>0, <2>4 DEF TypeOK, vars
    <2> QED BY <2>1, <2>2, <2>3, <2>4
  <1>4. TypeOK'
    BY <1>0, <1>1, <1>2 DEF TypeOK
  <1>5. ModeConsistent'
    BY <1>0, <1>1, <1>2 DEF ModeConsistent
  <1>6. ReadsOnlyShelters' /\ NoRivalKnown'
    BY <1>0, <1>1 DEF ReadsOnlyShelters, NoRivalKnown
  <1>7. KeepsPatrols
    BY <1>1 DEF KeepsPatrols
  <1> QED BY <1>4, <1>5, <1>6, <1>7 DEF IInv

(* Every step keeps the invariant and every patrol that is under way.      *)
LEMMA NextStep ==
    IInv /\ [Next]_vars => IInv' /\ KeepsPatrols
  BY MovementStep, HelloStep, OtherStep DEF Next, Step, Dead
-----------------------------------------------------------------------------
(* The inductive invariant, from which the theorems below are read off.    *)
LEMMA Invariant == Spec => []IInv
  BY InitIInv, NextStep, PTL DEF Spec

(* Type correctness: in particular the patrol index, which nothing resets  *)
(* when a route is replaced, stays within its 32 bits.                     *)
THEOREM PatrolTypeCorrect == Spec => []TypeOK
  BY Invariant, PTL DEF IInv

(* Whichever event changed the route last, route, flag and area agree, and *)
(* on the shelter round the index is in range.                             *)
THEOREM ModeConsistentHolds == Spec => []ModeConsistent
  BY Invariant, PTL DEF IInv

(* The map look-ups of GetExitInfoforFerry never throw.                    *)
THEOREM ReadsOnlySheltersHolds == Spec => []ReadsOnlyShelters
  BY Invariant, PTL DEF IInv

(* A patrol never changes once begun, whatever the ferry hears: what the   *)
(* comments say of a ferry that hears of an earlier start does not happen  *)
(* on any map, with any number of ferries.  The run ferry_rivals shows one *)
(* behaviour; this is every behaviour.                                     *)
THEOREM NeverYields == Spec => [][KeepsPatrols]_vars
  <1>1. IInv /\ [Next]_vars => [KeepsPatrols]_vars
    BY NextStep
  <1> QED BY <1>1, Invariant, PTL DEF Spec
-----------------------------------------------------------------------------
(* The index on another route, which a run shows to leave the range.       *)

(* No route round a block is shorter than the shelter round.               *)
LongRoutes ==
    \A b \in Block : ImpactRoute[b] = << >> \/ Len(ShelterRound) <= Len(ImpactRoute[b])

InRange == IndexInRange /\ ~aborted

(* A Hello may change the route under the index.                           *)
LEMMA HelloInRange ==
    ASSUME LongRoutes, IInv, IndexInRange, NEW f \in Ferry, NEW g, RecvHello(f, g)
    PROVE  IndexInRange'
  <1>1. ChangePatrolRoute(f, "FROMRECV") /\ idx' = idx
    BY DEF RecvHello
  <1>2. \A h \in Ferry \ {f} : route'[h] = route[h]
    BY <1>1, ChangeEffect
  <1>3. idx[f] \in Positions(route'[f])
    <2>1. CASE switched[f]
      BY <1>1, <2>1, ChangeEffect DEF modeVars, IndexInRange
    <2>2. CASE ~switched[f]
      <3>1. idx[f] \in Positions(ShelterRound)
        BY <2>2 DEF IInv, ModeConsistent
      <3>2. CASE switched'[f]
        <4>1. /\ area'[f] \in Block /\ route'[f] = ImpactRoute[area'[f]]
              /\ route'[f] # << >>
          BY <1>1, <3>2, ChangeEffect DEF IInv, TypeOK
        <4>2. /\ Len(ShelterRound) <= Len(route'[f])
              /\ Len(route'[f]) \in Nat /\ Len(ShelterRound) \in Nat
          BY <4>1, RoutesAreGiven DEF LongRoutes
        <4> QED BY <3>1, <4>2 DEF Positions
      <3>3. CASE ~switched'[f]
        BY <1>1, <3>1, <3>3, ChangeEffect
      <3> QED BY <3>2, <3>3
    <2> QED BY <2>1, <2>2
  <1> QED BY <1>1, <1>2, <1>3 DEF IndexInRange

(* The unchecked accesses of HandleFerryNodeMovement are in bounds, and    *)
(* the program does not die of them, on every map on which no route round  *)
(* a block has fewer stops than the shelter round; ferry_index shows that  *)
(* a shorter one is enough for the opposite.                               *)
THEOREM InRangeOnLongRoutes ==
    ASSUME LongRoutes
    PROVE  Spec => [](IndexInRange /\ ~aborted)
  <1>1. Init => InRange
    BY RoutesAreGiven DEF Init, InRange, IndexInRange
  <1>2. IInv /\ InRange /\ [Next]_vars => InRange'
    <2> SUFFICES ASSUME IInv, IndexInRange, ~aborted, [Next]_vars PROVE InRange'
      BY DEF InRange
    <2>1. ASSUME NEW f \in Ferry, HandleFerryNodeMovement(f) PROVE InRange'
      BY <2>1, MovementStep DEF InRange, IndexInRange
    <2>2. ASSUME NEW f \in Ferry, NEW g, RecvHello(f, g) PROVE InRange'
      BY <2>2, HelloInRange DEF InRange, RecvHello
    <2>3. ASSUME NEW f \in Ferry PROVE ~Abort(f)
      BY DEF Abort, IndexInRange
    <2>4. CASE \/ \E f \in Ferry : \E b \in Block : LearnBlock(f, b)
               \/ Tick \/ UNCHANGED vars
      BY <2>4 DEF LearnBlock, Tick, vars, modeVars, InRange, IndexInRange
    <2> QED BY <2>1, <2>2, <2>3, <2>4 DEF Next, Step, Dead
  <1> QED BY <1>1, <1>2, Invariant, PTL DEF Spec, InRange
-----------------------------------------------------------------------------
(* The shelter read behind the ferry, when the round is not a power of two *)
(* long.                                                                   *)

(* Quotient and remainder.                                                 *)
LEMMA DivMod ==
    ASSUME NEW a \in Int, NEW n \in Int, n > 0
    PROVE  a = n * (a \div n) + (a % n) /\ a % n \in 0 .. n - 1 /\ a \div n \in Int
  <1>1. a % n \in 0 .. n - 1 /\ a \div n \in Int
    OBVIOUS
  <1>2. a = n * (a \div n) + (a % n)
    OBVIOUS
  <1> QED BY <1>1, <1>2

(* A quotient with a remainder in range gives the remainder.               *)
LEMMA ModUnique ==
    ASSUME NEW a \in Nat, NEW n \in Nat \ {0}, NEW q \in Int, NEW r \in 0 .. n - 1,
           a = n * q + r
    PROVE  a % n = r
  <1> DEFINE p == a \div n
             s == a % n
  <1>1. a = n * p + s /\ s \in 0 .. n - 1 /\ p \in Int
    BY DivMod
  <1> HIDE DEF p, s
  <1>2. n * (q - p) = s - r
    BY <1>1
  <1>3. CASE q = p
    BY <1>1, <1>3 DEF s
  <1>4. CASE q > p
    <2>1. n * (q - p) >= n
      BY <1>1, <1>4
    <2> QED BY <1>1, <1>2, <2>1
  <1>5. CASE q < p
    <2>1. n * (q - p) <= -n
      BY <1>1, <1>5
    <2> QED BY <1>1, <1>2, <2>1
  <1> QED BY <1>1, <1>3, <1>4, <1>5

(* The last position is behind the first one when the size divides the     *)
(* modulus of the index, and only then.                                    *)
LEMMA BehindZero ==
    ASSUME NEW m \in Nat \ {0}, NEW n \in Nat \ {0}
    PROVE  (m - 1) % n = n - 1 <=> m % n = 0
  <1> DEFINE q == m \div n
             r == m % n
  <1>1. m = n * q + r /\ r \in 0 .. n - 1 /\ q \in Int
    BY DivMod
  <1> HIDE DEF q, r
  <1>2. n * q \in Int
    BY <1>1
  <1>3. CASE r = 0
    <2>1. m - 1 = n * (q - 1) + (n - 1)
      BY <1>1, <1>3
    <2>2. (m - 1) % n = n - 1
      BY <1>1, <2>1, ModUnique
    <2> QED BY <1>3, <2>2 DEF r
  <1>4. CASE r # 0
    <2>1. m - 1 = n * q + (r - 1) /\ r - 1 \in 0 .. n - 1
      BY <1>1, <1>2, <1>4
    <2>2. (m - 1) % n = r - 1
      BY <1>1, <2>1, ModUnique
    <2>3. r - 1 # n - 1
      BY <1>1
    <2> QED BY <1>4, <2>2, <2>3 DEF r
  <1> QED BY <1>3, <1>4

(* Which stop ReadPrevious reads.                                          *)
LEMMA PreviousIs ==
    ASSUME NEW n \in Nat \ {0}, n < IndexModulus, IndexModulus \in Nat,
           NEW i \in 0 .. n - 1
    PROVE  Previous(i, n) = IF i = 0 THEN (IndexModulus - 1) % n ELSE i - 1
  <1> DEFINE m == IndexModulus
  <1>0. m \in Nat \ {0} /\ n < m
    OBVIOUS
  <1> HIDE DEF m
  <1>1. CASE i = 0
    <2>1. (i + m - 1) % m = m - 1
      <3>1. i + m - 1 = m * 0 + (m - 1) /\ m - 1 \in 0 .. m - 1 /\ i + m - 1 \in Nat
        BY <1>0, <1>1
      <3> QED BY <1>0, <3>1, ModUnique
    <2> QED BY <1>1, <2>1 DEF Previous, m
  <1>2. CASE i # 0
    <2>1. (i + m - 1) % m = i - 1
      <3>1. i + m - 1 = m * 1 + (i - 1) /\ i - 1 \in 0 .. m - 1 /\ i + m - 1 \in Nat
        BY <1>0, <1>2
      <3> QED BY <1>0, <3>1, ModUnique
    <2>2. (i - 1) % n = i - 1
      <3>1. i - 1 = n * 0 + (i - 1) /\ i - 1 \in 0 .. n - 1 /\ i - 1 \in Nat
        BY <1>2
      <3> QED BY <3>1, ModUnique
    <2> QED BY <1>2, <2>1, <2>2 DEF Previous, m
  <1> QED BY <1>1, <1>2

(* ReadPrevious reaches every position of the shelter round if and only if *)
(* the number of shelters divides 2^32: the subtraction of                 *)
(* ChangePatrolRoute wraps before the remainder is taken.                  *)
THEOREM PreviousCoversRound ==
    (\A p \in Positions(ShelterRound) :
        \E i \in Positions(ShelterRound) : Previous(i, Len(ShelterRound)) = p)
    <=> IndexModulus % Len(ShelterRound) = 0
  <1> DEFINE n == Len(ShelterRound)
             m == IndexModulus
             last == (m - 1) % n
  <1>1. n \in Nat \ {0} /\ n < m /\ m \in Nat \ {0} /\ Positions(ShelterRound) = 0 .. n - 1
    BY RoundFacts DEF Positions
  <1>2. \A i \in 0 .. n - 1 : Previous(i, n) = IF i = 0 THEN last ELSE i - 1
    BY <1>1, PreviousIs
  <1>3. last = n - 1 <=> m % n = 0
    BY <1>1, BehindZero
  <1> HIDE DEF n, m, last
  <1>4. ASSUME last = n - 1, NEW p \in 0 .. n - 1
        PROVE  \E i \in 0 .. n - 1 : Previous(i, n) = p
    <2>1. CASE p = n - 1
      <3>1. 0 \in 0 .. n - 1 /\ Previous(0, n) = p
        BY <1>1, <1>2, <1>4, <2>1
      <3> QED BY <3>1
    <2>2. CASE p # n - 1
      <3>1. p + 1 \in 0 .. n - 1 /\ Previous(p + 1, n) = p
        BY <1>1, <1>2, <2>2
      <3> QED BY <3>1
    <2> QED BY <2>1, <2>2
  <1>5. ASSUME NEW i \in 0 .. n - 1, Previous(i, n) = n - 1
        PROVE  last = n - 1
    BY <1>1, <1>2, <1>5
  <1>6. n - 1 \in 0 .. n - 1
    BY <1>1
  <1> QED BY <1>1, <1>3, <1>4, <1>5, <1>6 DEF n, m

(* The last shelter of the round is not read by a ferry that holds a block *)
(* (unless it was the one read last before).                               *)
LastShelterSkipped ==
    [][\A f \in Ferry :
          held[f] # {} /\ lastRead'[f] = ShelterRound[Len(ShelterRound)] =>
              lastRead[f] = ShelterRound[Len(ShelterRound)]]_vars

(* ReadPrevious on the round never reads the last stop of it.              *)
LEMMA NeverTheLast ==
    ASSUME IndexModulus % Len(ShelterRound) # 0,
           \A i, j \in Positions(ShelterRound) :
               ShelterRound[i + 1] = ShelterRound[j + 1] => i = j,
           NEW i \in Positions(ShelterRound)
    PROVE  ElementAt(ShelterRound, Previous(i, Len(ShelterRound)))
               # ShelterRound[Len(ShelterRound)]
  <1> DEFINE n == Len(ShelterRound)
             p == Previous(i, n)
             last == (IndexModulus - 1) % n
  <1>1. n \in Nat \ {0} /\ n < IndexModulus /\ IndexModulus \in Nat \ {0}
        /\ Positions(ShelterRound) = 0 .. n - 1
    BY RoundFacts DEF Positions
  <1>2. p = IF i = 0 THEN last ELSE i - 1
    BY <1>1, PreviousIs
  <1>3. last # n - 1
    BY <1>1, BehindZero
  <1>4. last \in 0 .. n - 1
    <2>1. IndexModulus - 1 \in Nat
      BY <1>1
    <2> HIDE DEF n
    <2> QED BY <1>1, <2>1, ModRange
  <1> HIDE DEF n, p, last
  <1>5. p \in 0 .. n - 1 /\ p # n - 1
    BY <1>1, <1>2, <1>3, <1>4
  <1>6. ElementAt(ShelterRound, p) = ShelterRound[p + 1]
    BY <1>1, <1>5 DEF ElementAt
  <1>7. n - 1 \in 0 .. n - 1 /\ (n - 1) + 1 = n
    BY <1>1
  <1>8. ShelterRound[p + 1] # ShelterRound[n]
    BY <1>1, <1>5, <1>7
  <1> QED BY <1>6, <1>8 DEF n, p

(* What ChangePatrolRoute reads.                                           *)
LEMMA ChangeReads ==
    ASSUME IInv, NEW f \in Ferry, NEW from, ChangePatrolRoute(f, from), NEW g \in Ferry
    PROVE  \/ lastRead'[g] = lastRead[g]
           \/ /\ idx[g] \in Positions(ShelterRound)
              /\ lastRead'[g] = ElementAt(ShelterRound, Previous(idx[g], Len(ShelterRound)))
  <1>1. lastRead \in [Ferry -> Stop \cup {NoStop, Garbage}]
    BY DEF IInv, TypeOK
  <1>2. CASE UNCHANGED lastRead
    BY <1>2
  <1>3. CASE ReadPrevious(f) /\ ~Continues(f)
    <2>1. idx[f] \in Positions(ShelterRound)
      BY <1>3, SwitchedContinues DEF IInv, ModeConsistent
    <2> QED BY <1>1, <1>3, <2>1 DEF ReadPrevious
  <1> QED BY <1>2, <1>3 DEF ChangePatrolRoute, ReturnToRound, SwitchTo, StayOnRound

(* A round whose number of shelters does not divide 2^32, three for        *)
(* instance: a ferry that has heard of a block on nobody's way goes on     *)
(* with the round, and never again reads its last shelter.  The run        *)
(* ferry_round_of_three shows one behaviour; this is every behaviour.      *)
THEOREM LastShelterNeverRead ==
    ASSUME IndexModulus % Len(ShelterRound) # 0,
           \A i, j \in Positions(ShelterRound) :
               ShelterRound[i + 1] = ShelterRound[j + 1] => i = j
    PROVE  Spec => LastShelterSkipped
  <1> DEFINE Skips ==
          \A f \in Ferry :
              held[f] # {} /\ lastRead'[f] = ShelterRound[Len(ShelterRound)] =>
                  lastRead[f] = ShelterRound[Len(ShelterRound)]
  <1>1. IInv /\ [Next]_vars => [Skips]_vars
    <2> SUFFICES ASSUME IInv, Next, NEW g \in Ferry, held[g] # {}
                 PROVE  \/ lastRead'[g] = lastRead[g]
                        \/ lastRead'[g] # ShelterRound[Len(ShelterRound)]
      OBVIOUS
    <2>1. ASSUME NEW f \in Ferry, NEW from, ChangePatrolRoute(f, from)
          PROVE  \/ lastRead'[g] = lastRead[g]
                 \/ lastRead'[g] # ShelterRound[Len(ShelterRound)]
      BY <2>1, ChangeReads, NeverTheLast
    <2>2. ASSUME NEW f \in Ferry, HandleFerryNodeMovement(f), ReadsOnArrival(f)
          PROVE  lastRead'[g] = lastRead[g]
      BY <2>2 DEF HandleFerryNodeMovement, ReadsOnArrival, IInv, TypeOK
    <2>3. ASSUME NEW f \in Ferry, HandleFerryNodeMovement(f), ~ReadsOnArrival(f)
          PROVE  lastRead' = lastRead \/ ChangePatrolRoute(f, "FROMTIMER")
      BY <2>3 DEF HandleFerryNodeMovement
    <2>4. ASSUME NEW f \in Ferry, NEW h, RecvHello(f, h)
          PROVE  ChangePatrolRoute(f, "FROMRECV")
      BY <2>4 DEF RecvHello
    <2>5. CASE \/ Tick \/ UNCHANGED vars
               \/ \E f \in Ferry : Abort(f) \/ \E b \in Block : LearnBlock(f, b)
      BY <2>5 DEF Tick, vars, Abort, LearnBlock
    <2> QED BY <2>1, <2>2, <2>3, <2>4, <2>5 DEF Next, Step, Dead
  <1> QED BY <1>1, Invariant, PTL DEF Spec, LastShelterSkipped
==============================================================================
