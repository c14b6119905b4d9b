-------------------------- MODULE DTNProtocolProofs --------------------------
(* Proofs about DTNProtocol, for every set of nodes, blocks and shelters,  *)
(* every setting and every duration.                                       *)
EXTENDS DTNProtocol, FiniteSetTheorems, TLAPS

USE DisjointKinds, FlagsAreBoolean, TimesAreNaturals

(* The kinds of packet are told apart by their type header.                *)
LEMMA MessageKinds ==
    ASSUME NEW m \in Message
    PROVE  /\ m.type = "HELLO" => m \in HelloMsg
           /\ m.type = "REQUEST" => m \in RequestMsg
           /\ m.type = "USERDATA" => m \in UserDataMsg
           /\ m.type = "SHELTERDATA" => m \in ShelterMsg
           /\ m.to \in Node
    BY DEF Message, HelloMsg, RequestMsg, UserDataMsg, ShelterMsg

(* Every kind of node is a node.                                           *)
LEMMA NodeKinds ==
    /\ User \subseteq Node /\ AddUser \subseteq Node /\ Shelter \subseteq Node
    /\ Ferry \subseteq Node /\ Evacuee \subseteq Node
    BY DEF Node, Evacuee

(* Remembering a broadcast id keeps the cache well formed.                 *)
LEMMA RememberType ==
    ASSUME now \in Time, NEW cache \in SUBSET CacheEntry,
           NEW addr \in Node, NEW id \in Nat
    PROVE  Remember(cache, addr, id) \in SUBSET CacheEntry
    BY DEF Remember, Purge, CacheEntry, Time

(* Every delay of the Hello timer is positive.                             *)
LEMMA DelayType ==
    ASSUME NEW n \in Node, NEW fresh \in BOOLEAN,
           NEW delay \in HelloDelays(n, fresh)
    PROVE  delay \in Nat \ {0}
    BY DEF HelloDelays, OrdinaryIntervals

(* The part of TypeOK about the variables that SendHello changes.          *)
HelloTypeOK ==
    /\ broadcastId \in [Node -> Nat]
    /\ idCache \in [Node -> SUBSET CacheEntry]
    /\ quick \in [Node -> BOOLEAN]
    /\ helloAt \in [Node -> TimerTime]
    /\ net \subseteq Message

(* SendHello, from whatever event it is called, keeps the types.           *)
LEMMA SendHelloType ==
    ASSUME TypeOK, NEW n \in Node, NEW held \in Summary,
           NEW info \in [Shelter -> Reading], NEW cache \in SUBSET CacheEntry,
           NEW flying \in SUBSET Message, SendHello(n, held, info, cache, flying)
    PROVE  HelloTypeOK'
  <1> DEFINE id == broadcastId[n] + 1
             fresh == HoldsFreshInfo(held, info)
  <1>1. id \in Nat /\ fresh \in BOOLEAN /\ now \in Nat
    BY DEF TypeOK, HoldsFreshInfo, Time
  <1>2. broadcastId' \in [Node -> Nat]
    BY <1>1 DEF SendHello, TypeOK
  <1>3. idCache' \in [Node -> SUBSET CacheEntry]
    <2>1. Remember(cache, n, id) \in SUBSET CacheEntry
      BY <1>1, RememberType DEF Time
    <2> QED BY <2>1 DEF SendHello, TypeOK
  <1>4. quick' \in [Node -> BOOLEAN]
    BY <1>1 DEF SendHello, TypeOK
  <1>5. helloAt' \in [Node -> TimerTime]
    <2>1. PICK delay \in HelloDelays(n, fresh) :
             helloAt' = [helloAt EXCEPT ![n] = now + delay]
      BY DEF SendHello
    <2>2. now + delay \in TimerTime
      BY <1>1, DelayType DEF TimerTime, Time
    <2> QED BY <2>1, <2>2 DEF TypeOK
  <1>6. net' \subseteq Message
    <2>1. PICK hearers \in Audience(n) :
             net' = flying \cup
                {[type |-> "HELLO", from |-> n, to |-> r, bid |-> id,
                  summary |-> held, at |-> now] : r \in hearers}
      BY DEF SendHello
    <2>2. hearers \subseteq Node
      BY <2>1 DEF Audience
    <2>3. \A r \in hearers :
             [type |-> "HELLO", from |-> n, to |-> r, bid |-> id,
              summary |-> held, at |-> now] \in HelloMsg
      BY <1>1, <2>2 DEF HelloMsg, Time
    <2> QED BY <2>1, <2>3 DEF Message
  <1> QED BY <1>2, <1>3, <1>4, <1>5, <1>6 DEF HelloTypeOK
-----------------------------------------------------------------------------
(* Type correctness, action by action.                                     *)
LEMMA InitType == Init => TypeOK
  BY NodeKinds DEF Init, TypeOK, Time, KnownTime, TimerTime, Summary, Reading,
                   Unknown, NoTimer

(* The Hello timer, with and without an evacuated owner.                   *)
LEMMA HelloTimerType ==
    ASSUME TypeOK, NEW n \in Node, HelloTimer(n)
    PROVE  TypeOK'
  <1>1. CASE status[n] = "exit"
    <2>1. /\ broadcastId' = [broadcastId EXCEPT ![n] = @ + 1]
          /\ helloAt' = [helloAt EXCEPT ![n] = NoTimer]
          /\ UNCHANGED <<quick, idCache, net>>
      BY <1>1 DEF HelloTimer
    <2>2. /\ broadcastId' \in [Node -> Nat]
          /\ helloAt' \in [Node -> TimerTime]
      BY <2>1 DEF TypeOK, TimerTime
    <2> QED BY <2>1, <2>2 DEF HelloTimer, TypeOK, knowledge, requestVars,
               shelterVars
  <1>2. CASE status[n] # "exit"
    <2>1. SendHello(n, blocked[n], exitinfo[n], idCache[n], net)
      BY <1>2 DEF HelloTimer
    <2>2. /\ blocked[n] \in Summary /\ exitinfo[n] \in [Shelter -> Reading]
          /\ idCache[n] \in SUBSET CacheEntry /\ net \in SUBSET Message
      BY DEF TypeOK
    <2>3. HelloTypeOK'
      BY <2>1, <2>2, SendHelloType
    <2> QED BY <2>3 DEF HelloTypeOK, HelloTimer, TypeOK, knowledge, requestVars,
               shelterVars
  <1> QED BY <1>1, <1>2

(* Packets that only leave the network.                                    *)
LEMMA DropType ==
    ASSUME TypeOK, NEW m \in net, Discard(m) \/ Lose(m) \/ RecvHelloAgain(m)
    PROVE  TypeOK'
  <1>1. CASE Discard(m) \/ Lose(m)
    BY <1>1 DEF Discard, Lose, TypeOK, knowledge, helloVars, requestVars,
                shelterVars
  <1>2. CASE RecvHelloAgain(m)
    <2>1. m.to \in Node
      BY MessageKinds DEF TypeOK
    <2>2. net' \subseteq Message
      BY <1>2 DEF RecvHelloAgain, AfterReceipt, TypeOK
    <2>3. idCache' \in [Node -> SUBSET CacheEntry]
      BY <1>2, <2>1 DEF RecvHelloAgain, Purge, TypeOK
    <2> QED BY <1>2, <2>2, <2>3 DEF RecvHelloAgain, TypeOK, knowledge,
                helloVars, requestVars, shelterVars
  <1> QED BY <1>1, <1>2

(* A reading taken on the spot is well formed.                             *)
LEMMA ReadSpaceType ==
    ASSUME TypeOK, NEW info \in [Shelter -> Reading], NEW s \in Shelter
    PROVE  ReadSpace(info, s) \in [Shelter -> Reading]
  BY DEF ReadSpace, Newer, TypeOK, Reading, Time

(* A Hello, with or without the Request it causes.                         *)
LEMMA RecvHelloType ==
    ASSUME TypeOK, NEW m \in net, RecvHello(m)
    PROVE  TypeOK'
  <1> DEFINE wanted == Missing(blocked[m.to], m.summary)
             request == [type |-> "REQUEST", from |-> m.to, to |-> m.from,
                         blockIds |-> wanted, at |-> now]
  <1>1. m \in HelloMsg
    BY MessageKinds DEF RecvHello, TypeOK
  <1>2. m.to \in Node /\ m.from \in Node /\ m.bid \in Nat /\ now \in Nat
    BY <1>1 DEF HelloMsg, TypeOK, Time
  <1>3. request \in RequestMsg
    BY <1>2 DEF RequestMsg, Missing, Time
  <1>4. net' \subseteq Message
    <2>1. PICK rest \in AfterReceipt(m) :
             net' = IF wanted = {} THEN rest ELSE rest \cup {request}
      BY DEF RecvHello
    <2>2. rest \subseteq Message
      BY <2>1 DEF AfterReceipt, TypeOK
    <2> QED BY <1>3, <2>1, <2>2 DEF Message
  <1>5. idCache' \in [Node -> SUBSET CacheEntry]
    <2>1. Remember(idCache[m.to], m.from, m.bid) \in SUBSET CacheEntry
      BY <1>2, RememberType DEF TypeOK
    <2> QED BY <1>2, <2>1 DEF RecvHello, TypeOK
  <1>6. exitinfo' \in [Node -> [Shelter -> Reading]]
    <2>1. CASE UNCHANGED exitinfo
      BY <2>1 DEF TypeOK
    <2>2. CASE \E s \in Shelter :
                  exitinfo' = [exitinfo EXCEPT ![m.to] = ReadSpace(@, s)]
      <3>1. PICK s \in Shelter :
                  exitinfo' = [exitinfo EXCEPT ![m.to] = ReadSpace(@, s)]
        BY <2>2
      <3>2. exitinfo[m.to] \in [Shelter -> Reading]
        BY <1>2 DEF TypeOK
      <3>3. ReadSpace(exitinfo[m.to], s) \in [Shelter -> Reading]
        BY <3>2, ReadSpaceType
      <3> QED BY <1>2, <3>1, <3>3 DEF TypeOK
    <2> QED BY <2>1, <2>2 DEF RecvHello
  <1> QED BY <1>4, <1>5, <1>6 DEF RecvHello, TypeOK, helloVars, requestVars,
             shelterVars

(* A Request joins the buffer and may open the window.                     *)
LEMMA RecvRequestType ==
    ASSUME TypeOK, NEW m \in net, RecvRequest(m)
    PROVE  TypeOK'
  <1>1. m \in RequestMsg
    BY MessageKinds DEF RecvRequest, TypeOK
  <1>2. m.to \in Node /\ [requester |-> m.from, blockIds |-> m.blockIds]
                            \in BufferedRequest
    BY <1>1 DEF RequestMsg, BufferedRequest
  <1>3. buffer' \in [Node -> Seq(BufferedRequest)]
    BY <1>2 DEF RecvRequest, TypeOK
  <1>4. /\ collecting' \in [Node -> BOOLEAN]
        /\ replyAt' \in [Node -> TimerTime]
    BY <1>2 DEF RecvRequest, OpenWindow, TypeOK, TimerTime, Time
  <1>5. net' \subseteq Message
    BY DEF RecvRequest, TypeOK
  <1> QED BY <1>3, <1>4, <1>5 DEF RecvRequest, TypeOK, knowledge, helloVars,
             shelterVars

(* An answer has the shape of an information map.                          *)
LEMMA AnswerType ==
    ASSUME NEW held \in Summary, NEW ids
    PROVE  Answer(held, ids) \in Summary
  BY DEF Answer, Summary, KnownTime

(* The reply event, with and without a reply.                              *)
LEMMA ProcessRequestBufferType ==
    ASSUME TypeOK, NEW n \in Node, ProcessRequestBuffer(n)
    PROVE  TypeOK'
  <1> DEFINE selected == Head(buffer[n])
             reply == [type |-> "USERDATA", from |-> n,
                       to |-> selected.requester,
                       info |-> Answer(blocked[n], selected.blockIds),
                       at |-> now]
  <1>1. buffer[n] \in Seq(BufferedRequest) /\ blocked[n] \in Summary
    BY DEF TypeOK
  <1>2. ASSUME buffer[n] # << >> PROVE reply \in UserDataMsg
    <2>1. selected \in BufferedRequest
      BY <1>1, <1>2
    <2>2. selected.requester \in Node
      BY <2>1 DEF BufferedRequest
    <2>3. Answer(blocked[n], selected.blockIds) \in Summary
      BY <1>1, AnswerType
    <2> QED BY <2>2, <2>3 DEF UserDataMsg, TypeOK
  <1>3. net' \subseteq Message
    BY <1>2 DEF ProcessRequestBuffer, Message, TypeOK
  <1>4. /\ replyAt' \in [Node -> TimerTime]
        /\ collecting' \in [Node -> BOOLEAN]
        /\ buffer' \in [Node -> Seq(BufferedRequest)]
    BY DEF ProcessRequestBuffer, CloseWindow, TypeOK, TimerTime
  <1> QED BY <1>3, <1>4 DEF ProcessRequestBuffer, TypeOK, knowledge, helloVars,
             shelterVars

(* The merged map is an information map.                                   *)
LEMMA MergeType ==
    ASSUME NEW held \in Summary, NEW info \in Summary, NEW news
    PROVE  Merge(held, info, news) \in Summary
  BY DEF Merge, Summary

(* A reply, with or without the Hello it triggers.                         *)
LEMMA RecvUserDataType ==
    ASSUME TypeOK, NEW m \in net, RecvUserDataAsUnicast(m)
    PROVE  TypeOK'
  <1> DEFINE n == m.to
             news == Accepted(blocked[n], m.info)
             held == Merge(blocked[n], m.info, news)
  <1>1. m \in UserDataMsg
    BY MessageKinds DEF RecvUserDataAsUnicast, TypeOK
  <1>2. n \in Node /\ m.info \in Summary
    BY <1>1 DEF UserDataMsg
  <1>3. held \in Summary
    BY <1>2, MergeType DEF TypeOK
  <1>4. blocked' \in [Node -> Summary]
    BY <1>2, <1>3 DEF RecvUserDataAsUnicast, TypeOK
  <1>5. cut' \in [Node -> SUBSET Block]
    <2>1. news \in SUBSET Block
      BY DEF Accepted, Missing
    <2> QED BY <1>2, <2>1 DEF RecvUserDataAsUnicast, TypeOK
  <1>6. HelloTypeOK'
    <2>1. CASE Announces(n, news # {})
      <3>1. SendHello(n, held, exitinfo[n], idCache[n], net \ {m})
        BY <2>1 DEF RecvUserDataAsUnicast
      <3>2. /\ exitinfo[n] \in [Shelter -> Reading]
            /\ idCache[n] \in SUBSET CacheEntry
            /\ net \ {m} \in SUBSET Message
        BY <1>2 DEF TypeOK
      <3> QED BY <1>2, <1>3, <3>1, <3>2, SendHelloType
    <2>2. CASE ~Announces(n, news # {})
      BY <2>2 DEF RecvUserDataAsUnicast, TypeOK, HelloTypeOK, helloVars
    <2> QED BY <2>1, <2>2
  <1> QED BY <1>4, <1>5, <1>6 DEF RecvUserDataAsUnicast, TypeOK, HelloTypeOK,
             requestVars, shelterVars

(* A shelter broadcast, or only the next timer.                            *)
LEMMA HandleShelterDataType ==
    ASSUME TypeOK, NEW s \in Shelter, HandleShelterData(s)
    PROVE  TypeOK'
  <1> DEFINE id == broadcastId[s] + 1
  <1>1. s \in Node /\ id \in Nat /\ now \in Nat /\ space[s] \in Nat
    BY NodeKinds DEF TypeOK, Time
  <1>2. shelterAt' \in [Shelter -> Time]
    BY <1>1 DEF HandleShelterData, TypeOK, Time
  <1>3. /\ net' \subseteq Message /\ broadcastId' \in [Node -> Nat]
        /\ idCache' \in [Node -> SUBSET CacheEntry]
    <2>1. CASE UNCHANGED <<net, broadcastId, idCache>>
      BY <2>1 DEF TypeOK
    <2>2. CASE space[s] # Capacity
      <3>1. broadcastId' \in [Node -> Nat]
        BY <1>1, <2>2 DEF HandleShelterData, TypeOK
      <3>2. Remember(idCache[s], s, id) \in SUBSET CacheEntry
        BY <1>1, RememberType DEF TypeOK
      <3>3. idCache' \in [Node -> SUBSET CacheEntry]
        <4>1. idCache' = [idCache EXCEPT ![s] = Remember(idCache[s], s, id)]
          BY <2>2 DEF HandleShelterData
        <4> QED BY <1>1, <3>2, <4>1 DEF TypeOK
      <3>4. PICK hearers \in Audience(s) :
               net' = net \cup
                  {[type |-> "SHELTERDATA", from |-> s, to |-> r, bid |-> id,
                    at |-> now, data |-> [num |-> space[s], time |-> now]] :
                    r \in hearers}
        BY <2>2 DEF HandleShelterData
      <3>5. hearers \subseteq Node
        BY <3>4 DEF Audience
      <3>6. \A r \in hearers :
               [type |-> "SHELTERDATA", from |-> s, to |-> r, bid |-> id,
                at |-> now, data |-> [num |-> space[s], time |-> now]]
                  \in ShelterMsg
        BY <1>1, <3>5 DEF ShelterMsg, Reading, Time
      <3>7. net' \subseteq Message
        BY <3>4, <3>6 DEF Message, TypeOK
      <3> QED BY <3>1, <3>3, <3>7
    <2> QED BY <2>1, <2>2 DEF HandleShelterData
  <1> QED BY <1>2, <1>3 DEF HandleShelterData, TypeOK, knowledge, requestVars

(* Shelter data, with or without the Hello it triggers.                    *)
LEMMA RecvShelterDataType ==
    ASSUME TypeOK, NEW m \in net, RecvShelterDataAsBroadcast(m)
    PROVE  TypeOK'
  <1> DEFINE n == m.to
             s == m.from
             newer == /\ ~IsDuplicate(idCache[n], s, m.bid)
                      /\ Newer(exitinfo[n][s], m.data.time)
             info == IF newer THEN [exitinfo[n] EXCEPT ![s] = m.data]
                     ELSE exitinfo[n]
             cache == Remember(idCache[n], s, m.bid)
  <1>1. m \in ShelterMsg
    BY MessageKinds DEF RecvShelterDataAsBroadcast, TypeOK
  <1>2. n \in Node /\ s \in Shelter /\ m.bid \in Nat /\ m.data \in Reading
    BY <1>1 DEF ShelterMsg
  <1>3. info \in [Shelter -> Reading]
    BY <1>2 DEF TypeOK
  <1>4. cache \in SUBSET CacheEntry
    BY <1>2, NodeKinds, RememberType DEF TypeOK
  <1>5. exitinfo' \in [Node -> [Shelter -> Reading]]
    BY <1>2, <1>3 DEF RecvShelterDataAsBroadcast, TypeOK
  <1>6. HelloTypeOK'
    <2>1. CASE Announces(n, newer)
      <3>1. SendHello(n, blocked[n], info, cache, net \ {m})
        BY <2>1 DEF RecvShelterDataAsBroadcast
      <3>2. blocked[n] \in Summary /\ net \ {m} \in SUBSET Message
        BY <1>2 DEF TypeOK
      <3> HIDE DEF n, s, newer, info, cache
      <3> QED BY <1>2, <1>3, <1>4, <3>1, <3>2, SendHelloType
    <2>2. CASE ~Announces(n, newer)
      <3>1. /\ idCache' = [idCache EXCEPT ![n] = cache]
            /\ net' = net \ {m} /\ UNCHANGED helloVars
        BY <2>2 DEF RecvShelterDataAsBroadcast
      <3> HIDE DEF n, cache
      <3> QED BY <1>2, <1>4, <3>1 DEF TypeOK, HelloTypeOK, helloVars
    <2> QED BY <2>1, <2>2
  <1> QED BY <1>5, <1>6 DEF RecvShelterDataAsBroadcast, TypeOK, HelloTypeOK,
             requestVars, shelterVars

(* Forgetting leaves an information map.                                   *)
LEMMA ForgetType ==
    ASSUME NEW held \in Summary
    PROVE  Forget(held) \in Summary
  BY DEF Forget, Summary, KnownTime

(* The steps of the evacuees and ferries.                                  *)
LEMMA MovementType ==
    ASSUME TypeOK, NEW n \in Evacuee, Movement(n)
    PROVE  TypeOK'
  <1>1. n \in Node /\ Forget(blocked[n]) \in Summary
    BY NodeKinds, ForgetType DEF TypeOK
  <1>2. CASE HandleUserMovement(n)
    BY <1>1, <1>2 DEF HandleUserMovement, TypeOK, helloVars, requestVars,
                      shelterVars
  <1>3. ASSUME NEW b \in Block, FindBlock(n, b) PROVE TypeOK'
    <2>1. [Forget(blocked[n]) EXCEPT ![b] = now] \in Summary
      BY <1>1 DEF Summary, KnownTime, TypeOK
    <2>2. blocked' \in [Node -> Summary] /\ cut' \in [Node -> SUBSET Block]
      BY <1>1, <1>3, <2>1 DEF FindBlock, TypeOK
    <2>3. discovered' \subseteq [who : Node, block : Block, time : Time]
      BY <1>1, <1>3 DEF FindBlock, TypeOK
    <2> QED BY <1>3, <2>2, <2>3 DEF FindBlock, TypeOK, helloVars, requestVars,
               shelterVars
  <1>4. ASSUME NEW s \in Shelter, CompleteEvacuation(n, s) PROVE TypeOK'
    <2>1. space' \in [Shelter -> Nat]
      BY <1>4 DEF CompleteEvacuation, HasRoom, TypeOK
    <2>2. blocked' \in [Node -> Summary] /\ cut' \in [Node -> SUBSET Block]
      BY <1>1, <1>4 DEF CompleteEvacuation, TypeOK
    <2>3. net' \subseteq Message
      BY <1>4 DEF CompleteEvacuation, TypeOK
    <2>4. status' \in [Node -> {"wait", "move", "exit"}]
      BY <1>1, <1>4 DEF CompleteEvacuation, TypeOK
    <2> QED BY <1>4, <2>1, <2>2, <2>3, <2>4 DEF CompleteEvacuation, TypeOK,
               helloVars, requestVars
  <1> QED BY <1>2, <1>3, <1>4 DEF Movement

(* Activation of a late user, loss, the clock and the end.                 *)
LEMMA OtherType ==
    ASSUME TypeOK,
           \/ \E n \in AddUser : ActivateReservedAddUser(n)
           \/ \E f \in Ferry, s \in Shelter : GetExitInfoforFerry(f, s)
           \/ Tick
           \/ UNCHANGED vars
    PROVE  TypeOK'
  <1>1. ASSUME NEW n \in AddUser, ActivateReservedAddUser(n) PROVE TypeOK'
    BY <1>1, NodeKinds DEF ActivateReservedAddUser, TypeOK, TimerTime,
       knowledge, requestVars, shelterVars
  <1>2. ASSUME NEW f \in Ferry, NEW s \in Shelter, GetExitInfoforFerry(f, s)
        PROVE  TypeOK'
    <2>1. exitinfo[f] \in [Shelter -> Reading] /\ f \in Node
      BY NodeKinds DEF TypeOK
    <2>2. ReadSpace(exitinfo[f], s) \in [Shelter -> Reading]
      BY <2>1, ReadSpaceType
    <2> QED BY <1>2, <2>1, <2>2 DEF GetExitInfoforFerry, TypeOK, helloVars,
               requestVars, shelterVars
  <1>3. CASE Tick
    BY <1>3 DEF Tick, TypeOK, Time, knowledge, helloVars, requestVars,
                shelterVars
  <1>4. CASE UNCHANGED vars
    BY <1>4 DEF vars, TypeOK
  <1> QED BY <1>1, <1>2, <1>3, <1>4

(* Every step keeps the types.                                             *)
LEMMA NextType ==
    ASSUME TypeOK, [Next]_vars
    PROVE  TypeOK'
  <1>1. ASSUME NEW m \in net, Receive(m) \/ Discard(m) \/ Lose(m) PROVE TypeOK'
    BY <1>1, DropType, RecvHelloType, RecvRequestType, RecvUserDataType,
       RecvShelterDataType DEF Receive
  <1>2. ASSUME NEW n \in Node, HelloTimer(n) \/ ProcessRequestBuffer(n)
        PROVE  TypeOK'
    BY <1>2, HelloTimerType, ProcessRequestBufferType
  <1> QED BY <1>1, <1>2, HandleShelterDataType, MovementType, OtherType
          DEF Next, Stop

(* Every map, timer, buffer and packet of the program keeps its shape, and *)
(* the space of a shelter never falls below zero: exit_nodes, an unsigned  *)
(* counter, does not wrap around.                                          *)
THEOREM TypeCorrect == Spec => []TypeOK
  <1>1. TypeOK /\ [Next]_vars => TypeOK'
    BY NextType
  <1> QED BY <1>1, InitType, PTL DEF Spec
-----------------------------------------------------------------------------
(* The request window.  Only three actions touch it or the clock.          *)
LEMMA WindowFrame ==
    ASSUME [Next]_vars
    PROVE  \/ \E m \in net : RecvRequest(m)
           \/ \E n \in Node : ProcessRequestBuffer(n)
           \/ Tick
           \/ UNCHANGED <<now, buffer, collecting, replyAt>>
  <1>1. ASSUME NEW n \in Node, HelloTimer(n)
        PROVE  UNCHANGED <<now, buffer, collecting, replyAt>>
    BY <1>1 DEF HelloTimer, requestVars
  <1>2. ASSUME NEW s \in Shelter, HandleShelterData(s)
        PROVE  UNCHANGED <<now, buffer, collecting, replyAt>>
    BY <1>2 DEF HandleShelterData, requestVars
  <1>3. ASSUME NEW m \in net, Receive(m), ~RecvRequest(m)
        PROVE  UNCHANGED <<now, buffer, collecting, replyAt>>
    BY <1>3 DEF Receive, RecvHello, RecvHelloAgain, RecvUserDataAsUnicast,
                RecvShelterDataAsBroadcast, requestVars
  <1>4. ASSUME NEW m \in net, Discard(m) \/ Lose(m)
        PROVE  UNCHANGED <<now, buffer, collecting, replyAt>>
    BY <1>4 DEF Discard, Lose, requestVars
  <1>5. ASSUME NEW n \in Evacuee, Movement(n)
        PROVE  UNCHANGED <<now, buffer, collecting, replyAt>>
    BY <1>5 DEF Movement, HandleUserMovement, FindBlock, CompleteEvacuation,
                requestVars
  <1>6. ASSUME NEW n \in AddUser, ActivateReservedAddUser(n)
        PROVE  UNCHANGED <<now, buffer, collecting, replyAt>>
    BY <1>6 DEF ActivateReservedAddUser, requestVars
  <1>7. ASSUME NEW f \in Ferry, NEW s \in Shelter, GetExitInfoforFerry(f, s)
        PROVE  UNCHANGED <<now, buffer, collecting, replyAt>>
    BY <1>7 DEF GetExitInfoforFerry, requestVars
  <1>8. ASSUME UNCHANGED vars
        PROVE  UNCHANGED <<now, buffer, collecting, replyAt>>
    BY <1>8 DEF vars
  <1> QED BY <1>1, <1>2, <1>3, <1>4, <1>5, <1>6, <1>7, <1>8 DEF Next, Stop

(* Every step keeps the request window consistent.                         *)
LEMMA WindowStep ==
    ASSUME TypeOK, WindowConsistent, [Next]_vars
    PROVE  WindowConsistent'
  <1>0. now \in Nat /\ RequestWindow \in Nat \ {0}
    BY DEF TypeOK, Time
  <1>1. ASSUME NEW m \in net, RecvRequest(m) PROVE WindowConsistent'
    <2>1. m \in RequestMsg
      BY <1>1, MessageKinds DEF RecvRequest, TypeOK
    <2>2. m.to \in Node /\ now' = now
      BY <1>1, <2>1 DEF RecvRequest, RequestMsg
    <2>3. SUFFICES ASSUME NEW n \in Node
                   PROVE  /\ collecting'[n] <=> buffer'[n] # << >>
                          /\ collecting'[n] <=> replyAt'[n] # NoTimer
                          /\ collecting'[n] =>
                                replyAt'[n] \in now .. now + RequestWindow
      BY <2>2 DEF WindowConsistent
    <2>4. CASE n # m.to
      BY <1>1, <2>2, <2>4 DEF RecvRequest, OpenWindow, WindowConsistent, TypeOK
    <2>5. CASE n = m.to
      <3>1. buffer'[n] # << >>
        <4> DEFINE req == [requester |-> m.from, blockIds |-> m.blockIds]
        <4>1. req \in BufferedRequest
          BY <2>1 DEF RequestMsg, BufferedRequest
        <4>2. buffer[n] \in Seq(BufferedRequest)
          BY DEF TypeOK
        <4>3. buffer'[n] = Append(buffer[n], req)
          BY <1>1, <2>2, <2>5 DEF RecvRequest, TypeOK
        <4> HIDE DEF req
        <4> QED BY <4>1, <4>2, <4>3
      <3>2. collecting'[n] = TRUE
        BY <1>1, <2>2, <2>5 DEF RecvRequest, OpenWindow, TypeOK
      <3>3. CASE collecting[n]
        BY <1>1, <2>5, <3>1, <3>2, <3>3
           DEF RecvRequest, OpenWindow, WindowConsistent
      <3>4. CASE ~collecting[n]
        <4>1. replyAt'[n] = now + RequestWindow
          BY <1>1, <2>2, <2>5, <3>4 DEF RecvRequest, OpenWindow, TypeOK
        <4> QED BY <1>0, <3>1, <3>2, <4>1 DEF NoTimer
      <3> QED BY <3>3, <3>4
    <2> QED BY <2>4, <2>5
  <1>2. ASSUME NEW p \in Node, ProcessRequestBuffer(p) PROVE WindowConsistent'
    BY <1>2 DEF ProcessRequestBuffer, CloseWindow, WindowConsistent, TypeOK
  <1>3. CASE Tick
    BY <1>0, <1>3 DEF Tick, WindowConsistent, requestVars
  <1>4. CASE UNCHANGED <<now, buffer, collecting, replyAt>>
    BY <1>4 DEF WindowConsistent
  <1> QED BY <1>1, <1>2, <1>3, <1>4, WindowFrame

(* A request window is open exactly while requests are buffered and its    *)
(* reply event is pending and at most RequestWindow away, for any number   *)
(* of requesters: no request is left behind in a closed window.            *)
THEOREM WindowsConsistent == Spec => []WindowConsistent
  <1>1. Init => WindowConsistent
    BY DEF Init, WindowConsistent
  <1>2. TypeOK /\ WindowConsistent /\ [Next]_vars => WindowConsistent'
    BY WindowStep
  <1> QED BY <1>1, <1>2, TypeCorrect, PTL DEF Spec
-----------------------------------------------------------------------------
(* Road information.                                                       *)

(* A reply holds only what its sender held.                                *)
LEMMA AnswerReal ==
    ASSUME NEW seen, NEW held \in Summary, RealTimes(seen, held), NEW ids
    PROVE  RealTimes(seen, Answer(held, ids))
  BY DEF RealTimes, Answer, Summary

(* Merging real times into real times gives real times.                    *)
LEMMA MergeReal ==
    ASSUME NEW seen, NEW held \in Summary, NEW info \in Summary, NEW news,
           RealTimes(seen, held), RealTimes(seen, info)
    PROVE  RealTimes(seen, Merge(held, info, news))
  BY DEF RealTimes, Merge, Summary

(* Forgetting invents no time.                                             *)
LEMMA ForgetReal ==
    ASSUME NEW seen, NEW held \in Summary, RealTimes(seen, held)
    PROVE  RealTimes(seen, Forget(held))
  BY DEF RealTimes, Forget, Summary

(* A Hello carries what its sender held.                                   *)
LEMMA SendHelloReal ==
    ASSUME NEW n, NEW held, NEW info, NEW cache, NEW flying, NEW seen,
           SendHello(n, held, info, cache, flying),
           RealTimes(seen, held), \A m \in flying : RealPacket(seen, m)
    PROVE  \A m \in net' : RealPacket(seen, m)
  <1>1. PICK hearers \in Audience(n) :
           net' = flying \cup
              {[type |-> "HELLO", from |-> n, to |-> r,
                bid |-> broadcastId[n] + 1, summary |-> held, at |-> now] :
                r \in hearers}
    BY DEF SendHello
  <1>2. ASSUME NEW r \in hearers
        PROVE  RealPacket(seen, [type |-> "HELLO", from |-> n, to |-> r,
                 bid |-> broadcastId[n] + 1, summary |-> held, at |-> now])
    BY DEF RealPacket
  <1> QED BY <1>1, <1>2

(* Steps that neither change the road information nor add to the network.  *)
LEMMA ProvenanceFrame ==
    ASSUME Provenance, now' = now, UNCHANGED <<blocked, discovered>>,
           net' \subseteq net
    PROVE  Provenance'
  BY DEF Provenance

(* The Hello timer spreads only real times.                                *)
LEMMA ProvenanceHello ==
    ASSUME TypeOK, Provenance, NEW n \in Node, HelloTimer(n)
    PROVE  Provenance'
  <1>1. UNCHANGED <<now, blocked, discovered>>
    BY DEF HelloTimer, knowledge
  <1>2. CASE status[n] = "exit"
    BY <1>1, <1>2, ProvenanceFrame DEF HelloTimer
  <1>3. CASE status[n] # "exit"
    <2>1. SendHello(n, blocked[n], exitinfo[n], idCache[n], net)
      BY <1>3 DEF HelloTimer
    <2>2. \A m \in net' : RealPacket(discovered, m)
      BY <2>1, SendHelloReal DEF Provenance
    <2> QED BY <1>1, <2>2 DEF Provenance
  <1> QED BY <1>2, <1>3

(* Receiving a packet stores and spreads only real times.                  *)
LEMMA ProvenanceReceive ==
    ASSUME TypeOK, Provenance, NEW m \in net, Receive(m) \/ Discard(m) \/ Lose(m)
    PROVE  Provenance'
  <1>0. m \in Message
    BY DEF TypeOK
  <1>1. CASE Discard(m) \/ Lose(m) \/ RecvRequest(m) \/ RecvHelloAgain(m)
    <2>1. net' \subseteq net
      BY <1>1 DEF Discard, Lose, RecvRequest, RecvHelloAgain, AfterReceipt
    <2>2. UNCHANGED <<now, blocked, discovered>>
      BY <1>1 DEF Discard, Lose, RecvRequest, RecvHelloAgain, knowledge
    <2> QED BY <2>1, <2>2, ProvenanceFrame
  <1>2. CASE RecvHello(m)
    <2> DEFINE request == [type |-> "REQUEST", from |-> m.to, to |-> m.from,
                           blockIds |-> Missing(blocked[m.to], m.summary),
                           at |-> now]
    <2>1. UNCHANGED <<now, blocked, discovered>>
      BY <1>2 DEF RecvHello
    <2>2. net' \subseteq net \cup {request}
      BY <1>2 DEF RecvHello, AfterReceipt
    <2>3. RealPacket(discovered, request)
      BY DEF RealPacket
    <2> HIDE DEF request
    <2> QED BY <2>1, <2>2, <2>3 DEF Provenance
  <1>3. CASE RecvUserDataAsUnicast(m)
    <2> DEFINE n == m.to
               news == Accepted(blocked[n], m.info)
               held == Merge(blocked[n], m.info, news)
    <2>1. m \in UserDataMsg /\ m.type = "USERDATA"
      BY <1>0, <1>3, MessageKinds DEF RecvUserDataAsUnicast
    <2>2. n \in Node /\ m.info \in Summary
      BY <2>1 DEF UserDataMsg
    <2>3. RealTimes(discovered, m.info) /\ RealTimes(discovered, blocked[n])
      BY <2>1, <2>2 DEF Provenance, RealPacket
    <2>4. RealTimes(discovered, held)
      BY <2>2, <2>3, MergeReal DEF TypeOK
    <2>5. UNCHANGED <<now, discovered>> /\ blocked' = [blocked EXCEPT ![n] = held]
      BY <1>3 DEF RecvUserDataAsUnicast
    <2>6. \A p \in net \ {m} : RealPacket(discovered, p)
      BY DEF Provenance
    <2>7. \A p \in net' : RealPacket(discovered, p)
      <3>1. CASE Announces(n, news # {})
        <4>1. SendHello(n, held, exitinfo[n], idCache[n], net \ {m})
          BY <1>3, <3>1 DEF RecvUserDataAsUnicast
        <4> HIDE DEF n, held
        <4> QED BY <2>4, <2>6, <4>1, SendHelloReal
      <3>2. CASE ~Announces(n, news # {})
        BY <1>3, <2>6, <3>2 DEF RecvUserDataAsUnicast
      <3> QED BY <3>1, <3>2
    <2> HIDE DEF n, held, news
    <2> QED BY <2>2, <2>4, <2>5, <2>7 DEF Provenance, TypeOK
  <1>4. CASE RecvShelterDataAsBroadcast(m)
    <2>1. UNCHANGED <<now, blocked, discovered>>
      BY <1>4 DEF RecvShelterDataAsBroadcast
    <2>2. m.to \in Node
      BY <1>0, MessageKinds
    <2>3. \A p \in net \ {m} : RealPacket(discovered, p)
      BY DEF Provenance
    <2>4. RealTimes(discovered, blocked[m.to])
      BY <2>2 DEF Provenance
    <2>5. \/ net' = net \ {m}
          \/ \E info, cache : SendHello(m.to, blocked[m.to], info, cache, net \ {m})
      BY <1>4 DEF RecvShelterDataAsBroadcast
    <2>6. \A p \in net' : RealPacket(discovered, p)
      BY <2>3, <2>4, <2>5, SendHelloReal
    <2> QED BY <2>1, <2>6 DEF Provenance
  <1> QED BY <1>1, <1>2, <1>3, <1>4 DEF Receive

(* The reply event sends only real times.                                  *)
LEMMA ProvenanceReply ==
    ASSUME TypeOK, Provenance, NEW n \in Node, ProcessRequestBuffer(n)
    PROVE  Provenance'
  <1> DEFINE ids == Head(buffer[n]).blockIds
             reply == [type |-> "USERDATA", from |-> n,
                       to |-> Head(buffer[n]).requester,
                       info |-> Answer(blocked[n], ids), at |-> now]
  <1>1. UNCHANGED <<now, blocked, discovered>>
    BY DEF ProcessRequestBuffer, knowledge
  <1>2. net' \subseteq net \cup {reply}
    BY DEF ProcessRequestBuffer
  <1>3. RealTimes(discovered, Answer(blocked[n], ids))
    BY AnswerReal DEF Provenance, TypeOK
  <1>4. RealPacket(discovered, reply)
    BY <1>3 DEF RealPacket
  <1> HIDE DEF reply
  <1> QED BY <1>1, <1>2, <1>4 DEF Provenance

(* A discovery is recorded with its own time.                              *)
LEMMA ProvenanceMovement ==
    ASSUME TypeOK, Provenance, NEW n \in Evacuee, Movement(n)
    PROVE  Provenance'
  <1>1. n \in Node /\ now' = now /\ net' \subseteq net
    BY NodeKinds DEF Movement, HandleUserMovement, FindBlock, CompleteEvacuation
  <1>2. RealTimes(discovered, Forget(blocked[n]))
    BY <1>1, ForgetReal DEF Provenance, TypeOK
  <1>3. CASE HandleUserMovement(n) \/ \E s \in Shelter : CompleteEvacuation(n, s)
    <2>1. /\ blocked' = [blocked EXCEPT ![n] = Forget(blocked[n])]
          /\ UNCHANGED discovered
      BY <1>3 DEF HandleUserMovement, CompleteEvacuation
    <2> QED BY <1>1, <1>2, <2>1 DEF Provenance, TypeOK
  <1>4. ASSUME NEW b \in Block, FindBlock(n, b) PROVE Provenance'
    <2> DEFINE found == [who |-> n, block |-> b, time |-> now]
               held == [Forget(blocked[n]) EXCEPT ![b] = now]
    <2>1. discovered' = discovered \cup {found}
      BY <1>4 DEF FindBlock
    <2>2. blocked' = [blocked EXCEPT ![n] = held]
      BY <1>4 DEF FindBlock
    <2>3. found.block = b /\ found.time = now
      OBVIOUS
    <2>4. RealTimes(discovered', held)
      <3>1. Forget(blocked[n]) \in Summary
        BY <1>1, ForgetType DEF TypeOK
      <3> HIDE DEF found
      <3>2. SUFFICES ASSUME NEW c \in Block
                     PROVE  \/ held[c] = Unknown
                            \/ \E d \in discovered' :
                                  d.block = c /\ d.time = held[c]
        BY DEF RealTimes
      <3>3. CASE c = b
        <4>1. held[c] = now
          BY <3>1, <3>3 DEF Summary
        <4> QED BY <2>1, <2>3, <3>3, <4>1
      <3>4. CASE c # b
        <4>1. held[c] = Forget(blocked[n])[c]
          BY <3>1, <3>4 DEF Summary
        <4> QED BY <1>2, <2>1, <4>1 DEF RealTimes
      <3> QED BY <3>3, <3>4
    <2>5. ASSUME NEW h, RealTimes(discovered, h) PROVE RealTimes(discovered', h)
      BY <2>1, <2>5 DEF RealTimes
    <2>6. \A m \in net' : RealPacket(discovered', m)
      BY <1>1, <2>5 DEF RealPacket, Provenance
    <2>7. \A d \in discovered' : d.time <= now'
      <3>1. now <= now
        BY DEF TypeOK, Time
      <3> HIDE DEF found
      <3> QED BY <1>1, <2>1, <2>3, <3>1 DEF Provenance
    <2>8. \A k \in Node : RealTimes(discovered', blocked'[k])
      <3> HIDE DEF held, found
      <3> QED BY <1>1, <2>2, <2>4, <2>5 DEF Provenance, TypeOK
    <2> QED BY <2>6, <2>7, <2>8 DEF Provenance
  <1> QED BY <1>3, <1>4 DEF Movement

(* The remaining steps leave the road information alone.                   *)
LEMMA ProvenanceOther ==
    ASSUME TypeOK, Provenance,
           \/ \E s \in Shelter : HandleShelterData(s)
           \/ \E n \in AddUser : ActivateReservedAddUser(n)
           \/ \E f \in Ferry, s \in Shelter : GetExitInfoforFerry(f, s)
           \/ Tick
           \/ UNCHANGED vars
    PROVE  Provenance'
  <1>1. ASSUME NEW s \in Shelter, HandleShelterData(s) PROVE Provenance'
    <2>1. UNCHANGED <<now, blocked, discovered>>
      BY <1>1 DEF HandleShelterData, knowledge
    <2>2. \A m \in net' : m \in net \/ m.type = "SHELTERDATA"
      BY <1>1 DEF HandleShelterData
    <2>3. \A m \in net' : RealPacket(discovered, m)
      BY <2>2 DEF RealPacket, Provenance
    <2> QED BY <2>1, <2>3 DEF Provenance
  <1>2. ASSUME NEW n \in AddUser, ActivateReservedAddUser(n) PROVE Provenance'
    BY <1>2, ProvenanceFrame DEF ActivateReservedAddUser, knowledge
  <1>3. ASSUME NEW f \in Ferry, NEW s \in Shelter, GetExitInfoforFerry(f, s)
        PROVE  Provenance'
    BY <1>3, ProvenanceFrame DEF GetExitInfoforFerry
  <1>4. CASE Tick
    <2>1. \A d \in discovered : d.time \in Nat
      BY DEF TypeOK, Time
    <2>2. \A d \in discovered : d.time <= now'
      BY <1>4, <2>1 DEF Tick, Provenance, TypeOK, Time
    <2> QED BY <1>4, <2>2 DEF Tick, Provenance, knowledge
  <1>5. CASE UNCHANGED vars
    BY <1>5, ProvenanceFrame DEF vars
  <1> QED BY <1>1, <1>2, <1>3, <1>4, <1>5

(* Every step keeps provenance.                                            *)
LEMMA ProvenanceStep ==
    ASSUME TypeOK, Provenance, [Next]_vars
    PROVE  Provenance'
  BY ProvenanceHello, ProvenanceReceive, ProvenanceReply, ProvenanceMovement,
     ProvenanceOther DEF Next, Stop

(* However often road information is relayed, every time stamp in a node's *)
(* map, in a Hello or in a reply is that of a real discovery in the past.  *)
THEOREM ProvenanceHolds == Spec => []Provenance
  <1>1. Init => Provenance
    BY DEF Init, Provenance, RealTimes
  <1>2. TypeOK /\ Provenance /\ [Next]_vars => Provenance'
    BY ProvenanceStep
  <1> QED BY <1>1, <1>2, TypeCorrect, PTL DEF Spec
-----------------------------------------------------------------------------
(* The four ways in which a step changes the road information.             *)
TakesOver(m) ==
    LET news == Accepted(blocked[m.to], m.info)
    IN /\ m \in UserDataMsg /\ now' = now /\ UNCHANGED exitinfo
       /\ blocked' = [blocked EXCEPT ![m.to] = Merge(blocked[m.to], m.info, news)]
       /\ cut' = [cut EXCEPT ![m.to] = IF m.to \in Ferry THEN @ ELSE @ \cup news]

Forgets(n) ==
    /\ UNCHANGED exitinfo
    /\ blocked' = [blocked EXCEPT ![n] = Forget(blocked[n])]
    /\ cut' = [cut EXCEPT ![n] = @ \ TooOld(blocked[n])]

(* Which steps change road information, and how.                           *)
LEMMA RoadStep ==
    ASSUME TypeOK, [Next]_vars
    PROVE  \/ UNCHANGED <<blocked, cut>>
           \/ \E m \in net : TakesOver(m)
           \/ \E n \in Evacuee : Forgets(n)
           \/ \E n \in Evacuee, b \in Block : FindBlock(n, b)
  <1>1. ASSUME NEW n \in Node, HelloTimer(n) \/ ProcessRequestBuffer(n)
        PROVE  UNCHANGED <<blocked, cut>>
    BY <1>1 DEF HelloTimer, ProcessRequestBuffer, knowledge
  <1>2. ASSUME NEW s \in Shelter, HandleShelterData(s)
        PROVE  UNCHANGED <<blocked, cut>>
    BY <1>2 DEF HandleShelterData, knowledge
  <1>3. ASSUME NEW m \in net, Receive(m), ~RecvUserDataAsUnicast(m)
        PROVE  UNCHANGED <<blocked, cut>>
    BY <1>3 DEF Receive, RecvHello, RecvHelloAgain, RecvRequest,
                RecvShelterDataAsBroadcast, knowledge
  <1>4. ASSUME NEW m \in net, RecvUserDataAsUnicast(m) PROVE TakesOver(m)
    <2>1. m \in UserDataMsg
      BY <1>4, MessageKinds DEF RecvUserDataAsUnicast, TypeOK
    <2> QED BY <1>4, <2>1 DEF RecvUserDataAsUnicast, TakesOver
  <1>5. ASSUME NEW m \in net, Discard(m) \/ Lose(m)
        PROVE  UNCHANGED <<blocked, cut>>
    BY <1>5 DEF Discard, Lose, knowledge
  <1>6. ASSUME NEW n \in Evacuee, Movement(n)
        PROVE  Forgets(n) \/ \E b \in Block : FindBlock(n, b)
    BY <1>6 DEF Movement, HandleUserMovement, CompleteEvacuation, Forgets
  <1>7. CASE \/ \E n \in AddUser : ActivateReservedAddUser(n)
             \/ \E f \in Ferry, s \in Shelter : GetExitInfoforFerry(f, s)
             \/ Tick \/ UNCHANGED vars
    BY <1>7 DEF ActivateReservedAddUser, GetExitInfoforFerry, Tick, vars,
                knowledge
  <1> QED BY <1>1, <1>2, <1>3, <1>4, <1>5, <1>6, <1>7 DEF Next, Stop

(* Which steps change what is known of the shelters.                       *)
LEMMA ReadingFrame ==
    ASSUME [Next]_vars
    PROVE  \/ UNCHANGED exitinfo
           \/ \E m \in net : RecvShelterDataAsBroadcast(m) \/ RecvHello(m)
           \/ \E f \in Ferry, s \in Shelter : GetExitInfoforFerry(f, s)
  <1>1. ASSUME NEW n \in Node, HelloTimer(n) \/ ProcessRequestBuffer(n)
        PROVE  UNCHANGED exitinfo
    BY <1>1 DEF HelloTimer, ProcessRequestBuffer, knowledge
  <1>2. ASSUME NEW s \in Shelter, HandleShelterData(s) PROVE UNCHANGED exitinfo
    BY <1>2 DEF HandleShelterData, knowledge
  <1>3. ASSUME NEW m \in net,
               \/ RecvHelloAgain(m) \/ RecvRequest(m)
               \/ RecvUserDataAsUnicast(m) \/ Discard(m) \/ Lose(m)
        PROVE  UNCHANGED exitinfo
    BY <1>3 DEF RecvHelloAgain, RecvRequest, RecvUserDataAsUnicast, Discard,
                Lose, knowledge
  <1>4. ASSUME NEW n \in Evacuee, Movement(n) PROVE UNCHANGED exitinfo
    BY <1>4 DEF Movement, HandleUserMovement, FindBlock, CompleteEvacuation
  <1>5. CASE \/ \E n \in AddUser : ActivateReservedAddUser(n)
             \/ Tick \/ UNCHANGED vars
    BY <1>5 DEF ActivateReservedAddUser, Tick, vars, knowledge
  <1> QED BY <1>1, <1>2, <1>3, <1>4, <1>5 DEF Next, Stop, Receive

(* A step changes at most one reading of one node, and only for a newer    *)
(* one.                                                                    *)
LEMMA ReadSpaceNewer ==
    ASSUME TypeOK, NEW info \in [Shelter -> Reading], NEW s \in Shelter
    PROVE  \A q \in Shelter : ReadSpace(info, s)[q].time >= info[q].time
  BY DEF TypeOK, ReadSpace, Newer, Reading, Time

(* Every step keeps the times of shelter readings growing.                 *)
LEMMA ReadingStep ==
    ASSUME TypeOK, [Next]_vars
    PROVE  \A n \in Node, s \in Shelter :
              exitinfo'[n][s].time >= exitinfo[n][s].time
  <1>0. \A n \in Node, s \in Shelter : exitinfo[n][s].time \in Nat
    BY DEF TypeOK, Reading, Time
  <1>1. CASE UNCHANGED exitinfo
    BY <1>0, <1>1
  <1>2. ASSUME NEW k \in Node, NEW s \in Shelter,
               exitinfo' = [exitinfo EXCEPT ![k] = ReadSpace(exitinfo[k], s)]
        PROVE  \A n \in Node, q \in Shelter :
                  exitinfo'[n][q].time >= exitinfo[n][q].time
    <2>1. exitinfo[k] \in [Shelter -> Reading]
      BY DEF TypeOK
    <2>2. \A q \in Shelter : ReadSpace(exitinfo[k], s)[q].time >= exitinfo[k][q].time
      BY <2>1, ReadSpaceNewer
    <2> QED BY <1>0, <1>2, <2>2 DEF TypeOK
  <1>3. ASSUME NEW m \in net, RecvShelterDataAsBroadcast(m)
        PROVE  \A n \in Node, q \in Shelter :
                  exitinfo'[n][q].time >= exitinfo[n][q].time
    <2>1. m \in ShelterMsg
      BY <1>3, MessageKinds DEF RecvShelterDataAsBroadcast, TypeOK
    <2>2. m.to \in Node /\ m.from \in Shelter /\ m.data \in Reading
      BY <2>1 DEF ShelterMsg
    <2>3. \/ UNCHANGED exitinfo
          \/ /\ Newer(exitinfo[m.to][m.from], m.data.time)
             /\ exitinfo' = [exitinfo EXCEPT
                               ![m.to] = [exitinfo[m.to] EXCEPT ![m.from] = m.data]]
      BY <1>3, <2>2 DEF RecvShelterDataAsBroadcast, TypeOK
    <2>4. CASE UNCHANGED exitinfo
      BY <1>0, <2>4
    <2>5. CASE /\ Newer(exitinfo[m.to][m.from], m.data.time)
               /\ exitinfo' = [exitinfo EXCEPT
                               ![m.to] = [exitinfo[m.to] EXCEPT ![m.from] = m.data]]
      <3>1. exitinfo[m.to] \in [Shelter -> Reading]
        BY <2>2 DEF TypeOK
      <3>2. m.data.time >= exitinfo[m.to][m.from].time
        BY <1>0, <2>2, <2>5 DEF Newer, Reading, Time
      <3>3. \A q \in Shelter : exitinfo'[m.to][q].time >= exitinfo[m.to][q].time
        BY <1>0, <2>2, <2>5, <3>1, <3>2 DEF TypeOK
      <3>4. \A n \in Node : n # m.to => exitinfo'[n] = exitinfo[n]
        BY <2>5 DEF TypeOK
      <3> QED BY <1>0, <3>3, <3>4
    <2> QED BY <2>3, <2>4, <2>5
  <1>4. ASSUME NEW m \in net, RecvHello(m)
        PROVE  \/ UNCHANGED exitinfo
               \/ \E k \in Node, s \in Shelter :
                     exitinfo' = [exitinfo EXCEPT ![k] = ReadSpace(exitinfo[k], s)]
    <2>1. m.to \in Node
      BY MessageKinds DEF TypeOK
    <2> QED BY <1>4, <2>1 DEF RecvHello
  <1>5. ASSUME NEW f \in Ferry, NEW s \in Shelter, GetExitInfoforFerry(f, s)
        PROVE  \E k \in Node : exitinfo' = [exitinfo EXCEPT
                                              ![k] = ReadSpace(exitinfo[k], s)]
    BY <1>5, NodeKinds DEF GetExitInfoforFerry
  <1> QED BY <1>1, <1>2, <1>3, <1>4, <1>5, ReadingFrame

(* What the provers need to know about the maps of road information.       *)
LEMMA SummaryFacts ==
    ASSUME NEW held \in Summary, NEW b \in Block
    PROVE  /\ held[b] \in Int /\ held[b] >= Unknown
           /\ held[b] # Unknown => held[b] \in Nat
  BY DEF Summary, KnownTime, Time, Unknown

(* Every step keeps or renews road information, or forgets it.             *)
LEMMA RoadNeverOlder ==
    ASSUME TypeOK, Provenance, [Next]_vars, NEW n \in Node, NEW b \in Block
    PROVE  \/ blocked'[n][b] >= blocked[n][b]
           \/ n \in Evacuee /\ b \in TooOld(blocked[n])
  <1>0. blocked[n] \in Summary /\ blocked[n][b] \in Int /\ now \in Nat
    BY SummaryFacts DEF TypeOK, Time
  <1>1. CASE UNCHANGED <<blocked, cut>>
    BY <1>0, <1>1
  <1>2. ASSUME NEW m \in net, TakesOver(m)
        PROVE  blocked'[n][b] >= blocked[n][b]
    <2>1. m.to \in Node /\ m.info \in Summary
      BY <1>2 DEF TakesOver, UserDataMsg
    <2>2. CASE n # m.to
      BY <1>0, <1>2, <2>1, <2>2 DEF TakesOver, TypeOK
    <2>3. CASE n = m.to
      <3>1. blocked'[n] = Merge(blocked[n], m.info, Accepted(blocked[n], m.info))
        BY <1>2, <2>1, <2>3 DEF TakesOver, TypeOK
      <3>2. m.info[b] \in Int
        BY <2>1, SummaryFacts
      <3>3. b \in Accepted(blocked[n], m.info) => blocked[n][b] < m.info[b]
        BY DEF Accepted, Missing
      <3> QED BY <1>0, <3>1, <3>2, <3>3 DEF Merge
    <2> QED BY <2>2, <2>3
  <1>3. ASSUME NEW k \in Evacuee, Forgets(k)
        PROVE  \/ blocked'[n][b] >= blocked[n][b]
               \/ n \in Evacuee /\ b \in TooOld(blocked[n])
    <2>1. k \in Node /\ blocked \in [Node -> Summary]
      BY NodeKinds DEF TypeOK
    <2>2. blocked'[n] = IF n = k THEN Forget(blocked[n]) ELSE blocked[n]
      BY <1>3, <2>1 DEF Forgets
    <2>3. Forget(blocked[n])[b] = blocked[n][b] \/ b \in TooOld(blocked[n])
      BY DEF Forget
    <2>4. blocked'[n][b] = blocked[n][b] \/ (n = k /\ b \in TooOld(blocked[n]))
      BY <2>2, <2>3
    <2> QED BY <1>0, <2>4
  <1>4. ASSUME NEW k \in Evacuee, NEW c \in Block, FindBlock(k, c)
        PROVE  \/ blocked'[n][b] >= blocked[n][b]
               \/ n \in Evacuee /\ b \in TooOld(blocked[n])
    <2>1. k \in Node
      BY NodeKinds
    <2>2. CASE n # k
      <3>1. blocked'[n] = blocked[n]
        BY <1>4, <2>1, <2>2 DEF FindBlock, TypeOK
      <3> QED BY <1>0, <3>1
    <2>3. CASE n = k
      <3>1. blocked'[n] = [Forget(blocked[n]) EXCEPT ![c] = now]
        BY <1>4, <2>1, <2>3 DEF FindBlock, TypeOK
      <3>2. CASE b = c
        <4>1. blocked'[n][b] = now
          BY <3>1, <3>2 DEF Forget
        <4>2. blocked[n][b] = Unknown \/ blocked[n][b] <= now
          BY DEF Provenance, RealTimes
        <4> QED BY <1>0, <4>1, <4>2 DEF Unknown
      <3>3. CASE b # c
        BY <1>0, <2>3, <3>1, <3>3 DEF Forget
      <3> QED BY <3>2, <3>3
    <2> QED BY <2>2, <2>3
  <1> QED BY <1>1, <1>2, <1>3, <1>4, RoadStep

(* Whatever the order in which Hellos, replies and shelter data arrive, no *)
(* node's information about a block or a shelter goes back in time, except *)
(* for the deliberate erasure of old road information by an evacuee.       *)
THEOREM NeverOlderHolds == Spec => NeverOlder
  <1>1. TypeOK /\ Provenance /\ [Next]_vars =>
          [/\ \A n \in Node, b \in Block :
                 \/ blocked'[n][b] >= blocked[n][b]
                 \/ n \in Evacuee /\ b \in TooOld(blocked[n])
           /\ \A n \in Node, s \in Shelter :
                 exitinfo'[n][s].time >= exitinfo[n][s].time]_vars
    BY RoadNeverOlder, ReadingStep
  <1> QED BY <1>1, TypeCorrect, ProvenanceHolds, PTL DEF Spec, NeverOlder

(* Every step that takes over information takes fresh one.                 *)
LEMMA AdoptionIsFresh ==
    ASSUME TypeOK, [Next]_vars, NEW n \in Node, NEW b \in Block,
           UseEraseInfo, EraseAoI > 0, blocked'[n][b] > blocked[n][b]
    PROVE  now - blocked'[n][b] < EraseAoI
  <1>0. blocked[n] \in Summary /\ blocked[n][b] \in Int /\ now \in Nat
    BY SummaryFacts DEF TypeOK, Time
  <1>1. ~UNCHANGED <<blocked, cut>>
    BY <1>0
  <1>2. ASSUME NEW m \in net, TakesOver(m)
        PROVE  now - blocked'[n][b] < EraseAoI
    <2>1. m.to \in Node /\ m.info \in Summary
      BY <1>2 DEF TakesOver, UserDataMsg
    <2>2. n = m.to
      BY <1>0, <1>2, <2>1 DEF TakesOver, TypeOK
    <2>3. blocked'[n] = Merge(blocked[n], m.info, Accepted(blocked[n], m.info))
      BY <1>2, <2>1, <2>2 DEF TakesOver, TypeOK
    <2>4. b \in Accepted(blocked[n], m.info) /\ blocked'[n][b] = m.info[b]
      BY <1>0, <2>3 DEF Merge
    <2> QED BY <2>4 DEF Accepted
  <1>3. ASSUME NEW k \in Evacuee, Forgets(k) PROVE FALSE
    <2>1. k \in Node
      BY NodeKinds
    <2>2. k = n
      <3> SUFFICES ASSUME k # n PROVE FALSE
        OBVIOUS
      <3>1. blocked'[n] = blocked[n]
        BY <1>3, <2>1 DEF Forgets, TypeOK
      <3> QED BY <1>0, <3>1
    <2>3. blocked'[n][b] = Unknown \/ blocked'[n][b] = blocked[n][b]
      BY <1>3, <2>1, <2>2 DEF Forgets, Forget, TypeOK
    <2>4. blocked[n][b] >= Unknown
      BY <1>0, SummaryFacts
    <2> QED BY <1>0, <2>3, <2>4 DEF Unknown
  <1>4. ASSUME NEW k \in Evacuee, NEW c \in Block, FindBlock(k, c)
        PROVE  now - blocked'[n][b] < EraseAoI
    <2>1. k \in Node
      BY NodeKinds
    <2>2. k = n
      <3> SUFFICES ASSUME k # n PROVE FALSE
        OBVIOUS
      <3>1. blocked'[n] = blocked[n]
        BY <1>4, <2>1 DEF FindBlock, TypeOK
      <3> QED BY <1>0, <3>1
    <2>3. blocked'[n] = [Forget(blocked[n]) EXCEPT ![c] = now]
      BY <1>4, <2>1, <2>2 DEF FindBlock, TypeOK
    <2>4. blocked[n][b] >= Unknown
      BY <1>0, SummaryFacts
    <2>5. b = c
      BY <1>0, <2>3, <2>4 DEF Forget, Unknown
    <2>6. blocked'[n][b] = now
      BY <2>3, <2>5 DEF Forget
    <2> QED BY <1>0, <2>6
  <1> QED BY <1>1, <1>2, <1>3, <1>4, RoadStep

(* With erasure on, what is EraseAoI or more old spreads no further: it is *)
(* never taken over again, not even from a node that never erases.         *)
THEOREM NoStaleAdoptionHolds == Spec => NoStaleAdoption
  <1>1. TypeOK /\ [Next]_vars =>
          [\A n \in Node, b \in Block :
             UseEraseInfo /\ EraseAoI > 0 /\ blocked'[n][b] > blocked[n][b]
               => now - blocked'[n][b] < EraseAoI]_vars
    BY AdoptionIsFresh
  <1> QED BY <1>1, TypeCorrect, PTL DEF Spec, NoStaleAdoption

(* Every step keeps the graph in line with the map.                        *)
LEMMA GraphStep ==
    ASSUME TypeOK, GraphFollowsKnowledge, [Next]_vars
    PROVE  GraphFollowsKnowledge'
  <1> SUFFICES ASSUME NEW n \in Node \ Ferry
               PROVE  cut'[n] = {b \in Block : blocked'[n][b] # Unknown}
    BY DEF GraphFollowsKnowledge
  <1>0. /\ cut[n] = {b \in Block : blocked[n][b] # Unknown}
        /\ blocked[n] \in Summary /\ now \in Nat
    BY DEF GraphFollowsKnowledge, TypeOK, Time
  <1>1. CASE UNCHANGED <<blocked, cut>>
    BY <1>0, <1>1
  <1>2. ASSUME NEW m \in net, TakesOver(m)
        PROVE  cut'[n] = {b \in Block : blocked'[n][b] # Unknown}
    <2>1. m.to \in Node /\ m.info \in Summary
      BY <1>2 DEF TakesOver, UserDataMsg
    <2>2. CASE n # m.to
      BY <1>0, <1>2, <2>1, <2>2 DEF TakesOver, TypeOK
    <2>3. CASE n = m.to
      <3> DEFINE news == Accepted(blocked[n], m.info)
      <3>1. /\ blocked'[n] = Merge(blocked[n], m.info, news)
            /\ cut'[n] = cut[n] \cup news
        BY <1>2, <2>1, <2>3 DEF TakesOver, TypeOK
      <3>2. news \subseteq Block /\ \A b \in news : m.info[b] # Unknown
        <4>1. \A b \in Block : /\ blocked[n][b] \in Int /\ m.info[b] \in Int
                               /\ blocked[n][b] >= Unknown
          BY <1>0, <2>1, SummaryFacts
        <4> QED BY <4>1 DEF Accepted, Missing, Unknown
      <3> HIDE DEF news
      <3> QED BY <1>0, <3>1, <3>2 DEF Merge
    <2> QED BY <2>2, <2>3
  <1>3. ASSUME NEW k \in Evacuee, Forgets(k)
        PROVE  cut'[n] = {b \in Block : blocked'[n][b] # Unknown}
    <2>1. k \in Node
      BY NodeKinds
    <2>2. CASE n # k
      BY <1>0, <1>3, <2>1, <2>2 DEF Forgets, TypeOK
    <2>3. CASE n = k
      <3>1. /\ blocked'[n] = Forget(blocked[n])
            /\ cut'[n] = cut[n] \ TooOld(blocked[n])
        BY <1>3, <2>1, <2>3 DEF Forgets, TypeOK
      <3> QED BY <1>0, <3>1 DEF Forget
    <2> QED BY <2>2, <2>3
  <1>4. ASSUME NEW k \in Evacuee, NEW c \in Block, FindBlock(k, c)
        PROVE  cut'[n] = {b \in Block : blocked'[n][b] # Unknown}
    <2>1. k \in Node
      BY NodeKinds
    <2>2. CASE n # k
      BY <1>0, <1>4, <2>1, <2>2 DEF FindBlock, TypeOK
    <2>3. CASE n = k
      <3>1. /\ blocked'[n] = [Forget(blocked[n]) EXCEPT ![c] = now]
            /\ cut'[n] = (cut[n] \ TooOld(blocked[n])) \cup {c}
        BY <1>4, <2>1, <2>3 DEF FindBlock, TypeOK
      <3>2. now # Unknown
        BY <1>0 DEF Unknown
      <3> QED BY <1>0, <3>1, <3>2 DEF Forget
    <2> QED BY <2>2, <2>3
  <1> QED BY <1>1, <1>2, <1>3, <1>4, RoadStep

(* The roads an evacuee or access point treats as cut are exactly those in *)
(* its information map, along every path that changes either of them.      *)
THEOREM GraphFollowsKnowledgeHolds == Spec => []GraphFollowsKnowledge
  <1>1. Init => GraphFollowsKnowledge
    BY DEF Init, GraphFollowsKnowledge
  <1>2. TypeOK /\ GraphFollowsKnowledge /\ [Next]_vars => GraphFollowsKnowledge'
    BY GraphStep
  <1> QED BY <1>1, <1>2, TypeCorrect, PTL DEF Spec
-----------------------------------------------------------------------------
(* The chain of Hello timers.                                              *)

(* No interval is longer than the longest.                                 *)
LEMMA LongestDelay ==
    /\ LongestHelloDelay \in Nat
    /\ FirstHello <= LongestHelloDelay /\ QuickHelloInterval <= LongestHelloDelay
    /\ FerryHelloInterval <= LongestHelloDelay /\ HelloCap <= LongestHelloDelay
  <1> DEFINE D == {FirstHello, QuickHelloInterval, FerryHelloInterval, HelloCap}
  <1>1. \E d \in D : \A e \in D : e <= d
    OBVIOUS
  <1>2. LongestHelloDelay \in D /\ \A e \in D : e <= LongestHelloDelay
    BY <1>1 DEF LongestHelloDelay
  <1> QED BY <1>2

(* Whoever sends a Hello does not wait longer than that for the next one;  *)
(* in quick mode not longer than QuickHelloInterval.                       *)
LEMMA NextHelloDue ==
    ASSUME NEW n \in Node, NEW fresh \in BOOLEAN,
           NEW delay \in HelloDelays(n, fresh)
    PROVE  /\ delay \in Nat /\ delay <= LongestHelloDelay
           /\ UseQuickHello /\ fresh /\ n \notin Ferry => delay = QuickHelloInterval
  <1>1. delay \in Nat
    BY DelayType
  <1>2. CASE n \in Ferry
    BY <1>1, <1>2, LongestDelay DEF HelloDelays
  <1>3. CASE n \notin Ferry /\ UseQuickHello /\ fresh
    BY <1>1, <1>3, LongestDelay DEF HelloDelays
  <1>4. CASE n \notin Ferry /\ ~(UseQuickHello /\ fresh)
    <2>1. delay \in OrdinaryIntervals
      BY <1>4 DEF HelloDelays
    <2>2. delay <= HelloCap
      BY <2>1 DEF OrdinaryIntervals
    <2> QED BY <1>1, <1>4, <2>2, LongestDelay
  <1> QED BY <1>2, <1>3, <1>4

(* What a step does when node n sends a Hello.                             *)
Rearms(n) ==
    /\ UNCHANGED <<now, status>>
    /\ status[n] # "exit"
    /\ \E d \in 0 .. LongestHelloDelay :
          /\ helloAt' = [helloAt EXCEPT ![n] = now + d]
          /\ UseQuickHello /\ quick'[n] /\ n \notin Ferry => d = QuickHelloInterval
    /\ \A k \in Node \ {n} : quick'[k] = quick[k]
    /\ broadcastId'[n] > broadcastId[n]

(* SendHello re-arms the timer, from whatever event it is called.          *)
LEMMA SendHelloRearms ==
    ASSUME TypeOK, NEW n \in Node, status[n] # "exit", UNCHANGED <<now, status>>,
           NEW held, NEW info, NEW cache, NEW flying,
           SendHello(n, held, info, cache, flying)
    PROVE  Rearms(n)
  <1> DEFINE fresh == HoldsFreshInfo(held, info)
  <1>1. PICK d \in HelloDelays(n, fresh) :
           helloAt' = [helloAt EXCEPT ![n] = now + d]
    BY DEF SendHello
  <1>2. fresh \in BOOLEAN
    BY DEF HoldsFreshInfo
  <1>3. quick' = [quick EXCEPT ![n] = fresh]
    BY DEF SendHello
  <1>4. quick'[n] = fresh /\ \A k \in Node \ {n} : quick'[k] = quick[k]
    BY <1>3 DEF TypeOK
  <1>5. broadcastId'[n] > broadcastId[n]
    BY DEF SendHello, TypeOK
  <1> HIDE DEF fresh
  <1>6. /\ d \in 0 .. LongestHelloDelay
        /\ UseQuickHello /\ fresh /\ n \notin Ferry => d = QuickHelloInterval
    BY <1>1, <1>2, NextHelloDue, LongestDelay
  <1> QED BY <1>1, <1>4, <1>5, <1>6 DEF Rearms

(* Which steps touch the Hello timer, the mode, the status or the clock.   *)
LEMMA HelloFrame ==
    ASSUME TypeOK, [Next]_vars
    PROVE  \/ \E n \in Node : Rearms(n)
           \/ \E n \in Node : HelloTimer(n) /\ status[n] = "exit"
           \/ \E n \in AddUser : ActivateReservedAddUser(n)
           \/ Tick
           \/ /\ UNCHANGED <<now, quick, helloAt>>
              /\ \A n \in Node : status'[n] \in {status[n], "exit"}
  <1> DEFINE Quiet == /\ UNCHANGED <<now, quick, helloAt>>
                      /\ \A n \in Node : status'[n] \in {status[n], "exit"}
  <1>1. ASSUME NEW n \in Node, HelloTimer(n), status[n] # "exit" PROVE Rearms(n)
    <2>1. UNCHANGED <<now, status>>
      BY <1>1 DEF HelloTimer
    <2>2. SendHello(n, blocked[n], exitinfo[n], idCache[n], net)
      BY <1>1 DEF HelloTimer
    <2> QED BY <1>1, <2>1, <2>2, SendHelloRearms
  <1>2. ASSUME NEW m \in net, RecvUserDataAsUnicast(m) PROVE Rearms(m.to) \/ Quiet
    <2>1. m.to \in Node /\ status[m.to] # "exit" /\ UNCHANGED <<now, status>>
      BY <1>2, MessageKinds DEF RecvUserDataAsUnicast, TypeOK
    <2>2. \/ UNCHANGED helloVars
          \/ \E held, info, cache, flying : SendHello(m.to, held, info, cache, flying)
      BY <1>2 DEF RecvUserDataAsUnicast
    <2> QED BY <2>1, <2>2, SendHelloRearms DEF helloVars
  <1>3. ASSUME NEW m \in net, RecvShelterDataAsBroadcast(m)
        PROVE  Rearms(m.to) \/ Quiet
    <2>1. m.to \in Node /\ status[m.to] # "exit" /\ UNCHANGED <<now, status>>
      BY <1>3, MessageKinds DEF RecvShelterDataAsBroadcast, TypeOK
    <2>2. \/ UNCHANGED helloVars
          \/ \E held, info, cache, flying : SendHello(m.to, held, info, cache, flying)
      BY <1>3 DEF RecvShelterDataAsBroadcast
    <2> QED BY <2>1, <2>2, SendHelloRearms DEF helloVars
  <1>4. ASSUME NEW m \in net,
               \/ RecvHello(m) \/ RecvHelloAgain(m) \/ RecvRequest(m)
               \/ Discard(m) \/ Lose(m)
        PROVE  Quiet
    BY <1>4 DEF RecvHello, RecvHelloAgain, RecvRequest, Discard, Lose, helloVars
  <1>5. ASSUME NEW n \in Node, ProcessRequestBuffer(n) PROVE Quiet
    BY <1>5 DEF ProcessRequestBuffer, helloVars
  <1>6. ASSUME NEW s \in Shelter, HandleShelterData(s) PROVE Quiet
    BY <1>6 DEF HandleShelterData
  <1>7. ASSUME NEW n \in Evacuee, Movement(n) PROVE Quiet
    BY <1>7, NodeKinds DEF Movement, HandleUserMovement, FindBlock,
                CompleteEvacuation, helloVars, TypeOK
  <1>8. ASSUME NEW f \in Ferry, NEW s \in Shelter, GetExitInfoforFerry(f, s)
        PROVE  Quiet
    BY <1>8 DEF GetExitInfoforFerry, helloVars
  <1>9. CASE UNCHANGED vars
    BY <1>9 DEF vars
  <1> HIDE DEF Quiet
  <1>10. \/ \E n \in Node : Rearms(n)
         \/ \E n \in Node : HelloTimer(n) /\ status[n] = "exit"
         \/ \E n \in AddUser : ActivateReservedAddUser(n)
         \/ Tick \/ Quiet \/ UNCHANGED vars
    <2>1. \A m \in net : m.to \in Node
      BY MessageKinds DEF TypeOK
    <2> QED BY <1>1, <1>2, <1>3, <1>4, <1>5, <1>6, <1>7, <1>8, <2>1
            DEF Next, Stop, Receive
  <1> USE DEF Quiet
  <1> QED BY <1>9, <1>10

(* In quick mode the next Hello is due within QuickHelloInterval, also at  *)
(* a user that still waits: it keeps its mode when it is activated.        *)
QuickDue ==
    \A n \in Node \ Ferry :
        status[n] # "exit" /\ UseQuickHello /\ quick[n] =>
            helloAt[n] \in now .. now + QuickHelloInterval

(* Every step keeps the chain.                                             *)
LEMMA HelloChainStep ==
    ASSUME TypeOK, HelloChainAlive, QuickDue, [Next]_vars
    PROVE  HelloChainAlive' /\ QuickDue'
  <1>0. /\ now \in Nat /\ \A k \in Node : helloAt[k] \in Nat \cup {NoTimer}
        /\ NoTimer = -1 /\ QuickHelloInterval \in Nat
    BY DEF TypeOK, Time, TimerTime, NoTimer
  <1>1. ASSUME NEW n \in Node, Rearms(n) PROVE HelloChainAlive' /\ QuickDue'
    <2>1. PICK d \in 0 .. LongestHelloDelay :
             /\ helloAt' = [helloAt EXCEPT ![n] = now + d]
             /\ UseQuickHello /\ quick'[n] /\ n \notin Ferry =>
                   d = QuickHelloInterval
      BY <1>1 DEF Rearms
    <2>2. helloAt'[n] = now + d /\ \A k \in Node \ {n} : helloAt'[k] = helloAt[k]
      BY <2>1 DEF TypeOK
    <2>3. /\ now + d # NoTimer /\ now + d \in now .. now + LongestHelloDelay
          /\ d = QuickHelloInterval => now + d \in now .. now + QuickHelloInterval
      BY <1>0, LongestDelay
    <2>4. UNCHANGED <<now, status>> /\ \A k \in Node \ {n} : quick'[k] = quick[k]
      BY <1>1 DEF Rearms
    <2>5. HelloChainAlive'
      BY <2>1, <2>2, <2>3, <2>4 DEF HelloChainAlive
    <2>6. QuickDue'
      BY <2>1, <2>2, <2>3, <2>4 DEF QuickDue
    <2> QED BY <2>5, <2>6
  <1>2. ASSUME NEW n \in Node, HelloTimer(n), status[n] = "exit"
        PROVE  HelloChainAlive' /\ QuickDue'
    <2>1. /\ UNCHANGED <<now, status, quick>>
          /\ \A k \in Node \ {n} : helloAt'[k] = helloAt[k]
      BY <1>2 DEF HelloTimer, TypeOK
    <2> QED BY <1>2, <2>1 DEF HelloChainAlive, QuickDue
  <1>3. ASSUME NEW n \in AddUser, ActivateReservedAddUser(n)
        PROVE  HelloChainAlive' /\ QuickDue'
    <2>1. n \in Node
      BY NodeKinds
    <2>2. /\ UNCHANGED <<now, quick>> /\ helloAt'[n] = now
          /\ \A k \in Node \ {n} : helloAt'[k] = helloAt[k] /\ status'[k] = status[k]
      BY <1>3, <2>1 DEF ActivateReservedAddUser, TypeOK
    <2>3. /\ now # NoTimer /\ now \in now .. now + LongestHelloDelay
          /\ now \in now .. now + QuickHelloInterval
      BY <1>0, LongestDelay
    <2>4. HelloChainAlive'
      BY <2>2, <2>3 DEF HelloChainAlive
    <2>5. QuickDue'
      BY <2>2, <2>3 DEF QuickDue
    <2> QED BY <2>4, <2>5
  <1>4. CASE Tick
    <2>1. /\ now' = now + 1 /\ UNCHANGED <<status, quick, helloAt>>
          /\ \A k \in Node : helloAt[k] # now
      BY <1>4 DEF Tick, helloVars
    <2>2. \A k \in Node : \A d \in Nat :
             helloAt[k] \in now .. now + d => helloAt[k] \in now' .. now' + d
      BY <1>0, <2>1
    <2>3. HelloChainAlive'
      BY <2>1, <2>2, LongestDelay, <1>0 DEF HelloChainAlive
    <2>4. QuickDue'
      BY <2>1, <2>2, <1>0 DEF QuickDue
    <2> QED BY <2>3, <2>4
  <1>5. CASE /\ UNCHANGED <<now, quick, helloAt>>
             /\ \A n \in Node : status'[n] \in {status[n], "exit"}
    BY <1>5 DEF HelloChainAlive, QuickDue
  <1> QED BY <1>1, <1>2, <1>3, <1>4, <1>5, HelloFrame

(* The chain holds from the first Hello on.                                *)
LEMMA HelloChainHolds == Spec => [](HelloChainAlive /\ QuickDue)
  <1>1. Init => HelloChainAlive /\ QuickDue
    <2>1. FirstHello \in 0 .. LongestHelloDelay
          /\ FerryHelloInterval \in 0 .. LongestHelloDelay
      BY LongestDelay
    <2>2. ASSUME Init PROVE HelloChainAlive
      <3>1. \A n \in Node : helloAt[n] \in {FirstHello, FerryHelloInterval, NoTimer}
        BY <2>2 DEF Init
      <3>2. \A n \in Evacuee \cup Ferry : status[n] = "move" => helloAt[n] # NoTimer
        BY <2>2, NodeKinds DEF Init, NoTimer, Evacuee
      <3>3. now = 0 /\ \A n \in Node : ~quick[n]
        BY <2>2 DEF Init
      <3> QED BY <2>1, <3>1, <3>2, <3>3, LongestDelay DEF HelloChainAlive
    <2> QED BY <2>2 DEF Init, QuickDue
  <1>2. TypeOK /\ HelloChainAlive /\ QuickDue /\ [Next]_vars
          => (HelloChainAlive /\ QuickDue)'
    BY HelloChainStep
  <1> QED BY <1>1, <1>2, TypeCorrect, PTL DEF Spec

(* For any nodes and intervals the chain of Hello timers never breaks: a   *)
(* user under way or a ferry always has a Hello due in time, although      *)
(* receptions re-arm the timer and an activation sets it to now.           *)
THEOREM HelloChainNeverBreaks == Spec => []HelloChainAlive
  BY HelloChainHolds, PTL
-----------------------------------------------------------------------------
(* News.                                                                   *)

(* A discovery of this second is still held by who made it: it is neither  *)
(* forgotten nor replaced before the clock moves on.                       *)
FindsHeld ==
    \A d \in discovered : d.time = now => blocked[d.who][d.block] = now

(* No time in a map lies in the future.                                    *)
LEMMA HeldInPast ==
    ASSUME TypeOK, Provenance, NEW n \in Node, NEW b \in Block
    PROVE  blocked[n][b] \in Int /\ blocked[n][b] <= now
  <1>1. blocked[n] \in Summary /\ now \in Nat
    BY DEF TypeOK, Time
  <1>2. blocked[n][b] = Unknown \/ blocked[n][b] <= now
    BY DEF Provenance, RealTimes
  <1> QED BY <1>1, <1>2, SummaryFacts DEF Unknown

(* Every step keeps the discoveries of this second.                        *)
LEMMA FindsHeldStep ==
    ASSUME TypeOK, Provenance, FindsHeld, TypeOK', Provenance', [Next]_vars
    PROVE  FindsHeld'
  <1>0. now \in Nat /\ EraseAoI \in Nat
    BY DEF TypeOK, Time
  <1>1. CASE now' # now
    <2>1. Tick
      <3>1. ASSUME [Next]_vars, ~Tick PROVE now' = now
        BY <3>1, <1>0 DEF Next, Stop, vars, HelloTimer, ProcessRequestBuffer,
           HandleShelterData, Receive, RecvHello, RecvHelloAgain, RecvRequest,
           RecvUserDataAsUnicast, RecvShelterDataAsBroadcast, Discard, Lose,
           Movement, HandleUserMovement, FindBlock, CompleteEvacuation,
           ActivateReservedAddUser, GetExitInfoforFerry
      <3> QED BY <1>1, <3>1
    <2>2. now' = now + 1 /\ UNCHANGED discovered
      BY <2>1 DEF Tick
    <2>3. \A d \in discovered : d.time \in Nat /\ d.time <= now
      BY DEF TypeOK, Time, Provenance
    <2> QED BY <1>0, <2>2, <2>3 DEF FindsHeld
  <1>2. CASE now' = now
    <2> SUFFICES ASSUME NEW d \in discovered', d.time = now
                 PROVE  blocked'[d.who][d.block] = now
      BY <1>2 DEF FindsHeld
    <2>1. d.who \in Node /\ d.block \in Block
      BY DEF TypeOK
    <2>2. blocked'[d.who][d.block] \in Int /\ blocked'[d.who][d.block] <= now
      <3>1. blocked'[d.who] \in Summary
        BY <2>1 DEF TypeOK
      <3>2. \/ blocked'[d.who][d.block] = Unknown
            \/ \E e \in discovered' : e.time = blocked'[d.who][d.block]
        BY <2>1 DEF Provenance, RealTimes
      <3>3. \A e \in discovered' : e.time <= now
        BY <1>2 DEF Provenance
      <3> QED BY <1>0, <2>1, <3>1, <3>2, <3>3, SummaryFacts DEF Unknown
    <2>3. CASE d \in discovered
      <3>1. blocked[d.who][d.block] = now
        BY <2>3 DEF FindsHeld
      <3>2. d.block \notin TooOld(blocked[d.who])
        BY <1>0, <3>1 DEF TooOld
      <3>3. blocked'[d.who][d.block] >= now
        BY <2>1, <3>1, <3>2, RoadNeverOlder
      <3> QED BY <1>0, <2>2, <3>3
    <2>4. CASE d \notin discovered
      <3>1. PICK n \in Evacuee, b \in Block : FindBlock(n, b)
        <4>1. ASSUME ~\E n \in Evacuee, b \in Block : FindBlock(n, b)
              PROVE  discovered' = discovered
          BY <4>1 DEF Next, Stop, vars, HelloTimer, ProcessRequestBuffer,
             HandleShelterData, Receive, RecvHello, RecvHelloAgain, RecvRequest,
             RecvUserDataAsUnicast, RecvShelterDataAsBroadcast, Discard, Lose,
             Movement, HandleUserMovement, CompleteEvacuation,
             ActivateReservedAddUser, GetExitInfoforFerry, Tick
        <4> QED BY <2>4, <4>1
      <3>2. d.who = n /\ d.block = b /\ n \in Node
        BY <2>4, <3>1, NodeKinds DEF FindBlock
      <3>3. blocked'[n] = [Forget(blocked[n]) EXCEPT ![b] = now]
        BY <3>1, <3>2 DEF FindBlock, TypeOK
      <3> QED BY <3>2, <3>3 DEF Forget
    <2> QED BY <2>3, <2>4
  <1> QED BY <1>1, <1>2

(* Who takes over news from a reply sends a Hello at once or soon.         *)
LEMMA NewsStep ==
    ASSUME TypeOK, Provenance, FindsHeld, QuickDue, [Next]_vars,
           NEW n \in Node \ Ferry, UseQuickHello, discovered' = discovered,
           NEW b \in Block, blocked'[n][b] > blocked[n][b]
    PROVE  \/ broadcastId'[n] > broadcastId[n]
           \/ helloAt[n] \in now .. now + QuickHelloInterval
  <1>0. now \in Nat /\ blocked[n] \in Summary /\ blocked[n][b] \in Int
        /\ blocked[n][b] <= now /\ blocked[n][b] >= Unknown
    BY HeldInPast, SummaryFacts DEF TypeOK, Time
  <1>1. ASSUME NEW m \in net, RecvUserDataAsUnicast(m)
        PROVE  \/ broadcastId'[n] > broadcastId[n]
               \/ helloAt[n] \in now .. now + QuickHelloInterval
    <2> DEFINE news == Accepted(blocked[n], m.info)
    <2>1. m \in UserDataMsg
      BY <1>1, MessageKinds DEF RecvUserDataAsUnicast, TypeOK
    <2>2. m.to \in Node /\ m.info \in Summary
      BY <2>1 DEF UserDataMsg
    <2>3. n = m.to
      <3> SUFFICES ASSUME n # m.to PROVE blocked'[n] = blocked[n]
        BY <1>0
      <3> QED BY <1>1, <2>2 DEF RecvUserDataAsUnicast, TypeOK
    <2>4. blocked'[n] = Merge(blocked[n], m.info, news)
      <3>1. blocked' = [blocked EXCEPT ![n] = Merge(blocked[n], m.info, news)]
        BY <1>1, <2>3 DEF RecvUserDataAsUnicast
      <3> HIDE DEF news
      <3> QED BY <3>1 DEF TypeOK
    <2>5. b \in news
      BY <1>0, <2>4 DEF Merge
    <2>6. status[n] # "exit"
      BY <1>1, <2>3 DEF RecvUserDataAsUnicast
    <2>7. CASE quick[n]
      BY <2>6, <2>7 DEF QuickDue
    <2>8. CASE ~quick[n]
      <3>1. Announces(n, news # {})
        BY <2>5, <2>8 DEF Announces
      <3>2. \E held, info, cache, flying : SendHello(n, held, info, cache, flying)
        BY <1>1, <2>3, <3>1 DEF RecvUserDataAsUnicast
      <3> QED BY <3>2 DEF SendHello, TypeOK
    <2> QED BY <2>7, <2>8
  <1>2. ASSUME NEW k \in Evacuee, Forgets(k) PROVE FALSE
    <2>1. k \in Node
      BY NodeKinds
    <2>2. blocked'[n][b] = Unknown \/ blocked'[n][b] = blocked[n][b]
      BY <1>2, <2>1 DEF Forgets, Forget, TypeOK
    <2> QED BY <1>0, <2>2 DEF Unknown
  <1>3. ASSUME NEW k \in Evacuee, NEW c \in Block, FindBlock(k, c) PROVE FALSE
    <2> DEFINE found == [who |-> k, block |-> c, time |-> now]
    <2>1. k \in Node
      BY NodeKinds
    <2>2. found \in discovered
      BY <1>3 DEF FindBlock
    <2>3. blocked[k][c] = now
      BY <2>2 DEF FindsHeld
    <2>4. blocked'[k] = [Forget(blocked[k]) EXCEPT ![c] = now]
      BY <1>3, <2>1 DEF FindBlock, TypeOK
    <2>5. CASE n # k
      <3>1. blocked'[n] = blocked[n]
        BY <1>3, <2>1, <2>5 DEF FindBlock, TypeOK
      <3> QED BY <1>0, <3>1
    <2>6. CASE n = k
      <3>1. \/ blocked'[n][b] = blocked[n][b] \/ blocked'[n][b] = Unknown
            \/ b = c /\ blocked'[n][b] = now
        BY <2>4, <2>6 DEF Forget
      <3> QED BY <1>0, <2>3, <2>6, <3>1 DEF Unknown
    <2> QED BY <2>5, <2>6
  <1>4. \/ UNCHANGED blocked
        \/ \E m \in net : RecvUserDataAsUnicast(m)
        \/ \E k \in Evacuee : Forgets(k)
        \/ \E k \in Evacuee, c \in Block : FindBlock(k, c)
    BY DEF Next, Stop, vars, HelloTimer, ProcessRequestBuffer,
       HandleShelterData, Receive, RecvHello, RecvHelloAgain, RecvRequest,
       RecvShelterDataAsBroadcast, Discard, Lose, Forgets,
       Movement, HandleUserMovement, CompleteEvacuation,
       ActivateReservedAddUser, GetExitInfoforFerry, Tick, knowledge
  <1>5. ~UNCHANGED blocked
    BY <1>0
  <1> QED BY <1>1, <1>2, <1>3, <1>4, <1>5

(* Road information taken over from a reply is announced in the same event *)
(* or by a Hello at most QuickHelloInterval away, at any node but a ferry, *)
(* for any number of nodes and any order of replies: in quick mode, where  *)
(* no Hello is sent at once, the running timer is never a long one.        *)
THEOREM NewsAnnouncedHolds == Spec => NewsAnnounced
  <1>1. Init => FindsHeld
    BY DEF Init, FindsHeld
  <1>2. TypeOK /\ Provenance /\ FindsHeld /\ TypeOK' /\ Provenance' /\ [Next]_vars
          => FindsHeld'
    BY FindsHeldStep
  <1>3. TypeOK /\ Provenance /\ FindsHeld /\ QuickDue /\ [Next]_vars =>
          [\A n \in Node \ Ferry :
             /\ UseQuickHello /\ discovered' = discovered
             /\ \E b \in Block : blocked'[n][b] > blocked[n][b]
             => \/ broadcastId'[n] > broadcastId[n]
                \/ helloAt[n] \in now .. now + QuickHelloInterval]_vars
    BY NewsStep
  <1> QED BY <1>1, <1>2, <1>3, TypeCorrect, ProvenanceHolds, HelloChainHolds, PTL
          DEF Spec, NewsAnnounced
-----------------------------------------------------------------------------
(* Readings of the shelters.                                               *)

(* A reading taken now.                                                    *)
ReadingNow(s) == [num |-> space[s], time |-> now]

(* Shelter data under way was handed to the socket before, or tells of now.*)
LEMMA ShelterPackets ==
    ASSUME TypeOK, [Next]_vars, NEW m \in net', m.type = "SHELTERDATA"
    PROVE  m \in net \/ m.data = ReadingNow(m.from)
  <1>1. ASSUME NEW n, NEW held, NEW info, NEW cache, NEW flying,
               SendHello(n, held, info, cache, flying), flying \subseteq net
        PROVE  m \in net
    BY <1>1 DEF SendHello
  <1>2. ASSUME NEW s \in Shelter, HandleShelterData(s)
        PROVE  m \in net \/ m.data = ReadingNow(m.from)
    BY <1>2 DEF HandleShelterData, ReadingNow
  <1>3. ASSUME NEW n \in Node, HelloTimer(n) \/ ProcessRequestBuffer(n)
        PROVE  m \in net
    BY <1>1, <1>3 DEF HelloTimer, ProcessRequestBuffer
  <1>4. ASSUME NEW p \in net, RecvUserDataAsUnicast(p) PROVE m \in net
    BY <1>1, <1>4 DEF RecvUserDataAsUnicast
  <1>5. ASSUME NEW p \in net, RecvShelterDataAsBroadcast(p) PROVE m \in net
    <2>1. \/ net' = net \ {p}
          \/ \E n, held, info, cache : SendHello(n, held, info, cache, net \ {p})
      BY <1>5 DEF RecvShelterDataAsBroadcast
    <2> QED BY <1>1, <2>1
  <1>6. ASSUME NEW p \in net,
               \/ RecvHello(p) \/ RecvHelloAgain(p) \/ RecvRequest(p)
               \/ Discard(p) \/ Lose(p)
        PROVE  m \in net
    BY <1>6 DEF RecvHello, RecvHelloAgain, RecvRequest, Discard, Lose, AfterReceipt
  <1>7. CASE \/ \E n \in Evacuee : Movement(n)
             \/ \E n \in AddUser : ActivateReservedAddUser(n)
             \/ \E f \in Ferry, s \in Shelter : GetExitInfoforFerry(f, s)
             \/ Tick \/ UNCHANGED vars
    BY <1>7 DEF Movement, HandleUserMovement, FindBlock, CompleteEvacuation,
                ActivateReservedAddUser, GetExitInfoforFerry, Tick, vars
  <1> QED BY <1>2, <1>3, <1>4, <1>5, <1>6, <1>7 DEF Next, Stop, Receive

(* A node holds the reading it held, one that was under way, or one of now.*)
LEMMA StoredReadings ==
    ASSUME TypeOK, [Next]_vars, NEW n \in Node, NEW s \in Shelter
    PROVE  exitinfo'[n][s] \in ReadingsOf(s) \cup {ReadingNow(s)}
  <1>0. exitinfo[n][s] \in ReadingsOf(s) /\ exitinfo[n] \in [Shelter -> Reading]
    BY DEF ReadingsOf, TypeOK
  <1>1. CASE UNCHANGED exitinfo
    BY <1>0, <1>1
  <1>2. ASSUME NEW k \in Node, NEW q \in Shelter,
               exitinfo' = [exitinfo EXCEPT ![k] = ReadSpace(exitinfo[k], q)]
        PROVE  exitinfo'[n][s] \in {exitinfo[n][s], ReadingNow(s)}
    <2>1. exitinfo'[n] = IF n = k THEN ReadSpace(exitinfo[n], q) ELSE exitinfo[n]
      BY <1>2 DEF TypeOK
    <2>2. ReadSpace(exitinfo[n], q)[s] \in {exitinfo[n][s], ReadingNow(s)}
      BY <1>0 DEF ReadSpace, ReadingNow
    <2> QED BY <2>1, <2>2
  <1>3. ASSUME NEW m \in net, RecvShelterDataAsBroadcast(m)
        PROVE  exitinfo'[n][s] \in ReadingsOf(s)
    <2>1. m \in ShelterMsg /\ m.type = "SHELTERDATA"
      BY <1>3, MessageKinds DEF RecvShelterDataAsBroadcast, TypeOK
    <2>2. m.to \in Node /\ m.from \in Shelter
      BY <2>1 DEF ShelterMsg
    <2>3. \/ UNCHANGED exitinfo
          \/ exitinfo' = [exitinfo EXCEPT
                            ![m.to] = [exitinfo[m.to] EXCEPT ![m.from] = m.data]]
      BY <1>3, <2>2 DEF RecvShelterDataAsBroadcast, TypeOK
    <2>4. exitinfo'[n][s] = exitinfo[n][s] \/ (m.from = s /\ exitinfo'[n][s] = m.data)
      <3>1. exitinfo[m.to] \in [Shelter -> Reading]
        BY <2>2 DEF TypeOK
      <3>2. n # m.to => exitinfo'[n] = exitinfo[n]
        BY <2>2, <2>3 DEF TypeOK
      <3>3. \/ exitinfo'[m.to] = exitinfo[m.to]
            \/ exitinfo'[m.to] = [exitinfo[m.to] EXCEPT ![m.from] = m.data]
        BY <2>2, <2>3 DEF TypeOK
      <3> QED BY <2>2, <3>1, <3>2, <3>3
    <2>5. m.from = s => m.data \in ReadingsOf(s)
      BY <2>1 DEF ReadingsOf
    <2> QED BY <1>0, <2>4, <2>5
  <1>4. ASSUME NEW m \in net, RecvHello(m)
        PROVE  \/ UNCHANGED exitinfo
               \/ \E k \in Node, q \in Shelter :
                     exitinfo' = [exitinfo EXCEPT ![k] = ReadSpace(exitinfo[k], q)]
    <2>1. m.to \in Node
      BY MessageKinds DEF TypeOK
    <2> QED BY <1>4, <2>1 DEF RecvHello
  <1>5. ASSUME NEW f \in Ferry, NEW q \in Shelter, GetExitInfoforFerry(f, q)
        PROVE  \E k \in Node : exitinfo' = [exitinfo EXCEPT
                                              ![k] = ReadSpace(exitinfo[k], q)]
    BY <1>5, NodeKinds DEF GetExitInfoforFerry
  <1> QED BY <1>0, <1>1, <1>2, <1>3, <1>4, <1>5, ReadingFrame

(* Space is only handed out, and the clock only moves on.                  *)
LEMMA SpaceFalls ==
    ASSUME TypeOK, [Next]_vars, NEW s \in Shelter
    PROVE  /\ space[s] \in Nat /\ space'[s] \in Int /\ space'[s] <= space[s]
           /\ now \in Nat /\ now' \in Nat /\ now <= now'
  <1>0. space[s] \in Nat /\ now \in Nat
    BY DEF TypeOK, Time
  <1>1. ASSUME NEW n \in Evacuee, NEW q \in Shelter, CompleteEvacuation(n, q)
        PROVE  space'[s] \in Int /\ space'[s] <= space[s] /\ now' = now
    BY <1>0, <1>1 DEF CompleteEvacuation, TypeOK
  <1>2. CASE Tick
    BY <1>0, <1>2 DEF Tick, shelterVars
  <1>3. \/ \E n \in Evacuee, q \in Shelter : CompleteEvacuation(n, q)
        \/ Tick \/ UNCHANGED <<space, now>>
    BY DEF Next, Stop, vars, HelloTimer, ProcessRequestBuffer,
       HandleShelterData, Receive, RecvHello, RecvHelloAgain, RecvRequest,
       RecvUserDataAsUnicast, RecvShelterDataAsBroadcast, Discard, Lose,
       Movement, HandleUserMovement, FindBlock, ActivateReservedAddUser,
       GetExitInfoforFerry, shelterVars
  <1> QED BY <1>0, <1>1, <1>2, <1>3

(* Every step keeps the readings consistent.                               *)
LEMMA ReadingsStep ==
    ASSUME TypeOK, ReadingsConsistent, [Next]_vars
    PROVE  ReadingsConsistent'
  <1> SUFFICES ASSUME NEW s \in Shelter
               PROVE  \A r \in ReadingsOf(s)' :
                         /\ r.num >= space'[s] /\ r.time <= now'
                         /\ \A q \in ReadingsOf(s)' :
                               r.time < q.time => r.num >= q.num
    BY DEF ReadingsConsistent
  <1>1. ReadingsOf(s)' \subseteq ReadingsOf(s) \cup {ReadingNow(s)}
    <2>1. ASSUME NEW n \in Node
          PROVE  exitinfo'[n][s] \in ReadingsOf(s) \cup {ReadingNow(s)}
      BY StoredReadings
    <2>2. ASSUME NEW m \in net', m.type = "SHELTERDATA", m.from = s
          PROVE  m.data \in ReadingsOf(s) \cup {ReadingNow(s)}
      BY <2>2, ShelterPackets DEF ReadingsOf
    <2> HIDE DEF ReadingNow
    <2> QED BY <2>1, <2>2 DEF ReadingsOf
  <1>2. ReadingsOf(s) \subseteq Reading
    <2>1. ASSUME NEW m \in net, m.type = "SHELTERDATA" PROVE m.data \in Reading
      <3>1. m \in ShelterMsg
        BY <2>1, MessageKinds DEF TypeOK
      <3> QED BY <3>1 DEF ShelterMsg
    <2> QED BY <2>1 DEF ReadingsOf, TypeOK
  <1>3. \A r \in ReadingsOf(s) : r.num \in Nat /\ r.time \in Nat
    BY <1>2 DEF Reading, Time
  <1>4. \A r \in ReadingsOf(s) :
           /\ r.num >= space[s] /\ r.time <= now
           /\ \A q \in ReadingsOf(s) : r.time < q.time => r.num >= q.num
    BY DEF ReadingsConsistent
  <1>5. ReadingNow(s).num = space[s] /\ ReadingNow(s).time = now
    BY DEF ReadingNow
  <1> QED BY <1>1, <1>3, <1>4, <1>5, SpaceFalls

(* Readings of a shelter at any two nodes, or under way, never contradict  *)
(* each other: none is below what is really left and a later one never     *)
(* shows more, whichever of broadcast, relay and visit it came by.         *)
THEOREM ReadingsConsistentHolds == Spec => []ReadingsConsistent
  <1>1. Init => ReadingsConsistent
    <2> SUFFICES ASSUME Init PROVE ReadingsConsistent
      OBVIOUS
    <2>1. ASSUME NEW s \in Shelter, NEW r \in ReadingsOf(s)
          PROVE  r.num = Capacity /\ r.time = 0
      BY <2>1 DEF Init, ReadingsOf
    <2>2. now = 0 /\ \A s \in Shelter : space[s] = Capacity
      BY DEF Init
    <2> QED BY <2>1, <2>2 DEF ReadingsConsistent
  <1>2. TypeOK /\ ReadingsConsistent /\ [Next]_vars => ReadingsConsistent'
    BY ReadingsStep
  <1> QED BY <1>1, <1>2, TypeCorrect, PTL DEF Spec
-----------------------------------------------------------------------------
(* How long a discovery takes to spread.                                   *)

(* How a packet comes into flight.                                         *)
NewBroadcast(m) ==
    /\ m.type \in {"HELLO", "SHELTERDATA"}
    /\ m.bid = broadcastId[m.from] + 1 /\ broadcastId'[m.from] = m.bid
    /\ m.type = "HELLO" => m.summary = blocked'[m.from]

NewRequest(m) ==
    /\ m.type = "REQUEST"
    /\ \E h \in net : /\ RecvHello(h) /\ m.from = h.to /\ m.to = h.from
                      /\ m.blockIds = Missing(blocked[h.to], h.summary)
                      /\ m.blockIds # {}

NewReply(m) ==
    /\ m.type = "USERDATA" /\ ProcessRequestBuffer(m.from)

NewPacket(m) ==
    m.at = now /\ (NewBroadcast(m) \/ NewRequest(m) \/ NewReply(m))

(* How an id comes into the cache of node n: the node broadcasts itself,   *)
(* or it receives a broadcast.                                             *)
NewId(n, e) ==
    \/ e.addr = n /\ e.id = broadcastId'[n]
    \/ \E m \in net : /\ RecvHello(m) \/ RecvShelterDataAsBroadcast(m)
                      /\ m.to = n /\ e.addr = m.from /\ e.id = m.bid

(* Purging removes entries; remembering adds at most the one asked for.    *)
LEMMA RememberAdds ==
    ASSUME NEW cache, NEW addr, NEW id, NEW e \in Remember(cache, addr, id)
    PROVE  e \in cache \/ (e.addr = addr /\ e.id = id)
  BY DEF Remember, Purge

(* What a step does to the network and the caches when node n, with this   *)
(* cache, sends a Hello.                                                   *)
Greets(n, cache) ==
    /\ \A m \in net' \ net : NewPacket(m)
    /\ broadcastId'[n] = broadcastId[n] + 1
    /\ \A k \in Node \ {n} :
          idCache'[k] = idCache[k] /\ broadcastId'[k] = broadcastId[k]
    /\ \A e \in idCache'[n] : e \in cache \/ (e.addr = n /\ e.id = broadcastId'[n])

LEMMA SendHelloGreets ==
    ASSUME TypeOK, NEW n \in Node, NEW held, NEW info, NEW cache, NEW flying,
           held = blocked'[n], flying \subseteq net,
           SendHello(n, held, info, cache, flying)
    PROVE  Greets(n, cache)
  <1>0. broadcastId \in [Node -> Nat] /\ idCache \in [Node -> SUBSET CacheEntry]
    BY DEF TypeOK
  <1>1. /\ broadcastId' = [broadcastId EXCEPT ![n] = broadcastId[n] + 1]
        /\ idCache' = [idCache EXCEPT ![n] = Remember(cache, n, broadcastId[n] + 1)]
        /\ \E hearers \in Audience(n) : net' = flying \cup
             {[type |-> "HELLO", from |-> n, to |-> r, bid |-> broadcastId[n] + 1,
               summary |-> held, at |-> now] : r \in hearers}
    BY DEF SendHello
  <1>2. /\ broadcastId'[n] = broadcastId[n] + 1
        /\ \A k \in Node \ {n} : broadcastId'[k] = broadcastId[k]
    BY <1>0, <1>1
  <1>3. \A m \in net' \ net :
           /\ m.type = "HELLO" /\ m.from = n /\ m.bid = broadcastId[n] + 1
           /\ m.summary = blocked'[n] /\ m.at = now
    BY <1>1
  <1>4. \A m \in net' \ net : NewPacket(m)
    BY <1>2, <1>3 DEF NewPacket, NewBroadcast
  <1>5. /\ idCache'[n] = Remember(cache, n, broadcastId[n] + 1)
        /\ \A k \in Node \ {n} : idCache'[k] = idCache[k]
    BY <1>0, <1>1
  <1> QED BY <1>2, <1>4, <1>5, RememberAdds DEF Greets

(* What a step adds to the network and to the caches.                      *)
Adds ==
    /\ \A m \in net' \ net : NewPacket(m)
    /\ \A n \in Node : broadcastId'[n] >= broadcastId[n]
    /\ \A n \in Node : \A e \in idCache'[n] : e \in idCache[n] \/ NewId(n, e)

LEMMA GreetsAdds ==
    ASSUME TypeOK, NEW n \in Node, NEW cache, Greets(n, cache),
           \A e \in cache : e \in idCache[n] \/ NewId(n, e)
    PROVE  Adds
  <1>1. broadcastId \in [Node -> Nat]
    BY DEF TypeOK
  <1>2. \A k \in Node : broadcastId'[k] >= broadcastId[k]
    BY <1>1 DEF Greets
  <1> QED BY <1>2 DEF Greets, Adds, NewId

LEMMA HelloTimerAdds ==
    ASSUME TypeOK, NEW n \in Node, HelloTimer(n)
    PROVE  Adds
  <1>0. broadcastId \in [Node -> Nat]
    BY DEF TypeOK
  <1>1. CASE status[n] = "exit"
    <2>1. /\ broadcastId' = [broadcastId EXCEPT ![n] = broadcastId[n] + 1]
          /\ UNCHANGED <<idCache, net>>
      BY <1>1 DEF HelloTimer
    <2>2. \A k \in Node : broadcastId'[k] >= broadcastId[k]
      BY <1>0, <2>1
    <2> QED BY <2>1, <2>2 DEF Adds
  <1>2. CASE status[n] # "exit"
    <2>1. blocked' = blocked
      BY DEF HelloTimer, knowledge
    <2>2. SendHello(n, blocked[n], exitinfo[n], idCache[n], net)
      BY <1>2 DEF HelloTimer
    <2>3. Greets(n, idCache[n])
      BY <2>1, <2>2, SendHelloGreets
    <2> QED BY <2>3, GreetsAdds
  <1> QED BY <1>1, <1>2

LEMMA ReceiveAdds ==
    ASSUME TypeOK, NEW m \in net, Receive(m) \/ Discard(m) \/ Lose(m)
    PROVE  Adds
  <1>0. /\ broadcastId \in [Node -> Nat] /\ idCache \in [Node -> SUBSET CacheEntry]
        /\ m \in Message /\ m.to \in Node /\ blocked \in [Node -> Summary]
    BY MessageKinds DEF TypeOK
  <1>1. CASE RecvHello(m)
    <2>1. /\ idCache' = [idCache EXCEPT ![m.to] = Remember(idCache[m.to], m.from, m.bid)]
          /\ broadcastId' = broadcastId
      BY <1>1 DEF RecvHello, helloVars
    <2>2. ASSUME NEW p \in net' \ net PROVE NewPacket(p)
      <3>1. /\ p = [type |-> "REQUEST", from |-> m.to, to |-> m.from,
                    blockIds |-> Missing(blocked[m.to], m.summary), at |-> now]
            /\ Missing(blocked[m.to], m.summary) # {}
        BY <1>1, <2>2 DEF RecvHello, AfterReceipt
      <3> QED BY <1>1, <3>1 DEF NewPacket, NewRequest
    <2>3. ASSUME NEW n \in Node, NEW e \in idCache'[n]
          PROVE  e \in idCache[n] \/ NewId(n, e)
      <3>1. CASE n # m.to
        BY <1>0, <2>1, <2>3, <3>1
      <3>2. CASE n = m.to
        <4>1. e \in Remember(idCache[n], m.from, m.bid)
          BY <1>0, <2>1, <2>3, <3>2
        <4> QED BY <1>1, <3>2, <4>1, RememberAdds DEF NewId
      <3> QED BY <3>1, <3>2
    <2> QED BY <1>0, <2>1, <2>2, <2>3 DEF Adds
  <1>2. CASE RecvHelloAgain(m)
    <2>1. /\ idCache' = [idCache EXCEPT ![m.to] = Purge(idCache[m.to])]
          /\ broadcastId' = broadcastId /\ net' \subseteq net
      BY <1>2 DEF RecvHelloAgain, AfterReceipt, helloVars
    <2>2. \A n \in Node : idCache'[n] \subseteq idCache[n]
      BY <1>0, <2>1 DEF Purge
    <2> QED BY <1>0, <2>1, <2>2 DEF Adds
  <1>3. CASE RecvRequest(m) \/ Discard(m) \/ Lose(m)
    <2>1. UNCHANGED <<idCache, broadcastId>> /\ net' \subseteq net
      BY <1>3 DEF RecvRequest, Discard, Lose, helloVars
    <2> QED BY <1>0, <2>1 DEF Adds
  <1>4. CASE RecvUserDataAsUnicast(m)
    <2>1. \/ UNCHANGED <<helloVars, idCache>> /\ net' = net \ {m}
          \/ SendHello(m.to, blocked'[m.to], exitinfo[m.to], idCache[m.to], net \ {m})
      BY <1>0, <1>4 DEF RecvUserDataAsUnicast
    <2>2. CASE UNCHANGED <<helloVars, idCache>> /\ net' = net \ {m}
      BY <1>0, <2>2 DEF Adds, helloVars
    <2>3. CASE SendHello(m.to, blocked'[m.to], exitinfo[m.to], idCache[m.to], net \ {m})
      <3> DEFINE flying == net \ {m}
                 held == blocked'[m.to]
      <3>1. SendHello(m.to, held, exitinfo[m.to], idCache[m.to], flying)
            /\ flying \subseteq net /\ held = blocked'[m.to]
        BY <2>3
      <3> HIDE DEF flying, held
      <3>2. Greets(m.to, idCache[m.to])
        BY <1>0, <3>1, SendHelloGreets
      <3> QED BY <1>0, <3>2, GreetsAdds
    <2> QED BY <2>1, <2>2, <2>3
  <1>5. CASE RecvShelterDataAsBroadcast(m)
    <2> DEFINE cache == Remember(idCache[m.to], m.from, m.bid)
    <2>0. blocked' = blocked
      BY <1>5 DEF RecvShelterDataAsBroadcast
    <2>1. \/ /\ idCache' = [idCache EXCEPT ![m.to] = cache]
             /\ UNCHANGED helloVars /\ net' = net \ {m}
          \/ \E info : SendHello(m.to, blocked'[m.to], info, cache, net \ {m})
      BY <1>5, <2>0 DEF RecvShelterDataAsBroadcast
    <2>2. \A e \in cache : e \in idCache[m.to] \/ NewId(m.to, e)
      BY <1>5, RememberAdds DEF NewId
    <2> HIDE DEF cache
    <2>3. CASE /\ idCache' = [idCache EXCEPT ![m.to] = cache]
               /\ UNCHANGED helloVars /\ net' = net \ {m}
      <3>1. /\ \A k \in Node \ {m.to} : idCache'[k] = idCache[k]
            /\ idCache'[m.to] = cache /\ broadcastId' = broadcastId
        BY <1>0, <2>3 DEF helloVars
      <3> QED BY <1>0, <2>2, <2>3, <3>1 DEF Adds
    <2>4. ASSUME NEW info, SendHello(m.to, blocked'[m.to], info, cache, net \ {m})
          PROVE  Adds
      <3> DEFINE flying == net \ {m}
                 held == blocked'[m.to]
      <3>1. SendHello(m.to, held, info, cache, flying)
            /\ flying \subseteq net /\ held = blocked'[m.to]
        BY <2>4
      <3> HIDE DEF flying, held
      <3>2. Greets(m.to, cache)
        BY <1>0, <3>1, SendHelloGreets
      <3> QED BY <1>0, <2>2, <3>2, GreetsAdds
    <2> QED BY <2>1, <2>3, <2>4
  <1> QED BY <1>1, <1>2, <1>3, <1>4, <1>5 DEF Receive

(* Every packet in flight and every remembered id comes from one of these. *)
LEMMA StepAdds ==
    ASSUME TypeOK, [Next]_vars
    PROVE  Adds
  <1>0. /\ broadcastId \in [Node -> Nat] /\ idCache \in [Node -> SUBSET CacheEntry]
        /\ Shelter \subseteq Node
    BY NodeKinds DEF TypeOK
  <1>1. ASSUME NEW n \in Node, ProcessRequestBuffer(n) PROVE Adds
    <2>1. UNCHANGED <<idCache, broadcastId>>
      BY <1>1 DEF ProcessRequestBuffer, helloVars
    <2>2. ASSUME NEW p \in net' \ net PROVE NewPacket(p)
      <3>1. p.type = "USERDATA" /\ p.from = n /\ p.at = now
        BY <1>1, <2>2 DEF ProcessRequestBuffer
      <3> QED BY <1>1, <3>1 DEF NewPacket, NewReply
    <2> QED BY <1>0, <2>1, <2>2 DEF Adds
  <1>2. ASSUME NEW s \in Shelter, HandleShelterData(s) PROVE Adds
    <2>1. CASE UNCHANGED <<net, broadcastId, idCache>>
      BY <1>0, <2>1 DEF Adds
    <2>2. CASE /\ broadcastId' = [broadcastId EXCEPT ![s] = broadcastId[s] + 1]
               /\ idCache' = [idCache EXCEPT ![s] =
                                Remember(idCache[s], s, broadcastId[s] + 1)]
               /\ \A p \in net' \ net :
                     /\ p.type = "SHELTERDATA" /\ p.from = s /\ p.at = now
                     /\ p.bid = broadcastId[s] + 1
      <3>1. broadcastId'[s] = broadcastId[s] + 1
            /\ \A n \in Node : broadcastId'[n] >= broadcastId[n]
        BY <1>0, <2>2
      <3>2. \A p \in net' \ net : NewPacket(p)
        BY <2>2, <3>1 DEF NewPacket, NewBroadcast
      <3>3. /\ idCache'[s] = Remember(idCache[s], s, broadcastId[s] + 1)
            /\ \A n \in Node \ {s} : idCache'[n] = idCache[n]
        BY <1>0, <2>2
      <3>4. \A e \in idCache'[s] : e \in idCache[s] \/ NewId(s, e)
        BY <3>1, <3>3, RememberAdds DEF NewId
      <3> QED BY <3>1, <3>2, <3>3, <3>4 DEF Adds
    <2> QED BY <1>2, <2>1, <2>2 DEF HandleShelterData
  <1>3. ASSUME NEW n \in Evacuee, Movement(n) PROVE Adds
    <2>1. UNCHANGED <<idCache, broadcastId>> /\ net' \subseteq net
      BY <1>3 DEF Movement, HandleUserMovement, FindBlock, CompleteEvacuation,
                  helloVars
    <2> QED BY <1>0, <2>1 DEF Adds
  <1>4. CASE \/ \E n \in AddUser : ActivateReservedAddUser(n)
             \/ \E f \in Ferry, s \in Shelter : GetExitInfoforFerry(f, s)
             \/ Tick \/ UNCHANGED vars
    <2>1. UNCHANGED <<idCache, broadcastId, net>>
      BY <1>4 DEF ActivateReservedAddUser, GetExitInfoforFerry, Tick, vars, helloVars
    <2> QED BY <1>0, <2>1 DEF Adds
  <1> QED BY <1>1, <1>2, <1>3, <1>4, HelloTimerAdds, ReceiveAdds DEF Next, Stop

(* How a packet leaves the network.                                        *)
Leaves(m) ==
    \/ Receive(m) \/ Discard(m) \/ Lose(m)
    \/ m.from \in Evacuee /\ \E s \in Shelter : CompleteEvacuation(m.from, s)

(* A packet disappears only when it is received, discarded or lost, or     *)
(* when its sender leaves.                                                 *)
LEMMA StepRemoves ==
    ASSUME [Next]_vars, NEW m \in net, m \notin net'
    PROVE  Leaves(m)
  <1>1. ASSUME NEW n \in Node, HelloTimer(n) \/ ProcessRequestBuffer(n)
        PROVE  net \subseteq net'
    BY <1>1 DEF HelloTimer, SendHello, ProcessRequestBuffer
  <1>2. ASSUME NEW s \in Shelter, HandleShelterData(s) PROVE net \subseteq net'
    BY <1>2 DEF HandleShelterData
  <1>3. ASSUME NEW p \in net, Receive(p) PROVE net \ {p} \subseteq net'
    <2>1. CASE RecvHello(p) \/ RecvHelloAgain(p)
      BY <2>1 DEF RecvHello, RecvHelloAgain, AfterReceipt
    <2>2. CASE RecvRequest(p)
      BY <2>2 DEF RecvRequest
    <2>3. CASE RecvUserDataAsUnicast(p) \/ RecvShelterDataAsBroadcast(p)
      BY <2>3 DEF RecvUserDataAsUnicast, RecvShelterDataAsBroadcast, SendHello
    <2> QED BY <1>3, <2>1, <2>2, <2>3 DEF Receive
  <1>4. ASSUME NEW p \in net, Discard(p) \/ Lose(p) PROVE net \ {p} \subseteq net'
    BY <1>4 DEF Discard, Lose
  <1>5. ASSUME NEW n \in Evacuee, Movement(n)
        PROVE  \/ net \subseteq net'
               \/ m.from = n /\ \E s \in Shelter : CompleteEvacuation(n, s)
    BY <1>5 DEF Movement, HandleUserMovement, FindBlock, CompleteEvacuation
  <1>6. CASE \/ \E n \in AddUser : ActivateReservedAddUser(n)
             \/ \E f \in Ferry, s \in Shelter : GetExitInfoforFerry(f, s)
             \/ Tick \/ UNCHANGED vars
    BY <1>6 DEF ActivateReservedAddUser, GetExitInfoforFerry, Tick, vars
  <1>7. CASE \E p \in net : Receive(p) \/ Discard(p) \/ Lose(p)
    BY <1>3, <1>4, <1>7 DEF Leaves
  <1>8. CASE \E n \in Evacuee : Movement(n)
    BY <1>5, <1>8 DEF Leaves
  <1> QED BY <1>1, <1>2, <1>6, <1>7, <1>8 DEF Next, Stop

(* Only Tick moves the clock.                                              *)
LEMMA ClockStep ==
    ASSUME [Next]_vars
    PROVE  Tick \/ now' = now
  BY DEF Next, Stop, vars, HelloTimer, ProcessRequestBuffer,
     HandleShelterData, Receive, RecvHello, RecvHelloAgain, RecvRequest,
     RecvUserDataAsUnicast, RecvShelterDataAsBroadcast, Discard, Lose,
     Movement, HandleUserMovement, FindBlock, CompleteEvacuation,
     ActivateReservedAddUser, GetExitInfoforFerry

(* Only FindBlock adds a discovery.                                        *)
LEMMA FindStep ==
    ASSUME [Next]_vars
    PROVE  \/ UNCHANGED discovered
           \/ \E n \in Evacuee, b \in Block : FindBlock(n, b)
  BY DEF Next, Stop, vars, HelloTimer, ProcessRequestBuffer,
     HandleShelterData, Receive, RecvHello, RecvHelloAgain, RecvRequest,
     RecvUserDataAsUnicast, RecvShelterDataAsBroadcast, Discard, Lose,
     Movement, HandleUserMovement, CompleteEvacuation, Tick,
     ActivateReservedAddUser, GetExitInfoforFerry

(* A node keeps its status, leaves, or is activated; no other node waits.  *)
LEMMA StatusStep ==
    ASSUME TypeOK, [Next]_vars, NEW n \in Node
    PROVE  \/ status'[n] \in {status[n], "exit"}
           \/ n \in AddUser /\ ActivateReservedAddUser(n)
  <1>1. ASSUME NEW k \in Evacuee, Movement(k) PROVE status'[n] \in {status[n], "exit"}
    BY <1>1, NodeKinds DEF Movement, HandleUserMovement, FindBlock,
       CompleteEvacuation, TypeOK
  <1>2. ASSUME NEW k \in AddUser, ActivateReservedAddUser(k)
        PROVE  n = k \/ status'[n] = status[n]
    BY <1>2, NodeKinds DEF ActivateReservedAddUser, TypeOK
  <1>3. \/ UNCHANGED status
        \/ \E k \in Evacuee : Movement(k)
        \/ \E k \in AddUser : ActivateReservedAddUser(k)
    BY DEF Next, Stop, vars, HelloTimer, ProcessRequestBuffer,
       HandleShelterData, Receive, RecvHello, RecvHelloAgain, RecvRequest,
       RecvUserDataAsUnicast, RecvShelterDataAsBroadcast, Discard, Lose,
       Tick, GetExitInfoforFerry
  <1> QED BY <1>1, <1>2, <1>3

(* A packet is in flight for at most one second.                           *)
PacketsFresh == \A m \in net : m.at <= now /\ now <= m.at + 1

LEMMA PacketsFreshStep ==
    ASSUME TypeOK, TypeOK', PacketsFresh, [Next]_vars
    PROVE  PacketsFresh'
  <1>0. now \in Nat /\ \A m \in net : m.at \in Nat
    BY DEF TypeOK, Time, Message, HelloMsg, RequestMsg, UserDataMsg, ShelterMsg
  <1>1. CASE Tick
    BY <1>0, <1>1 DEF Tick, PacketsFresh
  <1>2. CASE now' = now
    BY <1>0, <1>2, StepAdds DEF Adds, NewPacket, PacketsFresh
  <1> QED BY <1>1, <1>2, ClockStep

(* Ids are given out in order: no cache and no packet holds an id that its *)
(* sender has not used yet, and Hellos with the same id are copies.        *)
IdsUsed ==
    /\ \A n \in Node : \A e \in idCache[n] : e.id <= broadcastId[e.addr]
    /\ \A m \in net : m.type \in {"HELLO", "SHELTERDATA"} => m.bid <= broadcastId[m.from]
    /\ \A m, p \in net :
          /\ m.type = "HELLO" /\ p.type = "HELLO"
          /\ m.from = p.from /\ m.to = p.to /\ m.bid = p.bid
          => m.summary = p.summary

LEMMA IdsUsedStep ==
    ASSUME TypeOK, TypeOK', IdsUsed, [Next]_vars
    PROVE  IdsUsed'
  <1>0. /\ broadcastId \in [Node -> Nat] /\ broadcastId' \in [Node -> Nat]
        /\ \A n \in Node : \A e \in idCache[n] : e.addr \in Node /\ e.id \in Nat
        /\ \A n \in Node : \A e \in idCache'[n] : e.addr \in Node /\ e.id \in Nat
    BY DEF TypeOK, CacheEntry
  <1>1. /\ \A m \in net : m.from \in Node
        /\ \A m \in net : m.type \in {"HELLO", "SHELTERDATA"} => m.bid \in Nat
        /\ \A m \in net' : m.from \in Node
        /\ \A m \in net' : m.type \in {"HELLO", "SHELTERDATA"} => m.bid \in Nat
    <2>1. \A m \in Message : /\ m.from \in Node
                             /\ m.type \in {"HELLO", "SHELTERDATA"} => m.bid \in Nat
      BY NodeKinds DEF Message, HelloMsg, RequestMsg, UserDataMsg, ShelterMsg
    <2> QED BY <2>1 DEF TypeOK
  <1>2. Adds
    BY StepAdds
  <1>3. \A n \in Node : broadcastId'[n] >= broadcastId[n]
    BY <1>2 DEF Adds
  <1>4. ASSUME NEW n \in Node, NEW e \in idCache'[n]
        PROVE  e.id <= broadcastId'[e.addr]
    <2>1. CASE e \in idCache[n]
      BY <1>0, <1>3, <2>1 DEF IdsUsed
    <2>2. CASE e.addr = n /\ e.id = broadcastId'[n]
      BY <1>0, <2>2
    <2>3. ASSUME NEW m \in net, RecvHello(m) \/ RecvShelterDataAsBroadcast(m),
                 e.addr = m.from, e.id = m.bid
          PROVE  e.id <= broadcastId'[e.addr]
      <3>1. m.type \in {"HELLO", "SHELTERDATA"}
        BY <2>3 DEF RecvHello, RecvShelterDataAsBroadcast
      <3> QED BY <1>0, <1>1, <1>3, <2>3, <3>1 DEF IdsUsed
    <2> QED BY <1>2, <1>4, <2>1, <2>2, <2>3 DEF Adds, NewId
  <1>5. \A m \in net' \ net :
           m.type \in {"HELLO", "SHELTERDATA"} =>
              /\ m.bid = broadcastId[m.from] + 1 /\ broadcastId'[m.from] = m.bid
              /\ m.type = "HELLO" => m.summary = blocked'[m.from]
    BY <1>2 DEF Adds, NewPacket, NewBroadcast, NewRequest, NewReply
  <1>6. ASSUME NEW m \in net', m.type \in {"HELLO", "SHELTERDATA"}
        PROVE  m.bid <= broadcastId'[m.from]
    <2>1. CASE m \in net
      BY <1>0, <1>1, <1>3, <1>6, <2>1 DEF IdsUsed
    <2>2. CASE m \notin net
      BY <1>0, <1>1, <1>5, <1>6, <2>2
    <2> QED BY <2>1, <2>2
  <1>7. ASSUME NEW m \in net', NEW p \in net', m.type = "HELLO", p.type = "HELLO",
               m.from = p.from, m.to = p.to, m.bid = p.bid
        PROVE  m.summary = p.summary
    <2>1. CASE m \in net /\ p \in net
      BY <1>7, <2>1 DEF IdsUsed
    <2>2. CASE m \notin net /\ p \notin net
      BY <1>5, <1>7, <2>2
    <2>3. CASE m \in net /\ p \notin net
      BY <1>0, <1>1, <1>5, <1>7, <2>3 DEF IdsUsed
    <2>4. CASE m \notin net /\ p \in net
      BY <1>0, <1>1, <1>5, <1>7, <2>4 DEF IdsUsed
    <2> QED BY <2>1, <2>2, <2>3, <2>4
  <1> QED BY <1>4, <1>6, <1>7 DEF IdsUsed

(* Without erasure no node ever loses road information.                    *)
LEMMA NothingForgotten ==
    ASSUME ~UseEraseInfo, TypeOK, Provenance, [Next]_vars,
           NEW n \in Node, NEW b \in Block
    PROVE  blocked'[n][b] >= blocked[n][b]
  BY RoadNeverOlder DEF TooOld

(* What a Hello announces its sender still holds, and who found a block    *)
(* is an evacuee that has set out and still holds it.                      *)
StillHeld ==
    /\ \A m \in net : m.type = "HELLO" =>
          \A b \in Block : m.summary[b] <= blocked[m.from][b]
    /\ \A d \in discovered :
          /\ d.who \in Evacuee /\ status[d.who] # "wait"
          /\ d.time <= blocked[d.who][d.block]

LEMMA StillHeldStep ==
    ASSUME ~UseEraseInfo, TypeOK, TypeOK', Provenance, StillHeld, [Next]_vars
    PROVE  StillHeld'
  <1>0. /\ \A n \in Node, b \in Block : blocked[n][b] \in Int /\ blocked'[n][b] \in Int
        /\ \A n \in Node, b \in Block : blocked'[n][b] >= blocked[n][b]
    BY NothingForgotten, SummaryFacts DEF TypeOK
  <1>1. ASSUME NEW m \in net', m.type = "HELLO", NEW b \in Block
        PROVE  m.summary[b] <= blocked'[m.from][b]
    <2>1. m.from \in Node /\ m.summary[b] \in Int
      <3>1. m \in HelloMsg
        BY <1>1, MessageKinds DEF TypeOK
      <3> QED BY <3>1, SummaryFacts DEF HelloMsg
    <2>2. CASE m \in net
      BY <1>0, <1>1, <2>1, <2>2 DEF StillHeld
    <2>3. CASE m \notin net
      <3>1. m.summary = blocked'[m.from]
        BY <1>1, <2>3, StepAdds DEF Adds, NewPacket, NewBroadcast, NewRequest, NewReply
      <3> QED BY <1>0, <2>1, <3>1
    <2> QED BY <2>2, <2>3
  <1>2. ASSUME NEW d \in discovered'
        PROVE  /\ d.who \in Evacuee /\ status'[d.who] # "wait"
               /\ d.time <= blocked'[d.who][d.block]
    <2>1. d.who \in Node /\ d.block \in Block /\ d.time \in Nat
      BY DEF TypeOK, Time
    <2>2. CASE d \in discovered
      <3>1. status'[d.who] # "wait"
        BY <2>1, <2>2, StatusStep DEF StillHeld, ActivateReservedAddUser
      <3> QED BY <1>0, <2>1, <2>2, <3>1 DEF StillHeld
    <2>3. ASSUME NEW n \in Evacuee, NEW b \in Block, FindBlock(n, b), d \notin discovered
          PROVE  /\ d.who \in Evacuee /\ status'[d.who] # "wait"
                 /\ d.time <= blocked'[d.who][d.block]
      <3>1. d.who = n /\ d.block = b /\ d.time = now /\ status'[n] = "move"
        BY <1>2, <2>3 DEF FindBlock
      <3>2. blocked'[n] = [Forget(blocked[n]) EXCEPT ![b] = now]
        BY <2>1, <2>3, <3>1 DEF FindBlock, TypeOK
      <3>3. blocked'[n][b] = now
        BY <3>2 DEF Forget
      <3> QED BY <2>1, <2>3, <3>1, <3>3
    <2> QED BY <1>2, <2>2, <2>3, FindStep
  <1> QED BY <1>1, <1>2 DEF StillHeld

(* The longest wait of an evacuee.                                         *)
LEMMA EvacueeDelay ==
    /\ EvacueeHelloDelay \in Nat
    /\ FirstHello <= EvacueeHelloDelay /\ QuickHelloInterval <= EvacueeHelloDelay
    /\ HelloCap <= EvacueeHelloDelay
  <1> DEFINE D == {FirstHello, QuickHelloInterval, HelloCap}
  <1>1. \E d \in D : \A e \in D : e <= d
    OBVIOUS
  <1>2. EvacueeHelloDelay \in D /\ \A e \in D : e <= EvacueeHelloDelay
    BY <1>1 DEF EvacueeHelloDelay
  <1> QED BY <1>2

(* What a step does when evacuee u sends a Hello that everybody hears.     *)
HeardByAll(u) ==
    /\ now' = now
    /\ \E delay \in 0 .. EvacueeHelloDelay : helloAt'[u] = now + delay
    /\ \A r \in Node \ {u} :
          /\ idCache'[r] = idCache[r]
          /\ \E m \in net' : /\ m.type = "HELLO" /\ m.from = u /\ m.to = r
                             /\ m.bid = broadcastId[u] + 1 /\ m.at = now
                             /\ m.summary = blocked'[u]

LEMMA SendHelloHeard ==
    ASSUME ~Lossy, TypeOK, now' = now, NEW u \in Evacuee, NEW held, NEW info,
           NEW cache, NEW flying, held = blocked'[u],
           SendHello(u, held, info, cache, flying)
    PROVE  HeardByAll(u)
  <1>0. u \in Node /\ u \notin Ferry /\ now \in Nat
    BY NodeKinds DEF Evacuee, TypeOK, Time
  <1> DEFINE fresh == HoldsFreshInfo(held, info)
  <1>1. PICK delay \in HelloDelays(u, fresh) :
           helloAt' = [helloAt EXCEPT ![u] = now + delay]
    BY DEF SendHello
  <1>2. delay \in 0 .. EvacueeHelloDelay
    <2>0. fresh \in BOOLEAN
      BY DEF HoldsFreshInfo
    <2> HIDE DEF fresh
    <2>1. delay \in Nat
      BY <1>0, <1>1, <2>0, DelayType
    <2>2. delay = QuickHelloInterval \/ delay \in OrdinaryIntervals
      BY <1>0, <1>1 DEF HelloDelays
    <2>3. delay \in OrdinaryIntervals => delay <= HelloCap
      BY DEF OrdinaryIntervals
    <2> QED BY <2>1, <2>2, <2>3, EvacueeDelay
  <1>3. helloAt'[u] = now + delay
    BY <1>0, <1>1 DEF TypeOK
  <1>4. net' = flying \cup
           {[type |-> "HELLO", from |-> u, to |-> r, bid |-> broadcastId[u] + 1,
             summary |-> held, at |-> now] : r \in Node \ {u}}
    BY DEF SendHello, Audience
  <1>5. ASSUME NEW r \in Node \ {u}
        PROVE  \E m \in net' : /\ m.type = "HELLO" /\ m.from = u /\ m.to = r
                               /\ m.bid = broadcastId[u] + 1 /\ m.at = now
                               /\ m.summary = blocked'[u]
    <2> DEFINE hello == [type |-> "HELLO", from |-> u, to |-> r,
                         bid |-> broadcastId[u] + 1, summary |-> held, at |-> now]
    <2>1. hello \in net'
      BY <1>4
    <2> QED BY <2>1
  <1>6. \A r \in Node \ {u} : idCache'[r] = idCache[r]
    BY <1>0 DEF SendHello, TypeOK
  <1> QED BY <1>2, <1>3, <1>5, <1>6 DEF HeardByAll

(* The timer of an evacuee under way changes only with a Hello.            *)
LEMMA TimerStep ==
    ASSUME ~Lossy, TypeOK, [Next]_vars, NEW u \in Evacuee, status[u] = "move"
    PROVE  helloAt'[u] = helloAt[u] \/ HeardByAll(u)
  <1>0. u \in Node /\ helloAt \in [Node -> TimerTime]
    BY NodeKinds DEF TypeOK
  <1>1. ASSUME NEW n \in Node, HelloTimer(n)
        PROVE  helloAt'[u] = helloAt[u] \/ HeardByAll(u)
    <2>1. CASE n # u
      BY <1>0, <1>1, <2>1 DEF HelloTimer, SendHello
    <2>2. CASE n = u
      <3>1. SendHello(u, blocked[u], exitinfo[u], idCache[u], net)
        BY <1>1, <2>2 DEF HelloTimer
      <3>2. now' = now /\ blocked' = blocked
        BY <1>1 DEF HelloTimer, knowledge
      <3> QED BY <3>1, <3>2, SendHelloHeard
    <2> QED BY <2>1, <2>2
  <1>2. ASSUME NEW m \in net, RecvUserDataAsUnicast(m) \/ RecvShelterDataAsBroadcast(m)
        PROVE  helloAt'[u] = helloAt[u] \/ HeardByAll(u)
    <2>0. m.to \in Node
      BY MessageKinds DEF TypeOK
    <2>1. CASE m.to # u
      BY <1>0, <1>2, <2>1
         DEF RecvUserDataAsUnicast, RecvShelterDataAsBroadcast, SendHello, helloVars
    <2>2. CASE m.to = u
      <3>1. now' = now
        BY <1>2 DEF RecvUserDataAsUnicast, RecvShelterDataAsBroadcast
      <3>2. \/ UNCHANGED helloVars
            \/ \E held, info, cache, flying :
                  held = blocked'[u] /\ SendHello(u, held, info, cache, flying)
        <4>1. CASE RecvUserDataAsUnicast(m)
          <5> DEFINE h == Merge(blocked[u], m.info, Accepted(blocked[u], m.info))
          <5>1. UNCHANGED helloVars
                \/ SendHello(u, h, exitinfo[u], idCache[u], net \ {m})
            BY <2>2, <4>1 DEF RecvUserDataAsUnicast
          <5>2. blocked'[u] = h
            BY <1>0, <2>2, <4>1 DEF RecvUserDataAsUnicast, TypeOK
          <5> HIDE DEF h
          <5> QED BY <5>1, <5>2
        <4>2. CASE RecvShelterDataAsBroadcast(m)
          BY <2>2, <4>2 DEF RecvShelterDataAsBroadcast
        <4> QED BY <1>2, <4>1, <4>2
      <3> QED BY <3>1, <3>2, SendHelloHeard DEF helloVars
    <2> QED BY <2>1, <2>2
  <1>3. ASSUME NEW m \in net,
               \/ RecvHello(m) \/ RecvHelloAgain(m) \/ RecvRequest(m)
               \/ Discard(m) \/ Lose(m)
        PROVE  helloAt' = helloAt
    BY <1>3 DEF RecvHello, RecvHelloAgain, RecvRequest, Discard, Lose, helloVars
  <1>4. ASSUME NEW n \in AddUser, ActivateReservedAddUser(n)
        PROVE  helloAt'[u] = helloAt[u]
    BY <1>0, <1>4 DEF ActivateReservedAddUser
  <1>5. ASSUME \/ \E n \in Node : ProcessRequestBuffer(n)
               \/ \E s \in Shelter : HandleShelterData(s)
               \/ \E n \in Evacuee : Movement(n)
               \/ \E f \in Ferry, s \in Shelter : GetExitInfoforFerry(f, s)
               \/ Tick \/ UNCHANGED vars
        PROVE  helloAt' = helloAt
    BY <1>5 DEF ProcessRequestBuffer, HandleShelterData, Movement,
       HandleUserMovement, FindBlock, CompleteEvacuation, GetExitInfoforFerry,
       Tick, vars, helloVars
  <1> QED BY <1>1, <1>2, <1>3, <1>4, <1>5 DEF Next, Stop, Receive

(* An evacuee under way is never further from its next Hello than that.    *)
EvacueeDue ==
    \A u \in Evacuee :
        status[u] = "move" => helloAt[u] \in now .. now + EvacueeHelloDelay

LEMMA EvacueeDueStep ==
    ASSUME ~Lossy, TypeOK, TypeOK', HelloChainAlive', EvacueeDue, [Next]_vars
    PROVE  EvacueeDue'
  <1> SUFFICES ASSUME NEW u \in Evacuee, status'[u] = "move"
               PROVE  helloAt'[u] \in now' .. now' + EvacueeHelloDelay
    BY DEF EvacueeDue
  <1>0. /\ u \in Node /\ now \in Nat /\ now' \in Nat /\ EvacueeHelloDelay \in Nat
        /\ helloAt'[u] \in Int
    BY NodeKinds, EvacueeDelay DEF TypeOK, Time, TimerTime, NoTimer
  <1>1. now' <= helloAt'[u]
    BY <1>0 DEF HelloChainAlive
  <1>2. now <= now'
    BY <1>0, ClockStep DEF Tick
  <1>3. CASE status[u] = "move" /\ helloAt'[u] = helloAt[u]
    BY <1>0, <1>1, <1>2, <1>3 DEF EvacueeDue
  <1>4. CASE HeardByAll(u)
    BY <1>0, <1>1, <1>2, <1>4 DEF HeardByAll
  <1>5. CASE u \in AddUser /\ ActivateReservedAddUser(u)
    BY <1>0, <1>5 DEF ActivateReservedAddUser, TypeOK
  <1> QED BY <1>0, <1>3, <1>4, <1>5, StatusStep, TimerStep

(* There are finitely many discoveries, and no more than MaxFinds.         *)
FindsCounted == IsFiniteSet(discovered) /\ Cardinality(discovered) <= MaxFinds

LEMMA FindsCountedStep ==
    ASSUME TypeOK, FindsCounted, [Next]_vars
    PROVE  FindsCounted'
  <1>1. CASE UNCHANGED discovered
    BY <1>1 DEF FindsCounted
  <1>2. ASSUME NEW n \in Evacuee, NEW b \in Block, FindBlock(n, b)
        PROVE  FindsCounted'
    <2> DEFINE d == [who |-> n, block |-> b, time |-> now]
    <2>1. discovered' = discovered \cup {d} /\ Cardinality(discovered) < MaxFinds
      BY <1>2 DEF FindBlock
    <2> HIDE DEF d
    <2>0. IsFiniteSet(discovered)
      BY DEF FindsCounted
    <2>2. IsFiniteSet(discovered \cup {d}) /\ Cardinality(discovered) \in Nat
      BY <2>0, FS_AddElement, FS_CardinalityType
    <2>3. Cardinality(discovered \cup {d}) =
             IF d \in discovered THEN Cardinality(discovered)
             ELSE Cardinality(discovered) + 1
      BY <2>0, FS_AddElement
    <2> QED BY <2>1, <2>2, <2>3 DEF FindsCounted
  <1> QED BY <1>1, <1>2, FindStep

(* The wants that are open: a node that has not left misses a discovery,   *)
(* or what is newer of the same block.  Remaining counts them, with those  *)
(* of the discoveries still to come; AllWants is what it starts from.      *)
Wanting(n, d) == status[n] # "exit" /\ blocked[n][d.block] < d.time
Wants == {w \in discovered \X Node : Wanting(w[2], w[1])}
Remaining ==
    (MaxFinds - Cardinality(discovered)) * (Cardinality(Node) - 1)
        + Cardinality(Wants)

(* Counting subsets.                                                       *)
LEMMA SubsetCount ==
    ASSUME NEW S, IsFiniteSet(S), NEW T, T \subseteq S
    PROVE  /\ IsFiniteSet(T) /\ Cardinality(T) \in Nat /\ Cardinality(S) \in Nat
           /\ Cardinality(T) <= Cardinality(S)
           /\ Cardinality(T) = Cardinality(S) => T = S
  BY FS_Subset, FS_CardinalityType

LEMMA WantsCounted ==
    ASSUME FindsCounted
    PROVE  /\ IsFiniteSet(Wants) /\ Cardinality(Wants) \in Nat
           /\ Cardinality(discovered) \in Nat /\ Cardinality(Node) \in Nat
  <1>1. IsFiniteSet(discovered) /\ IsFiniteSet(Node)
    BY NodesAreFinite DEF FindsCounted
  <1>2. IsFiniteSet(discovered \X Node)
    BY <1>1, FS_Product
  <1>3. Wants \subseteq discovered \X Node
    BY DEF Wants
  <1> QED BY <1>1, <1>2, <1>3, SubsetCount, FS_CardinalityType

(* A want that is open after a step was open before, or is new.            *)
LEMMA WantsShrink ==
    ASSUME ~UseEraseInfo, TypeOK, TypeOK', Provenance, [Next]_vars,
           NEW n \in Node, NEW d \in discovered, Wanting(n, d)'
    PROVE  Wanting(n, d)
  <1>1. /\ d.block \in Block /\ d.time \in Nat
        /\ blocked[n][d.block] \in Int /\ blocked'[n][d.block] \in Int
    BY SummaryFacts DEF TypeOK, Time
  <1>2. blocked'[n][d.block] >= blocked[n][d.block]
    BY <1>1, NothingForgotten
  <1>3. status[n] # "exit"
    BY StatusStep DEF Wanting, ActivateReservedAddUser
  <1> QED BY <1>1, <1>2, <1>3 DEF Wanting

(* No step opens more wants than were counted; when none is satisfied all  *)
(* that were open stay open.                                               *)
LEMMA RemainingStep ==
    ASSUME ~UseEraseInfo, TypeOK, TypeOK', Provenance, StillHeld', FindsCounted,
           FindsCounted', [Next]_vars
    PROVE  /\ Remaining \in Int /\ Remaining' \in Int
           /\ Remaining' <= Remaining
           /\ Remaining' = Remaining => Wants \subseteq Wants'
  <1> DEFINE new == Wants'
             seen == discovered'
             k == Cardinality(Node) - 1
  <1>0. /\ IsFiniteSet(Wants) /\ Cardinality(Wants) \in Nat /\ k \in Int
        /\ Cardinality(discovered) \in Nat
    BY WantsCounted
  <1>1. IsFiniteSet(new) /\ Cardinality(new) \in Nat /\ Cardinality(seen) \in Nat
    <2>1. IsFiniteSet(seen) /\ IsFiniteSet(Node)
      BY NodesAreFinite DEF FindsCounted
    <2>2. IsFiniteSet(seen \X Node)
      BY <2>1, FS_Product
    <2>3. new \subseteq seen \X Node
      BY DEF Wants
    <2> HIDE DEF new, seen
    <2> QED BY <2>1, <2>2, <2>3, SubsetCount, FS_CardinalityType
  <1>2. /\ Remaining = (MaxFinds - Cardinality(discovered)) * k + Cardinality(Wants)
        /\ Remaining' = (MaxFinds - Cardinality(seen)) * k + Cardinality(new)
    BY DEF Remaining
  <1>3. CASE seen = discovered
    <2>1. new \subseteq Wants
      <3>1. ASSUME NEW w \in new PROVE w \in Wants
        <4>1. w \in discovered \X Node /\ Wanting(w[2], w[1])'
          BY <1>3 DEF Wants
        <4>2. w[1] \in discovered /\ w[2] \in Node
          BY <4>1
        <4>3. Wanting(w[2], w[1])
          BY <4>1, <4>2, WantsShrink
        <4> QED BY <4>1, <4>3 DEF Wants
      <3> QED BY <3>1
    <2> HIDE DEF new, seen, k
    <2>2. Cardinality(new) <= Cardinality(Wants)
          /\ (Cardinality(new) = Cardinality(Wants) => new = Wants)
      BY <1>0, <2>1, SubsetCount
    <2>3. /\ Remaining \in Int /\ Remaining' \in Int /\ Remaining' <= Remaining
          /\ Remaining' = Remaining => new = Wants
      <3> DEFINE x == (MaxFinds - Cardinality(discovered)) * k
      <3>1. x \in Int /\ Remaining = x + Cardinality(Wants)
            /\ Remaining' = x + Cardinality(new)
        BY <1>0, <1>2, <1>3
      <3> HIDE DEF x
      <3> QED BY <1>0, <1>1, <2>2, <3>1
    <2> QED BY <2>3 DEF new
  <1>4. ASSUME NEW n \in Evacuee, NEW b \in Block, FindBlock(n, b), seen # discovered
        PROVE  /\ Remaining \in Int /\ Remaining' \in Int /\ Remaining' <= Remaining
               /\ Remaining' = Remaining => Wants \subseteq Wants'
    <2> DEFINE d == [who |-> n, block |-> b, time |-> now]
               fresh == {d} \X (Node \ {n})
    <2>1. seen = discovered \cup {d} /\ d \notin discovered
      BY <1>4 DEF FindBlock
    <2>2. n \in Node
      BY NodeKinds
    <2>3. Cardinality(seen) = Cardinality(discovered) + 1
      <3> HIDE DEF d, seen
      <3> QED BY <2>1, FS_AddElement DEF FindsCounted
    <2>4. new \subseteq Wants \cup fresh
      <3>1. ASSUME NEW w \in new PROVE w \in Wants \cup fresh
        <4>1. /\ w \in seen \X Node /\ Wanting(w[2], w[1])'
              /\ w = <<w[1], w[2]>> /\ w[1] \in seen /\ w[2] \in Node
          BY DEF Wants
        <4>2. CASE w[1] \in discovered
          <5>1. Wanting(w[2], w[1])
            BY <4>1, <4>2, WantsShrink
          <5> QED BY <4>1, <4>2, <5>1 DEF Wants
        <4>3. CASE w[1] = d
          <5>1. w[2] # n
            <6>1. d.time <= blocked'[n][b] /\ d.time = now
              BY <2>1 DEF StillHeld
            <6>2. blocked'[n][b] \in Int /\ now \in Nat
              BY <2>2, SummaryFacts DEF TypeOK, Time
            <6> QED BY <4>1, <4>3, <6>1, <6>2 DEF Wanting
          <5> QED BY <4>1, <4>3, <5>1
        <4> QED BY <2>1, <4>1, <4>2, <4>3
      <3> QED BY <3>1
    <2>5. IsFiniteSet(fresh) /\ Cardinality(fresh) = k
      <3>1. IsFiniteSet({d}) /\ Cardinality({d}) = 1
        BY FS_Singleton
      <3>2. IsFiniteSet(Node \ {n}) /\ Cardinality(Node \ {n}) = k
        BY <2>2, NodesAreFinite, FS_RemoveElement
      <3> DEFINE one == {d}
                 others == Node \ {n}
      <3>3. /\ fresh = one \X others /\ IsFiniteSet(one) /\ Cardinality(one) = 1
            /\ IsFiniteSet(others) /\ Cardinality(others) = k
        BY <3>1, <3>2
      <3> HIDE DEF d, k, one, others, fresh
      <3>4. /\ IsFiniteSet(one \X others)
            /\ Cardinality(one \X others) = Cardinality(one) * Cardinality(others)
        BY <3>3, FS_Product
      <3> QED BY <1>0, <3>3, <3>4
    <2>6. Wants \cap fresh = {}
      BY <2>1 DEF Wants
    <2> HIDE DEF new, seen, k, d, fresh
    <2>7. IsFiniteSet(Wants \cup fresh)
          /\ Cardinality(Wants \cup fresh) = Cardinality(Wants) + k
      <3>1. /\ IsFiniteSet(Wants \cup fresh)
            /\ Cardinality(Wants \cup fresh) =
                  Cardinality(Wants) + Cardinality(fresh) - Cardinality(Wants \cap fresh)
        BY <1>0, <2>5, FS_Union
      <3>2. Cardinality(Wants \cap fresh) = 0
        BY <2>6, FS_EmptySet
      <3> QED BY <1>0, <2>5, <3>1, <3>2
    <2>8. /\ Cardinality(new) <= Cardinality(Wants) + k
          /\ Cardinality(new) = Cardinality(Wants) + k => new = Wants \cup fresh
      BY <2>4, <2>7, SubsetCount
    <2>9. /\ Remaining \in Int /\ Remaining' \in Int /\ Remaining' <= Remaining
          /\ Remaining' = Remaining => new = Wants \cup fresh
      <3> DEFINE x == (MaxFinds - Cardinality(discovered)) * k
      <3>1. x \in Int /\ Remaining = x + Cardinality(Wants)
        BY <1>0, <1>2
      <3>2. Remaining' = x - k + Cardinality(new)
        BY <1>0, <1>1, <1>2, <2>3
      <3> HIDE DEF x
      <3> QED BY <1>0, <1>1, <2>8, <3>1, <3>2
    <2> QED BY <2>9 DEF new
  <1> QED BY <1>3, <1>4, FindStep

(* A node that misses something real goes on missing it through a step     *)
(* that satisfies no want.                                                 *)
LEMMA StaysMissing ==
    ASSUME TypeOK, Wants \subseteq Wants', NEW n \in Node, NEW info \in Summary,
           RealTimes(discovered, info), NEW b \in Block,
           status[n] # "exit", blocked[n][b] < info[b]
    PROVE  status'[n] # "exit" /\ blocked'[n][b] < info[b]
  <1>1. info[b] # Unknown
    <2>1. blocked[n] \in Summary
      BY DEF TypeOK
    <2> QED BY <2>1, SummaryFacts DEF Unknown
  <1>2. PICK d \in discovered : d.block = b /\ d.time = info[b]
    BY <1>1 DEF RealTimes
  <1>3. <<d, n>> \in Wants
    BY <1>2 DEF Wants, Wanting
  <1>4. <<d, n>> \in Wants'
    BY <1>3
  <1>5. Wanting(n, d)'
    BY <1>4 DEF Wants
  <1> QED BY <1>2, <1>5 DEF Wanting

(* An answer of u to node r is useful while u holds something of what r    *)
(* asked for that r misses.                                                *)
Useful(r, u, ids) ==
    status[r] # "exit" /\ \E b \in ids : blocked[r][b] < blocked[u][b]

LEMMA StaysUseful ==
    ASSUME ~UseEraseInfo, TypeOK, TypeOK', Provenance, [Next]_vars,
           Wants \subseteq Wants', NEW r \in Node, NEW u \in Node,
           NEW ids \in SUBSET Block, Useful(r, u, ids)
    PROVE  Useful(r, u, ids)'
  <1>1. PICK b \in ids : blocked[r][b] < blocked[u][b]
    BY DEF Useful
  <1>2. b \in Block /\ blocked[u] \in Summary /\ RealTimes(discovered, blocked[u])
    BY DEF TypeOK, Provenance
  <1>3. status'[r] # "exit" /\ blocked'[r][b] < blocked[u][b]
    BY <1>1, <1>2, StaysMissing DEF Useful
  <1>4. blocked[u][b] <= blocked'[u][b]
    BY <1>2, NothingForgotten
  <1>5. blocked'[r][b] \in Int /\ blocked[u][b] \in Int /\ blocked'[u][b] \in Int
    BY <1>2, SummaryFacts DEF TypeOK
  <1> QED BY <1>3, <1>4, <1>5 DEF Useful

(* The request that an open window of u will answer.                       *)
First(u) == Head(buffer[u])
FirstUseful(u) == Useful(First(u).requester, u, First(u).blockIds)

LEMMA FirstType ==
    ASSUME TypeOK, NEW u \in Node, buffer[u] # << >>
    PROVE  First(u).requester \in Node /\ First(u).blockIds \in SUBSET Block
  <1>1. buffer[u] \in Seq(BufferedRequest)
    BY DEF TypeOK
  <1>2. Head(buffer[u]) \in BufferedRequest
    BY <1>1
  <1> QED BY <1>2 DEF First, BufferedRequest

(* The first request of a window stays the first, with the same reply      *)
(* time, or it opens the window in this step.                              *)
LEMMA FirstStep ==
    ASSUME TypeOK, WindowConsistent, [Next]_vars, NEW u \in Node, buffer'[u] # << >>
    PROVE  \/ /\ buffer[u] # << >> /\ First(u)' = First(u)
              /\ replyAt'[u] = replyAt[u]
           \/ \E m \in net :
                 /\ RecvRequest(m) /\ m.to = u /\ buffer[u] = << >>
                 /\ First(u)' = [requester |-> m.from, blockIds |-> m.blockIds]
                 /\ replyAt'[u] = now + RequestWindow
  <1>0. buffer \in [Node -> Seq(BufferedRequest)] /\ replyAt \in [Node -> TimerTime]
    BY DEF TypeOK
  <1>1. ASSUME NEW m \in net, RecvRequest(m), m.to = u
        PROVE  \/ /\ buffer[u] # << >> /\ First(u)' = First(u)
                  /\ replyAt'[u] = replyAt[u]
               \/ /\ buffer[u] = << >>
                  /\ First(u)' = [requester |-> m.from, blockIds |-> m.blockIds]
                  /\ replyAt'[u] = now + RequestWindow
    <2> DEFINE req == [requester |-> m.from, blockIds |-> m.blockIds]
               old == buffer[u]
               new == buffer'[u]
    <2>1. req \in BufferedRequest
      <3>1. m \in RequestMsg
        BY <1>1, MessageKinds DEF RecvRequest, TypeOK
      <3> QED BY <3>1 DEF RequestMsg, BufferedRequest
    <2>2. new = Append(old, req) /\ old \in Seq(BufferedRequest)
      BY <1>0, <1>1 DEF RecvRequest
    <2>3. First(u) = Head(old) /\ First(u)' = Head(new)
      BY DEF First
    <2>4. collecting[u] <=> old # << >>
      BY DEF WindowConsistent
    <2>5. replyAt'[u] = IF collecting[u] THEN replyAt[u] ELSE now + RequestWindow
      BY <1>0, <1>1 DEF RecvRequest, OpenWindow
    <2> HIDE DEF req, old, new
    <2>6. old # << >> => Head(new) = Head(old)
      BY <2>1, <2>2
    <2>7. old = << >> => Head(new) = req
      BY <2>1, <2>2
    <2> USE DEF req, old
    <2>8. CASE old = << >>
      BY <2>3, <2>4, <2>5, <2>7, <2>8
    <2>9. CASE old # << >>
      BY <2>3, <2>4, <2>5, <2>6, <2>9
    <2> QED BY <2>8, <2>9
  <1>2. ASSUME NEW m \in net, RecvRequest(m), m.to # u
        PROVE  buffer'[u] = buffer[u] /\ replyAt'[u] = replyAt[u]
    BY <1>0, <1>2 DEF RecvRequest, OpenWindow
  <1>3. ASSUME NEW n \in Node, ProcessRequestBuffer(n)
        PROVE  buffer'[u] = buffer[u] /\ replyAt'[u] = replyAt[u]
    <2>1. n # u
      BY <1>0, <1>3 DEF ProcessRequestBuffer, CloseWindow
    <2> QED BY <1>0, <1>3, <2>1 DEF ProcessRequestBuffer, CloseWindow
  <1>4. CASE Tick
    BY <1>4 DEF Tick, requestVars, First
  <1>5. CASE UNCHANGED <<now, buffer, collecting, replyAt>>
    BY <1>5 DEF First
  <1> QED BY <1>1, <1>2, <1>3, <1>4, <1>5, WindowFrame DEF First

(* A new request asks for something useful.                                *)
LEMMA NewRequestUseful ==
    ASSUME TypeOK, StillHeld, NEW m, NewRequest(m)
    PROVE  Useful(m.from, m.to, m.blockIds)'
  <1>1. PICK h \in net : /\ RecvHello(h) /\ m.from = h.to /\ m.to = h.from
                         /\ m.blockIds = Missing(blocked[h.to], h.summary)
                         /\ m.blockIds # {}
    BY DEF NewRequest
  <1>2. h.type = "HELLO" /\ status[h.to] = "move" /\ UNCHANGED <<status, blocked>>
    BY <1>1 DEF RecvHello
  <1>3. PICK b \in Block : b \in m.blockIds /\ blocked[h.to][b] < h.summary[b]
    BY <1>1 DEF Missing
  <1>4. h \in HelloMsg
    BY <1>2, MessageKinds DEF TypeOK
  <1>5. /\ blocked[h.to][b] \in Int /\ h.summary[b] \in Int
        /\ blocked[h.from][b] \in Int
    BY <1>4, SummaryFacts DEF TypeOK, HelloMsg
  <1>6. h.summary[b] <= blocked[h.from][b]
    BY <1>2 DEF StillHeld
  <1> QED BY <1>1, <1>2, <1>3, <1>5, <1>6 DEF Useful

(* A request that has become useless was overtaken by the satisfaction of  *)
(* a want.                                                                 *)
Wasted ==
    \/ \E m \in net : m.type = "REQUEST" /\ ~Useful(m.from, m.to, m.blockIds)
    \/ \E u \in Node : buffer[u] # << >> /\ ~FirstUseful(u)

WasteCounted ==
    Remaining <= AllWants /\ (Wasted => Remaining < AllWants)

LEMMA WasteStep ==
    ASSUME ~UseEraseInfo, TypeOK, TypeOK', Provenance, WindowConsistent, StillHeld,
           [Next]_vars, Wants \subseteq Wants', Wasted'
    PROVE  Wasted
  <1>1. ASSUME NEW m \in net', m.type = "REQUEST",
               ~Useful(m.from, m.to, m.blockIds)'
        PROVE  Wasted
    <2>1. m \in net
      <3>1. CASE m \notin net
        BY <1>1, <3>1, StepAdds, NewRequestUseful
           DEF Adds, NewPacket, NewBroadcast, NewReply
      <3> QED BY <3>1
    <2>2. m.from \in Node /\ m.to \in Node /\ m.blockIds \in SUBSET Block
      <3>1. m \in RequestMsg
        BY <1>1, <2>1, MessageKinds DEF TypeOK
      <3> QED BY <3>1 DEF RequestMsg
    <2>3. ~Useful(m.from, m.to, m.blockIds)
      BY <1>1, <2>2, StaysUseful
    <2> QED BY <1>1, <2>1, <2>3 DEF Wasted
  <1>2. ASSUME NEW u \in Node, buffer'[u] # << >>, ~FirstUseful(u)'
        PROVE  Wasted
    <2>1. CASE buffer[u] # << >> /\ First(u)' = First(u)
      <3>1. PICK r \in Node, ids \in SUBSET Block :
               r = First(u).requester /\ ids = First(u).blockIds
        BY <2>1, FirstType
      <3>2. ~Useful(r, u, ids)'
        BY <1>2, <2>1, <3>1 DEF FirstUseful
      <3>3. ~Useful(r, u, ids)
        BY <3>2, StaysUseful
      <3> QED BY <2>1, <3>1, <3>3 DEF Wasted, FirstUseful
    <2>2. ASSUME NEW m \in net, RecvRequest(m), m.to = u,
                 First(u)' = [requester |-> m.from, blockIds |-> m.blockIds]
          PROVE  Wasted
      <3>1. m.type = "REQUEST" /\ m \in RequestMsg
        BY <2>2, MessageKinds DEF RecvRequest, TypeOK
      <3>2. m.from \in Node /\ m.blockIds \in SUBSET Block
        BY <3>1 DEF RequestMsg
      <3>3. ~Useful(m.from, u, m.blockIds)'
        BY <1>2, <2>2 DEF FirstUseful
      <3>4. ~Useful(m.from, u, m.blockIds)
        BY <3>2, <3>3, StaysUseful
      <3> QED BY <2>2, <3>1, <3>4 DEF Wasted
    <2> QED BY <1>2, <2>1, <2>2, FirstStep
  <1> QED BY <1>1, <1>2 DEF Wasted

(* The requests at u that have become useless are out of the way by c.     *)
CleanBy(u, c) ==
    /\ \A m \in net :
          m.type = "REQUEST" /\ m.to = u /\ ~Useful(m.from, u, m.blockIds)
             => m.at + 1 + RequestWindow <= c
    /\ buffer[u] # << >> /\ ~FirstUseful(u) => replyAt[u] <= c

(* One of the five events on the way to the next useful reply of u is due  *)
(* in time: a Hello, its arrival at n, the arrival of the request of n,    *)
(* the end of a window, the arrival of the reply.                          *)
HelloDue(u, c) == helloAt[u] <= c + EvacueeHelloDelay

HelloUnderWay(u, n, c) ==
    \E m \in net :
        /\ m.type = "HELLO" /\ m.from = u /\ m.to = n
        /\ c < m.at /\ m.at <= c + EvacueeHelloDelay
        /\ \E b \in Block : blocked[n][b] < m.summary[b]
        /\ \A e \in idCache[n] : ~(e.addr = u /\ e.id = m.bid)

RequestUnderWay(u, n, c) ==
    \E m \in net :
        /\ m.type = "REQUEST" /\ m.from = n /\ m.to = u
        /\ c < m.at /\ m.at <= c + EvacueeHelloDelay + 1
        /\ Useful(n, u, m.blockIds)

AnswerDue(u, c) ==
    /\ buffer[u] # << >> /\ FirstUseful(u)
    /\ replyAt[u] <= c + EvacueeHelloDelay + RequestWindow + 2

ReplyUnderWay(u, c) ==
    \E m \in net :
        /\ m.type = "USERDATA" /\ m.from = u
        /\ m.at <= c + EvacueeHelloDelay + RequestWindow + 2
        /\ status[m.to] # "exit" /\ \E b \in Block : blocked[m.to][b] < m.info[b]

UnderWay(u, n, c) ==
    \/ HelloDue(u, c) \/ HelloUnderWay(u, n, c) \/ RequestUnderWay(u, n, c)
    \/ AnswerDue(u, c) \/ ReplyUnderWay(u, c)

(* The discovery d reaches node n in time: what is under way takes no more *)
(* than the wants that remain after it leave of the time for all of them.  *)
OnTrack(d, n) ==
    \E c \in Int :
        /\ c + Remaining * NextService <= d.time + AllWants * NextService
        /\ CleanBy(d.who, c) /\ UnderWay(d.who, n, c)

(* What holds anyway.                                                      *)
Background ==
    /\ TypeOK /\ Provenance /\ WindowConsistent /\ HelloChainAlive
    /\ PacketsFresh /\ IdsUsed /\ StillHeld /\ EvacueeDue /\ FindsCounted

LEMMA Durations ==
    /\ EvacueeHelloDelay \in Nat /\ RequestWindow \in Nat
    /\ NextService \in Nat /\ FirstService \in Nat /\ AllWants \in Int
    /\ NextService = EvacueeHelloDelay + 2 * RequestWindow + 4
    /\ FirstService = EvacueeHelloDelay + RequestWindow + 3
  <1>1. Cardinality(Node) \in Nat
    BY NodesAreFinite, FS_CardinalityType
  <1> QED BY <1>1, EvacueeDelay DEF NextService, FirstService, AllWants

(* Whatever is useless now is out of the way a window later.               *)
LEMMA CleanSoon ==
    ASSUME TypeOK, WindowConsistent, PacketsFresh, NEW u \in Node
    PROVE  CleanBy(u, now + 1 + RequestWindow)
  <1>1. now \in Nat /\ replyAt[u] \in Int /\ \A m \in net : m.at \in Nat
    BY DEF TypeOK, Time, TimerTime, NoTimer, Message, HelloMsg, RequestMsg,
           UserDataMsg, ShelterMsg
  <1>2. buffer[u] # << >> => replyAt[u] <= now + RequestWindow
    BY <1>1, Durations DEF WindowConsistent
  <1>3. \A m \in net : m.at <= now
    BY DEF PacketsFresh
  <1>4. \A m \in net : m.at + 1 + RequestWindow <= now + 1 + RequestWindow
    BY <1>1, <1>3, Durations
  <1>5. buffer[u] # << >> => replyAt[u] <= now + 1 + RequestWindow
    BY <1>1, <1>2, Durations
  <1> QED BY <1>4, <1>5 DEF CleanBy

(* The event that is due keeps the clock within FirstService of c.         *)
LEMMA UnderWayInTime ==
    ASSUME Background, NEW u \in Evacuee, status[u] = "move", NEW n \in Node,
           NEW c \in Int, UnderWay(u, n, c)
    PROVE  now <= c + FirstService
  <1>0. /\ now \in Nat /\ u \in Node /\ helloAt[u] \in Int /\ replyAt[u] \in Int
        /\ \A m \in net : m.at \in Nat /\ now <= m.at + 1
    BY NodeKinds DEF Background, TypeOK, Time, TimerTime, NoTimer, Message, HelloMsg,
           RequestMsg, UserDataMsg, ShelterMsg, PacketsFresh
  <1>1. CASE HelloDue(u, c)
    <2>1. now <= helloAt[u]
      BY <1>0, Durations DEF Background, EvacueeDue
    <2> QED BY <1>0, <1>1, <2>1, Durations DEF HelloDue
  <1>2. CASE HelloUnderWay(u, n, c)
    BY <1>0, <1>2, Durations DEF HelloUnderWay
  <1>3. CASE RequestUnderWay(u, n, c)
    BY <1>0, <1>3, Durations DEF RequestUnderWay
  <1>4. CASE AnswerDue(u, c)
    <2>1. now <= replyAt[u]
      BY <1>0, <1>4, Durations DEF Background, WindowConsistent, AnswerDue
    <2>2. replyAt[u] <= c + EvacueeHelloDelay + RequestWindow + 2
      BY <1>4 DEF AnswerDue
    <2> QED BY <1>0, <2>1, <2>2, Durations
  <1>5. CASE ReplyUnderWay(u, c)
    BY <1>0, <1>5, Durations DEF ReplyUnderWay
  <1> QED BY <1>1, <1>2, <1>3, <1>4, <1>5 DEF UnderWay

(* A step that satisfies no want makes nothing useless.                    *)
LEMMA CleanByStep ==
    ASSUME ~UseEraseInfo, Background, TypeOK', [Next]_vars, Wants \subseteq Wants',
           NEW u \in Node, NEW c \in Int, CleanBy(u, c)
    PROVE  CleanBy(u, c)'
  <1>0. /\ TypeOK /\ Provenance /\ WindowConsistent /\ StillHeld /\ PacketsFresh
        /\ now \in Nat
    BY DEF Background, TypeOK, Time
  <1>1. ASSUME NEW m \in net', m.type = "REQUEST", m.to = u,
               ~Useful(m.from, u, m.blockIds)'
        PROVE  m.at + 1 + RequestWindow <= c
    <2>1. m \in net
      <3>1. CASE m \notin net
        BY <1>0, <1>1, <3>1, StepAdds, NewRequestUseful
           DEF Adds, NewPacket, NewBroadcast, NewReply
      <3> QED BY <3>1
    <2>2. m.from \in Node /\ m.blockIds \in SUBSET Block
      <3>1. m \in RequestMsg
        BY <1>0, <1>1, <2>1, MessageKinds DEF TypeOK
      <3> QED BY <3>1 DEF RequestMsg
    <2>3. ~Useful(m.from, u, m.blockIds)
      BY <1>0, <1>1, <2>2, StaysUseful
    <2> QED BY <1>1, <2>1, <2>3 DEF CleanBy
  <1>2. ASSUME buffer'[u] # << >>, ~FirstUseful(u)'
        PROVE  replyAt'[u] <= c
    <2>1. CASE buffer[u] # << >> /\ First(u)' = First(u) /\ replyAt'[u] = replyAt[u]
      <3>1. PICK r \in Node, ids \in SUBSET Block :
               r = First(u).requester /\ ids = First(u).blockIds
        BY <1>0, <2>1, FirstType
      <3>2. ~Useful(r, u, ids)'
        BY <1>2, <2>1, <3>1 DEF FirstUseful
      <3>3. ~Useful(r, u, ids)
        BY <1>0, <3>2, StaysUseful
      <3> QED BY <2>1, <3>1, <3>3 DEF CleanBy, FirstUseful
    <2>2. ASSUME NEW m \in net, RecvRequest(m), m.to = u,
                 First(u)' = [requester |-> m.from, blockIds |-> m.blockIds],
                 replyAt'[u] = now + RequestWindow
          PROVE  replyAt'[u] <= c
      <3>1. m.type = "REQUEST" /\ m \in RequestMsg
        BY <1>0, <2>2, MessageKinds DEF RecvRequest, TypeOK
      <3>2. m.from \in Node /\ m.blockIds \in SUBSET Block /\ m.at \in Nat
        BY <3>1 DEF RequestMsg, Time
      <3>3. ~Useful(m.from, u, m.blockIds)'
        BY <1>2, <2>2 DEF FirstUseful
      <3>4. ~Useful(m.from, u, m.blockIds)
        BY <1>0, <3>2, <3>3, StaysUseful
      <3>5. m.at + 1 + RequestWindow <= c
        BY <2>2, <3>1, <3>4 DEF CleanBy
      <3>6. now <= m.at + 1
        BY <1>0 DEF PacketsFresh
      <3> QED BY <1>0, <2>2, <3>2, <3>5, <3>6, Durations
    <2> QED BY <1>0, <1>2, <2>1, <2>2, FirstStep
  <1> QED BY <1>1, <1>2 DEF CleanBy

(* The Hello is sent in time, or the timer is set again in time.           *)
LEMMA HelloDueStep ==
    ASSUME ~Lossy, Background, Background', [Next]_vars,
           NEW u \in Evacuee, status[u] = "move", NEW n \in Node \ {u},
           NEW d \in discovered', d.who = u, blocked'[n][d.block] < d.time,
           NEW c \in Int, HelloDue(u, c)
    PROVE  HelloDue(u, c)' \/ HelloUnderWay(u, n, c)'
  <1>0. /\ TypeOK /\ TypeOK' /\ now \in Nat /\ u \in Node
        /\ helloAt[u] \in Int /\ EvacueeHelloDelay \in Nat
    <2>1. TypeOK /\ TypeOK' /\ u \in Node
      BY NodeKinds DEF Background
    <2>2. now \in Nat /\ helloAt[u] \in Int
      BY <2>1 DEF TypeOK, Time, TimerTime, NoTimer
    <2> QED BY <2>1, <2>2, Durations
  <1>1. CASE helloAt'[u] = helloAt[u]
    BY <1>1 DEF HelloDue
  <1>2. CASE HeardByAll(u) /\ now <= c
    <2>1. PICK delay \in 0 .. EvacueeHelloDelay : helloAt'[u] = now + delay
      BY <1>2 DEF HeardByAll
    <2>2. now + delay <= c + EvacueeHelloDelay
      BY <1>0, <1>2
    <2> QED BY <2>1, <2>2 DEF HelloDue
  <1>3. CASE HeardByAll(u) /\ c < now
    <2>1. PICK m \in net' : /\ m.type = "HELLO" /\ m.from = u /\ m.to = n
                            /\ m.bid = broadcastId[u] + 1 /\ m.at = now
                            /\ m.summary = blocked'[u]
      BY <1>3 DEF HeardByAll
    <2>2. now <= c + EvacueeHelloDelay
      <3>1. now <= helloAt[u]
        BY <1>0 DEF Background, EvacueeDue
      <3> QED BY <1>0, <3>1 DEF HelloDue
    <2>3. blocked'[n][d.block] < m.summary[d.block] /\ d.block \in Block
      <3>1. d.time <= blocked'[u][d.block] /\ d.block \in Block /\ d.time \in Nat
        BY DEF Background, StillHeld, TypeOK, Time
      <3>2. blocked'[u][d.block] \in Int /\ blocked'[n][d.block] \in Int
        BY <1>0, <3>1, SummaryFacts DEF TypeOK
      <3> QED BY <2>1, <3>1, <3>2
    <2>4. ASSUME NEW e \in idCache'[n], e.addr = u, e.id = m.bid PROVE FALSE
      <3>1. e \in idCache[n]
        BY <1>3, <2>4 DEF HeardByAll
      <3>2. e.id <= broadcastId[u]
        BY <2>4, <3>1 DEF Background, IdsUsed
      <3> QED BY <1>0, <2>1, <2>4, <3>2 DEF TypeOK
    <2> QED BY <1>3, <2>1, <2>2, <2>3, <2>4 DEF HelloUnderWay
  <1>4. TypeOK /\ (now <= c \/ c < now)
    BY <1>0
  <1> QED BY <1>1, <1>2, <1>3, <1>4, TimerStep

(* Who receives the Hello asks for what it misses.                         *)
LEMMA HelloAsks ==
    ASSUME Background, Background', NEW u \in Evacuee, NEW n \in Node,
           NEW c \in Int, NEW p \in net, RecvHello(p), p.from = u, p.to = n,
           c < now, now <= c + EvacueeHelloDelay + 1,
           NEW b \in Block, blocked[n][b] < p.summary[b]
    PROVE  RequestUnderWay(u, n, c)'
  <1> DEFINE ask == [type |-> "REQUEST", from |-> n, to |-> u,
                     blockIds |-> Missing(blocked[n], p.summary), at |-> now]
  <1>1. b \in Missing(blocked[n], p.summary)
    BY DEF Missing
  <1>2. ask \in net'
    BY <1>1 DEF RecvHello
  <1>3. /\ p.type = "HELLO" /\ status[n] = "move"
        /\ UNCHANGED <<status, blocked>>
    BY DEF RecvHello
  <1>4. blocked[n][b] < blocked[u][b]
    <2>1. p \in HelloMsg /\ TypeOK /\ u \in Node
      BY <1>3, MessageKinds, NodeKinds DEF Background, TypeOK
    <2>2. blocked[n][b] \in Int /\ blocked[u][b] \in Int /\ p.summary[b] \in Int
      BY <2>1, SummaryFacts DEF TypeOK, HelloMsg
    <2>3. p.summary[b] <= blocked[u][b]
      BY <1>3 DEF Background, StillHeld
    <2> QED BY <2>2, <2>3
  <1>5. Useful(n, u, Missing(blocked[n], p.summary))'
    BY <1>1, <1>3, <1>4 DEF Useful, Missing
  <1>6. /\ ask.type = "REQUEST" /\ ask.from = n /\ ask.to = u /\ ask.at = now
        /\ ask.blockIds = Missing(blocked[n], p.summary)
    OBVIOUS
  <1>7. \E m \in net' : /\ m.type = "REQUEST" /\ m.from = n /\ m.to = u
                        /\ c < m.at /\ m.at <= c + EvacueeHelloDelay + 1
                        /\ Useful(n, u, m.blockIds)'
    <2>1. PICK m \in net' : m = ask
      BY <1>2
    <2>2. Useful(n, u, m.blockIds)'
      <3>1. PICK ids : ids = Missing(blocked[n], p.summary)
        OBVIOUS
      <3>2. ids = Missing(blocked[n], p.summary)' /\ m.blockIds = ids
        BY <1>3, <1>6, <2>1, <3>1 DEF Missing
      <3> QED BY <1>5, <3>2
    <2> QED BY <1>6, <2>1, <2>2
  <1> QED BY <1>7 DEF RequestUnderWay

LEMMA HelloUnderWayStep ==
    ASSUME ~Lossy, Background, Background', [Next]_vars, Wants \subseteq Wants',
           NEW u \in Evacuee, status'[u] = "move", NEW n \in Node \ {u},
           status[n] = "move", NEW c \in Int, HelloUnderWay(u, n, c)
    PROVE  HelloUnderWay(u, n, c)' \/ RequestUnderWay(u, n, c)'
  <1>1. PICK m \in net, b \in Block :
           /\ m.type = "HELLO" /\ m.from = u /\ m.to = n
           /\ c < m.at /\ m.at <= c + EvacueeHelloDelay
           /\ blocked[n][b] < m.summary[b]
           /\ \A e \in idCache[n] : ~(e.addr = u /\ e.id = m.bid)
    BY DEF HelloUnderWay
  <1>2. /\ m.summary \in Summary /\ TypeOK /\ m.at \in Nat /\ now \in Nat
        /\ EvacueeHelloDelay \in Nat /\ u \in Node
    <2>1. m \in HelloMsg
      BY <1>1, MessageKinds DEF Background, TypeOK
    <2> QED BY <2>1, Durations, NodeKinds DEF HelloMsg, Background, TypeOK, Time
  <1>3. c < now /\ now <= c + EvacueeHelloDelay + 1
    BY <1>1, <1>2 DEF Background, PacketsFresh
  <1>4. ASSUME NEW p \in net, RecvHello(p), p.from = u, p.to = n, p.bid = m.bid
        PROVE  RequestUnderWay(u, n, c)'
    <2>1. p.summary = m.summary
      BY <1>1, <1>4 DEF Background, IdsUsed, RecvHello
    <2> QED BY <1>1, <1>3, <1>4, <2>1, HelloAsks
  <1>5. CASE m \notin net'
    <2>1. Leaves(m)
      BY <1>5, StepRemoves
    <2>2. CASE RecvHello(m)
      BY <1>1, <1>4, <2>2
    <2>3. ~RecvHelloAgain(m)
      BY <1>1 DEF RecvHelloAgain, IsDuplicate, Purge
    <2>4. ~RecvRequest(m) /\ ~RecvUserDataAsUnicast(m) /\ ~RecvShelterDataAsBroadcast(m)
          /\ ~Discard(m) /\ ~Lose(m)
      BY <1>1 DEF RecvRequest, RecvUserDataAsUnicast, RecvShelterDataAsBroadcast,
                  Discard, Lose
    <2>5. \A s \in Shelter : ~CompleteEvacuation(m.from, s)
      BY <1>1, <1>2 DEF CompleteEvacuation, TypeOK
    <2> QED BY <2>1, <2>2, <2>3, <2>4, <2>5 DEF Leaves, Receive
  <1>6. CASE m \in net'
    <2>1. blocked'[n][b] < m.summary[b]
      <3>1. RealTimes(discovered, m.summary)
        BY <1>1 DEF Background, Provenance, RealPacket
      <3> QED BY <1>1, <1>2, <3>1, StaysMissing
    <2>2. CASE \A e \in idCache'[n] : ~(e.addr = u /\ e.id = m.bid)
      BY <1>1, <1>6, <2>1, <2>2 DEF HelloUnderWay
    <2>3. ASSUME NEW e \in idCache'[n], e.addr = u, e.id = m.bid
          PROVE  RequestUnderWay(u, n, c)'
      <3>1. NewId(n, e)
        BY <1>1, <1>2, <2>3, StepAdds DEF Adds
      <3>2. PICK p \in net : /\ RecvHello(p) \/ RecvShelterDataAsBroadcast(p)
                             /\ p.to = n /\ p.from = u /\ p.bid = m.bid
        BY <2>3, <3>1 DEF NewId
      <3>3. ~RecvShelterDataAsBroadcast(p)
        <4>1. p.type = "SHELTERDATA" => p.from \in Shelter
          BY <1>2, MessageKinds DEF TypeOK, ShelterMsg
        <4> QED BY <3>2, <4>1 DEF RecvShelterDataAsBroadcast, Evacuee
      <3> QED BY <1>4, <3>2, <3>3
    <2> QED BY <2>2, <2>3
  <1> QED BY <1>5, <1>6

(* The request that arrives opens a window, or finds a useful one open.    *)
LEMMA RequestUnderWayStep ==
    ASSUME ~Lossy, ~UseEraseInfo, Background, Background', [Next]_vars,
           Wants \subseteq Wants', NEW u \in Evacuee, status[u] = "move",
           NEW n \in Node, status'[n] = "move",
           NEW c \in Int, CleanBy(u, c), RequestUnderWay(u, n, c)
    PROVE  RequestUnderWay(u, n, c)' \/ AnswerDue(u, c)'
  <1>1. PICK m \in net : /\ m.type = "REQUEST" /\ m.from = n /\ m.to = u
                         /\ c < m.at /\ m.at <= c + EvacueeHelloDelay + 1
                         /\ Useful(n, u, m.blockIds)
    BY DEF RequestUnderWay
  <1>2. TypeOK /\ TypeOK' /\ Provenance /\ WindowConsistent /\ u \in Node
    BY NodeKinds DEF Background
  <1>3. m \in RequestMsg
    BY <1>1, <1>2, MessageKinds DEF TypeOK
  <1>4. m.blockIds \in SUBSET Block /\ m.at \in Nat /\ now \in Nat /\ replyAt[u] \in Int
    <2>1. m.blockIds \in SUBSET Block /\ m.at \in Nat
      BY <1>3 DEF RequestMsg, Time
    <2>2. now \in Nat /\ replyAt[u] \in Int
      BY <1>2 DEF TypeOK, Time, TimerTime, NoTimer
    <2> QED BY <2>1, <2>2
  <1>5. Useful(n, u, m.blockIds)'
    BY <1>1, <1>2, <1>4, StaysUseful
  <1>6. m.at <= now /\ now <= m.at + 1
    BY DEF Background, PacketsFresh
  <1>7. CASE m \in net'
    BY <1>1, <1>5, <1>7 DEF RequestUnderWay
  <1>8. CASE m \notin net'
    <2>1. RecvRequest(m)
      <3>1. Leaves(m)
        BY <1>8, StepRemoves
      <3>2. ~RecvHello(m) /\ ~RecvHelloAgain(m) /\ ~RecvUserDataAsUnicast(m)
            /\ ~RecvShelterDataAsBroadcast(m) /\ ~Discard(m) /\ ~Lose(m)
        BY <1>1 DEF RecvHello, RecvHelloAgain, RecvUserDataAsUnicast,
                    RecvShelterDataAsBroadcast, Discard, Lose
      <3>3. \A s \in Shelter : ~CompleteEvacuation(m.from, s)
        BY <1>1, <1>2 DEF CompleteEvacuation, TypeOK
      <3> QED BY <3>1, <3>2, <3>3 DEF Leaves, Receive
    <2>2. buffer'[u] # << >>
      <3> DEFINE req == [requester |-> m.from, blockIds |-> m.blockIds]
      <3>1. buffer'[u] = Append(buffer[u], req) /\ buffer[u] \in Seq(BufferedRequest)
        BY <1>1, <1>2, <2>1 DEF RecvRequest, TypeOK
      <3>2. req \in BufferedRequest
        BY <1>3 DEF RequestMsg, BufferedRequest
      <3> HIDE DEF req
      <3> QED BY <3>1, <3>2
    <2>3. ASSUME buffer[u] # << >>, First(u)' = First(u), replyAt'[u] = replyAt[u]
          PROVE  AnswerDue(u, c)'
      <3>1. now <= replyAt[u] /\ replyAt[u] <= now + RequestWindow
        BY <1>2, <1>4, <2>3, Durations DEF WindowConsistent
      <3>2. FirstUseful(u)
        BY <1>1, <1>4, <1>6, <2>3, <3>1 DEF CleanBy
      <3>3. PICK r \in Node, ids \in SUBSET Block :
               r = First(u).requester /\ ids = First(u).blockIds
        BY <1>2, <2>3, FirstType
      <3>4. Useful(r, u, ids)'
        BY <1>2, <3>2, <3>3, StaysUseful DEF FirstUseful
      <3>5. FirstUseful(u)'
        BY <2>3, <3>3, <3>4 DEF FirstUseful
      <3>6. replyAt'[u] <= c + EvacueeHelloDelay + RequestWindow + 2
        BY <1>1, <1>4, <1>6, <2>3, <3>1, Durations
      <3> QED BY <2>2, <3>5, <3>6 DEF AnswerDue
    <2>4. ASSUME NEW p \in net, RecvRequest(p), p.to = u, buffer[u] = << >>,
                 First(u)' = [requester |-> p.from, blockIds |-> p.blockIds],
                 replyAt'[u] = now + RequestWindow
          PROVE  AnswerDue(u, c)'
      <3> DEFINE req == [requester |-> m.from, blockIds |-> m.blockIds]
      <3>1. First(u)' = req
        <4>1. buffer'[u] = Append(<< >>, req)
          BY <1>1, <1>2, <2>1, <2>4 DEF RecvRequest, TypeOK
        <4>2. req \in BufferedRequest
          BY <1>3 DEF RequestMsg, BufferedRequest
        <4> HIDE DEF req
        <4> QED BY <4>1, <4>2 DEF First
      <3>2. First(u)'.requester = n /\ First(u)'.blockIds = m.blockIds
        BY <1>1, <3>1
      <3>3. FirstUseful(u)'
        BY <1>5, <3>2 DEF FirstUseful
      <3>4. replyAt'[u] <= c + EvacueeHelloDelay + RequestWindow + 2
        BY <1>1, <1>4, <1>6, <2>4, Durations
      <3> QED BY <2>2, <3>3, <3>4 DEF AnswerDue
    <2> QED BY <1>2, <2>2, <2>3, <2>4, FirstStep
  <1> QED BY <1>7, <1>8

(* The window ends with the useful reply.                                  *)
LEMMA AnswerDueStep ==
    ASSUME ~UseEraseInfo, Background, Background', [Next]_vars,
           Wants \subseteq Wants', NEW u \in Evacuee, status[u] = "move",
           NEW c \in Int, AnswerDue(u, c)
    PROVE  AnswerDue(u, c)' \/ ReplyUnderWay(u, c)'
  <1>1. TypeOK /\ TypeOK' /\ Provenance /\ WindowConsistent /\ u \in Node
    BY NodeKinds DEF Background
  <1>2. PICK r \in Node, ids \in SUBSET Block :
           r = First(u).requester /\ ids = First(u).blockIds
    BY <1>1, FirstType DEF AnswerDue
  <1>3. Useful(r, u, ids) /\ Useful(r, u, ids)'
    <2>1. Useful(r, u, ids)
      BY <1>2 DEF AnswerDue, FirstUseful
    <2> QED BY <1>1, <2>1, StaysUseful
  <1>4. CASE buffer'[u] # << >>
    <2>1. First(u)' = First(u) /\ replyAt'[u] = replyAt[u]
      BY <1>1, <1>4, FirstStep DEF AnswerDue
    <2>2. FirstUseful(u)'
      BY <1>2, <1>3, <2>1 DEF FirstUseful
    <2> QED BY <1>4, <2>1, <2>2 DEF AnswerDue
  <1>5. CASE buffer'[u] = << >>
    <2>1. ProcessRequestBuffer(u)
      <3>1. ASSUME NEW m \in net, RecvRequest(m) PROVE buffer'[u] # << >>
        <4>1. CASE m.to # u
          BY <1>1, <3>1, <4>1 DEF RecvRequest, TypeOK, AnswerDue
        <4>2. CASE m.to = u
          <5> DEFINE req == [requester |-> m.from, blockIds |-> m.blockIds]
          <5>1. buffer'[u] = Append(buffer[u], req)
                /\ buffer[u] \in Seq(BufferedRequest)
            BY <1>1, <3>1, <4>2 DEF RecvRequest, TypeOK
          <5>2. req \in BufferedRequest
            <6>1. m \in RequestMsg
              BY <1>1, <3>1, MessageKinds DEF RecvRequest, TypeOK
            <6> QED BY <6>1 DEF RequestMsg, BufferedRequest
          <5> HIDE DEF req
          <5> QED BY <5>1, <5>2
        <4> QED BY <4>1, <4>2
      <3>2. ASSUME NEW k \in Node, ProcessRequestBuffer(k), k # u
            PROVE  buffer'[u] = buffer[u]
        BY <1>1, <3>2 DEF ProcessRequestBuffer, CloseWindow, TypeOK
      <3>3. CASE Tick \/ UNCHANGED <<now, buffer, collecting, replyAt>>
        BY <1>5, <3>3 DEF Tick, requestVars, AnswerDue
      <3> QED BY <1>5, <3>1, <3>2, <3>3, WindowFrame DEF AnswerDue
    <2> DEFINE reply == [type |-> "USERDATA", from |-> u, to |-> r,
                         info |-> Answer(blocked[u], ids), at |-> now]
    <2>2. reply \in net' /\ UNCHANGED <<status, blocked>> /\ replyAt[u] = now
      BY <1>2, <2>1 DEF ProcessRequestBuffer, First, AnswerDue, knowledge
    <2>3. PICK b \in ids : blocked[r][b] < blocked[u][b]
      BY <1>3 DEF Useful
    <2>4. b \in Block /\ reply.info[b] = blocked[u][b]
      BY <2>3 DEF Answer
    <2>5. status[r] # "exit"
      BY <1>3 DEF Useful
    <2>6. now <= c + EvacueeHelloDelay + RequestWindow + 2
      BY <2>2 DEF AnswerDue
    <2>7. PICK m \in net' : m = reply
      BY <2>2
    <2>8. /\ m.type = "USERDATA" /\ m.from = u /\ m.to = r /\ m.at = now
          /\ m.info[b] = blocked[u][b]
      BY <2>4, <2>7
    <2> QED BY <2>2, <2>3, <2>4, <2>5, <2>6, <2>8 DEF ReplyUnderWay
  <1> QED BY <1>4, <1>5

(* The useful reply does not arrive without satisfying a want.             *)
LEMMA ReplyUnderWayStep ==
    ASSUME ~Lossy, ~UseEraseInfo, Background, Background', [Next]_vars,
           Wants \subseteq Wants', NEW u \in Evacuee, status'[u] = "move",
           NEW c \in Int, ReplyUnderWay(u, c)
    PROVE  ReplyUnderWay(u, c)'
  <1>1. PICK m \in net, b \in Block :
           /\ m.type = "USERDATA" /\ m.from = u
           /\ m.at <= c + EvacueeHelloDelay + RequestWindow + 2
           /\ status[m.to] # "exit" /\ blocked[m.to][b] < m.info[b]
    BY DEF ReplyUnderWay
  <1>2. TypeOK /\ Provenance /\ u \in Node
    BY NodeKinds DEF Background
  <1>3. m \in UserDataMsg
    BY <1>1, <1>2, MessageKinds DEF TypeOK
  <1>4. m.to \in Node /\ m.info \in Summary
    BY <1>3 DEF UserDataMsg
  <1>5. RealTimes(discovered, m.info)
    BY <1>1, <1>2 DEF Provenance, RealPacket
  <1>6. status'[m.to] # "exit" /\ blocked'[m.to][b] < m.info[b]
    BY <1>1, <1>2, <1>4, <1>5, StaysMissing
  <1>7. m \in net'
    <2>1. ASSUME RecvUserDataAsUnicast(m) PROVE FALSE
      <3>1. blocked'[m.to] = Merge(blocked[m.to], m.info, Accepted(blocked[m.to], m.info))
        BY <1>2, <1>4, <2>1 DEF RecvUserDataAsUnicast, TypeOK
      <3>2. b \in Accepted(blocked[m.to], m.info)
        BY <1>1 DEF Accepted, Missing
      <3>3. blocked'[m.to][b] = m.info[b]
        BY <3>1, <3>2 DEF Merge
      <3>4. m.info[b] \in Int
        BY <1>4, SummaryFacts
      <3> QED BY <1>6, <3>3, <3>4
    <2>2. ~RecvHello(m) /\ ~RecvHelloAgain(m) /\ ~RecvRequest(m)
          /\ ~RecvShelterDataAsBroadcast(m) /\ ~Discard(m) /\ ~Lose(m)
      BY <1>1 DEF RecvHello, RecvHelloAgain, RecvRequest,
                  RecvShelterDataAsBroadcast, Discard, Lose
    <2>3. \A s \in Shelter : ~CompleteEvacuation(m.from, s)
      BY <1>1, <1>2 DEF CompleteEvacuation, TypeOK
    <2> QED BY <2>1, <2>2, <2>3, StepRemoves DEF Leaves, Receive
  <1> QED BY <1>1, <1>6, <1>7 DEF ReplyUnderWay

(* A step that satisfies no want brings what is under way one event        *)
(* further, or leaves it.                                                  *)
LEMMA UnderWayStep ==
    ASSUME ~Lossy, ~UseEraseInfo, Background, Background', [Next]_vars,
           Wants \subseteq Wants', NEW u \in Evacuee, NEW n \in Node \ {u},
           status[u] = "move", status'[u] = "move",
           status[n] = "move", status'[n] = "move",
           NEW d \in discovered', d.who = u, blocked'[n][d.block] < d.time,
           NEW c \in Int, CleanBy(u, c), UnderWay(u, n, c)
    PROVE  UnderWay(u, n, c)'
  <1>1. CASE HelloDue(u, c)
    BY <1>1, HelloDueStep DEF UnderWay
  <1>2. CASE HelloUnderWay(u, n, c)
    BY <1>2, HelloUnderWayStep DEF UnderWay
  <1>3. CASE RequestUnderWay(u, n, c)
    BY <1>3, RequestUnderWayStep DEF UnderWay
  <1>4. CASE AnswerDue(u, c)
    BY <1>4, AnswerDueStep DEF UnderWay
  <1>5. CASE ReplyUnderWay(u, c)
    BY <1>5, ReplyUnderWayStep DEF UnderWay
  <1> QED BY <1>1, <1>2, <1>3, <1>4, <1>5 DEF UnderWay

(* An evacuee under way can start afresh at any time: its next Hello comes *)
(* within EvacueeHelloDelay, and useless requests are gone a window later. *)
FreshStart ==
    \A u \in Evacuee, n \in Node, t \in Nat, k \in Nat :
        status[u] = "move" /\ t = now /\ k = now + 1 + RequestWindow =>
            /\ UnderWay(u, n, t) /\ (~Wasted => CleanBy(u, t))
            /\ UnderWay(u, n, k) /\ CleanBy(u, k)

LEMMA FreshStartHolds == Background => FreshStart
  <1> SUFFICES ASSUME Background, NEW u \in Evacuee, NEW n \in Node, status[u] = "move"
               PROVE  /\ UnderWay(u, n, now) /\ (~Wasted => CleanBy(u, now))
                      /\ UnderWay(u, n, now + 1 + RequestWindow)
                      /\ CleanBy(u, now + 1 + RequestWindow)
    BY DEF FreshStart
  <1>1. /\ TypeOK /\ WindowConsistent /\ PacketsFresh /\ EvacueeDue /\ u \in Node
        /\ now \in Nat /\ helloAt[u] \in Int
    <2>1. TypeOK /\ WindowConsistent /\ PacketsFresh /\ EvacueeDue /\ u \in Node
      BY NodeKinds DEF Background
    <2> QED BY <2>1 DEF TypeOK, Time, TimerTime, NoTimer
  <1>2. CleanBy(u, now + 1 + RequestWindow)
    BY <1>1, CleanSoon
  <1>3. helloAt[u] <= now + EvacueeHelloDelay
    BY <1>1, Durations DEF EvacueeDue
  <1>4. HelloDue(u, now) /\ HelloDue(u, now + 1 + RequestWindow)
    BY <1>1, <1>3, Durations DEF HelloDue
  <1>5. ~Wasted => CleanBy(u, now)
    BY <1>1 DEF Wasted, CleanBy
  <1> QED BY <1>2, <1>4, <1>5 DEF UnderWay

(* One want fewer pays for one service.                                    *)
LEMMA OneServiceLess ==
    ASSUME NEW x \in Int, NEW y \in Int, NEW s \in Nat, x < y
    PROVE  x * s + s <= y * s
  <1>1. PICK k \in Nat : y = x + 1 + k
    <2>1. y - x - 1 \in Nat /\ y = x + 1 + (y - x - 1)
      OBVIOUS
    <2> QED BY <2>1
  <1>2. y * s = x * s + s + k * s
    BY <1>1
  <1>3. k * s \in Nat /\ x * s \in Int
    OBVIOUS
  <1> QED BY <1>2, <1>3

(* What counts as waste has been paid for by a want that is satisfied.     *)
LEMMA WasteCountedStep ==
    ASSUME ~UseEraseInfo, Background, Background', WasteCounted, [Next]_vars
    PROVE  WasteCounted'
  <1> DEFINE r == Remaining
             s == Remaining'
  <1>1. TypeOK /\ TypeOK' /\ Provenance /\ WindowConsistent /\ StillHeld
        /\ StillHeld' /\ FindsCounted /\ FindsCounted'
    BY DEF Background
  <1>2. r \in Int /\ s \in Int /\ s <= r /\ (s = r => Wants \subseteq Wants')
    BY <1>1, RemainingStep
  <1>3. r <= AllWants /\ (Wasted => r < AllWants)
    BY DEF WasteCounted
  <1>4. s = r /\ Wasted' => Wasted
    BY <1>1, <1>2, WasteStep
  <1>5. (s <= AllWants /\ (Wasted' => s < AllWants)) => WasteCounted'
    BY DEF WasteCounted, AllWants
  <1> HIDE DEF r, s
  <1> QED BY <1>2, <1>3, <1>4, <1>5, Durations

(* Every discovery is on its way in time to every node that misses it and  *)
(* was there from the start, as long as its finder is under way.           *)
AllOnTrack ==
    \A d \in discovered, n \in Node \ AddUser :
        /\ status[d.who] = "move" /\ status[n] = "move"
        /\ blocked[n][d.block] < d.time
        => OnTrack(d, n)

(* A discovery that is on its way stays so: a step that satisfies a want   *)
(* may undo what is under way, and leaves the time to start afresh.        *)
LEMMA OnTrackStep ==
    ASSUME ~Lossy, ~UseEraseInfo, Background, Background', FreshStart',
           [Next]_vars, NEW d \in discovered, d \in discovered',
           NEW n \in Node \ {d.who}, status[d.who] = "move", status'[d.who] = "move",
           status[n] = "move", status'[n] = "move",
           blocked'[n][d.block] < d.time, OnTrack(d, n)
    PROVE  OnTrack(d, n)'
  <1> DEFINE u == d.who
             r == Remaining
             s == Remaining'
             w == NextService
             limit == d.time + AllWants * w
  <1>1. TypeOK /\ TypeOK' /\ Provenance /\ StillHeld /\ StillHeld' /\ FindsCounted
        /\ FindsCounted'
    BY DEF Background
  <1>2. u \in Evacuee /\ u \in Node /\ d.time \in Nat /\ now \in Nat
    <2>1. u \in Evacuee
      BY <1>1 DEF StillHeld
    <2> QED BY <1>1, <2>1, NodeKinds DEF TypeOK, Time
  <1>3. r \in Int /\ s \in Int /\ s <= r /\ (s = r => Wants \subseteq Wants')
    BY <1>1, RemainingStep
  <1>4. w \in Nat /\ limit \in Int /\ RequestWindow \in Nat /\ FirstService \in Nat
        /\ w = FirstService + 1 + RequestWindow
    BY <1>2, Durations
  <1>5. PICK c \in Int : c + r * w <= limit /\ CleanBy(u, c) /\ UnderWay(u, n, c)
    BY DEF OnTrack
  <1>6. ASSUME NEW k \in Int, k + s * w <= limit, CleanBy(u, k)', UnderWay(u, n, k)'
        PROVE  OnTrack(d, n)'
    BY <1>6 DEF OnTrack, NextService, EvacueeHelloDelay, AllWants
  <1>7. CASE s = r
    <2>1. Wants \subseteq Wants'
      BY <1>3, <1>7
    <2> HIDE DEF r, s, w, limit
    <2>2. CleanBy(u, c)'
      BY <1>1, <1>2, <1>5, <2>1, CleanByStep
    <2>3. UnderWay(u, n, c)'
      BY <1>2, <1>5, <2>1, UnderWayStep
    <2> QED BY <1>5, <1>6, <1>7, <2>2, <2>3
  <1>8. CASE s < r
    <2>1. now' = now
      <3>1. CASE Tick
        <4>1. UNCHANGED <<discovered, status, blocked>>
          BY <3>1 DEF Tick, knowledge
        <4>2. s = r
          BY <4>1 DEF Remaining, Wants, Wanting
        <4> HIDE DEF s, r
        <4> QED BY <1>3, <1>8, <4>2
      <3> QED BY <3>1, ClockStep
    <2>0. PICK k \in Nat : k = now + 1 + RequestWindow
      BY <1>2, <1>4
    <2>2. CleanBy(u, k)' /\ UnderWay(u, n, k)'
      BY <1>2, <2>0, <2>1 DEF FreshStart
    <2>3. now <= c + FirstService
      BY <1>2, <1>5, UnderWayInTime
    <2> HIDE DEF r, s, w, limit
    <2>4. k \in Int /\ k <= c + w
      BY <1>2, <1>4, <2>0, <2>3
    <2>5. s * w + w <= r * w
      BY <1>3, <1>4, <1>8, OneServiceLess
    <2>6. s * w \in Int /\ r * w \in Int
      BY <1>3, <1>4
    <2>7. k + s * w <= limit
      BY <1>4, <1>5, <2>4, <2>5, <2>6
    <2> QED BY <1>6, <2>2, <2>4, <2>7
  <1> HIDE DEF r, s
  <1> QED BY <1>3, <1>7, <1>8

(* A discovery is on its way from the moment it is made.                   *)
LEMMA NewOnTrack ==
    ASSUME Background', FreshStart', WasteCounted', Remaining' \in Int,
           NEW d \in discovered', d.time = now', status'[d.who] = "move",
           NEW n \in Node
    PROVE  OnTrack(d, n)'
  <1> DEFINE u == d.who
             s == Remaining'
             w == NextService
             limit == d.time + AllWants * w
  <1>1. u \in Evacuee /\ now' \in Nat
    BY DEF Background, StillHeld, TypeOK, Time
  <1>2. w \in Nat /\ limit \in Int /\ AllWants \in Int /\ RequestWindow \in Nat
        /\ 1 + RequestWindow <= w
    BY <1>1, Durations
  <1>3. ASSUME NEW k \in Int, k + s * w <= limit, CleanBy(u, k)', UnderWay(u, n, k)'
        PROVE  OnTrack(d, n)'
    BY <1>3 DEF OnTrack, NextService, EvacueeHelloDelay, AllWants
  <1>4. s <= AllWants /\ (Wasted' => s < AllWants)
    BY DEF WasteCounted, AllWants
  <1>5. s \in Int
    OBVIOUS
  <1>6. PICK t \in Nat, k \in Nat : t = now' /\ k = t + 1 + RequestWindow
    BY <1>1, <1>2
  <1>7. /\ UnderWay(u, n, t)' /\ CleanBy(u, k)' /\ UnderWay(u, n, k)'
        /\ ~Wasted' => CleanBy(u, t)'
    BY <1>1, <1>6 DEF FreshStart
  <1>8. CASE Wasted'
    <2> HIDE DEF s, w
    <2>1. s * w + w <= AllWants * w
      BY <1>2, <1>4, <1>5, <1>8, OneServiceLess
    <2>2. s * w \in Int /\ AllWants * w \in Int
      BY <1>2, <1>5
    <2>3. k \in Int /\ k + s * w <= limit
      BY <1>2, <1>6, <2>1, <2>2
    <2> QED BY <1>3, <1>7, <2>3
  <1>9. CASE ~Wasted'
    <2> HIDE DEF s, w
    <2>1. s * w <= AllWants * w
      <3>1. CASE s = AllWants
        BY <1>2, <3>1
      <3>2. CASE s < AllWants
        <4>1. s * w + w <= AllWants * w
          BY <1>2, <1>5, <3>2, OneServiceLess
        <4>2. s * w \in Int /\ AllWants * w \in Int
          BY <1>2, <1>5
        <4> QED BY <1>2, <4>1, <4>2
      <3> QED BY <1>2, <1>4, <1>5, <3>1, <3>2
    <2>2. s * w \in Int /\ AllWants * w \in Int
      BY <1>2, <1>5
    <2>3. t \in Int /\ t + s * w <= limit
      BY <1>2, <1>6, <2>1, <2>2
    <2> QED BY <1>3, <1>7, <1>9, <2>3
  <1> QED BY <1>8, <1>9

LEMMA AllOnTrackStep ==
    ASSUME ~Lossy, ~UseEraseInfo, Background, Background', FreshStart',
           WasteCounted', AllOnTrack, [Next]_vars
    PROVE  AllOnTrack'
  <1> SUFFICES ASSUME NEW d \in discovered', NEW n \in Node \ AddUser,
                      status'[d.who] = "move", status'[n] = "move",
                      blocked'[n][d.block] < d.time
               PROVE  OnTrack(d, n)'
    BY DEF AllOnTrack
  <1>1. TypeOK /\ TypeOK' /\ Provenance /\ StillHeld /\ StillHeld' /\ FindsCounted
        /\ FindsCounted'
    BY DEF Background
  <1>2. CASE d \in discovered
    <2>1. /\ d.who \in Evacuee /\ d.who \in Node /\ status[d.who] # "wait"
          /\ d.time <= blocked'[d.who][d.block]
      BY <1>1, <1>2, NodeKinds DEF StillHeld
    <2>2. /\ d.block \in Block /\ d.time \in Nat
          /\ blocked[n][d.block] \in Int /\ blocked'[n][d.block] \in Int
      BY <1>1, <1>2, SummaryFacts DEF TypeOK, Time
    <2>3. n # d.who
      BY <2>1, <2>2
    <2>4. status[n] = "move"
      BY <1>1, StatusStep
    <2>5. status[d.who] = "move"
      BY <1>1, <2>1, StatusStep DEF ActivateReservedAddUser
    <2>6. blocked[n][d.block] < d.time
      <3>1. blocked'[n][d.block] >= blocked[n][d.block]
        BY <1>1, <2>2, NothingForgotten
      <3> QED BY <2>2, <3>1
    <2>7. OnTrack(d, n)
      BY <1>2, <2>4, <2>5, <2>6 DEF AllOnTrack
    <2> QED BY <1>2, <2>3, <2>4, <2>5, <2>7, OnTrackStep
  <1>3. CASE d \notin discovered
    <2>1. d.time = now'
      BY <1>3, FindStep DEF FindBlock
    <2>2. Remaining' \in Int
      BY <1>1, RemainingStep
    <2> QED BY <2>1, <2>2, NewOnTrack
  <1> QED BY <1>2, <1>3

(* What holds anyway holds initially.                                      *)
LEMMA ServiceInit ==
    ASSUME Init
    PROVE  /\ PacketsFresh /\ IdsUsed /\ StillHeld /\ EvacueeDue /\ FindsCounted
           /\ WasteCounted /\ AllOnTrack
  <1>1. net = {} /\ discovered = {} /\ now = 0 /\ \A n \in Node : idCache[n] = {}
    BY DEF Init
  <1>2. PacketsFresh /\ IdsUsed /\ StillHeld /\ AllOnTrack
    BY <1>1 DEF PacketsFresh, IdsUsed, StillHeld, AllOnTrack
  <1>3. EvacueeDue
    <2> SUFFICES ASSUME NEW u \in Evacuee, status[u] = "move"
                 PROVE  helloAt[u] \in now .. now + EvacueeHelloDelay
      BY DEF EvacueeDue
    <2>1. u \in User /\ helloAt[u] = FirstHello
      BY NodeKinds DEF Init, Evacuee
    <2> QED BY <1>1, <2>1, EvacueeDelay, TimesAreNaturals
  <1>4. FindsCounted /\ Cardinality(discovered) = 0
    BY <1>1, FS_EmptySet, TimesAreNaturals DEF FindsCounted
  <1>5. WasteCounted
    <2>1. Wants = {}
      BY <1>1 DEF Wants
    <2>2. Cardinality(Wants) = 0
      BY <2>1, FS_EmptySet
    <2>3. ~Wasted
      BY <1>1 DEF Wasted, Init
    <2>4. Remaining = AllWants
      <3> DEFINE k == Cardinality(Node) - 1
      <3>1. k \in Int /\ MaxFinds \in Nat
        BY NodesAreFinite, FS_CardinalityType, TimesAreNaturals
      <3>2. Remaining = (MaxFinds - 0) * k + 0 /\ AllWants = MaxFinds * k
        BY <1>4, <2>2 DEF Remaining, AllWants
      <3> HIDE DEF k
      <3> QED BY <3>1, <3>2
    <2> QED BY <2>3, <2>4, Durations DEF WasteCounted
  <1> QED BY <1>2, <1>3, <1>4, <1>5

(* An open want is counted.                                                *)
LEMMA RemainingPositive ==
    ASSUME FindsCounted, NEW d \in discovered, NEW n \in Node, Wanting(n, d)
    PROVE  Remaining \in Nat /\ 1 <= Remaining
  <1> DEFINE k == Cardinality(Node) - 1
             e == MaxFinds - Cardinality(discovered)
             v == Cardinality(Wants)
  <1>1. <<d, n>> \in Wants
    BY DEF Wants
  <1>2. IsFiniteSet(Wants) /\ v \in Nat
    BY WantsCounted
  <1>3. v # 0
    BY <1>1, <1>2, FS_EmptySet
  <1>4. k \in Nat
    <2>1. Cardinality(Node) \in Nat /\ Cardinality(Node) # 0
      BY NodesAreFinite, FS_CardinalityType, FS_EmptySet
    <2> QED BY <2>1
  <1>5. e \in Nat
    <2>1. Cardinality(discovered) \in Nat
      BY WantsCounted
    <2> QED BY <2>1, TimesAreNaturals DEF FindsCounted
  <1>6. Remaining = e * k + v
    BY DEF Remaining
  <1> HIDE DEF k, e, v
  <1>7. e * k \in Nat
    BY <1>4, <1>5
  <1> QED BY <1>2, <1>3, <1>6, <1>7

(* What is on its way arrives before the bound is reached.                 *)
LEMMA OnTrackInTime ==
    ASSUME Background, AllOnTrack
    PROVE  ServedWithinBound
  <1> SUFFICES ASSUME NEW d \in discovered, status[d.who] = "move",
                      d.time + ServiceBound <= now,
                      NEW n \in Node \ AddUser, status[n] = "move",
                      ~(blocked[n][d.block] >= d.time)
               PROVE  FALSE
    BY DEF ServedWithinBound
  <1>1. TypeOK /\ StillHeld /\ FindsCounted
    BY DEF Background
  <1>2. /\ d.block \in Block /\ d.time \in Nat /\ now \in Nat
        /\ blocked[n][d.block] \in Int /\ d.who \in Evacuee
    BY <1>1, SummaryFacts DEF TypeOK, Time, StillHeld
  <1>3. blocked[n][d.block] < d.time
    BY <1>2
  <1>4. OnTrack(d, n)
    BY <1>3 DEF AllOnTrack
  <1>5. PICK c \in Int :
           /\ c + Remaining * NextService <= d.time + AllWants * NextService
           /\ UnderWay(d.who, n, c)
    BY <1>4 DEF OnTrack
  <1>6. now <= c + FirstService
    BY <1>2, <1>5, UnderWayInTime
  <1>7. Remaining \in Nat /\ 1 <= Remaining
    BY <1>1, <1>3, RemainingPositive DEF Wanting
  <1> DEFINE r == Remaining
             w == NextService
             a == AllWants
             f == FirstService
  <1>8. r \in Nat /\ 1 <= r /\ w \in Nat /\ a \in Int /\ f \in Nat
    BY <1>7, Durations
  <1>9. c + r * w <= d.time + a * w /\ d.time + ((a - 1) * w + f + 1) <= now
    BY <1>5 DEF ServiceBound
  <1>10. now <= c + f
    BY <1>6
  <1> HIDE DEF r, w, a, f
  <1>11. 0 * w + w <= r * w
    BY <1>8, OneServiceLess
  <1>12. (a - 1) * w + w = a * w /\ a * w \in Int /\ r * w \in Int /\ 0 * w = 0
         /\ (a - 1) * w \in Int
    BY <1>8
  <1> QED BY <1>2, <1>8, <1>9, <1>10, <1>11, <1>12

(* In a connected, loss-free neighbourhood without erasure, whatever the   *)
(* numbers of nodes and discoveries and however requests compete for the   *)
(* windows of ProcessRequestBuffer, every node that was there from the     *)
(* start and is under way learns of a discovery within ServiceBound        *)
(* seconds, as long as its finder is under way.                            *)
THEOREM ServedWithinBoundHolds ==
    ASSUME ~Lossy, ~UseEraseInfo
    PROVE  Spec => []ServedWithinBound
  <1> DEFINE Known == TypeOK /\ Provenance /\ WindowConsistent /\ HelloChainAlive
             Shown == PacketsFresh /\ IdsUsed /\ StillHeld /\ EvacueeDue /\ FindsCounted
  <1>1. Init => Shown /\ WasteCounted /\ AllOnTrack
    BY ServiceInit
  <1>2. Known /\ Known' /\ Shown /\ [Next]_vars => Shown'
    BY PacketsFreshStep, IdsUsedStep, StillHeldStep, EvacueeDueStep, FindsCountedStep
  <1>3. Known /\ Shown => Background
    BY DEF Background
  <1>4. Background => FreshStart
    BY FreshStartHolds
  <1>5. Background /\ Background' /\ WasteCounted /\ [Next]_vars => WasteCounted'
    BY WasteCountedStep
  <1>6. /\ Background /\ Background' /\ FreshStart' /\ WasteCounted' /\ AllOnTrack
        /\ [Next]_vars
        => AllOnTrack'
    BY AllOnTrackStep
  <1>7. Background /\ AllOnTrack => ServedWithinBound
    BY OnTrackInTime
  <1>8. Spec => []Known
    BY TypeCorrect, ProvenanceHolds, WindowsConsistent, HelloChainNeverBreaks, PTL
  <1> HIDE DEF Known, Shown
  <1>9. Spec => []Background
    BY <1>1, <1>2, <1>3, <1>8, PTL DEF Spec
  <1> QED BY <1>1, <1>4, <1>5, <1>6, <1>7, <1>9, PTL DEF Spec
==============================================================================
