---------------------------- MODULE MCFerryRivals ----------------------------
(* The ferries of MCFerryPatrol, with a record of what a patrolling ferry  *)
(* was told by the Hellos of others: the block that the sender patrolled,  *)
(* and since when.                                                         *)
EXTENDS MCFerryPatrol

VARIABLE told       \* history: areas and starts of the senders heard by a ferry

Patrol(g) == [area |-> area[g], start |-> start[g]]

Tells(f, g) ==
    /\ RecvHello(f, g)
    /\ told' = [told EXCEPT ![f] =
                   IF switched[f] /\ switched[g] THEN @ \cup {Patrol(g)} ELSE @]

RivalsInit == Init /\ told = [f \in Ferry |-> {}]

RivalsNext ==
    \/ ~aborted /\ \E f, g \in Ferry : f # g /\ Tells(f, g)
    \/ Next /\ UNCHANGED told

RivalsSpec == RivalsInit /\ [][RivalsNext]_<< vars, told >>

(* What the comment before ChangePatrolRoute in RecvHello says of it: it   *)
(* notices that a time earlier than one's own is on record, and leaves.    *)
(* A ferry that hears on its patrol a Hello of another one, which has      *)
(* patrolled the same block since an earlier second, is not on that patrol *)
(* after it.                                                               *)
YieldsToEarlier ==
    \A f \in Ferry : \A p \in told[f] :
        switched[f] /\ p.area = area[f] => ~(0 < p.start /\ p.start < start[f])
==============================================================================
