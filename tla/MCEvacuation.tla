---------------------------- MODULE MCEvacuation ----------------------------
(* A small town for TLC: the dead-end shelter "d", the crossing "a", and   *)
(* the shelters "b" and "c", which are crossings, on one line d-a-b-c.     *)
(* Who finds "b" full passes it on the way to "c" or to "d".               *)
EXTENDS Evacuation

Town == {"a", "b", "c", "d"}
TownCrossings == {"a", "b", "c"}
TownShelters == {"b", "c", "d"}
Places == [s \in TownShelters |-> 1]
TurnAt == [n \in {"d"} |-> "a"]

Line == << "d", "a", "b", "c" >>
Metre == [n \in Town |->
    CASE n = "d" -> 0 [] n = "a" -> 1 [] n = "b" -> 3 [] n = "c" -> 5]
PosOf(n) == CHOOSE i \in 1 .. 4 : Line[i] = n

TownRoute == [c \in TownCrossings |-> [s \in TownShelters |->
    LET i == PosOf(c)  j == PosOf(s)
    IN  IF i <= j THEN SubSeq(Line, i, j)
        ELSE [k \in 1 .. i - j + 1 |-> Line[i - k + 1]]]]
TownDist == [c \in TownCrossings |-> [s \in TownShelters |->
    IF Metre[c] <= Metre[s] THEN Metre[s] - Metre[c] ELSE Metre[c] - Metre[s]]]

(* Two evacuees compete for "b"; one comes from "d", one from "c". *)
Origins == [u \in User |->
    CASE u = 1 -> "c" [] u = 2 -> "b" [] u = 3 -> "b" [] u = 4 -> "d"]

-----------------------------------------------------------------------------
(* What evacuation-building.h says of moving_user_num: for each shelter    *)
(* the number of users now heading for it, so at most all of them.         *)
CountsUsers == \A s \in Shelter : movingNum[s] <= Cardinality(User)
=============================================================================
