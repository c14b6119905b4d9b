--------------------------- MODULE MapUpdateProofs ---------------------------
(* Proofs about MapUpdate, for any nodes, any files and any settings.      *)
EXTENDS MapUpdate, DataInduction

(* What the update needs to know about the lists.                          *)
LEMMA ToSetConcat ==
    ASSUME NEW T, NEW a \in Seq(T), NEW b \in Seq(T)
    PROVE  a \o b \in Seq(T) /\ ToSet(a \o b) = ToSet(a) \cup ToSet(b)
  <1>1. \A i \in 1 .. Len(a) + Len(b) :
           (a \o b)[i] = IF i <= Len(a) THEN a[i] ELSE b[i - Len(a)]
    OBVIOUS
  <1>2. ToSet(a \o b) \subseteq ToSet(a) \cup ToSet(b)
    BY <1>1 DEF ToSet
  <1>3. ASSUME NEW i \in DOMAIN a PROVE a[i] \in ToSet(a \o b)
    BY <1>1 DEF ToSet
  <1>4. ASSUME NEW i \in DOMAIN b PROVE b[i] \in ToSet(a \o b)
    <2>1. i + Len(a) \in DOMAIN (a \o b) /\ (a \o b)[i + Len(a)] = b[i]
      BY <1>1
    <2> QED BY <2>1 DEF ToSet
  <1>5. a \o b \in Seq(T)
    OBVIOUS
  <1>6. ToSet(a) \subseteq ToSet(a \o b) /\ ToSet(b) \subseteq ToSet(a \o b)
    BY <1>3, <1>4, Zenon DEF ToSet
  <1> QED BY <1>2, <1>5, <1>6

LEMMA ToSetAppend ==
    ASSUME NEW T, NEW a \in Seq(T), NEW x \in T
    PROVE  Append(a, x) \in Seq(T) /\ ToSet(Append(a, x)) = ToSet(a) \cup {x}
  <1>1. /\ Append(a, x) \in Seq(T) /\ DOMAIN Append(a, x) = 1 .. Len(a) + 1
        /\ Append(a, x)[Len(a) + 1] = x
        /\ \A i \in 1 .. Len(a) : Append(a, x)[i] = a[i]
    OBVIOUS
  <1>2. DOMAIN a = 1 .. Len(a) /\ Len(a) \in Nat
    OBVIOUS
  <1> HIDE DEF Append
  <1>3. ASSUME NEW i \in 1 .. Len(a) + 1 PROVE Append(a, x)[i] \in ToSet(a) \cup {x}
    <2>1. i \in 1 .. Len(a) \/ i = Len(a) + 1
      BY <1>2
    <2> QED BY <1>1, <1>2, <2>1 DEF ToSet
  <1>4. \A i \in 1 .. Len(a) : i \in 1 .. Len(a) + 1
    BY <1>2
  <1>5. Len(a) + 1 \in 1 .. Len(a) + 1
    BY <1>2
  <1> QED BY <1>1, <1>2, <1>3, <1>4, <1>5 DEF ToSet

LEMMA FrontSet ==
    ASSUME NEW T, NEW a \in Seq(T), a # << >>
    PROVE  /\ Front(a) \in Seq(T) /\ Last(a) \in T
           /\ ToSet(a) = ToSet(Front(a)) \cup {Last(a)}
  <1>1. PICK n \in Nat : n = Len(a) /\ n # 0 /\ DOMAIN a = 1 .. n
    OBVIOUS
  <1>2. /\ Front(a) \in Seq(T) /\ DOMAIN Front(a) = 1 .. n - 1
        /\ \A i \in 1 .. n - 1 : Front(a)[i] = a[i]
    BY <1>1 DEF Front
  <1>3. Last(a) = a[n] /\ Last(a) \in T
    BY <1>1 DEF Last
  <1>4. \A i \in 1 .. n : i \in 1 .. n - 1 \/ i = n
    OBVIOUS
  <1>5. n \in 1 .. n /\ \A i \in 1 .. n - 1 : i \in 1 .. n
    BY <1>1
  <1>6. ASSUME NEW i \in 1 .. n PROVE a[i] \in ToSet(Front(a)) \cup {Last(a)}
    BY <1>2, <1>3, <1>4 DEF ToSet
  <1>7. ToSet(a) \subseteq ToSet(Front(a)) \cup {Last(a)}
    BY <1>1, <1>6 DEF ToSet
  <1>8. ASSUME NEW i \in 1 .. n - 1 PROVE Front(a)[i] \in ToSet(a)
    BY <1>1, <1>2, <1>5 DEF ToSet
  <1>9. Last(a) \in ToSet(a)
    BY <1>1, <1>3, <1>5 DEF ToSet
  <1>10. ToSet(Front(a)) \subseteq ToSet(a)
    BY <1>2, <1>8 DEF ToSet
  <1> QED BY <1>2, <1>3, <1>7, <1>9, <1>10

(* Without takes the names of S, and only them, off a list.                *)
LEMMA WithoutSet ==
    ASSUME NEW T, NEW s \in Seq(T), NEW S
    PROVE  Without(s, S) \in Seq(T) /\ ToSet(Without(s, S)) = ToSet(s) \ S
  <1> DEFINE V == Seq(T)
             n == Len(s)
             Eqn(f) == f = [i \in 0 .. n |->
                IF i = 0 THEN << >>
                ELSE IF s[i] \in S THEN f[i - 1] ELSE Append(f[i - 1], s[i])]
             kept == CHOOSE f : Eqn(f)
             step == [i \in Nat |-> [q \in V |->
                IF i \notin 1 .. n \/ s[i] \in S THEN q ELSE Append(q, s[i])]]
  <1>0. n \in Nat /\ DOMAIN s = 1 .. n /\ \A i \in 1 .. n : s[i] \in T
    OBVIOUS
  <1>1. \E f : Eqn(f)
    <2>1. step \in StepRules(V) /\ << >> \in V
      BY <1>0 DEF StepRules
    <2>2. PICK f : Stepwise(f, V, << >>, step, n)
      <3> HIDE DEF step, n, V
      <3> QED BY <1>0, <2>1, StepwiseFunction
    <2>3. /\ f \in [0 .. n -> V] /\ f[0] = << >>
          /\ \A i \in 1 .. n : f[i] = step[i][f[i - 1]]
      <3> HIDE DEF step, n, V
      <3> QED BY <2>2 DEF Stepwise
    <2>4. ASSUME NEW i \in 1 .. n
          PROVE  f[i] = IF s[i] \in S THEN f[i - 1] ELSE Append(f[i - 1], s[i])
      <3>1. f[i - 1] \in Seq(T) /\ i \in Nat
        BY <1>0, <2>3
      <3> QED BY <2>3, <3>1
    <2>5. \A i \in 0 .. n : i = 0 \/ i \in 1 .. n
      BY <1>0
    <2>6. Eqn(f)
      <3> HIDE DEF n
      <3> QED BY <2>3, <2>4, <2>5
    <2> QED BY <2>6
  <1>2. Eqn(kept)
    BY <1>1
  <1>3. Without(s, S) = kept[n]
    BY DEF Without
  <1> DEFINE G == {i \in 0 .. n : /\ kept[i] \in Seq(T)
                                  /\ ToSet(kept[i]) = {s[j] : j \in 1 .. i} \ S}
  <1>4. 0 \in G
    <2>1. 0 \in 0 .. n
      BY <1>0
    <2> HIDE DEF kept, n
    <2>2. kept[0] = << >>
      BY <1>2, <2>1
    <2>3. 1 .. 0 = {}
      OBVIOUS
    <2>4. << >> \in Seq(T) /\ ToSet(<< >>) = {}
      BY DEF ToSet
    <2>5. {s[j] : j \in 1 .. 0} = {}
      BY <2>3
    <2> QED BY <2>1, <2>2, <2>4, <2>5
  <1>5. ASSUME NEW i \in 0 .. n - 1, i \in G PROVE i + 1 \in G
    <2>1. i + 1 \in 1 .. n /\ i + 1 \in 0 .. n /\ i + 1 # 0 /\ (i + 1) - 1 = i
      BY <1>0
    <2>2. kept[i + 1] = IF s[i + 1] \in S THEN kept[i] ELSE Append(kept[i], s[i + 1])
      <3> HIDE DEF kept, n
      <3> QED BY <1>2, <2>1
    <2>3. s[i + 1] \in T
      BY <1>0, <2>1
    <2>4. {s[j] : j \in 1 .. i + 1} = {s[j] : j \in 1 .. i} \cup {s[i + 1]}
      BY <1>0
    <2>5. kept[i] \in Seq(T) /\ ToSet(kept[i]) = {s[j] : j \in 1 .. i} \ S
      BY <1>5
    <2> HIDE DEF kept, n
    <2>6. CASE s[i + 1] \in S
      BY <2>1, <2>2, <2>4, <2>5, <2>6
    <2>7. CASE s[i + 1] \notin S
      <3>1. /\ Append(kept[i], s[i + 1]) \in Seq(T)
            /\ ToSet(Append(kept[i], s[i + 1])) = ToSet(kept[i]) \cup {s[i + 1]}
        BY <2>3, <2>5, ToSetAppend
      <3>2. kept[i + 1] = Append(kept[i], s[i + 1])
        BY <2>2, <2>7
      <3>3. /\ kept[i + 1] \in Seq(T)
            /\ ToSet(kept[i + 1]) = {s[j] : j \in 1 .. i + 1} \ S
        BY <2>4, <2>5, <2>7, <3>1, <3>2
      <3> QED BY <2>1, <3>3
    <2> QED BY <2>6, <2>7
  <1>6. n \in G
    <2> HIDE DEF G, n
    <2>1. 0 .. n \subseteq G
      BY <1>0, <1>4, <1>5, UpTo
    <2> QED BY <1>0, <2>1
  <1>7. ToSet(s) = {s[j] : j \in 1 .. n}
    BY <1>0 DEF ToSet
  <1> HIDE DEF kept, n
  <1> QED BY <1>3, <1>6, <1>7
-----------------------------------------------------------------------------
(* The files and the lists read from them.                                 *)

(* The names of a file are nodes.                                          *)
LEMMA FileNames ==
    ASSUME NEW f \in File, NEW u \in Nat
    PROVE  /\ NamesIn(f, u) \subseteq Name
           /\ FileAt(f, u) # NoFile => /\ FileAt(f, u) \in Seq(Name)
                                       /\ NamesIn(f, u) = ToSet(FileAt(f, u))
           /\ FileAt(f, u) = NoFile => NamesIn(f, u) = {}
           /\ u > MaxFile => NamesIn(f, u) = {}
  <1>1. FileAt(f, u) # NoFile => FileAt(f, u) \in Seq(Name)
    BY FileAssumption DEF FileAt, File
  <1>2. ASSUME NEW s \in Seq(Name) PROVE ToSet(s) \subseteq Name
    BY DEF ToSet
  <1>3. u > MaxFile => FileAt(f, u) = NoFile
    BY FileAssumption DEF FileAt
  <1> QED BY <1>1, <1>2, <1>3 DEF NamesIn

(* The names to set: those of the new file and some of the files before.   *)
LEMMA LoadedNames ==
    ASSUME MUTypeOK, NEW k \in Kind, NEW u \in Nat
    PROVE  /\ Loaded(k, u) \in Seq(Name)
           /\ NamesIn(files[k].set, u) \subseteq ToSet(Loaded(k, u))
           /\ ToSet(Loaded(k, u)) \subseteq ToSet(new[k]) \cup NamesIn(files[k].set, u)
  <1>1. files[k].set \in File /\ new[k] \in Seq(Name)
    BY DEF MUTypeOK
  <1>2. CASE FileAt(files[k].set, u) = NoFile
    <2>1. Loaded(k, u) = << >> /\ NamesIn(files[k].set, u) = {}
      BY <1>1, <1>2, FileNames DEF Loaded
    <2>2. << >> \in Seq(Name) /\ ToSet(<< >>) = {}
      BY DEF ToSet
    <2> QED BY <2>1, <2>2
  <1>3. CASE FileAt(files[k].set, u) # NoFile
    <2>1. Loaded(k, u) = new[k] \o FileAt(files[k].set, u)
      BY <1>3 DEF Loaded
    <2>2. /\ FileAt(files[k].set, u) \in Seq(Name)
          /\ NamesIn(files[k].set, u) = ToSet(FileAt(files[k].set, u))
      BY <1>1, <1>3, FileNames
    <2> QED BY <1>1, <2>1, <2>2, ToSetConcat
  <1> QED BY <1>2, <1>3

(* What an update makes of the marks of one kind: list are the names set,  *)
(* gone those released.                                                    *)
Marked(k, u, list, gone) ==
    /\ ToSet(new'[k]) \subseteq list
    /\ flagged'[k] = (flagged[k] \cup list) \ gone
    /\ k = "block" /\ erasing[k] # {"file", "random"} =>
         ToSet(now[k]) \cup list \subseteq ToSet(now'[k]) \cup gone
    /\ k # "block" => ToSet(now'[k]) = (ToSet(now[k]) \cup list) \ gone

(* The update by file of what is erased by file only.                      *)
ByFile(k, u) ==
    /\ u > 1 /\ now[k] # << >>
    /\ erased'[k] = Erased(k, u)
    /\ ToSet(new'[k]) \cap NamesIn(files[k].erase, u) = {}

Kept(k, u) ==
    /\ u <= 1 \/ now[k] = << >>
    /\ erased'[k] = erased[k]

(* Places to rescue people from and congested places.                      *)
LEMMA MarksStep ==
    ASSUME MUTypeOK, UpdateMapinfo, NEW k \in Kind \ {"block"},
           NEW u \in Nat, u = updateNum + 1
    PROVE  /\ new'[k] \in Seq(Name) /\ now'[k] \in Seq(Name)
           /\ erased'[k] \subseteq Name
           /\ \E gone : /\ Marked(k, u, ToSet(Loaded(k, u)), gone)
                        /\ erasing[k] = {"file"} =>
                             \/ ByFile(k, u) /\ gone = Erased(k, u)
                             \/ Kept(k, u) /\ gone = {}
  <1> DEFINE list == Loaded(k, u)
             byFile == "file" \in erasing[k] /\ u > 1 /\ now[k] # << >>
             gone == IF byFile THEN Erased(k, u) ELSE {}
             G == NamesIn(files[k].erase, u)
  <1>0. /\ list \in Seq(Name) /\ now[k] \in Seq(Name) /\ erased[k] \subseteq Name
        /\ files[k].erase \in File
    BY LoadedNames DEF MUTypeOK
  <1>1. /\ new'[k] = IF byFile THEN Without(list, G) ELSE list
        /\ erased'[k] = IF byFile THEN Erased(k, u) ELSE erased[k]
        /\ now'[k] = Without(now[k] \o list, gone)
        /\ flagged'[k] = (flagged[k] \cup ToSet(list)) \ gone
    BY DEF UpdateMapinfo, Updated, MarksUpdated
  <1>2. Erased(k, u) \subseteq Name
    BY <1>0, FileNames DEF Erased
  <1>3. now[k] \o list \in Seq(Name) /\ ToSet(now[k] \o list) = ToSet(now[k]) \cup ToSet(list)
    BY <1>0, ToSetConcat
  <1>4. /\ Without(now[k] \o list, gone) \in Seq(Name)
        /\ ToSet(Without(now[k] \o list, gone)) = (ToSet(now[k]) \cup ToSet(list)) \ gone
    <2> DEFINE both == now[k] \o list
    <2> HIDE DEF both, gone
    <2>1. /\ Without(both, gone) \in Seq(Name)
          /\ ToSet(Without(both, gone)) = ToSet(both) \ gone
      BY <1>3, WithoutSet DEF both
    <2> QED BY <1>3, <2>1 DEF both
  <1>5. Without(list, G) \in Seq(Name) /\ ToSet(Without(list, G)) = ToSet(list) \ G
    BY <1>0, WithoutSet
  <1>6. Marked(k, u, ToSet(list), gone)
    <2> HIDE DEF list, gone, G, byFile
    <2> QED BY <1>1, <1>4, <1>5 DEF Marked
  <1>7. erasing[k] = {"file"} => \/ ByFile(k, u) /\ gone = Erased(k, u)
                                 \/ Kept(k, u) /\ gone = {}
    <2>1. CASE byFile
      <3>1. ToSet(new'[k]) \cap G = {} /\ erased'[k] = Erased(k, u)
        BY <1>1, <1>5, <2>1
      <3> QED BY <2>1, <3>1 DEF ByFile
    <2>2. CASE ~byFile
      <3>1. erased'[k] = erased[k]
        BY <1>1, <2>2
      <3>2. erasing[k] = {"file"} => u <= 1 \/ now[k] = << >>
        BY <2>2
      <3> QED BY <2>2, <3>1, <3>2 DEF Kept
    <2> QED BY <2>1, <2>2
  <1>8. new'[k] \in Seq(Name) /\ now'[k] \in Seq(Name) /\ erased'[k] \subseteq Name
    <2> HIDE DEF list, G, byFile
    <2> QED BY <1>0, <1>1, <1>2, <1>4, <1>5
  <1> HIDE DEF gone, list
  <1> QED BY <1>6, <1>7, <1>8 DEF list

(* Blocks.  The list is looked at before the new blocks come to it, and a  *)
(* block released at random is taken off it first.                         *)
LEMMA BlocksStep ==
    ASSUME MUTypeOK, UpdateMapinfo, NEW k \in Kind, k = "block",
           NEW u \in Nat, u = updateNum + 1
    PROVE  /\ new'[k] \in Seq(Name) /\ now'[k] \in Seq(Name)
           /\ erased'[k] \subseteq Name
           /\ \E gone : /\ Marked(k, u, ToSet(Loaded(k, u)), gone)
                        /\ erasing[k] = {"file"} =>
                             \/ ByFile(k, u) /\ gone = Erased(k, u)
                             \/ Kept(k, u) /\ gone = {}
  <1> DEFINE list == Loaded(k, u)
             was == now[k]
             pop == "random" \in erasing[k] /\ u > 1 /\ was # << >>
             left == IF pop THEN Front(was) ELSE was
             byFile == "file" \in erasing[k] /\ u > 1 /\ left # << >>
             gone == IF byFile THEN Erased(k, u) ELSE IF pop THEN {Last(was)} ELSE {}
             G == NamesIn(files[k].erase, u)
             rest == IF byFile THEN Without(left, gone) ELSE left
  <1>0. /\ list \in Seq(Name) /\ was \in Seq(Name) /\ erased[k] \subseteq Name
        /\ files[k].erase \in File /\ erasing[k] \subseteq {"file", "random"}
    BY LoadedNames DEF MUTypeOK
  <1>1. /\ new'[k] = IF byFile THEN Without(list, G) ELSE list
        /\ erased'[k] = IF byFile THEN Erased(k, u) ELSE erased[k]
        /\ now'[k] = rest \o list
        /\ flagged'[k] = (flagged[k] \cup ToSet(list)) \ gone
    BY DEF UpdateMapinfo, Updated, BlocksUpdated
  <1>2. Erased(k, u) \subseteq Name
    BY <1>0, FileNames DEF Erased
  <1>3. /\ left \in Seq(Name)
        /\ pop => ToSet(was) = ToSet(left) \cup {Last(was)}
        /\ ~pop => left = was
    <2> HIDE DEF was
    <2> QED BY <1>0, FrontSet
  <1>4. /\ Without(left, gone) \in Seq(Name)
        /\ ToSet(Without(left, gone)) = ToSet(left) \ gone
    <2> HIDE DEF left, gone
    <2> QED BY <1>3, WithoutSet
  <1>5. Without(list, G) \in Seq(Name) /\ ToSet(Without(list, G)) = ToSet(list) \ G
    <2> HIDE DEF list, G
    <2> QED BY <1>0, WithoutSet
  <1>6. rest \in Seq(Name) /\ ToSet(left) \subseteq ToSet(rest) \cup gone
    <2> HIDE DEF left, gone, byFile
    <2> QED BY <1>3, <1>4
  <1>7. rest \o list \in Seq(Name) /\ ToSet(rest \o list) = ToSet(rest) \cup ToSet(list)
    <2> HIDE DEF rest, list
    <2> QED BY <1>0, <1>6, ToSetConcat
  <1>8. erasing[k] # {"file", "random"} =>
           ToSet(was) \subseteq ToSet(left) \cup gone
    <2>1. CASE ~pop
      <3> HIDE DEF left, gone, pop, was
      <3> QED BY <1>3, <2>1
    <2>2. CASE pop
      <3>1. erasing[k] # {"file", "random"} => "file" \notin erasing[k]
        BY <1>0, <2>2
      <3>2. "file" \notin erasing[k] => gone = {Last(was)}
        BY <2>2
      <3> HIDE DEF left, gone, pop, was
      <3> QED BY <1>3, <2>2, <3>1, <3>2
    <2> QED BY <2>1, <2>2
  <1>9. Marked(k, u, ToSet(list), gone)
    <2>1. erasing[k] # {"file", "random"} =>
             ToSet(was) \cup ToSet(list) \subseteq ToSet(now'[k]) \cup gone
      <3> HIDE DEF left, gone, rest, was, list
      <3> QED BY <1>1, <1>6, <1>7, <1>8
    <2>2. ToSet(new'[k]) \subseteq ToSet(list)
      <3> HIDE DEF list, G, byFile
      <3> QED BY <1>1, <1>5
    <2> HIDE DEF list, gone
    <2> QED BY <1>1, <2>1, <2>2 DEF Marked
  <1>10. erasing[k] = {"file"} => \/ ByFile(k, u) /\ gone = Erased(k, u)
                                  \/ Kept(k, u) /\ gone = {}
    <2> SUFFICES ASSUME erasing[k] = {"file"}
                 PROVE  \/ ByFile(k, u) /\ gone = Erased(k, u)
                        \/ Kept(k, u) /\ gone = {}
      OBVIOUS
    <2>0. ~pop /\ left = was
      OBVIOUS
    <2>1. CASE byFile
      <3>1. ToSet(new'[k]) \cap G = {} /\ erased'[k] = Erased(k, u)
        <4> HIDE DEF list, G, byFile
        <4> QED BY <1>1, <1>5, <2>1
      <3> QED BY <2>0, <2>1, <3>1 DEF ByFile
    <2>2. CASE ~byFile
      <3>1. erased'[k] = erased[k] /\ gone = {}
        BY <1>1, <2>0, <2>2
      <3>2. u <= 1 \/ now[k] = << >>
        BY <2>0, <2>2
      <3> QED BY <3>1, <3>2 DEF Kept
    <2> QED BY <2>1, <2>2
  <1>11. new'[k] \in Seq(Name) /\ now'[k] \in Seq(Name) /\ erased'[k] \subseteq Name
    <2> HIDE DEF list, G, byFile, rest
    <2> QED BY <1>0, <1>1, <1>2, <1>5, <1>7
  <1> HIDE DEF gone, list
  <1> QED BY <1>9, <1>10, <1>11 DEF list

(* Both kinds of update.                                                   *)
LEMMA UpdateStep ==
    ASSUME MUTypeOK, UpdateMapinfo, NEW k \in Kind, NEW u \in Nat, u = updateNum + 1
    PROVE  /\ new'[k] \in Seq(Name) /\ now'[k] \in Seq(Name)
           /\ erased'[k] \subseteq Name
           /\ \E gone : /\ Marked(k, u, ToSet(Loaded(k, u)), gone)
                        /\ erasing[k] = {"file"} =>
                             \/ ByFile(k, u) /\ gone = Erased(k, u)
                             \/ Kept(k, u) /\ gone = {}
  <1>1. CASE k = "block"
    BY <1>1, BlocksStep
  <1>2. CASE k # "block"
    BY <1>2, MarksStep
  <1> QED BY <1>1, <1>2
-----------------------------------------------------------------------------
(* What a schedule has done so far is kept with the marks: the names       *)
(* erased, and those that a file sets again with its own.                  *)
Follows(k) ==
    /\ flagged[k] = SoFar(files[k].set) \ SoFar(files[k].erase)
    /\ erased[k] = SoFar(files[k].erase)
    /\ ToSet(new[k]) \subseteq flagged[k]

(* The inductive invariant.  FollowsSchedule needs FlaggedListed: names    *)
(* are not read from a file while the list is empty, and then nothing is   *)
(* left that the file could erase.                                         *)
MapInv ==
    /\ MUTypeOK /\ FlaggedListed
    /\ \A k \in Kind : erasing[k] = {"file"} /\ Sensible(files[k]) => Follows(k)

LEMMA TypeStep ==
    ASSUME MUTypeOK, UpdateMapinfo
    PROVE  MUTypeOK'
  <1>0. updateNum \in Nat /\ updateNum + 1 \in Nat
    BY FileAssumption DEF MUTypeOK
  <1>1. ASSUME NEW k \in Kind
        PROVE  /\ new'[k] \in Seq(Name) /\ now'[k] \in Seq(Name)
               /\ erased'[k] \subseteq Name /\ flagged'[k] \subseteq Name
    <2>1. PICK gone : Marked(k, updateNum + 1, ToSet(Loaded(k, updateNum + 1)), gone)
      BY <1>0, UpdateStep
    <2>2. ToSet(Loaded(k, updateNum + 1)) \subseteq Name
      <3>1. Loaded(k, updateNum + 1) \in Seq(Name)
        BY <1>0, LoadedNames
      <3> QED BY <3>1 DEF ToSet
    <2>3. flagged[k] \subseteq Name
      BY DEF MUTypeOK
    <2>4. flagged'[k] \subseteq Name
      BY <2>1, <2>2, <2>3 DEF Marked
    <2> QED BY <1>0, <2>4, UpdateStep
  <1>2. /\ new' \in [Kind -> Seq(Name)] /\ now' \in [Kind -> Seq(Name)]
        /\ erased' \in [Kind -> SUBSET Name] /\ flagged' \in [Kind -> SUBSET Name]
    <2>1. /\ new' = [k \in Kind |-> new'[k]] /\ now' = [k \in Kind |-> now'[k]]
          /\ erased' = [k \in Kind |-> erased'[k]] /\ flagged' = [k \in Kind |-> flagged'[k]]
      BY DEF UpdateMapinfo
    <2> QED BY <1>1, <2>1
  <1>3. updateNum' \in 0 .. MaxFile + 1
    BY FileAssumption DEF UpdateMapinfo, MUTypeOK
  <1>4. files' = files /\ erasing' = erasing
    BY DEF UpdateMapinfo, fields
  <1> QED BY <1>2, <1>3, <1>4 DEF MUTypeOK

LEMMA ListedStep ==
    ASSUME MUTypeOK, FlaggedListed, UpdateMapinfo
    PROVE  FlaggedListed'
  <1>0. updateNum + 1 \in Nat /\ erasing' = erasing
    BY FileAssumption DEF MUTypeOK, UpdateMapinfo, fields
  <1>1. ASSUME NEW k \in Kind \ {"block"} PROVE flagged'[k] = ToSet(now'[k])
    <2>1. PICK gone : Marked(k, updateNum + 1, ToSet(Loaded(k, updateNum + 1)), gone)
      BY <1>0, UpdateStep
    <2>2. flagged[k] = ToSet(now[k])
      BY DEF FlaggedListed
    <2> QED BY <2>1, <2>2 DEF Marked
  <1>2. ASSUME erasing["block"] # {"file", "random"}
        PROVE  flagged'["block"] \subseteq ToSet(now'["block"])
    <2>0. "block" \in Kind
      BY DEF Kind
    <2>1. PICK gone : Marked("block", updateNum + 1,
                             ToSet(Loaded("block", updateNum + 1)), gone)
      BY <1>0, <2>0, UpdateStep
    <2>2. flagged["block"] \subseteq ToSet(now["block"])
      BY <1>2 DEF FlaggedListed
    <2> QED BY <1>2, <2>1, <2>2 DEF Marked
  <1> QED BY <1>0, <1>1, <1>2 DEF FlaggedListed

(* The names read so far, one update later.                                *)
LEMMA SoFarStep ==
    ASSUME MUTypeOK, UpdateMapinfo, NEW f \in File, NEW u \in Nat, u = updateNum + 1
    PROVE  UNION {NamesIn(f, v) : v \in 1 .. updateNum'} = SoFar(f) \cup NamesIn(f, u)
  <1>1. updateNum \in 0 .. MaxFile + 1 /\ MaxFile \in Nat
    BY FileAssumption DEF MUTypeOK
  <1>2. CASE updateNum <= MaxFile
    <2>1. updateNum' = u /\ 1 .. u = (1 .. updateNum) \cup {u}
      BY <1>1, <1>2 DEF UpdateMapinfo
    <2> QED BY <2>1 DEF SoFar
  <1>3. CASE ~(updateNum <= MaxFile)
    <2>1. updateNum' = updateNum /\ u > MaxFile
      BY <1>1, <1>3 DEF UpdateMapinfo
    <2>2. NamesIn(f, u) = {}
      BY <2>1, FileNames
    <2> QED BY <2>1, <2>2 DEF SoFar
  <1> QED BY <1>2, <1>3

(* A file of a sensible schedule erases what was set before, and nothing   *)
(* erased until then is set by it.                                         *)
LEMMA SensibleFile ==
    ASSUME MUTypeOK, NEW k \in Kind, Sensible(files[k]), NEW u \in Nat, u = updateNum + 1
    PROVE  /\ NamesIn(files[k].erase, u) \subseteq SoFar(files[k].set)
           /\ NamesIn(files[k].set, u)
                \cap (SoFar(files[k].erase) \cup NamesIn(files[k].erase, u)) = {}
           /\ u <= 1 => SoFar(files[k].set) = {}
  <1>0. /\ updateNum \in 0 .. MaxFile + 1 /\ MaxFile \in Nat
        /\ files[k].set \in File /\ files[k].erase \in File
    BY FileAssumption DEF MUTypeOK
  <1>1. CASE u > MaxFile
    <2>1. NamesIn(files[k].erase, u) = {} /\ NamesIn(files[k].set, u) = {}
      BY <1>0, <1>1, FileNames
    <2>2. u <= 1 => 1 .. updateNum = {}
      BY <1>0
    <2> QED BY <2>1, <2>2 DEF SoFar
  <1>2. CASE u \in 1 .. MaxFile
    <2>1. ASSUME NEW n \in NamesIn(files[k].erase, u)
          PROVE  n \in SoFar(files[k].set) /\ n \notin NamesIn(files[k].set, u)
      <3>1. PICK v \in 1 .. u - 1 : n \in NamesIn(files[k].set, v)
        BY <1>2, <2>1 DEF Sensible
      <3>2. v \in 1 .. updateNum
        BY <1>0, <3>1
      <3>3. u \in u .. MaxFile
        BY <1>2
      <3>4. n \notin NamesIn(files[k].set, u)
        BY <1>2, <2>1, <3>3 DEF Sensible
      <3> QED BY <3>1, <3>2, <3>4 DEF SoFar
    <2>2. ASSUME NEW n \in SoFar(files[k].erase) PROVE n \notin NamesIn(files[k].set, u)
      <3>1. PICK v \in 1 .. updateNum : n \in NamesIn(files[k].erase, v)
        BY <2>2 DEF SoFar
      <3>2. v \in 1 .. MaxFile /\ u \in v .. MaxFile
        BY <1>0, <1>2, <3>1
      <3> QED BY <3>1, <3>2 DEF Sensible
    <2>3. u <= 1 => 1 .. updateNum = {}
      BY <1>0
    <2> QED BY <2>1, <2>2, <2>3 DEF SoFar
  <1> QED BY <1>0, <1>1, <1>2

LEMMA FollowsStep ==
    ASSUME MUTypeOK, FlaggedListed, UpdateMapinfo, NEW k \in Kind,
           erasing[k] = {"file"}, Sensible(files[k]), Follows(k)
    PROVE  Follows(k)'
  <1> DEFINE u == updateNum + 1
             S == SoFar(files[k].set)
             E == SoFar(files[k].erase)
             s == NamesIn(files[k].set, u)
             e == NamesIn(files[k].erase, u)
             L == ToSet(Loaded(k, u))
  <1>0. u \in Nat /\ files' = files /\ files[k].set \in File /\ files[k].erase \in File
    BY FileAssumption DEF MUTypeOK, UpdateMapinfo, fields
  <1>1. e \subseteq S /\ s \cap (E \cup e) = {} /\ (u <= 1 => S = {})
    BY <1>0, SensibleFile
  <1>2. s \subseteq L /\ L \subseteq ToSet(new[k]) \cup s
    BY <1>0, LoadedNames
  <1>3. /\ UNION {NamesIn(files[k].set, v) : v \in 1 .. updateNum'} = S \cup s
        /\ UNION {NamesIn(files[k].erase, v) : v \in 1 .. updateNum'} = E \cup e
    BY <1>0, SoFarStep
  <1>4. flagged[k] = S \ E /\ erased[k] = E /\ ToSet(new[k]) \subseteq flagged[k]
    BY DEF Follows
  <1>5. now[k] = << >> => flagged[k] = {}
    <2>1. flagged[k] \subseteq ToSet(now[k])
      BY DEF FlaggedListed
    <2>2. ToSet(<< >>) = {}
      BY DEF ToSet
    <2> QED BY <2>1, <2>2
  <1>6. PICK gone : /\ Marked(k, u, L, gone)
                    /\ \/ ByFile(k, u) /\ gone = Erased(k, u)
                       \/ Kept(k, u) /\ gone = {}
    BY <1>0, UpdateStep
  <1>7. Erased(k, u) = E \cup e
    BY <1>4 DEF Erased
  <1>8. /\ flagged'[k] = (flagged[k] \cup L) \ gone /\ ToSet(new'[k]) \subseteq L
    BY <1>6 DEF Marked
  <1> HIDE DEF S, E, s, e, L, u
  <1>9. /\ flagged'[k] = (S \cup s) \ (E \cup e) /\ erased'[k] = E \cup e
        /\ ToSet(new'[k]) \subseteq flagged'[k]
    <2>1. CASE ByFile(k, u) /\ gone = Erased(k, u)
      <3>1. erased'[k] = E \cup e /\ ToSet(new'[k]) \cap e = {}
        BY <1>7, <2>1 DEF ByFile, e
      <3> QED BY <1>1, <1>2, <1>4, <1>7, <1>8, <2>1, <3>1
    <2>2. CASE Kept(k, u) /\ gone = {}
      <3>1. erased'[k] = E /\ (u <= 1 \/ now[k] = << >>)
        BY <1>4, <2>2 DEF Kept
      <3>2. e \subseteq E
        BY <1>1, <1>4, <1>5, <3>1
      <3> QED BY <1>1, <1>2, <1>4, <1>8, <2>2, <3>1, <3>2
    <2> QED BY <1>6, <2>1, <2>2
  <1> QED BY <1>0, <1>3, <1>9 DEF Follows, SoFar

LEMMA MapInit ==
    ASSUME MUInit PROVE MapInv
  <1>1. MUTypeOK
    BY FileAssumption DEF MUInit, MUTypeOK
  <1>2. ToSet(<< >>) = {}
    BY DEF ToSet
  <1>3. FlaggedListed
    BY <1>2 DEF MUInit, FlaggedListed, Kind
  <1>4. 1 .. updateNum = {}
    BY DEF MUInit
  <1>5. ASSUME NEW k \in Kind PROVE Follows(k)
    BY <1>2, <1>4 DEF MUInit, Follows, SoFar
  <1> QED BY <1>1, <1>3, <1>5 DEF MapInv

LEMMA MapStep ==
    ASSUME MapInv, [UpdateMapinfo]_muVars PROVE MapInv'
  <1>1. CASE UpdateMapinfo
    <2>1. MUTypeOK' /\ FlaggedListed'
      BY <1>1, TypeStep, ListedStep DEF MapInv
    <2>2. files' = files /\ erasing' = erasing
      BY <1>1 DEF UpdateMapinfo, fields
    <2>3. ASSUME NEW k \in Kind, erasing'[k] = {"file"}, Sensible(files'[k])
          PROVE  Follows(k)'
      BY <1>1, <2>2, <2>3, FollowsStep DEF MapInv
    <2>4. \A k \in Kind : Sensible(files[k])' <=> Sensible(files'[k])
      BY DEF Sensible, NamesIn, FileAt
    <2> QED BY <2>1, <2>3, <2>4 DEF MapInv
  <1>2. CASE UNCHANGED muVars
    <2>1. /\ files' = files /\ erasing' = erasing /\ updateNum' = updateNum /\ new' = new
          /\ erased' = erased /\ now' = now /\ flagged' = flagged
      BY <1>2 DEF muVars
    <2>2. MUTypeOK' /\ FlaggedListed'
      BY <2>1 DEF MapInv, MUTypeOK, FlaggedListed
    <2>3. ASSUME NEW k \in Kind, erasing'[k] = {"file"}, Sensible(files'[k])
          PROVE  Follows(k)'
      <3>1. Follows(k)
        BY <2>1, <2>3 DEF MapInv
      <3> QED BY <2>1, <3>1 DEF Follows, SoFar
    <2>4. \A k \in Kind : Sensible(files[k])' <=> Sensible(files'[k])
      BY DEF Sensible, NamesIn, FileAt
    <2> QED BY <2>2, <2>3, <2>4 DEF MapInv
  <1> QED BY <1>1, <1>2

(* Every state of update_mapinfo satisfies the invariant.                  *)
THEOREM MapInvariant == MUSpec => []MapInv
  <1> QED BY MapInit, MapStep, PTL DEF MUSpec

(* The lists and marks of update_mapinfo have their types.                 *)
THEOREM MapTypeCorrect == MUSpec => []MUTypeOK
  <1>1. MapInv => MUTypeOK
    BY DEF MapInv
  <1> QED BY <1>1, MapInvariant, PTL

(* What update_mapinfo flags is on the list it looks at before releasing,  *)
(* whatever the files of the field are: no block is out of reach of its    *)
(* release unless both ways of erasing are used.                           *)
THEOREM FlaggedListedHolds == MUSpec => []FlaggedListed
  <1>1. MapInv => FlaggedListed
    BY DEF MapInv
  <1> QED BY <1>1, MapInvariant, PTL

(* With a sensible schedule of any length, the map shows after every       *)
(* update what the files set and did not erase until then, although        *)
(* update_mapinfo sets names of earlier files again and erases once more   *)
(* what it erased before.                                                  *)
THEOREM FollowsScheduleHolds == MUSpec => []FollowsSchedule
  <1>1. MapInv => FollowsSchedule
    BY DEF MapInv, FollowsSchedule, Follows
  <1> QED BY <1>1, MapInvariant, PTL
==============================================================================
