----------------------------- MODULE MapUpdate -----------------------------
(* JSON_Data::update_mapinfo closes and reopens roads, and sets and erases *)
(* places to rescue people from and congested places, as the files of the  *)
(* field say (MyBuilding::SetBlockedNodes, EraseBlockedNodes and the like). *)
(* It runs once in every interval of the map; the files are named by the   *)
(* time, that is by the number of the update.                              *)
EXTENDS Integers, Sequences, SequencesExt

CONSTANTS
    Name,         \* nodes named in the files
    MaxFile,      \* bound: files exist for the updates 1 .. MaxFile
    NoFile,       \* there is no file for an update
    Fields,       \* the files a field may have
    Modes         \* the settings considered for erasing

Kind == {"block", "rescue", "congestion"}

File == [1 .. MaxFile -> Seq(Name) \cup {NoFile}]

ASSUME FileAssumption ==
    /\ MaxFile \in Nat \ {0} /\ NoFile \notin Seq(Name)
    /\ Fields \subseteq [Kind -> [set : File, erase : File]]
    /\ Modes \subseteq [Kind -> SUBSET {"file", "random"}]

VARIABLES
    files,        \* the files of the field
    erasing,      \* how a kind is erased: by "file", at "random"
    updateNum,    \* update_num, up to MaxFile + 1
    new,          \* blocked_nodes, rescue_nodes, congestion_nodes
    erased,       \* erase_nodes and the like: all names read so far
    now,          \* now_blocked, now_rescue, now_congestion
    flagged       \* nodes with isBlocked, need_rescue, iscongestion

fields == << files, erasing >>
muVars == << files, erasing, updateNum, new, erased, now, flagged >>

MUTypeOK ==
    /\ files \in [Kind -> [set : File, erase : File]]
    /\ erasing \in [Kind -> SUBSET {"file", "random"}]
    /\ updateNum \in 0 .. MaxFile + 1
    /\ new \in [Kind -> Seq(Name)] /\ now \in [Kind -> Seq(Name)]
    /\ erased \in [Kind -> SUBSET Name] /\ flagged \in [Kind -> SUBSET Name]

MUInit ==
    /\ files \in Fields /\ erasing \in Modes
    /\ updateNum = 0
    /\ new = [k \in Kind |-> << >>] /\ now = [k \in Kind |-> << >>]
    /\ erased = [k \in Kind |-> {}] /\ flagged = [k \in Kind |-> {}]

-----------------------------------------------------------------------------
Without(seq, S) ==
    LET kept[i \in 0 .. Len(seq)] ==
          IF i = 0 THEN << >>
          ELSE IF seq[i] \in S THEN kept[i - 1] ELSE Append(kept[i - 1], seq[i])
    IN  kept[Len(seq)]

FileAt(f, u) == IF u \in 1 .. MaxFile THEN f[u] ELSE NoFile

NamesIn(f, u) == IF FileAt(f, u) = NoFile THEN {} ELSE ToSet(FileAt(f, u))

(* SetBlockedNodes and the like: a file adds to the names of the files     *)
(* just before it; without a file they are forgotten.                      *)
Loaded(k, u) ==
    IF FileAt(files[k].set, u) = NoFile THEN << >>
    ELSE new[k] \o FileAt(files[k].set, u)

(* EraseBlockedNodes and the like: the names read are never forgotten. *)
Erased(k, u) == erased[k] \cup NamesIn(files[k].erase, u)

PopsOnly(u) ==                            \* mutant: the block released stays flagged
    LET list == Loaded("block", u)
        was == now["block"]
        pop == "random" \in erasing["block"] /\ u > 1 /\ was # << >>
    IN  [new |-> list, erased |-> erased["block"],
         now |-> (IF pop THEN Front(was) ELSE was) \o list,
         flagged |-> flagged["block"] \cup ToSet(list)]

ReleasesThenSets(u) ==                    \* mutant: new blocks come after the release
    LET list == Loaded("block", u)
        byFile == "file" \in erasing["block"] /\ u > 1 /\ now["block"] # << >>
        gone == IF byFile THEN Erased("block", u) ELSE {}
    IN  [new |-> list, erased |-> erased["block"] \cup gone,
         now |-> Without(now["block"], gone) \o list,
         flagged |-> (flagged["block"] \ gone) \cup ToSet(list)]

(* Blocks.  At random: the last of now_blocked is released.  By file: the  *)
(* names read, and they replace the one released at random.  Both look at  *)
(* the list before the new blocks come to it.                              *)
BlocksUpdated(u) ==
    LET list == Loaded("block", u)
        was == now["block"]
        pop == "random" \in erasing["block"] /\ u > 1 /\ was # << >>
        left == IF pop THEN Front(was) ELSE was
        byFile == "file" \in erasing["block"] /\ u > 1 /\ left # << >>
        gone == IF byFile THEN Erased("block", u) ELSE IF pop THEN {Last(was)} ELSE {}
    IN  [new     |-> IF byFile THEN Without(list, NamesIn(files["block"].erase, u)) ELSE list,
         erased  |-> IF byFile THEN Erased("block", u) ELSE erased["block"],
         now     |-> (IF byFile THEN Without(left, gone) ELSE left) \o list,
         flagged |-> (flagged["block"] \cup ToSet(list)) \ gone]

EraseThenSet(k, u) ==                     \* mutant: marks are erased before new ones come
    LET list == Loaded(k, u)
        byFile == "file" \in erasing[k] /\ u > 1 /\ now[k] # << >>
        gone == IF byFile THEN Erased(k, u) ELSE {}
    IN  [new |-> list, erased |-> IF byFile THEN Erased(k, u) ELSE erased[k],
         now |-> Without(now[k], gone) \o list,
         flagged |-> (flagged[k] \cup ToSet(list)) \ gone]

(* Places to rescue people from, and congested places: erased only by      *)
(* file, after the new ones have come.                                     *)
MarksUpdated(k, u) ==
    LET list == Loaded(k, u)
        byFile == "file" \in erasing[k] /\ u > 1 /\ now[k] # << >>
        gone == IF byFile THEN Erased(k, u) ELSE {}
    IN  [new     |-> IF byFile THEN Without(list, NamesIn(files[k].erase, u)) ELSE list,
         erased  |-> IF byFile THEN Erased(k, u) ELSE erased[k],
         now     |-> Without(now[k] \o list, gone),
         flagged |-> (flagged[k] \cup ToSet(list)) \ gone]

Updated(k, u) == IF k = "block" THEN BlocksUpdated(u) ELSE MarksUpdated(k, u)

(* After the last file the number of the update makes no difference. *)
UpdateMapinfo ==
    /\ LET u == updateNum + 1 IN
       /\ new' = [k \in Kind |-> Updated(k, u).new]
       /\ erased' = [k \in Kind |-> Updated(k, u).erased]
       /\ now' = [k \in Kind |-> Updated(k, u).now]
       /\ flagged' = [k \in Kind |-> Updated(k, u).flagged]
    /\ updateNum' = IF updateNum <= MaxFile THEN updateNum + 1 ELSE updateNum
    /\ UNCHANGED fields

(* The timer is armed again by every update. *)
MUSpec == MUInit /\ [][UpdateMapinfo]_muVars /\ WF_muVars(UpdateMapinfo)

-----------------------------------------------------------------------------
(* A schedule that erases only what was set before, and sets it no more. *)
Sensible(f) ==
    \A u \in 1 .. MaxFile : \A n \in NamesIn(f.erase, u) :
        /\ \E v \in 1 .. u - 1 : n \in NamesIn(f.set, v)
        /\ \A v \in u .. MaxFile : n \notin NamesIn(f.set, v)

SoFar(f) == UNION {NamesIn(f, u) : u \in 1 .. updateNum}

(* With such a schedule the map shows after every update what has been set *)
(* and not erased until then, although names of earlier files are set      *)
(* again and names once erased are erased again.                           *)
FollowsSchedule ==
    \A k \in Kind : erasing[k] = {"file"} /\ Sensible(files[k])
        => flagged[k] = SoFar(files[k].set) \ SoFar(files[k].erase)

(* What is flagged is on the list that decides whether anything is left to *)
(* release, so that no block is out of reach of the release.  For blocks   *)
(* this needs one way of erasing: with both, the block taken off the list  *)
(* at random is replaced by the names of the file and stays closed.        *)
FlaggedListed ==
    /\ \A k \in Kind \ {"block"} : flagged[k] = ToSet(now[k])
    /\ erasing["block"] # {"file", "random"} => flagged["block"] \subseteq ToSet(now["block"])

(* Released at random, one at a time, all blocks are gone in the end,      *)
(* however often a block is listed.                                        *)
RandomReleasesAll ==
    erasing["block"] = {"random"} => <>[](flagged["block"] = {})
=============================================================================
