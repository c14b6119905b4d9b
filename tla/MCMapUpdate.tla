---------------------------- MODULE MCMapUpdate ----------------------------
(* Every schedule of files for one of the kinds, every setting for erasing. *)
EXTENDS MapUpdate

Lists == {NoFile, << >>} \cup {<< n >> : n \in Name} \cup {SetToSeq(Name)}

(* An empty list of names to erase is as good as no file. *)
Schedules ==
    [set : [1 .. MaxFile -> Lists], erase : [1 .. MaxFile -> Lists \ {<< >>}]]

Nothing == [u \in 1 .. MaxFile |-> NoFile]
NoFiles == [set |-> Nothing, erase |-> Nothing]

OneKind ==
    {[k \in Kind |-> IF k = j THEN s ELSE NoFiles] :
        j \in {"block", "rescue"}, s \in Schedules}

(* Only blocks are released at random. *)
OneMode ==
    {[k \in Kind |-> IF k = "block" THEN m ELSE m \ {"random"}] :
        m \in SUBSET {"file", "random"}}
=============================================================================
