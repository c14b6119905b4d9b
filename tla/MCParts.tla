------------------------------ MODULE MCParts ------------------------------
(* Three parts of the program that share no state with each other, each on *)
(* its own small instances: the searches for shortest ways (MCRoutes), the *)
(* evacuees and the places of the shelters (MCEvacuation), and the updates *)
(* of the map (MCMapUpdate).  A behaviour runs one of them; the others     *)
(* stay as they are at the start.                                          *)
EXTENDS MCRoutes, MCEvacuation, MCMapUpdate

VARIABLE part

everything == << part, all, evVars, muVars >>

(* A part that does not run starts in one state only. *)
NoSearch ==
    /\ roads = Entries(Vertex, [p \in Vertex \X Vertex |-> 0])
    /\ no = 1 /\ open = {}

NoUpdates ==
    /\ files = [k \in Kind |-> NoFiles]
    /\ erasing = [k \in Kind |-> {}]

PartsInit ==
    /\ EvInit
    /\ \/ part = "routes" /\ NoUpdates /\ MUInit /\ MCInit
       \/ part = "town" /\ NoUpdates /\ MUInit /\ NoSearch /\ MCInit
       \/ /\ part = "updates" /\ NoSearch /\ MCInit /\ MUInit
          /\ files["rescue"] # NoFiles => "random" \notin erasing["block"]
          /\ "file" \in erasing["block"] \/ \A k \in Kind : files[k].erase = Nothing

InRoutes(step) == part = "routes" /\ step /\ UNCHANGED << part, evVars, muVars >>

InTown(step) == part = "town" /\ step /\ UNCHANGED << part, all, muVars >>

InUpdates(step) == part = "updates" /\ step /\ UNCHANGED << part, all, evVars >>

PartsNext == InRoutes(MCNext) \/ InTown(EvNext) \/ InUpdates(UpdateMapinfo)

(* The fairness of each part: the loop goes on, the timers of the users    *)
(* and of the map are armed again.                                         *)
PartsSpec ==
    /\ PartsInit /\ [][PartsNext]_everything
    /\ WF_everything(InRoutes(Search))
    /\ \A u \in User : WF_everything(InTown(HandleUserMovement(u)))
    /\ \A u \in EvcUser : WF_everything(InTown(CheckMovingUserNum(u)))
    /\ WF_everything(InUpdates(UpdateMapinfo))

-----------------------------------------------------------------------------
(* The loop that runs "while(true)" ends: every round settles a vertex,    *)
(* and without one the look-up of the vertex of the round before fails.    *)
SearchEnds == part = "routes" => <>Ended

(* Every user under way reaches a shelter: its search for one with room    *)
(* ends, however often the nearest is full on arrival and however often    *)
(* news makes it calculate anew.  (The program ends early only when all    *)
(* places are taken: AbortsOnlyWhenFull.)                                  *)
AllEvacuate ==
    part = "town" =>
        <>[](aborted \/ \A u \in User : usr[u].started => usr[u].isExit)
=============================================================================
