SPECIFICATION EvSpec
CONSTANTS
  EvcUser = {1}
  AddUser = {2, 3}
  Node <- Town
  Crossing <- TownCrossings
  Shelter <- TownShelters
  Capacity <- Places
  Route <- TownRoute
  Dist <- TownDist
  Turn <- TurnAt
  Start <- Origins
  UseExitInfo = TRUE
  WordSize = 16
  NoNode = "none"
INVARIANTS
  CountsUsers
