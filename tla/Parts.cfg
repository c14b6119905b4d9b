SPECIFICATION PartsSpec
CONSTANTS
  \* the searches
  Vertex = {1, 2, 3, 4}
  Listed = {3, 4}
  Exits = {1, 2, 3, 4}
  Lengths = {0, 1, 3}
  Maps <- SmallMaps
  INF = 100
  Dummy = Dummy
  \* the town
  EvcUser = {1, 2}
  AddUser = {3, 4}
  Node <- Town
  Crossing <- TownCrossings
  Shelter <- TownShelters
  Capacity <- Places
  Route <- TownRoute
  Dist <- TownDist
  Turn <- TurnAt
  Start <- Origins
  UseExitInfo = TRUE
  WordSize = 16
  NoNode = "none"
  \* the updates
  Name = {n1, n2}
  MaxFile = 3
  NoFile = NoFile
  Fields <- OneKind
  Modes <- OneMode
INVARIANTS
  Certified
  FindsNearest
  PairCertified
  StoredIsShortest
  RoundIsGreedy
  SpaceAccounted
  MarksJustified
  AbortsOnlyWhenFull
  RefugeIsTarget
  SumConserved
  FollowsSchedule
  FlaggedListed
PROPERTIES
  SearchEnds
  AllEvacuate
  RandomReleasesAll
