SPECIFICATION FairSpec
CONSTANTS
  Ferry = {1, 2}
  User = {u1}
  Shelter = {1, 2}
  Crossing = {11, 12, 13, 14}
  Block = {20, 21, 22}
  Ways <- WaysAround
  ShelterRound <- MCShelterRound
  ImpactRoute <- MCImpactRoute
  Rank <- MCRank
  StartIndex <- MCStartIndex
  IndexModulus = 16
  MaxNow = 1
INVARIANTS
  ModeConsistent
  ReadsOnlyShelters
PROPERTIES
  BlockTakenOn
  PatrolCovered
  EveryShelterRead
