SPECIFICATION FairSpec
CONSTANTS
  Ferry = {1}
  User = {u1}
  Shelter = {1, 2, 3}
  Crossing = {11, 12, 13, 14}
  Block = {20}
  Ways <- WaysAround
  ShelterRound <- MCShelterRound
  ImpactRoute <- MCImpactRoute
  Rank <- MCRank
  StartIndex <- MCStartIndex
  IndexModulus = 16
  MaxNow = 0
PROPERTIES
  EveryShelterRead
