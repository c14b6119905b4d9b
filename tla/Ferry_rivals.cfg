SPECIFICATION RivalsSpec
CONSTANTS
  Ferry = {1, 2}
  User = {u1}
  Shelter = {1, 2}
  Crossing = {11, 12, 13, 14}
  Block = {22}
  Ways <- WaysAround
  ShelterRound <- MCShelterRound
  ImpactRoute <- MCImpactRoute
  Rank <- MCRank
  StartIndex <- MCStartIndex
  IndexModulus = 16
  MaxNow = 2
INVARIANTS
  YieldsToEarlier
