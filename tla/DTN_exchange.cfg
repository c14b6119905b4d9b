SPECIFICATION Spec
CONSTANTS
  User = {}
  AddUser = {a1, a2}
  Shelter = {}
  Ferry = {}
  Block = {b1}
  Capacity = 0
  UseQuickHello = TRUE
  UseEraseInfo = TRUE
  EraseAoI = 2
  AoIThreshold = 1
  FirstHello = 1
  HelloInterval = 3
  HelloCap = 3
  QuickHelloInterval = 1
  FerryHelloInterval = 2
  ShelterDataInterval = 1
  RequestWindow = 1
  IdLifetime = 1
  Lossy = TRUE
  Duplicates = TRUE
  StopTime = 3
  MaxFinds = 2
INVARIANTS
  Provenance
  WindowConsistent
  GraphFollowsKnowledge
  HelloChainAlive
PROPERTIES
  NeverOlder
  NoStaleAdoption
  NewsAnnounced
SYMMETRY Users
