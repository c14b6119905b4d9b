SPECIFICATION FairSpec
CONSTANTS
  User = {u1}
  AddUser = {}
  Shelter = {}
  Ferry = {f1, f2}
  Block = {b1}
  Capacity = 0
  UseQuickHello = FALSE
  UseEraseInfo = FALSE
  EraseAoI = 2
  AoIThreshold = 1
  FirstHello = 1
  HelloInterval = 2
  HelloCap = 2
  QuickHelloInterval = 1
  FerryHelloInterval = 30
  ShelterDataInterval = 1
  RequestWindow = 1
  IdLifetime = 1
  Lossy = FALSE
  Duplicates = FALSE
  StopTime = 16
  MaxFinds = 1
INVARIANTS
  ServedWithinBound
PROPERTIES
  WindowCloses
