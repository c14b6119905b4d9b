SPECIFICATION Spec
CONSTANTS
  User = {u1, u2, u3}
  AddUser = {}
  Shelter = {s1}
  Ferry = {f1}
  Block = {}
  Capacity = 2
  UseQuickHello = FALSE
  UseEraseInfo = TRUE
  EraseAoI = 2
  AoIThreshold = 1
  FirstHello = 5
  HelloInterval = 5
  HelloCap = 5
  QuickHelloInterval = 1
  FerryHelloInterval = 5
  ShelterDataInterval = 1
  RequestWindow = 1
  IdLifetime = 1
  Lossy = TRUE
  Duplicates = FALSE
  StopTime = 3
  MaxFinds = 0
INVARIANTS
  ReadingsConsistent
  TypeOK
SYMMETRY Users
