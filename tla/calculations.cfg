SPECIFICATION Spec
CHECK_DEADLOCK FALSE
CONSTANTS
  Token = {1, 5}
  Window = 4
  Time = {0, 15, 70}
  FirstFloor = 20
  StreamFloor = 1
  RejectedFloor = 12
  ServerFloor = 50
  CostInput = 2
  CostOutput = 3
  CostCache = 1
  DailyBudget = 30
  MaxAssembled = 2
  OtherBoards <- MCBoards
INVARIANTS
  PhasesCoverLatency
  BooksOfEventsBalance
  PanelsAreTiled
