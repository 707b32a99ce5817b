SPECIFICATION Spec
CHECK_DEADLOCK FALSE
CONSTANTS
  Writer = {"main", "probe"}
  Main = "main"
  Kind = {"telemetry", "access", "other"}
  Capacity = 2
  Limit = {1, 5}
  MaxRecords = 3
  MaxRequests = 1
  Depth = {2}
  MaxEvents = 3
INVARIANTS
  AnswerIsConsistent
  MetricsAddUp
