SPECIFICATION Spec
CHECK_DEADLOCK FALSE
CONSTANTS
  r1 = r1
  r2 = r2
  r3 = r3
  Record <- MCRecord
  NoRecord = NoRecord
  Trace <- MCTrace
  Prompt <- MCPrompt
  Response <- MCResponse
  Backends = {"regex", "presidio"}
  MaxDay = 1
INVARIANTS
  LokiIsRedacted
  AuditIsFiled
PROPERTIES
  WormHolds
