SPECIFICATION PubFairSpec
CONSTANTS
  Envelope = {e1, e2, e3}
  NoEnvelope = NoEnvelope
  QueueCap = 2
INVARIANTS
  AnswerIsHonest
PROPERTIES
  ImplementsOutbox
  CallsReturn
CHECK_DEADLOCK FALSE
