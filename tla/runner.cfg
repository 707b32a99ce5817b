SPECIFICATION FairSpec
CONSTANTS
  MaxEvents = 2
  MaxBatch = 2
  MaxRestarts = 1
  QueueCap = 1
  Envelope <- MCEnvelope
  NoEnvelope = NoEnvelope
INVARIANTS
  TypeOK
  BatchAccounting
  CleanBatchIsPublished
  AtMostOneLateBatch
PROPERTIES
  FlushedExitDropsNothing
  StopsWhenAsked
