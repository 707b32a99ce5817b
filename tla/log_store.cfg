SPECIFICATION FairSpec
CHECK_DEADLOCK FALSE
CONSTANTS
  Caller = {c1, c2}
  NoCaller = NoCaller
  Line = {n1, n2, n3, n4}
  PlainLine = {n1, n2}
  ForeignLine = {n4}
  Nothing = Nothing
  QueueSize = 1
  Retention = 0
  MaxDay = 1
  MaxRestarts = 1
INVARIANTS
  TypeOK
  TableAndStreamAgree
PROPERTIES
  ImplementsLineLog
  AcceptedIsSettled
