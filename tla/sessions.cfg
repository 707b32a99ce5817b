SPECIFICATION SessionSpec
CONSTANTS
  Client = {c1, c2}
  User = {u1, u2}
  NoUser = NoUser
  MaxActive = 2
  MaxUsers = 3
  MaxTurns = 3
  MaxSessions = 4
INVARIANTS
  SessionTypeOK
  BooksAgree
  OnlyFinishedLinger
PROPERTIES
  TurnsAreConsecutive
  UserChangesOnlyAtTheEnd
CHECK_DEADLOCK FALSE
