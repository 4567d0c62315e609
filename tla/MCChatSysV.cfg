CONSTANTS
  Clients = {c1, c2}
  MaxClients = 2
  ServerLimit = 2
  ClientLimit = 1
  MaxMsgs = 2
SPECIFICATION FairSpec
INVARIANTS SenderIsWhoItSays KeepsItsPlace
PROPERTIES ServerGetsThrough ListEnds
CHECK_DEADLOCK FALSE
ACTION_CONSTRAINT FirstIsFirst
