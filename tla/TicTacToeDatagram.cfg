SPECIFICATION Spec
CONSTANTS
  Clients = {c1, c2, c3}
  Local = {c1, c2}
  Namesakes = {c2, c3}
  MaxConnections = 2
  Fields = {1, 2}
  MaxUnread = 1
  MaxPings = 1
  MaxPinged = 2
CONSTRAINT PingsWhileTwo
INVARIANTS
  EachClientHasItsConnection
  OpponentsShareTheirGame
  LocalClientsShowTheTruth
CHECK_DEADLOCK FALSE
