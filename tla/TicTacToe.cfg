SPECIFICATION Spec
CONSTANTS
  Clients = {c1, c2, c3}
  Local = {c1}
  Namesakes = {c2, c3}
  MaxConnections = 2
  MaxUnread = 1
  MaxPings = 1
  MaxPinged = 2
  MaxUnanswered = 0
CONSTRAINT PingsWhileTwo
INVARIANTS
  MoveUsesLiveGame
  OpponentsShareTheirGame
  WaitingCanBePaired
  NicknamesDiffer
  EverybodyIsCounted
SYMMETRY Alike
CHECK_DEADLOCK FALSE
