SPECIFICATION Spec
CONSTANTS
  Clients = {c1, c2}
  Local = {c1}
  Namesakes = {}
  MaxConnections = 2
  MaxUnread = 1
  MaxPings = 2
  MaxPinged = 2
  MaxUnanswered = 2
INVARIANTS
  PingedOnceWithoutResponse
CHECK_DEADLOCK FALSE
