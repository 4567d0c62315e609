CONSTANTS
  Clients = {c1, c2}
  MaxClients = 2
  ServerLimit = 2
  ClientLimit = 1
  MaxMsgs = 2
SPECIFICATION TerminalSpec
INVARIANT KeepsItsPlace
CHECK_DEADLOCK FALSE
