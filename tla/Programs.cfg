SPECIFICATION ProgramsSpec
CONSTANTS
  W = 3
  H = 2
  M = 3
  MAX_POSSIBLE_COLOR = 3
  MaxThreads = 3
  Images <- Stripes
  Clients = {c1, c2}
  MaxClients = 2
  ServerLimit = 2
  ClientLimit = 1
  MaxMsgs = 2
  MaxSignals = 3
  Producers = {1, 2}
  Consumers = {k1, k2}
  MaxChunks = 2
  MaxNewlines = 1
  Pipelines <- Lines
  NoLines = 2
  NoDeclarations = 1
  Items = 2
  Capacity = 1
  MaxRuns = 4
  MaxProcesses = 3
  Entries <- Tree
  Root = "top"
  MaxDepth = 3
INVARIANTS
  SavedIsNegative ChatKeepsItsPlace ListIsComing SendsBackWhatItCounted EndsInAgreement
  NothingIsLost ProgramsGoOn LinesRunInOrder ResultIsWhole EveryFileIsListed
CHECK_DEADLOCK FALSE
