SPECIFICATION FairMainSpec
CONSTANTS
  Chefs = {c1, c2}
  Deliverers = {d1}
  OvenCapacity = 1
  TableCapacity = 1
  PizzaTypes = {margherita}
  Empty = Empty
  NoChefs = 2
  NoDeliverers = 1
  MaxRuns = 2
  MaxKills = 0
CONSTRAINT Followed
INVARIANTS
  OneInMemory
PROPERTIES
  OpensClean
  EverybodyGoesHome
CHECK_DEADLOCK FALSE
