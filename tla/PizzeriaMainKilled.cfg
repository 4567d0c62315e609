SPECIFICATION CrashSpec
CONSTANTS
  Chefs = {c1, c2}
  Deliverers = {d1}
  OvenCapacity = 1
  TableCapacity = 1
  PizzaTypes = {margherita}
  Empty = Empty
  NoChefs = 1
  NoDeliverers = 1
  MaxRuns = 2
  MaxKills = 1
INVARIANTS
  NeverOverfull
CHECK_DEADLOCK FALSE
