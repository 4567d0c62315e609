SPECIFICATION FairSpec
CONSTANTS
  Chefs = {c1, c2, c3}
  Deliverers = {d1, d2}
  OvenCapacity = 2
  TableCapacity = 1
  PizzaTypes = {margherita, capricciosa}
  Empty = Empty
INVARIANTS
  MutualExclusion
  NeverOverfull
  OvenIndexStaysValid
  CountersAgree
  Accounts
PROPERTIES
  ImplementsFlow
  KeepsDelivering
