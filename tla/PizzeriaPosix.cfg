SPECIFICATION FairSpec
CONSTANTS
  Chefs = {c1, c2, c3}
  Deliverers = {d1, d2}
  OvenCapacity = 1
  TableCapacity = 2
  PizzaTypes = {margherita}
  Empty = Empty
INVARIANTS
  CountersAgree
PROPERTIES
  ImplementsFlow
  KeepsDelivering
