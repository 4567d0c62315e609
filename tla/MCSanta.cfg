SPECIFICATION Spec
CONSTANTS
  Elves = {e1, e2, e3}
  Reindeer = {r1, r2}
  Santa = Santa
  MaxElves = 2
  MaxDeliveries = 2
  MaxWakeups = 1
  Nobody = Nobody
INVARIANTS
  TypeOK
  SantaHearsTheCall
  NoElfCountedTwice
  DeliversWithAll
PROPERTIES
  GroupStaysAsItIs
SYMMETRY Symmetry
CHECK_DEADLOCK FALSE
