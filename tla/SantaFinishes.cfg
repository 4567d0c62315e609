SPECIFICATION FairSpec
CONSTANTS
  Elves = {e1, e2}
  Reindeer = {r1, r2}
  Santa = Santa
  MaxElves = 2
  MaxDeliveries = 1
  MaxWakeups = 0
  Nobody = Nobody
PROPERTIES
  SantaFinishes
CHECK_DEADLOCK FALSE
