SPECIFICATION Spec
CONSTANTS
  s1 = s1
  s2 = s2
  Sessions = {s1, s2}
  Inodes = {1, 2, 3, 4}
  MaxIds = 3
  Faults = {"kill", "stepFails"}
CHECK_DEADLOCK FALSE
INVARIANTS TypeOK ConfigWhole RemovedStaysRemoved
PROPERTIES SavesItsOwn
