SPECIFICATION UncutSpec
CONSTANTS
  g = g
  e1 = e1
  none = none
  Gateway = g
  Edges = {e1}
  None = none
  Modes = {"ara"}
  MaxMinted = 3
  Faults = {"kill", "reboot", "stepFails", "ignoredFails"}
INVARIANTS  TokenIsCurrent
