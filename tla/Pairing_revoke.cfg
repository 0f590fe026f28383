SPECIFICATION Spec
CONSTANTS
  g = g
  e1 = e1
  none = none
  Gateway = g
  Edges = {e1}
  None = none
  Modes = {"ssh"}
  MaxMinted = 3
  Faults = {"ignoredFails"}
INVARIANTS UninstallRevokes
