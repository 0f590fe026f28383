SPECIFICATION Spec
CONSTANTS
  g = g
  e1 = e1
  e2 = e2
  none = none
  Gateway = g
  Edges = {e1, e2}
  None = none
  Modes = {"ipip"}
  MaxMinted = 3
  Faults = {}
SYMMETRY EdgeSymmetry
PROPERTIES AcceptTakesEffect
