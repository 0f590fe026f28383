SPECIFICATION Spec
CONSTANTS
  g = g
  e1 = e1
  none = none
  Gateway = g
  Edges = {e1}
  None = none
  Modes = {"wireguard"}
  MaxMinted = 4
  Faults = {"kill", "reboot", "stepFails"}
INVARIANTS TypeOK LinkedSameInstance 
PROPERTIES AcceptTakesEffect KeepsTrust
