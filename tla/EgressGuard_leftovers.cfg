SPECIFICATION Spec
CONSTANTS
  s1 = s1
  Sessions = {s1}
  Mode = "wireguard"
  Commands = {"join", "uninstall"}
  Faults = {"lineFails"}
PROPERTIES UninstallRemovesAll
