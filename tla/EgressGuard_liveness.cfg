SPECIFICATION FairSpec
CONSTANTS
  s1 = s1
  s2 = s2
  Sessions = {s1, s2}
  Mode = "wireguard"
  Commands = {"join", "start", "uninstall"}
  Faults = {"lineFails", "reboot"}
PROPERTIES EveryCommandReturns EveryJobEnds FailsClosed
