SPECIFICATION Spec
CONSTANTS
  s1 = s1
  Sessions = {s1}
  Mode = "ipip"
  Commands = {"join", "start", "stop", "restart", "repair", "leaktest", "uninstall"}
  Faults = {"kill", "reboot", "reload", "linkLost", "lineFails", "xtablesLock"}
INVARIANTS NoLeak
PROPERTIES LeakTestRestores UninstallCleans
