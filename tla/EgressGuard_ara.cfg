SPECIFICATION Spec
CONSTANTS
  s1 = s1
  Sessions = {s1}
  Mode = "ara"
  Commands = {"join", "start", "stop", "restart", "repair", "leaktest", "uninstall"}
  Faults = {"kill", "reboot", "reload", "linkLost", "lineFails", "xtablesLock"}
INVARIANTS TypeOK NoLeak LinkNeedsGuard
PROPERTIES DisarmedOnlyByDisable RepairRestores CriticalIsReal LeakTestRestores UninstallCleans FailsClosed
