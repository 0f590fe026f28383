SPECIFICATION Spec
CONSTANTS
  Options <- SomeOptions
  Originals <- OneOriginal
  Faults = {"kill", "reboot", "stepFails", "reload", "lock"}
INVARIANTS TypeOK SysctlsRecoverable  OnlyConfigured FirewallInPlace OfferSound LinkEndsAgree
