SPECIFICATION Spec
CONSTANTS
  ZmqHandlers = {h1}
  FdHandlers = {f1}
  Timers = {t1}
  Persistent = {}
  Sockets = {s1}
  Events = {"IN"}
  NULL = NULL
  Masks <- InMask
  MaxExits = 1
  Calls = {"Add", "Remove", "Disable", "Enable", "ForceCheck", "Timeout", "Cancel", "Nest"}
  Contract = {"RemoveEnabled", "CheckEnabled", "SpareNext", "OnePerSocket", "NoSelfEnable", "ReplaceWhole"}
INVARIANTS
  Consistent
  ResultOfThisRun
PROPERTIES
  ImplementsLevel
