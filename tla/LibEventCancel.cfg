SPECIFICATION Spec
CONSTANTS
  ZmqHandlers = {h1, h2}
  FdHandlers = {}
  Timers = {}
  Persistent = {}
  Sockets = {s1, s2}
  Events = {"IN"}
  NULL = NULL
  Masks <- InMask
  MaxExits = 0
  Calls = {"Add", "Remove", "Disable", "Enable", "ForceCheck", "Use", "Replace", "Destroy", "Cancel"}
  Contract = {"RemoveEnabled", "CheckEnabled", "SpareNext", "OnePerSocket", "NoSelfEnable", "ReplaceWhole"}
CHECK_DEADLOCK FALSE
INVARIANT CancelReported
