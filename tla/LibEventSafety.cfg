SPECIFICATION Spec
CONSTANTS
  ZmqHandlers = {h1, h2}
  FdHandlers = {}
  Timers = {}
  Persistent = {}
  Sockets = {s1, s2}
  Events = {"IN"}
  NULL = NULL
  Masks <- InMask
  MaxExits = 0
  Calls = {"Add", "Remove", "Disable", "Enable", "ForceCheck", "Use", "Replace", "Destroy", "Cancel"}
  Contract = {"RemoveEnabled", "CheckEnabled", "SpareNext", "OnePerSocket", "NoSelfEnable", "ReplaceWhole"}
INVARIANTS
  Consistent
  QueuesHold
  ImmediateScheduled
  NoLostWakeup
  TriggeredIsReady
PROPERTIES
  ImplementsLevel
SYMMETRY Symmetry
CHECK_DEADLOCK FALSE
