SPECIFICATION Spec
CONSTANTS
  ZmqHandlers = {h1, h2, h3}
  FdHandlers = {}
  Timers = {}
  Persistent = {}
  Sockets = {s1, s2}
  Events = {"IN"}
  NULL = NULL
  Masks <- InMask
  MaxExits = 0
  Calls = {"Add", "Remove", "Disable", "Enable", "Replace", "Destroy"}
  Contract = {"RemoveEnabled", "CheckEnabled", "SpareNext", "ReplaceWhole"}
INVARIANTS
  Consistent
  QueuesHold
PROPERTIES
  DisabledSilent
  ReplacedEverywhere
SYMMETRY Symmetry
CHECK_DEADLOCK FALSE
