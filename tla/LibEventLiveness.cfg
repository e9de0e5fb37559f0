SPECIFICATION FairSpec
CONSTANTS
  ZmqHandlers = {h1, h2}
  FdHandlers = {}
  Timers = {}
  Persistent = {}
  Sockets = {s1, s2}
  Events = {"IN"}
  NULL = NULL
  Masks <- InMask
  MaxExits = 0
  Calls = {"Add", "ForceCheck", "Use", "Cancel"}
  Contract = {"RemoveEnabled", "CheckEnabled", "SpareNext", "OnePerSocket", "NoSelfEnable", "ReplaceWhole"}
PROPERTIES
  CancelStops
  ImmediateEnds
  Served
