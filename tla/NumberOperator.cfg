SPECIFICATION FairNumberSpec
CONSTANTS
  Sockets = {"SORT", "REVSORT", "SQUARE", "SUM", "FACTORIAL"}
  Functions = {"SORT", "REVSORT", "SQUARE", "SUM", "FACTORIAL"}
  Events = {"IN"}
  NULL = "NULL"
  MaxItems = 5
  MaxNow = 0
  MaxSkew = 0
  Kinds = {TRUE, FALSE}
  Masks <- InMask
  Timeouts <- Endless
  MaxEvents <- Endless
  ResizeCancels = TRUE
  Inputs <- Lines
INVARIANTS
  Answered
  CalledForRequest
  AbortsOnlyIfEmpty
PROPERTIES
  Ends
CHECK_DEADLOCK FALSE
