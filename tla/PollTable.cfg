SPECIFICATION Spec
CONSTANTS
  Sockets = {s1, s2}
  Events = {"IN"}
  NULL = NULL
  MaxItems = 3
  MaxNow = 0
  MaxSkew = 0
  Functions = {f1, f2}
  Kinds = {TRUE, FALSE}
  Masks <- InMask
  Timeouts <- Endless
  MaxEvents <- Endless
  ResizeCancels = TRUE
INVARIANTS
  Aligned
  AllMatchedCalled
  IteratorsValid
PROPERTIES
  NoEmptyCall
  ImplementsTable
  CancelEnds
SYMMETRY Symmetry
