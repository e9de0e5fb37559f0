SPECIFICATION Spec
CONSTANTS
  Sockets = {s1}
  Events = {"IN"}
  NULL = NULL
  MaxItems = 1
  MaxNow = 5
  MaxSkew = 0
  Functions = {f1}
  Kinds = {TRUE, FALSE}
  Masks <- InMask
  Timeouts <- Finite
  MaxEvents <- Endless
  ResizeCancels = TRUE
INVARIANTS
  NoneCalled
