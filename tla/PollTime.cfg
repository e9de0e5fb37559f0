SPECIFICATION FairSpec
CONSTANTS
  Sockets = {s1}
  Events = {"IN"}
  NULL = NULL
  MaxItems = 1
  MaxNow = 5
  MaxSkew = 1
  Functions = {f1}
  Kinds = {TRUE, FALSE}
  Masks <- InMask
  Timeouts <- EndlessOrFinite
  MaxEvents <- Limits
  ResizeCancels = TRUE
INVARIANTS
  TypeOK
  NeverTooLong
  NeverTooShort
PROPERTIES
  Returns
