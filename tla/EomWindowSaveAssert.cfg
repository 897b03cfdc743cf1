CONSTANTS
  MaxImages = 2
  Jpegs = {1}
  Disabled = FALSE
  MaxRequests = 3
SPECIFICATION Spec
INVARIANT SaveAsLoads
CHECK_DEADLOCK FALSE
