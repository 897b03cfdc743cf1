CONSTANTS
  a = a  b = b  None = None
  Images = {a, b}
  NoMetadata = {b}
  Settings <- Selects
  MaxJobs = 3
SPECIFICATION Spec
INVARIANTS AssertNoPixels
