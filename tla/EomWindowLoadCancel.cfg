CONSTANTS
  a = a  b = b  None = None
  Images = {a, b}
  NoMetadata = {}
  Settings <- Selects
  MaxJobs = 3
SPECIFICATION Spec
INVARIANTS SelectedIsShown
