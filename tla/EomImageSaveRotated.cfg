CONSTANTS
  None = None
  Settings <- SidewaysSettings
SPECIFICATION Spec
INVARIANTS SavedIsShown
