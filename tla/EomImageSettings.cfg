CONSTANTS
  None = None
  Settings <- AllSettings
SPECIFICATION Spec
INVARIANTS
  TypeOK UndoMatchesTrans LoadedIsExpected PlainSavedIsShown SizeMatches
  CameraThumbnailIsExpected
