CONSTANTS
  None = None
  Files = {1, 2, 3}
  Hidden = {}
  Width = 2
  Pictures = {"image"}
  Foreign = {}
  Jobs = {1, 2, 3}
  MaxEvents = 2
SPECIFICATION Spec
INVARIANTS VisibleAsked
