CONSTANTS
  Files = {1, 2}
  Svg = {2}
  Autorotate = FALSE
  Windows = {1, 2}
  MaxRequests = 1
SPECIFICATION Spec
PROPERTY WindowIsShown
CHECK_DEADLOCK FALSE
