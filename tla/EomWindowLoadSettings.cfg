CONSTANTS
  a = a  b = b  None = None
  Images = {a, b}
  NoMetadata = {}
  Settings <- AllSettings
  MaxJobs = 3
SPECIFICATION FairSpec
INVARIANTS TypeOK SettledOnSelection ViewAloneHoldsPixels AssertNoPixels DisplayedHasPixels
PROPERTIES FollowedLoadAnswered
CHECK_DEADLOCK FALSE
