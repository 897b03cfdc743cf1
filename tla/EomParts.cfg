CONSTANTS
  Bars <- TwoBars
  Options <- SlideShows
  MaxListed = 2
  Pictures = {1, 2}
  MaxEvents = 5
  MaxLoads = 3
  MaxTurns = 3
  Sizes <- LongSizes
  Normal = 4
  Icon = 3
  MaxVersions = 3
  Directory = {1, 2}
  Dotted = {2}
  Loadable = {"image"}
  Unloadable = {"raw"}
  RowsShown = 1
  JobObjects = {1, 2}
  NoJob = NoJob
  MaxReports = 2
  Gallery = {1, 2, 3}
  Trashable = {1, 3}
  NeverAsk = TRUE
  MaxTurnover = 2
  Uppers = {0, 6, 9}
  Pages = {3, 7}
  Deltas <- Faster
  Every = 2
  Wheel = 3
  MaxPresses = 2
  Shapes <- ThinAndHigh
  Frames <- BroadAndHigh
  Pointers = {0, 2}
  Levels = {2, 4, 8}
  Unit = 4
  MinZoomFactor = 1
  MaxZoomFactor = 8
  Multiplier = 2
  Stride = 1
  BarWidth = 1
  MaxInputs = 6
  Colors = {1, 2}
  JpegFiles <- FewSegments
  PngImages <- FewChunks
  PngSignature <- ShortSignature
  XmpBegin <- ShortId
  ChunkSizes <- ShortSizes
  Checksum <- Sum
  Areas = {1, 2}
  Papers = {1, 2}
  Scales = {1, 2}
  Page <- TallPage
  Whole = 120
  Moves <- BackAndForth
  MaxMoves = 4
  MaxPixbufs = 3
  MaxCopies = 3
  MaxImages = 2
  Jpegs = {1}
  Disabled = FALSE
  MaxRequests = 3
  MaxChanges = 2
SPECIFICATION MCSpec
INVARIANTS
  EachTypeOK WindowTells SavesAreKnown CopiesAreOfImage ScrollViewAsSet
  RowsAsListed CollectionAsSelected MetadataAsWritten NamesDiffer PrintAsSet
PROPERTY SavesAreAtomic
CHECK_DEADLOCK FALSE
