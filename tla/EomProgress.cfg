SPECIFICATION Spec
PROPERTIES WindowIsShown WindowEnds PictureComes
CHECK_DEADLOCK FALSE
