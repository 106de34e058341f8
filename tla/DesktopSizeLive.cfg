SPECIFICATION FairSpec
CONSTANTS
  Sizes = {1, 2}
  Servers = {"basic", "extended", "h264"}
  MaxEvents = 3
PROPERTIES
  ResizeEnds
  RealSize
  PictureShown
CHECK_DEADLOCK FALSE
