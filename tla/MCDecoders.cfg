SPECIFICATION DecodersSpec
CONSTANTS
  Width = 3
  Height = 3
  Coordinates = {0, 1, 2, 3}
  Streams = {"s0", "s1"}
  BufferSize = 4
  PortionSize = 2
  RowSizes = {1, 3, 4}
  MaxRows = 3
  MaxLength = 3
  MaxRects = 3
  Side = 5
  PixelBytes = 1
  RunByte = 3
  PaletteSizes = {2, 3, 5}
  Widths = {1, 3, 5}
  Heights = {2, 5}
  Colours = {1, 2}
INVARIANTS
  CopiedAtOnce
  StreamsInStep
  RowsAccountedFor
  DrawnAsMeant
  PixelsInBuffer
PROPERTY RectEnds
CHECK_DEADLOCK FALSE
