SPECIFICATION Spec
CONSTANTS
  Sizes <- MCSizes
  Params = {1, 2, 7}
  Large = {7}
  Rectangles <- MCRectangles
  Programs <- MCPrograms
  IntMax = 7
  MaxOverrun = 1
INVARIANTS TypeOK MarginsOrdered ActiveBufferFits CursorBounded CallsAccepted
PROPERTY AlternateKeepsCursor
CHECK_DEADLOCK FALSE
