SPECIFICATION Spec
CONSTANTS
  Sizes <- MCSizes
  Params = {1, 2, 7}
  Large = {7}
  Rectangles <- MCRectangles
  Programs <- MCMarginPrograms
  IntMax = 7
  MaxOverrun = 1
INVARIANT CursorInBounds
CHECK_DEADLOCK FALSE
