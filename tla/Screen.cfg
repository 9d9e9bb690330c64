\* Two modes and one that is too large, two colours, every rectangle.
SPECIFICATION Spec
CONSTANTS
  Sizes <- Modes
  MaxPixels = 6
  Coords <- UpTo3
  Colors = {black, white}
  Black = black
  None = None
CHECK_DEADLOCK FALSE
INVARIANTS
  TypeOK
  RectanglesAreWhole
