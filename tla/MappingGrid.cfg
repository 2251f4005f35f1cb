SPECIFICATION Spec
CHECK_DEADLOCK FALSE
CONSTANTS
  Fan <- ThreePixels
  Positions <- AllAround
  Headings = {0, 1}
  MaxTiles = 2
  Size0 <- TwoByThree
  Origin0 <- OffCentre
  Inc = 2
  MinMove = 2
INVARIANTS
  GridIsSumOfTiles
  TilesStayPut
