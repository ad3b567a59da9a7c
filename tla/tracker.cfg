SPECIFICATION Spec
CONSTANTS
  STEPS = 2
  Tilt <- Tilts
  MaxFrames = 4
CHECK_DEADLOCK FALSE
INVARIANTS
  ReturnsHome
  CutCostsOneTurn
