CONSTANTS
  Null = Null
  Axes <- MCAxes
  MaxDims = 3
  Slots = {0, 1, 2}
SPECIFICATION Spec
INVARIANTS
  CellSpecialised
