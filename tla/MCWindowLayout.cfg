SPECIFICATION Spec
CONSTANTS
  Width = 96
  Height = 54
  MaxCameras = 20
  MaxFocus = 6
INVARIANTS WindowsInside WindowsDisjoint
CHECK_DEADLOCK FALSE
