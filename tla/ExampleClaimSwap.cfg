CONSTANTS
  Events = 1
  RealPairs = 2
SPECIFICATION Spec
INVARIANTS
  RefusedSwapIsData
