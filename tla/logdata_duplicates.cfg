SPECIFICATION Spec
CONSTANTS
  Data <- MCTexts
  MaxLevels = 4
INVARIANT NoDuplicatePairs
