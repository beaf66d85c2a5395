SPECIFICATION Spec
CONSTANTS
  Data <- MCData
  MaxLevels = 4
INVARIANT Inv MergeIsReference PanicHasCause
