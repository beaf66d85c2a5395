SPECIFICATION Spec
CONSTANTS
  Requests = {"r1", "r2", "r3", "r4"}
  Limits = {0, 2}
INVARIANT TypeOK SlotsAreConserved BoundedConcurrency
PROPERTY RefusedOnlyWhenFull ImplementsLimit
