SPECIFICATION Spec
CONSTANTS
  Requests = {"r1", "r2"}
  Limits <- MCLimits
PROPERTY ServeFailureEndsWait
