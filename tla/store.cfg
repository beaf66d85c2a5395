SPECIFICATION Spec
CONSTANTS
  Requests = {"r1", "r2"}
  Items = {"i"}
  Sizes = {0, 2}
  ErrorLength = 1
INVARIANT TypeOK Inv PrivateIsEntitled RedirectIsPublic FailureHasCause StreamIsWhole
PROPERTY PublishedIsFound ImplementsContract
