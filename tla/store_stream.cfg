SPECIFICATION Spec
CONSTANTS
  Requests = {"r1", "r2"}
  Items = {"i"}
  Sizes = {0, 2}
  ErrorLength = 1
INVARIANT StreamedResponseIsFile
