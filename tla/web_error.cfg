SPECIFICATION Spec
CONSTANTS
  Requests = {"r1","r2"}
  Paths = {"p"}
  Editions = {}
  Tokens = {"opaque"}
  Grants = {{}}
  Sizes = {0, 1, 2}
  ErrorLength = 1
  IsPublishing = FALSE
INVARIANT ErrorIsReadable
