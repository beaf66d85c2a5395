SPECIFICATION Spec
CONSTANTS
  r1 = r1
  r2 = r2
  Requests = {r1, r2}
  Paths = {"p"}
  Editions = {"e"}
  Tokens = {"user", "malformed", "refused", "opaque"}
  Grants = {{}, {"e"}, {"any edition"}}
  Sizes = {0, 2}
  ErrorLength = 1
  IsPublishing = TRUE
SYMMETRY RequestSymmetry
INVARIANT TypeOK Inv DisclosureIsAudited DisclosureIsPermitted CachedAnswerIsFinal FailureHasCause ReaderIsClosed
PROPERTY ReflectsOneState
