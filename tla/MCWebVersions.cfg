\* Three iterations committed through the web form: what a version number means.
SPECIFICATION Spec
CONSTANTS
  Users = {u1, u2}
  L0 = {}
  Services = {svc}
  Tokens <- MCTokens
  Names <- MCOneName
  Paths <- MCOneName
  Stamps <- MCNone
  Methods = {GET}
  Bodies = {empty, params}
  EmptyBody = empty
  Versions <- MCOneToFour
  InitVersion = 1
  Descriptions = {text}
  NULL = NULL
  CategoryNames = {}
  WebForm = TRUE
  MaxIterations = 3
  MaxCategories = 0
  MaxCopies = 0
SYMMETRY MCUserSymmetry
INVARIANTS VersionsIdentify
PROPERTIES PinnedVersionStable
