\* Violated: an update gives two APIs of a service the same path.
SPECIFICATION Spec
CONSTANTS
  Users = {u1}
  L0 = {}
  Services = {svc}
  Tokens <- MCTokens
  Names <- MCTwoNames
  Paths <- MCTwoNames
  Stamps <- MCNone
  Methods = {GET}
  Bodies = {empty}
  EmptyBody = empty
  Versions <- MCOneToTwo
  InitVersion = 1
  Descriptions = {text}
  NULL = NULL
  CategoryNames = {}
  WebForm = TRUE
  MaxIterations = 1
  MaxCategories = 0
  MaxCopies = 1
INVARIANT PathsUnique
