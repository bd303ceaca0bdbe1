\* Two services of one administrator, categories, a copy, two iterations: the workflow as the backend runs it.
SPECIFICATION Spec
CONSTANTS
  Users = {admin}
  L0 = {admin}
  Services = {svc1, svc2}
  Tokens <- MCTokens
  Names <- MCOneName
  Paths <- MCOneName
  Stamps <- MCOneStamp
  Methods = {GET}
  Bodies = {empty}
  EmptyBody = empty
  Versions <- MCOneToTwo
  InitVersion = 1
  Descriptions = {text}
  NULL = NULL
  CategoryNames = {c}
  WebForm = FALSE
  MaxIterations = 2
  MaxCategories = 2
  MaxCopies = 1
INVARIANTS TypeOK LatestAligned CategoriesScoped NamesUnique
PROPERTIES CommittedFrozen ImplementsVersionStore
