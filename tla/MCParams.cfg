\* An API and its copy: two edits and a copy or a commit, or one edit and both.
SPECIFICATION Spec
CONSTANTS
  Apis = {"a1", "a2"}
  FirstDrafts <- MCFirstDrafts
  Locations = {"path", "body", "cookie"}
  Words = {"x", "X", " ", "2", "200", "get", "Get", "path", "Path", "body", "Body", "cookie", "Cookie", "Item", "Request", "Response"}
  Upper <- MCUpper
  ApiName <- MCApiName
  Names <- MCNames
  PathTexts <- MCPathTexts
  Codes <- MCCodes
  Numeral <- MCNumeral
  MaxIds = 7
  Depth = 2
  MaxEdits = 2
  MaxSteps = 3
INVARIANTS TypeOK KeptAsSaved CodeAsSaved TabActive
CHECK_DEADLOCK FALSE
