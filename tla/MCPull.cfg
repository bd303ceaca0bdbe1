\* Two services under two names, versions up to 3, three commands.
SPECIFICATION Spec
CONSTANTS
  Accounts = {ann}
  Services = {s1, s2}
  Names = {n1, n2}
  ApiNames = {get, put}
  Latest = Latest
  NULL = NULL
  FirstConfigs <- MCFirstConfigs
  s1 = s1
  s2 = s2
  n1 = n1
  LastDraft = 6
  Asked <- MCAsked
  MaxVersion <- MCMaxVersion
  MaxCommands = 3
INVARIANTS TypeOK FromOneVersion MatchesConfig
PROPERTY CommandsEnd
CHECK_DEADLOCK FALSE
