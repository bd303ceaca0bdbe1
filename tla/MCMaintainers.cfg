\* Two candidates and the owner; three inputs, one failure, one other administrator.
SPECIFICATION Spec
CONSTANTS
  alice = alice
  boss = boss
  Users = {alice, bob, boss}
  Owner = boss
  Queries <- MCQueries
  Short = Short
  MaxInputs = 3
  MaxFailures = 1
  MaxOthers = 1
INVARIANTS TypeOK ListRight
PROPERTIES ClicksMeant SwitchEnds
CHECK_DEADLOCK FALSE
