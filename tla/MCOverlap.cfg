\* Three requests of the owner in flight at once, on an iteration of another member and on new ones.
SPECIFICATION Spec
CONSTANTS
  u1 = u1
  u2 = u2
  Users = {u1, u2}
  Owner = u1
  Senders = {u1}
  Requests = {r1, r2, r3}
  Ops = {"start", "commit", "add", "update", "delete", "describe"}
  OneAtATime = FALSE
  Names = {n1, n2, n3}
  Saves = {p1, p2}
  FirstNames = {n1, n2}
  FirstSave = p1
  Versions <- MCTwoThree
  Descriptions = {d1}
  NULL = NULL
  OpenBy <- MCOtherOpen
  FirstDrafts = {n1}
  MaxIterations = 4
INVARIANTS TypeOK NamesUnique VersionAligned PublishedWhole
PROPERTY RequestsEnd
CHECK_DEADLOCK FALSE
