\* One member starts an iteration from two tabs.
SPECIFICATION Spec
CONSTANTS
  u1 = u1
  u2 = u2
  Users = {u1, u2}
  Owner = u2
  Senders = {u1}
  Requests = {r1, r2}
  Ops = {"start"}
  OneAtATime = FALSE
  Names = {n1}
  Saves = {p1}
  FirstNames = {n1}
  FirstSave = p1
  Versions <- MCTwoThree
  Descriptions = {}
  NULL = NULL
  OpenBy <- MCNoneOpen
  FirstDrafts = {n1}
  MaxIterations = 3
SYMMETRY MCRequestSymmetry
INVARIANT OneOpenPerUser
CHECK_DEADLOCK FALSE
