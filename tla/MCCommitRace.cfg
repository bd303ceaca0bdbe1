\* Two members who wait for their answers: one edits, then both commit at once.
SPECIFICATION Spec
CONSTANTS
  u1 = u1
  u2 = u2
  Users = {u1, u2, boss}
  Owner = boss
  Senders = {u1, u2}
  Requests = {r1, r2, r3}
  Ops = {"commit", "update"}
  OneAtATime = TRUE
  Names = {n1, n2}
  Saves = {p1, p2}
  FirstNames = {n1}
  FirstSave = p1
  Versions <- MCTwoThree
  Descriptions = {}
  NULL = NULL
  OpenBy <- MCBothOpen
  FirstDrafts = {n1}
  MaxIterations = 3
SYMMETRY MCRequestSymmetry
INVARIANT LatestPublished
CHECK_DEADLOCK FALSE
