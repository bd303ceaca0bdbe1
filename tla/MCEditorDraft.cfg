\* The user resumes an iteration while another user publishes.
SPECIFICATION Spec
CONSTANTS
  Cats = {1}
  Bodies = {1, 2}
  Opens <- MCEdited
  None = None
  MaxVersion = 3
  MaxClicks = 3
  MaxFlight = 2
  MaxFailures = 0
PROPERTY DraftsFromDrafts
CHECK_DEADLOCK FALSE
