\* One category, two bodies, three clicks, clicks only while fewer than two requests are in flight.
SPECIFICATION Spec
CONSTANTS
  Cats = {1}
  Bodies = {1, 2}
  Opens <- MCOpens
  None = None
  MaxVersion = 3
  MaxClicks = 3
  MaxFlight = 2
  MaxFailures = 1
INVARIANTS TypeOK OneVersion MovesPublished SavesItsForm FreshAtRest 
CHECK_DEADLOCK FALSE
