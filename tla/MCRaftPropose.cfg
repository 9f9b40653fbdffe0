SPECIFICATION FairSpec
CHECK_DEADLOCK FALSE
CONSTANTS
  Requests = {r1, r2}
  None = None
PROPERTIES
  RequestsReturn
