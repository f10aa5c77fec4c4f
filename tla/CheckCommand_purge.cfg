SPECIFICATION CheckSpec
CONSTANTS
  Msgs = {m1, m2}
  Uploads = {u1}
  Rows = {r1}
  None = None
  BatchSize = 1
PROPERTY PurgesIncompleteOnly
CHECK_DEADLOCK FALSE
