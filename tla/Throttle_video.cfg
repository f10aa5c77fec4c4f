SPECIFICATION Spec
CONSTANTS
  Second = 2
  TTL = 4
  Threshold = 1
  Ranges <- ProbeAndPlay
  Significant = 2
  MaxTime = 6
PROPERTY VideoNeverThrottled
CHECK_DEADLOCK FALSE
