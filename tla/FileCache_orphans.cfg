SPECIFICATION Spec
CONSTANTS
  Streams = {s1}
  Writers = {w1}
  MaxVersion = 2
  Names = {n1, n2}
  None = None
PROPERTY OnlyOrphansMarked
