SPECIFICATION Spec
CONSTANTS
  Streams = {s1, s2}
  Writers = {w1, w2}
  MaxVersion = 3
  Names = {n1, n2}
  None = None
SYMMETRY Interchangeable
INVARIANTS TypeOK CachedRowFollows CachedPartsFollow
