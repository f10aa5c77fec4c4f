SPECIFICATION Spec
CONSTANTS
  c1 = c1
  c2 = c2
  c3 = c3
  s1 = s1
  s2 = s2
  b1 = b1
  b2 = b2
  Chunks = {c1, c2, c3}
  Sources = {s1, s2}
  Bots = {b1, b2}
  SourceOf <- TwoReaders
  BotOf <- TwoBots
  Refs = {n1, n2, n3, n4, n5}
  NoRef = NoRef
  Free = Free
  Expiry = TRUE
SYMMETRY Names
INVARIANTS TypeOK GateDiscipline OwnFreshReference
PROPERTIES ReferenceErrorMeansExpiry
