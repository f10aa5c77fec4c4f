SPECIFICATION Spec
CONSTANTS
  c1 = c1
  c2 = c2
  c3 = c3
  s1 = s1
  s2 = s2
  b1 = b1
  b2 = b2
  n1 = n1
  n2 = n2
  n3 = n3
  n4 = n4
  u1 = u1
  a1 = a1
  a2 = a2
  h1 = h1
  h2 = h2
  m1 = m1
  r1 = r1
  r2 = r2
  None = None
  User = User
PROPERTIES
  GoroutinesEnd ReaderEnds Coalesced RequestsAnswered ServerEnds
  PendingFilesCleaned ExpiredRowsCleaned
CHECK_DEADLOCK FALSE
