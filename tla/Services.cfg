SPECIFICATION Spec
CONSTANTS
  Sizes = {0, 1, 2, 3, 5, 6, 7}
  HeaderSize = 2
  Overhead = 1
  BlockData = 2
  Radix = 2
  Low = 2
  Digits = 3
  BotClients = {g1, g2}
  BotKeys = {k1, k2, k3}
  MaxRevoked = 1
  Channels = {h1, h2, h3}
  Uploads = {u1, u2}
  Readers = {r1}
  Setters = {s1}
  MaxFills = 1
  Msgs = {m1, m2}
  Uploaders = {u1}
  Rows = {r1}
  Hashes = {h1, h2}
  WebCalls = {r1, r2}
  Calls = {r1, r2}
  MaxTries = 3
  MaxRestarts = 1
  Handlers = {h1, h2}
  Capacity = 1
  Blank = Blank
  BotCount = 2
  Parts = {u1}
  Streams = {s1}
  MaxWaitCycles = 1
  Length = 2
  Second = 2
  TTL = 4
  Threshold = 1
  Significant = 2
  MaxTime = 6
  MaxIds = 5
  BatchSize = 2
  Limit = 2
  Files <- SomeFiles
  Headers <- SomeHeaders
  MinChunk = 1
  MaxChunk = 4
  ReadSizes = {1, 3}
  None = None
  User = User
INVARIANTS
  TypesOK RangeDecrypted BodyIsTheRange OneChannel SessionsEnd BatchesWhole
  CallsSafe AcceptedInOrder
PROPERTIES
  BotsTried TrustEarned KeptMessagesSpared DelayedAsCounted
CHECK_DEADLOCK FALSE
