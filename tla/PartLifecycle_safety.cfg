SPECIFICATION Spec
CONSTANTS
  Msgs = {m1, m2}
  Uploads = {u1, u2}
  Rows = {r1, r2}
  BatchSize = 2
  None = None
SYMMETRY Names
INVARIANTS TypeOK AckedPartsKept
PROPERTIES DeletionFinal RemovedFilesLeaveNothing
