SPECIFICATION Spec
CONSTANTS
  Requests = {r1, r2}
  Gens = {g1, g2}
  None = None
  ReaperScheduled = FALSE
PROPERTIES IdleClientClosed
