SPECIFICATION Spec
CONSTANTS app = app cli = cli m1 = m1 m2 = m2 m3 = m3 None = None
  Pollers = {app} Messages = {m1, m2, m3} AbortAt <- Everywhere MaxAborts = 1
  RefuseAt <- Refusable MaxRefusals = 1 Windows <- TwoOfThem
  MayLoseIndex = TRUE Restores = 1 ServerTells = TRUE
INVARIANTS TypeOK CopiedBeforeExpunged GoneOnlyWhenIngested MarkedIsMoved
PROPERTIES RestoreRecovers
CHECK_DEADLOCK FALSE
