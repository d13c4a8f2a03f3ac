SPECIFICATION FairSpec
CONSTANTS app = app cli = cli m1 = m1 m2 = m2 m3 = m3 None = None
  Pollers = {app} Messages = {m1, m2} AbortAt = {"ingest"} MaxAborts = 1
  RefuseAt = {} MaxRefusals = 0 Windows <- NoWindow
  MayLoseIndex = FALSE Restores = 0 ServerTells = TRUE
PROPERTIES EveryReplyIngested
CHECK_DEADLOCK FALSE
