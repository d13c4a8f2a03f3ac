SPECIFICATION FairSpec
CONSTANTS app = app cli = cli m1 = m1 m2 = m2 m3 = m3 None = None
  Pollers = {app, cli} Messages = {m1, m2} AbortAt <- BeforeStore MaxAborts = 1
  RefuseAt <- AllButBody MaxRefusals = 1 Windows <- NoWindow
  MayLoseIndex = FALSE Restores = 0 ServerTells = FALSE
INVARIANTS CopiedBeforeExpunged
PROPERTIES EveryReplyIngested EveryPendingMoveRetried
CHECK_DEADLOCK FALSE
