SPECIFICATION Spec
CONSTANTS
  Workers = {"prompt", "poll", "hand"}
  Commands = {"hand"}
  JobOf <- MCJobOf
  Prompters = {"prompt", "hand"}
  PageLimit = 1
  SmtpMayFail = TRUE ImapMayFail = TRUE DbMayFail = TRUE MayCancel = TRUE
  BannerDays = 0 MaxDay = 2
  MaxRuns = 2 MaxMails = 2 MaxReplies = 1 MaxOrphans = 1
  None = None
INVARIANTS TypeOK RunningHasAWorker EveryFailureHasAButton
PROPERTIES FailureIsReported OnlyItsPageAcknowledges RepliesFollowTheirPrompt
CHECK_DEADLOCK FALSE
