SPECIFICATION FairSpec
CONSTANTS WarnPercent = 80 AlertPercent = 95 Levels <- MCLevels Window = 4
  MailMayFail = TRUE CrashAt <- BeforeMail MaxCrashes = 1
INVARIANTS TypeOK
PROPERTIES MailOnlyAfterDrop MailsApart BannerSettles
