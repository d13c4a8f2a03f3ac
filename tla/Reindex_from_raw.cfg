SPECIFICATION RSpec
CONSTANTS app = app cli = cli m1 = m1 m2 = m2 m3 = m3 d1 = d1 d2 = d2 photo = photo happy = happy work = work
  Edited = Edited NoMood = NoMood None = None Torn = Torn
  Names = {photo} Moods = {happy} Tags = {work}
  App = app Cli = cli Procs = {app, cli} Parsed <- MCParsed
  Messages = {m1, m2, m3} Dates = {d1, d2} DatesFor <- MCDatesFor
  Handed <- MCHanded WalkOrder <- MCWalkOrder MaxEdits = 1 MaxSecond = 4
  SameSecond = FALSE FsMayFail = FALSE DbMayFail = FALSE CrashAt = {}
  MaxCommands = 1 MaxLosses = 0
PROPERTY FromRawKeepsEntries
CHECK_DEADLOCK FALSE
