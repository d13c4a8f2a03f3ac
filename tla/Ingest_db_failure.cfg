SPECIFICATION Spec
CONSTANTS app = app cli = cli m1 = m1 m2 = m2 m3 = m3 d1 = d1 d2 = d2 photo = photo happy = happy work = work
  Edited = Edited NoMood = NoMood None = None Torn = Torn
  Names = {photo} Moods = {happy} Tags = {work}
  App = app Procs = {app, cli} Parsed <- MCParsed
  Messages = {m1, m2, m3} Dates = {d1} DatesFor <- MCDatesFor
  Handed <- MCHandedApp MaxEdits = 0 MaxSecond = 3
  SameSecond = FALSE FsMayFail = FALSE DbMayFail = TRUE CrashAt = {}
PROPERTIES IndexedEntryStays
CHECK_DEADLOCK FALSE
