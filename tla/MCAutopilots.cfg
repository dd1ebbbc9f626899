CONSTANTS
  Callers = {c1}
  Positions = {p1}
  NoPos = nopos
  Yaws = {}
  NoYaw = noyaw
  Operations = {"LAND", "KILL", "PREPARED", "STARTED", "sendSpeed", "magCal"}
  ArdupilotOperations = {"KILL", "PREPARED", "STARTED", "LAND", "RTL", "goTo", "sendYaw", "sendSpeed", "magCal"}
  Reports <- PX4Reports
  ArdupilotReports <- APMReports
  MaxCalls = 3
  MaxStore = 1
SPECIFICATION AutopilotsSpec
PROPERTIES
  NewestHeardLast
