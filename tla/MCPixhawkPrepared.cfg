CONSTANTS
  Callers = {c1}
  Positions = {p1}
  NoPos = nopos
  Yaws = {}
  NoYaw = noyaw
  Operations = {"PREPARED"}
  Reports <- HomeReports
  MaxCalls = 1
  MaxStore = 1
SPECIFICATION FairSpec
PROPERTIES
  PreparedIsArmed
