CONSTANTS
  Callers = {c1, c2}
  Positions = {p1}
  NoPos = nopos
  Yaws = {y1}
  NoYaw = noyaw
  Operations = {"RTL", "goTo", "MANUAL_ONBOARD", "sendYaw", "STARTED", "sendSpeed", "magCal"}
  Reports <- StreamReports
  MaxCalls = 3
  MaxStore = 1
SPECIFICATION StreamSpec
INVARIANTS
  TypeOK
  StopIsPrompt
  TargetIsPrompt
  OffboardIsFed
PROPERTIES
  StreamGoesOn
