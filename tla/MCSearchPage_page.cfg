CONSTANTS
  c1 = c1
  x = x
  Workers = {w1}
  Sessions = {s1}
  i1 = i1
  Ips = {i1}
  Candidates = {c1}
  Fields = {"email", "phone", "city"}
  Values = {x}
  NoValue = NoValue
  Cases = {"email", "phone"}
  Pipeline <- MCPipeline
  Fits <- MCFits
  NoCase = NoCase
  NoCandidate = NoCandidate
  NoIp = NoIp
  NoSession = NoSession
  StepTimeout = 2
  ProfileWindow = 2
  DayLength = 2
  Steps = {2, 3, 4}
  MaxTime = 2
  MaxViews = 1
  MaxReports = 2
  Ip = i1
  Calls = {1, 2}
  NoField = NoField
  MaxLost = 1
SPECIFICATION PageFairSpec
INVARIANTS PageTypeOK StepsCarryTheirField  TimeoutIsReal
PROPERTIES ResolvedIsShown
CHECK_DEADLOCK FALSE
