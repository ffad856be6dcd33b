CONSTANTS
  c1 = c1
  c2 = c2
  x = x
  y = y
  Workers = {w1}
  Sessions = {s1}
  Ips = {i1, i2}
  Candidates = {c1, c2}
  Fields = {"email", "social_url", "age", "city"}
  Values = {x, y}
  NoValue = NoValue
  Cases = {"email", "age"}
  Pipeline <- MCPipeline
  Fits <- MCFits
  NoCase = NoCase
  NoCandidate = NoCandidate
  NoIp = NoIp
  NoSession = NoSession
  StepTimeout = 2
  ProfileWindow = 2
  DayLength = 3
  Steps = {1, 2, 3, 4}
  MaxTime = 4
  MaxViews = 2
  MaxReports = 2
  Texts <- MCTexts
  Blank = ""
  Strip <- MCStrip
  Lower <- MCLower
  Number <- MCNumber
  Letters <- MCLetters
  NoToken = ""
  FirstLetter <- MCFirstLetter
  Alike <- MCAlike
  NoUrl = NoUrl
  NoPlatform = NoPlatform
  NoDate = NoDate
  NoAge = NoAge
  QuickLimit = 2
  Forms <- MCForms
  Dates <- MCDates
  Row <- MCRow
  Typed <- MCTyped
  Calendar <- MCCalendar
  MaxLength = 6
SPECIFICATION Spec
INVARIANTS  MasksHide
PROPERTIES ImplementsLifecycle
CHECK_DEADLOCK FALSE
