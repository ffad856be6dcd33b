CONSTANTS
  c1 = c1
  c2 = c2
  x = x
  y = y
  Workers = {w1, w2}
  Sessions = {s1}
  Ips = {i1, i2}
  Candidates = {c1, c2}
  Fields = {"email", "age", "city"}
  Values = {x, y}
  NoValue = NoValue
  Cases = {"email", "age"}
  Pipeline <- MCPipeline
  Fits <- MCFits
  NoCase = NoCase
  NoCandidate = NoCandidate
  NoIp = NoIp
  NoSession = NoSession
  StepTimeout = 1
  ProfileWindow = 1
  DayLength = 2
  Steps = {2, 3}
  MaxTime = 1
  MaxViews = 1
  MaxReports = 2
  Texts <- MCTexts
  Blank = ""
  Strip <- MCStrip
  Lower <- MCLower
  Number <- MCNumber
  Letters <- MCLetters
  NoToken = ""
  FirstLetter <- MCFirstLetter
  Alike <- MCAlike
  NoUrl = NoUrl
  NoPlatform = NoPlatform
  NoDate = NoDate
  NoAge = NoAge
  QuickLimit = 2
  Forms <- MCForms
  Dates <- MCDates
  Row <- MCRow
  Typed <- MCTyped
  Calendar <- MCCalendar
  MaxLength = 6
SPECIFICATION Spec
SYMMETRY Symmetry
INVARIANT RemainingFitAll
CHECK_DEADLOCK FALSE
