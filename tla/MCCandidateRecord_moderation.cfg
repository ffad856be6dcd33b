CONSTANTS
  Candidates = {c1}
  Items = {i1, i2}
  Recruiters = {r1}
  Workers = {w1, w2}
  Urls <- MCUrls
  Platforms <- MCPlatforms
  SocialPlatform <- MCSocialPlatform
  Cities = {graz}
  Unstorable = Unstorable
  NoPlatform = NoPlatform
  NoCandidate = NoCandidate
  NoItem = NoItem
  NoValue = NoValue
  MaxViews = 1
  MaxDeaths = 1
SPECIFICATION Spec
SYMMETRY Alike
INVARIANTS TypeOK  PlatformFitsUrl ApprovedIsOnRecord RejectedLeavesNothing
PROPERTIES ReviewIsFinal
CHECK_DEADLOCK FALSE
