CONSTANTS
  i1 = i1
  Ips = {i1}
  Clients = {a, b}
  IpOf <- MCIpOf
  Captchas = {k1}
  Tokens = {t1, t2}
  Workers = {w1, w2}
  NoCaptcha = NoCaptcha
  NoClient = NoClient
  MaxAttempts = 2
  CaptchaLife = 2
  TTL = 2
  BanTime = 1
  Threshold = 3
  MaxTime = 3
  MaxFailures = 3
  MaxDeaths = 1
SPECIFICATION Spec
SYMMETRY Symmetry
INVARIANTS JudgedWithinLimit OneTokenEach PassIsEarned StrikesCounted
PROPERTIES BanNotCutShort
CHECK_DEADLOCK FALSE
