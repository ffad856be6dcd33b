CONSTANTS
  Recruiters = {r1, r2}
  Relays = {k1, k2}
  Workers = {w1, w2}
  NoOne = NoOne
  NoRelay = NoRelay
  MaxDeaths = 1
SPECIFICATION FairSpec
INVARIANTS DeletedNotShown ExchangeMeansAccepted
PROPERTIES AnswerIsFinal AcceptedIsTold
CHECK_DEADLOCK FALSE
