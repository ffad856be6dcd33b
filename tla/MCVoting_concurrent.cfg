CONSTANTS
  Workers = {w1, w2}
  Recruiters = {r1, r2}
  Candidates = {c1}
  Attributes = {a1, a2}
  NoOne = NoOne
  NoCandidate = NoCandidate
  VoteCooldownDays = 2
  RecordsPerWeek = 1
  WeekDays = 2
  RetentionDays = 1
  MaxDay = 2
SPECIFICATION Spec
INVARIANTS  RewardsMatchVotes PublicAreUnexpired
SYMMETRY Symmetry
CHECK_DEADLOCK FALSE
