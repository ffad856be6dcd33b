CONSTANTS
  Workers = {w1}
  Recruiters = {r1, r2}
  Candidates = {c1, c2}
  Attributes = {a1, a2}
  NoOne = NoOne
  NoCandidate = NoCandidate
  VoteCooldownDays = 2
  RecordsPerWeek = 1
  WeekDays = 2
  RetentionDays = 2
  MaxDay = 3
SPECIFICATION Spec
INVARIANTS Cooldown
PROPERTIES OverlapRelayed ImplementsBallot
SYMMETRY DataSymmetry
CHECK_DEADLOCK FALSE
