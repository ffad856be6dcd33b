CONSTANTS
  Recruiters = {r1}
  Workers = {w1, w2}
  Checkouts = {c1}
  Quantity <- MCQuantity
  NoOne = NoOne
  NoCheckout = NoCheckout
  VoteCooldownDays = 2
  RecordsPerWeek = 1
  WeekDays = 2
  MaxDay = 2
  MaxEarned = 2
SPECIFICATION FairSpec
INVARIANTS NeverNegative NoMintedCredit BookedOnce AckedMeansCompleted
PROPERTIES ChargedOnlyAfterFree PaidIsBooked
