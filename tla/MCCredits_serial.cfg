CONSTANTS
  Recruiters = {r1, r2}
  Workers = {w1}
  Checkouts = {c1}
  Quantity <- MCQuantity
  NoOne = NoOne
  NoCheckout = NoCheckout
  VoteCooldownDays = 2
  RecordsPerWeek = 1
  WeekDays = 2
  MaxDay = 3
  MaxEarned = 2
SPECIFICATION Spec
PROPERTIES ImplementsWallet
