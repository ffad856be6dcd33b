CONSTANTS
  Nodes = {1, 2}
  Workers = {w1, w2}
  Events = {e1}
  NoNode = NoNode
  Threshold = 2
  Window = 1
  MaxTime = 3
  MaxBeats = 3
  MaxJobs = 1
  MaxDeaths = 1
SPECIFICATION FairSpec
INVARIANTS  SteadyCoordinator
PROPERTIES FailoverHappens
CHECK_DEADLOCK FALSE
