\* The thread runs beside the caller, or the caller waits for it.
SPECIFICATION FairSpec
CONSTANTS
  Start = 8
  Horizon = 18
  MaxLag = 3
  InitWindow = 6
  Slack = 1
  MaxInit = 3
  SharedStamps = FALSE
  max_clone_size = 2
INVARIANTS
  StateHasOneOwner
  CatchUpNeverHalts
PROPERTIES
  InitThreadEnds
  FeedReturns
\* readings end at the horizon
CHECK_DEADLOCK FALSE
