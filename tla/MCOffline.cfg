\* Two cameras in pairs, or three on their own, messages logged at their stamps, the
\* estimate of the clock difference varies; or two runs, truths four apart, poses anywhere
\* between them.
SPECIFICATION OfflineSpec
CONSTANTS
  Rigs = {2, 3}
  Times = {1, 2, 3, 4}
  MaxLatency = 0
  ClockOffsets = {0, 1}
  Stale = 1
  Flush = 2
  TruthStamps = {0, 4, 8, 12}
  EstStamps = {1, 2, 3, 5, 6, 9}
  max_difference = 4
  NumRuns = 2
  MinMatches = 2
INVARIANTS
  FedInOrder
  EveryFrameFedOnce
  MatchesNearest
  AveragedOverAllRuns
\* the recording ends, the files are used up
CHECK_DEADLOCK FALSE
