\* The camera's clock is ahead by up to a step; with and without zero velocity updates.
SPECIFICATION Spec
CONSTANTS
  Slack = 2
  Horizon = 8
  MaxGap = 2
  Offsets <- StepAhead
  MaxDrift = 1
  InitWindow = 3
  max_clone_size = 2
  Buffered = TRUE
INVARIANTS
  IntegratesWholePeriod
  NoGapWithoutZupt
  SelectsTheSignal
\* readings end at the horizon
CHECK_DEADLOCK FALSE
