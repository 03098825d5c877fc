CONSTANTS
  N = 3
  Weight <- MCWeight
  LiveSets <- AnyLive
  MaxRefusals = 1
SPECIFICATION SchedulerSpec
INVARIANTS SharesAreFair
