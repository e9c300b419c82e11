CONSTANTS
  NumSms = 3
  CommSms = 2
  Ranks = {r1}
  Checkpointing = {0, 1, 2}
  Schedule <- MCSchedule
SPECIFICATION Spec
INVARIANTS
  TypeOK
  AccessesOrdered
  SpinnerBehindDispatch
  ComputeWinsSms
  LayerIsBarrier
CHECK_DEADLOCK FALSE
