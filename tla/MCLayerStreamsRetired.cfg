CONSTANTS
  NumSms = 3
  CommSms = 2
  Ranks = {r1}
  Checkpointing = {0}
  Schedule <- MCOneForward
SPECIFICATION Spec
INVARIANTS
  ConsumerAfterDispatchRetired
CHECK_DEADLOCK FALSE
