CONSTANTS
  NumSms = 3
  CommSms = 2
  Ranks = {r1, r2}
  Checkpointing = {0}
  Schedule <- MCOneForward
SPECIFICATION FairSpec
PROPERTIES
  EveryPassCompletes
CHECK_DEADLOCK FALSE
