CONSTANTS
  NumSms = 3
  CommSms = 2
  Ranks = {r1}
  Checkpointing = {0, 1, 2}
  Schedule <- MCTwoLayers
SPECIFICATION FairSpec
PROPERTIES
  EveryPassCompletes
CHECK_DEADLOCK FALSE
