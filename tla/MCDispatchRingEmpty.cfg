CONSTANTS
  NumLaunches = 5
  Schedule <- MCSchedule
  Layers <- MCLayers
  Masks <- AllMasks
  NumTokens = 8
  NumChannels = 2
  Channel = 1
  num_recv_buffer_tokens = 3
  num_max_send_tokens = 2
SPECIFICATION Spec
INVARIANTS
  MismatchIsResidue
