CONSTANTS
  NumLaunches = 5
  Schedule <- MCSchedule
  Layers <- MCLayers
  Masks <- RoutedMasks
  NumTokens = 8
  NumChannels = 2
  Channel = 1
  num_recv_buffer_tokens = 3
  num_max_send_tokens = 2
SPECIFICATION FairSpec
INVARIANTS
  TypeOK
  UnreadPacketsIntact
  CompletedLaunchIsWhole
  RowIsRoutingRank
  SendHeadIsRingPosition
  MismatchIsResidue
PROPERTIES
  RingIsFifo
  LaunchesDrain
