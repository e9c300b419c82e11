CONSTANTS
  p = p
  q = q
  NumLaunches = 2
  Schedule <- MCSchedule
  Layers <- MCLayers
  Peers <- MCPeers
  Routings <- MCRoutings
  NumTokens = 11
  NumChannels = 2
  Channel = 0
  NumWorkers = 2
  num_recv_buffer_tokens = 3
  num_max_send_tokens = 2
SPECIFICATION FairSpec
INVARIANTS
  TypeOK
  PendingPacketsIntact
PROPERTIES
  ImplementsCombineReduce
  CombineDrains
