CONSTANTS
  NumSubstreams = 4
  NumExperts = 2
  tile_m = 2
  NumRanks = 2
  Arrivals <- MCArrivals
  num_topk = 2
  kReceiverChunkSize = 2
  NumCTAs = 2
  NumPidN <- MCNumPidNOdd
  cluster_n = 2
SPECIFICATION Spec
INVARIANT
  LastStripeSeesAll
