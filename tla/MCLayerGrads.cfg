SPECIFICATION Spec
CONSTANTS
  I = 2
  NaN = NaN
  H = 2
  NumExperts = 2
  Routings <- MCRoutings
  Overrides <- MCOverrides
  Seeds = {0, 1}
  x <- MCx
  dL_dy <- MCdy
  topk_weight <- MCweight
  w1 <- MCw1
  w2 <- MCw2
INVARIANTS
  TypeOK
  ForwardExact
  InputGradExact
  RoutingGradExact
  WeightGradsExact
  PadsAreZero
  NoKernelAsserts
CHECK_DEADLOCK FALSE
