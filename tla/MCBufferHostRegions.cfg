SPECIFICATION Spec
CONSTANTS
  BufferIds = {b1, b2}
  Groups <- MCGroups
  Widths <- MCWidths
  SizedWidths = {256}
  TopKs = {32}
  Experts = {64}
  PinnedSms = {96}
  DispatchGiven = {"None"}
  CombineGiven = {"None", "narrow"}
  LateSetNumSms = FALSE
  MaxSeq = 2
INVARIANT RegionsDisjoint
