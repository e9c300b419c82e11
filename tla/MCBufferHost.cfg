SPECIFICATION Spec
CONSTANTS
  BufferIds = {b1, b2}
  Groups <- MCGroups
  Widths <- MCWidths
  SizedWidths = {256}
  TopKs = {32}
  Experts = {64}
  PinnedSms = {96}
  DispatchGiven = {"None", "chunked"}
  CombineGiven = {"None", "chunked"}
  LateSetNumSms = FALSE
  MaxSeq = 2
SYMMETRY MCSymmetry
INVARIANTS TypeOK OneGeometryPerBuffer RegionsDisjoint SizedForFits RaisedOnlyForItsOwnPins LaunchWithinRcs
PROPERTY SeqIncreases
