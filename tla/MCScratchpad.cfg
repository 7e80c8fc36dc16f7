\* Two pads, two windows, two outputs of which one leaves and returns.
SPECIFICATION ScratchpadSpec
CONSTANTS
  Screens = {s1, s2}
  Unsteady = {s1}
  Windows = {x1, x2}
  Pads = {p1, p2}
  p2 = p2
  Nobody = Nobody
  Unmapped = Unmapped
SYMMETRY WindowSymmetry
CONSTRAINT Apart
CHECK_DEADLOCK FALSE
INVARIANTS ScratchpadTypeOK  PadsFollowOutputs
PROPERTY SoloNeverSpreads
