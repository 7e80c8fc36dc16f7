SPECIFICATION PresentationSpec
CONSTANTS
  Unset = Unset
INVARIANTS NoOutputSizedFloat
CHECK_DEADLOCK FALSE
