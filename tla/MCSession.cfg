SPECIFICATION SessionSpec
CONSTANTS
  Subjects = {"lock", "capture"}
  Outputs = {o1, o2}
  Depths = {2}
  Animated = {}
  MaxChanges = 2
  None = None
  Sessions = {s1, s2}
  Typing = {s1}
  Pointing = {s1, s2}
  Emulators = {e1}
  MaxParties = 2
  NoOne = NoOne
VIEW Distinct
SYMMETRY Interchangeable
INVARIANTS TypeOK LockedIsCovered LockHoldsFocus SoleDialog CaptureYields
PROPERTIES ConfirmedAfterCover UnlockRestoresFocus HeldKeyHasOneOwner
CHECK_DEADLOCK FALSE
