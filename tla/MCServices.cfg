SPECIFICATION ServicesSpec
CONSTANTS
  Subjects = {"inventory", "ipc", "presentation", "lock"}
  Outputs = {o1, o2}
  Views = {v1}
  Tokens = {t1}
  Ids = {w1, w2, w3}
  Limit = 2
  None = None
  Unset = Unset
  Seats = {o1}
  LockDepths = {1, 2}
  LockAnimated = {1}
  MaxLockChanges = 2
  Clients = {c1, c2}
  Listeners = {c1}
  Stalled = {c2}
  Facts = {a, b}
  Unsaid = Unsaid
  MaxBacklog = 2
  MaxChanges = 3
  MaxFamilies = 1
VIEW Distinct
SYMMETRY Interchangeable
INVARIANTS ShelvesKept ConnectionsAccounted ListenersCurrent ModesAgree ParkedIsNewest RoundTrips
PROPERTIES LockAnswered FinalStateGoesOut
CHECK_DEADLOCK FALSE
