SPECIFICATION IpcSpec
CONSTANTS
  Clients = {c1, c2}
  Listeners = {c1}
  Stalled = {c2}
  Facts = {a, b}
  Unsaid = Unsaid
  MaxBacklog = 2
  MaxChanges = 3
  MaxFamilies = 1
INVARIANTS SubscribersCurrent
CHECK_DEADLOCK FALSE
