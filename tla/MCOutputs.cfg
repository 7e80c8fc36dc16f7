SPECIFICATION OutputsSpec
CONSTANTS
  Outputs = {o1, o2}
  Views = {v1}
  Tokens = {}
  n1 = n1
  Names = {n1}
  MaxIds = 8
  Limit = 3
  Configs <- Sharing
  None = None
  Anon = Anon
  Lost = Lost
VIEW CanonicalView
INVARIANTS PlacesSound  PinnedOnActive
CHECK_DEADLOCK FALSE
