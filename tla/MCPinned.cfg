SPECIFICATION PinnedSpec
CONSTANTS
  Outputs = {o1}
  Views = {v1}
  Tokens = {}
  n1 = n1
  Names = {n1}
  MaxIds = 7
  Limit = 4
  Configs <- Plainest
  None = None
  Anon = Anon
  Lost = Lost
VIEW CanonicalView
INVARIANTS PinnedOnActive
CHECK_DEADLOCK FALSE
