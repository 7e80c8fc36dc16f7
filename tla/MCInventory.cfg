SPECIFICATION InventorySpec
CONSTANTS
  Outputs = {o1}
  Views = {v1, v2}
  Tokens = {}
  n1 = n1
  Names = {n1}
  MaxIds = 6
  Limit = 4
  Configs <- Crowded
  None = None
  Anon = Anon
  Lost = Lost
VIEW CanonicalView
SYMMETRY ViewSymmetry
INVARIANTS  NamesMaterialize EmptiesServe
CHECK_DEADLOCK FALSE
