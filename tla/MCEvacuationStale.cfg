SPECIFICATION EvacuationSpec
CONSTANTS
  Outputs = {o1, o2}
  Views = {v1, v2}
  Tokens = {}
  Names = {n1}
  MaxIds = 10
  Limit = 3
  Portable = {o1}
  MaxDepartures = 1
  MaxWaiting = 1
  Configs <- Unnamed
  None = None
  Anon = Anon
  Lost = Lost
  n1 = n1
VIEW EvacuationView
SYMMETRY ViewSymmetry
CONSTRAINT Unfinished
CHECK_DEADLOCK FALSE
INVARIANT TargetsLive
