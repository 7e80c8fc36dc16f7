SPECIFICATION ReloadSpec
CONSTANTS
  Outputs = {o1}
  Views = {v1}
  Tokens = {t1}
  n1 = n1
  Names = {n1}
  MaxIds = 7
  Limit = 3
  Configs <- Reloads
  None = None
  Anon = Anon
  Lost = Lost
VIEW CanonicalView
INVARIANTS TypeOK
PROPERTIES WindowKeepsWorkspace
CHECK_DEADLOCK FALSE
