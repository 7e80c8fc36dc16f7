SPECIFICATION SubjectSpec
CONSTANTS
  Outputs = {o1}
  Views = {v1}
  Tokens = {t1}
  n1 = n1
  Names = {n1}
  MaxIds = 6
  Limit = 3
  Configs <- Launched
  None = None
  Anon = Anon
  Lost = Lost
  Subjects = {"launch", "tiles"}
  Windows = {a, b, c}
  Workspaces = {w1, w2}
  Main = w1
  NoWindow = NoWindow
  Nowhere = Nowhere
  OpensTabbed = {TRUE}
VIEW Distinct
SYMMETRY Interchangeable
CONSTRAINT Within
INVARIANTS RetainedIsQuiet TilingTypeOK 
PROPERTIES ShownTabStays GroupLandsTogether TokenKeepsWorkspace ImplementsLifecycle RetainedReleased
CHECK_DEADLOCK FALSE
