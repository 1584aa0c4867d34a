SPECIFICATION WorkspaceSpec
CONSTANTS
  None = None
  Projects = {A, B}
  Files = {"main.py", "boot.py"}
  Templates = {"main.py"}
  Tabs = {t1, t2}
  Boards = {"mk66fx1m0"}
  DefaultBoard = "mk66fx1m0"
  FormUrls <- SomeUrls
SYMMETRY WorkspaceSymmetry
INVARIANT WorkspaceTypeOK
PROPERTIES OnlyTheNamedIsLost SaveSurvivesItsUrl
