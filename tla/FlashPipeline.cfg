SPECIFICATION FlashSpec
CONSTANTS
  None = None
  Projects = {A, B}
  Files = {"main.py"}
  Templates = {}
  Tabs = {}
  Boards = {"mk66fx1m0", "mk64fx512"}
  DefaultBoard = "mk66fx1m0"
  FormUrls <- NoUrls
  FlagBoards = {"mk66fx1m0"}
  MaxContador = 4
SYMMETRY FlashSymmetry
INVARIANT FlashTypeOK
  
