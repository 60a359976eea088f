\* Two transactions with the constants of the code for the searches, but for the
\* board of the queens (eight lines and 92 solutions in the code), and small data.
CONSTANTS
  Text <- Chunks
  Firstname <- First  Lastname <- Last3
  Excerpt = 2  Copies = 3
  Users <- SomeUsers  Others <- SomeOthers  Absent <- NoUser
  Size = 6  Runs = 4  NbSolutions = 4
  Bytes = 9  Stride = 3  Block = 2  Shuffles <- SomeShuffles
  Squares = 4  SquareSide = 2  Wilson = 6  BeforeCorner = 2  AfterCorner = 3
  CryptoSize = 4
  PEARLS_N = 500  NbPearls = 451
  NbCities = 8  Distance <- Cities  MaxFloat64 = 1000000
  Transactions = 2
SPECIFICATION Spec
INVARIANTS
  AllFoundOnce
  StringValid
  ShortestOfAll
  SameWork
PROPERTIES
  SearchAdvances
  Completion
