SPECIFICATION FairSpec
CONSTANTS
  Names = {a, b}
  Matching = {a}
  Nobody = Nobody
  Threshold = 2
  Forms = {"save", "import"}
  MaxRefreshes = 2
  MaxCalls = 2
  MaxMoves = 3
CHECK_DEADLOCK FALSE
INVARIANTS
  TypeOK
PROPERTIES
  ActionShown
  Converges
