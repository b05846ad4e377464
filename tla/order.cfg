SPECIFICATION Spec
CONSTANTS
  Surfaces = {a, b, c}
  Junk = {c}
  MaxCandidates = 4
  Scores = {0, 1, 2, 3}
  Tau = 2
INVARIANTS
  UnrankedKeepOrder
  RankingIsShown
  FirstNeedsMargin
  RestByScore
  DaemonAgreesWithHook
CHECK_DEADLOCK FALSE
