SPECIFICATION ObservedSpec
CONSTANTS
  a = a  b = b  t1 = t1  t2 = t2
  None = None
  Threads = {t1, t2}
  Surfaces = {a, b}
  Junk = {}
  Requests <- OneRequest
  Replies <- OneReply
  Enabled = TRUE
  LogEnabled = FALSE
  HookMode = FALSE
  GuardOn = FALSE
  StrictGuard = FALSE
  CandCap = 3
  DegradedCap = 2
  ContextChars = 3
  DegradedChars = 2
  DegradeAfter = 5
INVARIANT FailuresDegrade
PROPERTIES
  TierFollowsOutcomes
  OffForGood
