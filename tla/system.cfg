SPECIFICATION SystemSpec
CONSTANTS
  a = a  b = b  c = c  t1 = t1  t2 = t2
  None = None
  Threads = {t1}
  Surfaces = {a, b, c}
  Junk = {c}
  Requests <- SystemRequests
  Replies <- SystemReplies
  Enabled = TRUE
  LogEnabled = FALSE
  HookMode = FALSE
  GuardOn = FALSE
  StrictGuard = TRUE
  CandCap = 3
  DegradedCap = 2
  ContextChars = 3
  DegradedChars = 2
  DegradeAfter = 1
  Scores = {0, 1, 2}
  Tau = 2
  DaemonCap = 3
INVARIANTS
  MozcFirstUnlessMargin
  PastCapUntouched
  AnswersOwnQuestion
PROPERTY RewriterSpec
