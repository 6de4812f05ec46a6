SPECIFICATION MCSpec
CONSTANTS
  Asks = {a1, a2}
  Checks = {c1}
  Findings = {f1, f2, secret}
  Secret = {secret}
  secret = secret
  Retries = 2
  BriefCap = 1
  MaxScores = 2
  MaxRequests = 2
  MaxReports = 1
  c1 = c1
  f1 = f1
  f2 = f2
  Txs = {p1, p2, p3}
  MaxEntries = 4
  Clean = Clean
  Nothing = Nothing
  None = None
  Outcomes <- Runs
SYMMETRY Symmetry
INVARIANTS
  BreaksNeedOverlap
  AnswersFitTheFinding
  FixesAreReused
  ReportsTellOneStory
CHECK_DEADLOCK FALSE
