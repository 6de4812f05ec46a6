SPECIFICATION EstateSpec
CONSTANTS
  MaxJobs = 2
  MaxScores = 2
  Callers = {c1}
  Workers = {w1, w2}
  MaxLost = 1
  MaxKilled = 1
  None = None
  Consents = {"CC-03", "CC-12"}
  Estates <- MCEstates
CHECK_DEADLOCK FALSE
INVARIANTS
  SucceededWhole
  NothingUsedIsRetired
  NoBlessingOverConsent
  BetterDataNeverJudgedWorse
  PagesTellWhatIsStored
PROPERTIES
  JobsSettle
