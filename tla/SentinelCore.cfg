CONSTANTS
  ExpectedInterval = 6
  MissedThreshold = 3
  Period = 1
  Lag = 1
  ProbeEnabled = TRUE
  ProbeMax = 4
  SendMax = 2
  SendOutcome = {"sent", "failed"}
  MaxRestarts = 1
SPECIFICATION FairSpec
INVARIANT TypeOK
INVARIANT SilenceAnnounced
INVARIANT LostIsOldOrProbed
PROPERTY AlertsAlternate
PROPERTY RecoveryFollows
