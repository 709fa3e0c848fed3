CONSTANTS
  ExpectedInterval = 4
  MissedThreshold = 3
  Period = 1
  Lag = 1
  ProbeEnabled = FALSE
  ProbeMax = 0
  SendMax = 1
  SendOutcome = {"sent", "raised"}
  MaxRestarts = 1
  Interval = 4
  RequestMax = 1
  DelayMax = 2
  RestartDelay = 1
  MaxCrashes = 1
SPECIFICATION LinkFairSpec
INVARIANT LinkTypeOK
INVARIANT InOrder
INVARIANT DeadInTime
INVARIANT RecoveryClosesLoss
INVARIANT SilenceOwed
PROPERTY LossesBehindLost
PROPERTY DeadAnnounced
