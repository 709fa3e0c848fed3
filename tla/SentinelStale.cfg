CONSTANTS
  ExpectedInterval = 6
  MissedThreshold = 3
  Period = 1
  Lag = 1
  ProbeEnabled = TRUE
  ProbeMax = 4
  SendMax = 2
  SendOutcome = {"sent", "failed"}
  MaxRestarts = 0
SPECIFICATION Spec
INVARIANT LostAfterHeardSilence
