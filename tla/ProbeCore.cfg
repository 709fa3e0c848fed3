CONSTANTS
  ExpectedInterval = 2
  MissedThreshold = 2
  Period = 1
  Lag = 0
  ProbeEnabled = TRUE
  ProbeMax = 4
  SendMax = 1
  SendOutcome = {"sent"}
  MaxRestarts = 1
  HttpMax = 1
  ConnectMax = 1
  CloseMax = 0
SPECIFICATION ProbeFairSpec
INVARIANT ProbeTypeOK
INVARIANT SteadyServiceFound
PROPERTY ImplementsSentinel
PROPERTY QuietCheckAgrees
