CONSTANTS
  a1 = a1
  a2 = a2
  a3 = a3
  NoAnswer = NoAnswer
  NumWans = 3
  Addr = {a1, a2}
  Gateway <- SharedGateway
  SendOutcome = {"sent", "failed", "raised"}
  StablePolls = 1
  Horizon = 2
  MayStop = FALSE
  MaxRestarts = 1
SPECIFICATION FairSpec
INVARIANT TypeOK
INVARIANT EngineAgrees
INVARIANT SettledReport
INVARIANT SnapshotIsOnePoll
INVARIANT OutageVisible
PROPERTY DowntimeCoversOutage
PROPERTY AlertsAlternate
PROPERTY NeverSlowsDown
PROPERTY EventuallyKnown
