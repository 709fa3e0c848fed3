CONSTANTS
  a1 = a1
  a2 = a2
  a3 = a3
  NoAnswer = NoAnswer
  NumWans = 1
  Addr = {a1, a2}
  Gateway <- OneGateway
  SendOutcome = {"sent", "raised"}
  StablePolls = 5
  Horizon = 12
  MayStop = TRUE
  MaxRestarts = 1
SPECIFICATION FairSpec
CHECK_DEADLOCK FALSE
PROPERTY SlowsDownOnlyWhenCalm
PROPERTY SlowsDownEventually
PROPERTY StopIsNear
