CONSTANTS
  SyslogEnabled = TRUE
  Traffic <- TypicalTraffic
  Keep = 2
  Last = 2
  SendOutcome = {"sent", "failed", "raised"}
  MaxAlerts = 3
  MaxMessages = 3
SPECIFICATION FairSpec
CHECK_DEADLOCK FALSE
INVARIANT TypeOK
INVARIANT EachAlertOnce
INVARIANT MessagesCounted
INVARIANT FailoverTold
PROPERTY HeartbeatTellsLatest
PROPERTY StopEnds
PROPERTY EventsTrimmed
PROPERTY ImplementsDelivery
