CONSTANTS
  SyslogEnabled = TRUE
  Traffic <- FailedLogins
  Keep = 2
  Last = 2
  SendOutcome = {"sent"}
  MaxAlerts = 1
  MaxMessages = 1
SPECIFICATION Spec
CHECK_DEADLOCK FALSE
INVARIANT AuthFailureTold
