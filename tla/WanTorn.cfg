CONSTANTS
  a1 = a1
  a2 = a2
  a3 = a3
  NoAnswer = NoAnswer
  NumWans = 2
  Addr = {a1, a2}
  Gateway <- TwoGateways
  SendOutcome = {"sent"}
  StablePolls = 5
  Horizon = 2
  MayStop = FALSE
  MaxRestarts = 0
SPECIFICATION Spec
INVARIANT HeartbeatOneUp
