CONSTANTS
  Addr = {a1, a2, a3}
  NoAddr = NoAddr
  Expected = a1
  SendOutcome = {"sent", "failed", "raised"}
  MaxRestarts = 1
SPECIFICATION FairSpec
INVARIANT TypeOK
INVARIANT ChangesAccounted
PROPERTY FailureNeedsTwo
PROPERTY MismatchInsists
