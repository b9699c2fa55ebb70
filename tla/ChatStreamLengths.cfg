CONSTANTS
  RequestOpcodes <- Logins
  RequestLengths <- Lengths
  ReplyLengths <- ShortLengths
  Garbage <- Zero
  MaxRequests = 2
  Cuts <- NoCuts
  MaxSplits = 0
SPECIFICATION Spec
INVARIANTS
  EveryLengthIsRead
CHECK_DEADLOCK FALSE
