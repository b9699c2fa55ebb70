CONSTANTS
  RequestOpcodes <- Opcodes
  RequestLengths <- Lengths
  ReplyLengths <- Lengths
  Garbage <- Zero
  MaxRequests = 2
  Cuts <- SomeCuts
  MaxSplits = 1
SPECIFICATION FairSpec
INVARIANTS
  TypeOK
  InStep
  RequestsUnderstood
  RepliesUnderstood
  

  
CHECK_DEADLOCK FALSE
