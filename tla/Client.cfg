SPECIFICATION FairSpec
CONSTANTS
  exec = exec
  start = start
  raw = raw
  Calls <- MCCalls
  Kind <- MCKind
  Requests <- MCRequests
  Req <- MCReq
  MaxAttempts = 2
  Creations = 1
CHECK_DEADLOCK FALSE
INVARIANTS TypeOK OncePerLife ReturnsTruthful
PROPERTIES CallsReturn
