SPECIFICATION FairSpec
CONSTANTS
  send = send
  append = append
  Operations = {send, append}
  NoOperation = NoOperation
  Idempotent <- Retryable
  Resumable = TRUE
  Cancellers = {}
  MaxCalls = 3
  MaxCrashes = 1
INVARIANT KeyMeansOperation
