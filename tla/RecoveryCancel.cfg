SPECIFICATION FairSpec
CONSTANTS
  send = send
  append = append
  Operations = {send, append}
  NoOperation = NoOperation
  Idempotent <- Retryable
  Resumable = TRUE
  Cancellers = {"user"}
  MaxCalls = 1
  MaxCrashes = 0
PROPERTY CancellationEnds
