SPECIFICATION FairSpec
CONSTANTS
  send = send
  append = append
  Operations = {send, append}
  NoOperation = NoOperation
  Idempotent <- Retryable
  Resumable = TRUE
  Cancellers = {"owner"}
  MaxCalls = 2
  MaxCrashes = 2
INVARIANTS
  WaitingRunDecidable
  EligibleIsSettled
  FencedOperation
PROPERTIES
  EndedIsFinal
  ImplementsLedger
  ExecutorEnds
  HandedRunStarts
