CONSTANTS
  Read = {read}
  Effect = {effect}
  Command = {push}
  Question = {question}
  Shared = {read, effect}
  NoCall = NoCall
  MaxCalls = 2
  MaxLives = 2
SPECIFICATION FairSpec
INVARIANT WaitHasOwner
PROPERTIES ImplementsLedger AnswerCounts NothingAdmittedAfterStop CallsEnd
CHECK_DEADLOCK FALSE
