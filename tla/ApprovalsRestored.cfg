CONSTANTS
  Read = {read}
  Effect = {effect}
  Command = {push}
  Question = {question}
  Shared = {read, effect}
  NoCall = NoCall
  MaxCalls = 2
  MaxLives = 2
SPECIFICATION Spec
INVARIANT OldApprovalVoid
CHECK_DEADLOCK FALSE
