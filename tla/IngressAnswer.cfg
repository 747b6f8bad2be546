SPECIFICATION Spec
CONSTANTS
  good = good
  bad = bad
  hook = hook
  Message = {good, bad, hook}
  Stream = {good, bad}
  Malformed = {bad}
  NoMessage = NoMessage
  MaxCalls = 2
  MaxFaults = 1
INVARIANT AnswerArrives
