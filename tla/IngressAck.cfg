SPECIFICATION Spec
CONSTANTS
  good = good
  bad = bad
  hook = hook
  Message = {good, bad}
  Stream = {good, bad}
  Malformed = {bad}
  NoMessage = NoMessage
  MaxCalls = 1
  MaxFaults = 0
INVARIANT AckedIsKept
