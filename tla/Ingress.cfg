SPECIFICATION FairSpec
CONSTANTS
  good = good
  bad = bad
  hook = hook
  Message = {good, bad, hook}
  Stream = {good, bad}
  Malformed = {bad}
  NoMessage = NoMessage
  MaxCalls = 2
  MaxFaults = 1
INVARIANTS RepliesTruthful OneRunPerChat HookAckDurable
PROPERTIES SettledForGood Handled
