CONSTANTS
  ep = ep
  ec = ec
  ez = ez
  rp = rp
  rc = rc
  s1 = s1
  s2 = s2
  NoExec = NoExec
  NoRun = NoRun
  Exec = {ep, ec, ez}
  Compactors = {ez}
  Run = {rp, rc}
  Session = {s1, s2}
  RunOf <- MCRunOf
  SessionOf <- MCSessionOf
  Parent <- MCParent
  Background = {ep, ec}
  Slots = 1
  MaxCancels = 1
  MaxErrors = 1
SPECIFICATION FairSpec
INVARIANTS LaneExclusive SlotsAccounted EntriesLive ChildrenFollow
CHECK_DEADLOCK FALSE
PROPERTIES ImplementsLedger FencedLeaves
