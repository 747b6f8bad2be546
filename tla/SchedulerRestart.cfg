SPECIFICATION FairSpec
CONSTANTS
  s1 = s1
  s2 = s2
  Schedules = {s1}
  Tasks = {t1, t2}
  NoSchedule = NoSchedule
  NoTask = NoTask
  Definition <- LimitedDefinition
  Commands = {"create", "remove"}
  Endings <- TwoEndings
  LaunchFailures = {"failed"}
  MaxNow = 2
  MaxRevision = 2
  MaxRetries = 1
  MaxCrashes = 1
  MaxFaults = 1
INVARIANTS
  InvocationUnique
  NoLostInvocation
PROPERTIES
  LaunchEnds
  QueuedMoves
