SPECIFICATION Spec
CONSTANTS
  s1 = s1
  s2 = s2
  Schedules = {s1, s2}
  Tasks = {t1, t2}
  NoSchedule = NoSchedule
  NoTask = NoTask
  Definition <- MixedDefinition
  Commands = {"create", "update", "toggle"}
  Endings <- OneEnding
  LaunchFailures = {}
  MaxNow = 2
  MaxRevision = 2
  MaxRetries = 1
  MaxCrashes = 0
  MaxFaults = 0
SYMMETRY Symmetry
INVARIANTS
  NoOverlapBeforeSkip
PROPERTIES
  ScheduledOnlyWhileEnabled
