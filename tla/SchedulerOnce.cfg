SPECIFICATION Spec
CONSTANTS
  s1 = s1
  s2 = s2
  Schedules = {s1}
  Tasks = {t1}
  NoSchedule = NoSchedule
  NoTask = NoTask
  Definition <- OnceDefinition
  Commands = {"create"}
  Endings <- OneEnding
  LaunchFailures = {}
  MaxNow = 1
  MaxRevision = 1
  MaxRetries = 0
  MaxCrashes = 1
  MaxFaults = 0
INVARIANT NeverStaleWithoutEdits
