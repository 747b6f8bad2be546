SPECIFICATION Spec
CONSTANTS
  s1 = s1
  s2 = s2
  Schedules = {s1}
  Tasks = {t1}
  NoSchedule = NoSchedule
  NoTask = NoTask
  Definition <- PlainDefinition
  Commands = {"create", "run_now"}
  Endings <- OneEnding
  LaunchFailures = {}
  MaxNow = 0
  MaxRevision = 1
  MaxRetries = 0
  MaxCrashes = 0
  MaxFaults = 0
INVARIANT SettledNotExecuting
