SPECIFICATION Spec
CONSTANTS
  s1 = s1
  s2 = s2
  Schedules = {s1}
  Tasks = {t1, t2, t3}
  NoSchedule = NoSchedule
  NoTask = NoTask
  Definition <- PlainDefinition
  Commands = {"create"}
  Endings <- OneEnding
  LaunchFailures = {}
  MaxNow = 3
  MaxRevision = 1
  MaxRetries = 0
  MaxCrashes = 0
  MaxFaults = 0
INVARIANT AtMostOneActive
