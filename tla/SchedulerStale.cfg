SPECIFICATION Spec
CONSTANTS
  s1 = s1
  s2 = s2
  Schedules = {s1}
  Tasks = {t1}
  NoSchedule = NoSchedule
  NoTask = NoTask
  Definition <- PlainDefinition
  Commands = {"create", "update"}
  Endings <- OneEnding
  LaunchFailures = {}
  MaxNow = 1
  MaxRevision = 2
  MaxRetries = 0
  MaxCrashes = 0
  MaxFaults = 0
PROPERTY SupersededNeverStarts
