SPECIFICATION Spec
CONSTANTS
  s1 = s1
  s2 = s2
  Schedules = {s1}
  Tasks = {t1, t2}
  NoSchedule = NoSchedule
  NoTask = NoTask
  Definition <- PlainDefinition
  Commands = {"create", "run_now", "retry", "cancel"}
  Endings <- OneEnding
  LaunchFailures = {}
  MaxNow = 0
  MaxRevision = 1
  MaxRetries = 0
  MaxCrashes = 1
  MaxFaults = 0
SYMMETRY Symmetry
INVARIANTS
  OneExecutor
PROPERTIES
  TerminalFinal
  ImplementsLedger
