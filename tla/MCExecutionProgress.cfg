\* The cases of MCExecution that must make progress.
SPECIFICATION ProgressSpec
CONSTANTS
  s1 = s1
  s2 = s2
  s3 = s3
  Nil = Nil
PROPERTIES
  WorkerSettles
  DispatcherDrains
CHECK_DEADLOCK FALSE
