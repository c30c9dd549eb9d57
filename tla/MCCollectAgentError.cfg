\* An error is recorded and Run goes on.
SPECIFICATION FairSpec
CONSTANTS
  s1 = s1
  s2 = s2
  Schedules = {s1, s2}
  Worker = Worker
  NoItem = NoItem
  SinkName <- OneSink
  FlakySinks = {1}
  QueueSize = 1
  MaxCaptures = 1
  MaxRuns = 1
PROPERTIES ErrorEndsRun
