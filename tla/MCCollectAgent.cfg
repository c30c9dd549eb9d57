\* Two schedules race the worker; two sinks, the second may fail; queue of one.
SPECIFICATION Spec
CONSTANTS
  s1 = s1
  s2 = s2
  Schedules = {s1, s2}
  Worker = Worker
  NoItem = NoItem
  SinkName <- TwoSinks
  FlakySinks = {2}
  QueueSize = 1
  MaxCaptures = 2
  MaxRuns = 1
SYMMETRY Symmetry
INVARIANTS TypeOK SinksAgree QuiescentAfterRun RunReportsErrors
PROPERTIES StatsPerSink
