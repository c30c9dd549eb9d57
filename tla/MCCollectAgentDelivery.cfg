\* One fast schedule fills a queue of two; Run is called twice; fair scheduling.
SPECIFICATION FairSpec
CONSTANTS
  s1 = s1
  s2 = s2
  Schedules = {s1}
  Worker = Worker
  NoItem = NoItem
  SinkName <- OneSink
  FlakySinks = {}
  QueueSize = 2
  MaxCaptures = 6
  MaxRuns = 2
INVARIANTS NoneLostOrRepeated OvertakingBounded
PROPERTIES ImplementsDelivery EachItemDelivered ShutdownCompletes
