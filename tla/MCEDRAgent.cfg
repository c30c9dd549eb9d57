\* Three schedules under fair scheduling.
SPECIFICATION FairSpec
CONSTANTS
  Schedules <- Three
  MaxCaptures = 2
INVARIANTS FailureReturned
PROPERTIES GoroutinesExit FailureEndsRun
