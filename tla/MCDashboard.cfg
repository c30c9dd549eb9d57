\* A capturer, its correlations and a browser under fair scheduling.
SPECIFICATION FairSpec
CONSTANTS
  Capturers <- OneCapturer
  Name <- OneName
  Payloads = {"quiet", "busy"}
  Browsers = {"b1"}
  MaxAlertHistory = 2
  MaxCaptures = 3
INVARIANTS TypeOK NoLostRefresh SnapshotCurrent
PROPERTIES ChangedIsExact EveryChangeFetched CorrelationSettles
