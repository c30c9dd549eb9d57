\* Two disk paths share one item.
SPECIFICATION Spec
CONSTANTS
  Capturers <- TwoDisks
  Name <- DiskNames
  Payloads = {"quiet"}
  Browsers = {}
  MaxAlertHistory = 2
  MaxCaptures = 2
INVARIANTS EveryCapturerShown
