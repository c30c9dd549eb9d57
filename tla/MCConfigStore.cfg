\* Two pages edit rules and metrics; saving may fail and the process may crash.
SPECIFICATION Spec
CONSTANTS
  Parse <- ParseMetricExpr
  Format <- FormatMetricExpr
  Eval <- EvalMetricExpr
  Clients = {p1, p2}
  Docs = {"rules", "metrics"}
  NewRules <- SomeRules
  NewMetrics <- SomeMetrics
  RemovedRows = {7}
  MetricNames <- Names
  Captures <- Infos
  Indicators = TRUE
  SavesFail = TRUE
  MaxPosts = 3
  MaxCrashes = 1
INVARIANTS TypeOK CaptureJudged OverlapKeepsOne ParsedAsWritten AlertsAsConfigured
PROPERTIES RestartRecovers
SYMMETRY Symmetry
