\* A rule for any capturer comes back from the file with a source.
SPECIFICATION Spec
CONSTANTS
  Parse <- ParseMetricExpr
  Format <- FormatMetricExpr
  Eval <- EvalMetricExpr
  Clients = {"p1"}
  Docs = {"rules"}
  NewRules <- OneAnyRule
  NewMetrics = {}
  RemovedRows = {7}
  MetricNames <- Names
  Captures <- Infos
  Indicators = TRUE
  SavesFail = FALSE
  MaxPosts = 2
  MaxCrashes = 0
INVARIANTS RulesPersisted
