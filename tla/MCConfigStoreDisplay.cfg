\* An expression with parentheses on the right is displayed without them.
SPECIFICATION Spec
CONSTANTS
  Parse <- ParseMetricExpr
  Format <- FormatMetricExpr
  Eval <- EvalMetricExpr
  Clients = {"p1"}
  Docs = {"metrics"}
  NewRules = {}
  NewMetrics <- GroupedMetrics
  RemovedRows = {1}
  MetricNames <- Names
  Captures <- Infos
  Indicators = TRUE
  SavesFail = FALSE
  MaxPosts = 1
  MaxCrashes = 0
INVARIANTS DisplayedAsMeant
