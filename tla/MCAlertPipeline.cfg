\* One caller, all stages on, two keys, rules that find something at every call; two
\* responders of which the first may fail, wired in each way.
SPECIFICATION Spec
CONSTANTS
  Callers = {"c1"}
  Keys = {"k1", "k2"}
  Batches <- BusyRules
  Responders = 2
  Failing = {1}
  Wirings = {"router", "routerOnly", "responders", "nothing"}
  DedupWindow = 1
  LimitWindow = 3
  Burst = 2
  Cooldown = 2
  MinSeverity = "medium"
  AllowRules = {"cpu", "net"}
  DenyRules = {"disk"}
  MaxTime = 6
  MaxCalls = 6
INVARIANTS TypeOK EveryAlertAccounted DedupSpacing BurstBounded CooldownSpacing
