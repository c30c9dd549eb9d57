----------------------------- MODULE MetricRules -----------------------------
(***************************************************************************)
(* What a capture is judged by (src/dashboard/dashboard.go): its metrics,  *)
(* the custom metrics computed from them, and the rules that compare one   *)
(* of either, or a total of several, with a threshold.  Evaluating an      *)
(* expression is left to Eval, which MetricExpr defines.                   *)
(***************************************************************************)
EXTENDS Fractions, Sequences

CONSTANT Eval(_, _)       \* evalMetricExpr: the value of an expression, or None

(* Custom metrics: a name and an expression each ------------------------------ *)

\* Mutant: a custom metric replaces a captured one of its name.
AddCustomMetric_Replace(metrics, custom) ==
  LET v == Eval(custom.expr, metrics)
  IN IF v = None THEN metrics
     ELSE [k \in DOMAIN metrics \cup {custom.name} |-> IF k = custom.name THEN v[1] ELSE metrics[k]]

AddCustomMetric(metrics, custom) ==
  LET v == Eval(custom.expr, metrics)
  IN IF custom.name \in DOMAIN metrics \/ v = None THEN metrics
     ELSE [k \in DOMAIN metrics \cup {custom.name} |-> IF k = custom.name THEN v[1] ELSE metrics[k]]

\* Custom metrics are added in their order; later ones may use earlier ones.
ApplyCustomMetrics(metrics, customs) ==
  LET upTo[n \in 0..Len(customs)] ==
        IF n = 0 THEN metrics ELSE AddCustomMetric(upTo[n - 1], customs[n])
  IN upTo[Len(customs)]

(* Rules ------------------------------------------------------------------------ *)

\* The metrics a total is made of.
TotalParts(key) ==
  CASE key = "net.total" -> <<"net.rx", "net.tx">>
    [] key = "persist.total" -> <<"persist.added", "persist.changed", "persist.removed">>
    [] OTHER -> <<>>

\* A part that is not there counts as zero.
PartValue(metrics, part) == IF part \in DOMAIN metrics THEN metrics[part] ELSE Q(0)

\* A metric of the capture, or the total of the parts if any is there.
MetricValue(metrics, key) ==
  LET parts == TotalParts(key)
      value(i) == PartValue(metrics, parts[i])
  IN IF key \in DOMAIN metrics THEN <<metrics[key]>>
     ELSE IF \A i \in DOMAIN parts : parts[i] \notin DOMAIN metrics THEN None
     ELSE <<IF Len(parts) = 2 THEN Plus(value(1), value(2))
                              ELSE Plus(Plus(value(1), value(2)), value(3))>>

CompareMetric(value, op, threshold) ==
  CASE op = ">" -> Less(threshold, value)
    [] op = "<" -> Less(value, threshold)
    [] op = "<=" -> ~Less(threshold, value)
    [] op = "==" -> Equals(value, threshold)
    [] op = "!=" -> ~Equals(value, threshold)
    [] OTHER -> ~Less(value, threshold)

\* Mutant: a rule without a source applies to no capturer.
RuleAlerts_SourceNeeded(rule, capturer, metrics) ==
  LET v == MetricValue(metrics, rule.metric)
  IN rule.source = capturer /\ v # None /\ CompareMetric(v[1], rule.op, rule.value)

\* buildMetricRule's Eval: the rule raises its alert for a capture with these metrics.
RuleAlerts(rule, capturer, metrics) ==
  LET v == MetricValue(metrics, rule.metric)
  IN rule.source \in {"", capturer} /\ v # None /\ CompareMetric(v[1], rule.op, rule.value)

=============================================================================
