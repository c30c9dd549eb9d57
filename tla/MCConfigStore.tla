---------------------------- MODULE MCConfigStore ----------------------------
(* Constants for checking ConfigStore with TLC, and a reference reading of   *)
(* expressions.                                                              *)
EXTENDS ConfigStore, MetricExpr, FiniteSetsExt, TLC

Symmetry == Permutations(Clients)

Names == <<"m", "n">>
Row(name, text) == [name |-> name, text |-> text]

\* Rows without an id and without a source.
SomeRules == {Rule("", "n", "<=", 1, "")}
OneAnyRule == {Rule("", "m", "=>", 1, "")}

Short == UNION {[1..k -> {"a", "1", "-", "*", "(", ")", "?"}] : k \in 0..3}
Ops2 == {"+", "-", "*", "/"}
Long ==
  UNION {{<<"a", o, "b", p, "c">>, <<"a", o, "(", "b", p, "c", ")">>, <<"(", "a", o, "b", ")", p, "2">>,
          <<"-", "a", o, "-", "b">>, <<"a", o, "?", "c">>, <<"b", p, "a", o, BadLiteral>>}
         : o, p \in Ops2}
Texts == Short \cup Long
SomeMetrics ==
  {Row("m", <<"a", "/", "b", "-", "c">>), Row("m", <<"a", "+">>), Row("n", <<"m", "/", "a">>)}

GroupedMetrics == {Row("m", <<"a", o, "(", "b", p, "c", ")">>) : o, p \in Ops2}

\* Captures a rule may be asked about.
Infos == {
  [capturer |-> "NET", metrics |-> [k \in {"a", "b", "net.rx"} |-> IF k = "a" THEN Q(2) ELSE Q(1)]],
  [capturer |-> "CPU", metrics |-> [k \in {"a", "b", "c"} |-> IF k = "a" THEN Q(0) ELSE Q(3)]],
  [capturer |-> "CPU", metrics |-> [k \in {"a", "b", "c", "m"} |-> IF k = "c" THEN Q(5) ELSE Q(1)]],
  [capturer |-> "PERSIST", metrics |-> [k \in {"persist.added", "persist.removed"} |-> Q(1)]]}

(* A reference reading: a text is split at its last operator outside parentheses *)

EndsOperand(token) == token \notin UNION Range(ChainOps) \cup {"("}
Depth(text, k) ==
  Cardinality({i \in 1..k : text[i] = "("}) - Cardinality({i \in 1..k : text[i] = ")"})
Splits(text, ops) ==
  {k \in 2..(Len(text) - 1) : text[k] \in ops /\ Depth(text, k) = 0 /\ EndsOperand(text[k - 1])}

Bad == [ok |-> FALSE, val |-> None]
Good(val) == [ok |-> TRUE, val |-> val]

RECURSIVE Reading(_, _)
Reading(text, metrics) ==
  LET low == Splits(text, {"+", "-"})
      high == Splits(text, {"*", "/"})
      k == IF low # {} THEN Max(low) ELSE Max(high)
      left == Reading(SubSeq(text, 1, k - 1), metrics)
      right == Reading(SubSeq(text, k + 1, Len(text)), metrics)
      inner == Reading(Tail(text), metrics)
  IN IF text = <<>> THEN Bad
     ELSE IF low \cup high # {} THEN
       IF ~left.ok \/ ~right.ok THEN Bad
       ELSE IF left.val = None \/ right.val = None THEN Good(None)
       ELSE IF text[k] = "/" /\ IsZero(right.val[1]) THEN Good(None)
       ELSE Good(<<Apply(text[k], left.val[1], right.val[1])>>)
     ELSE IF text[1] = "-" THEN
       IF inner.ok /\ inner.val # None THEN Good(<<Neg(inner.val[1])>>) ELSE inner
     ELSE IF Len(text) > 2 /\ text[1] = "(" /\ Last(text) = ")" THEN
       Reading(SubSeq(text, 2, Len(text) - 1), metrics)
     ELSE IF Len(text) > 1 THEN Bad
     ELSE IF text[1] \in DOMAIN Literals THEN Good(<<Q(Literals[text[1]])>>)
     ELSE IF text[1] \notin Idents THEN Bad
     ELSE Good(IF text[1] \in DOMAIN metrics THEN <<metrics[text[1]]>> ELSE None)

\* What comes before the first character no token starts with.
Readable(text) ==
  SubSeq(text, 1, Min({i - 1 : i \in {k \in DOMAIN text : text[k] = "?"}} \cup {Len(text)}))

SameValue(v, w) == IF v = None \/ w = None THEN v = w ELSE Equals(v[1], w[1])

\* No right operand of "-" or "/" is itself an operation of the same precedence.
RECURSIVE GroupedFromLeft(_)
GroupedFromLeft(e) ==
  /\ \A i \in DOMAIN e.args : GroupedFromLeft(e.args[i])
  /\ e.op \in {"-", "/"} =>
       \A i \in DOMAIN e.args : i > 1 => OpPrecedence(e.args[i].op) # OpPrecedence(e.op)

SameMeaning(e, f) ==
  \A info \in Infos : SameValue(EvalMetricExpr(e, info.metrics), EvalMetricExpr(f, info.metrics))

Redisplayed(e) ==
  LET again == ParseMetricExpr(FormatMetricExpr(e)) IN again # None /\ SameMeaning(again[1], e)

\* What an expression means is what its text says: a text is refused exactly if it is not
\* an expression, and operators of one precedence are taken from the left.  It is read up
\* to the first character no token starts with.  The text a page shows for it, and posts
\* back, means the same, as long as no right operand of "-" or "/" was in parentheses.
ParsedAsWritten ==
  posts = 0 =>
    \A text \in Texts :
      LET parsed == ParseMetricExpr(text) IN
      /\ \A info \in Infos :
           LET reading == Reading(Readable(text), info.metrics)
           IN /\ (parsed # None) = reading.ok
              /\ parsed # None => SameValue(EvalMetricExpr(parsed[1], info.metrics), reading.val)
      /\ \A e \in Range(parsed) : GroupedFromLeft(e) => Redisplayed(e)

\* A page that posts its table back leaves every metric as it was: "Custom metrics
\* support + - * / and parentheses."
DisplayedAsMeant == \A m \in Range(memory.metrics) : Redisplayed(m.expr)

=============================================================================
