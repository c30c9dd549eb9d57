------------------------------ MODULE MetricExpr ------------------------------
(***************************************************************************)
(* The expressions of the dashboard's custom metrics                       *)
(* (src/dashboard/dashboard.go): they are parsed from text, written back   *)
(* as text for the page and evaluated over the metrics of a capture.       *)
(*                                                                         *)
(* A text is a sequence of tokens; a token is an operator, a parenthesis,  *)
(* a number literal, a metric name or "?", a character no token starts     *)
(* with.                                                                   *)
(***************************************************************************)
EXTENDS Fractions, Sequences, SequencesExt

Literals == [l \in {"0", "1", "2"} |-> CASE l = "0" -> 0 [] l = "1" -> 1 [] l = "2" -> 2]
BadLiteral == "1.2.3"       \* digits and dots that strconv.ParseFloat refuses
Idents == {"a", "b", "c", "m", "n"}

(* MetricExpr: a metric, a value or an operator with its arguments -------------- *)

Leaf == [op |-> "", args |-> <<>>, metric |-> "", value |-> None]
MetricOf(name) == [Leaf EXCEPT !.metric = name]
ValueOf(n) == [Leaf EXCEPT !.value = <<Q(n)>>]
Node(op, args) == [Leaf EXCEPT !.op = op, !.args = args]

\* Precedence of the chains the parser builds: parseExpr, then parseTerm.
ChainOps == <<{"+", "-"}, {"*", "/"}>>
OpPrecedence(op) == IF op \in ChainOps[2] THEN 2 ELSE IF op \in ChainOps[1] THEN 1 ELSE 0

(* The lexer and the parser ---------------------------------------------------- *)

\* Past the end, and at a character no token starts with, the lexer says EOF.
NextToken(text, i) == IF i > Len(text) \/ text[i] = "?" THEN "EOF" ELSE text[i]

Parsed(expr, next) == [ok |-> TRUE, expr |-> expr, next |-> next]
Failed == [ok |-> FALSE, expr |-> Leaf, next |-> 0]

RECURSIVE ParseChain(_, _, _), ParseRest(_, _, _), ParseFactor(_, _)

\* A number, a metric, a negation (zero minus the factor) or parentheses.
ParseFactor(text, i) ==
  LET token == NextToken(text, i) IN
  CASE token \in DOMAIN Literals -> Parsed(ValueOf(Literals[token]), i + 1)
    [] token \in Idents -> Parsed(MetricOf(token), i + 1)
    [] token = "-" ->
         LET factor == ParseFactor(text, i + 1)
         IN IF factor.ok THEN Parsed(Node("-", <<ValueOf(0), factor.expr>>), factor.next)
                         ELSE Failed
    [] token = "(" ->
         LET inner == ParseChain(text, i + 1, 1)
         IN IF inner.ok /\ NextToken(text, inner.next) = ")"
              THEN Parsed(inner.expr, inner.next + 1) ELSE Failed
    [] OTHER -> Failed

\* parseExpr (level 1) and parseTerm (level 2): operands joined from the left.
ParseOperand(text, i, level) ==
  IF level = 2 THEN ParseFactor(text, i) ELSE ParseChain(text, i, 2)
ParseChain(text, i, level) == ParseRest(text, ParseOperand(text, i, level), level)

\* Mutant: the rest of the chain is one operand on the right.
ParseRest_RightFirst(text, left, level) ==
  LET op == NextToken(text, left.next) IN
  IF ~left.ok \/ op \notin ChainOps[level] THEN left
  ELSE LET right == ParseChain(text, left.next + 1, level)
       IN IF right.ok THEN Parsed(Node(op, <<left.expr, right.expr>>), right.next) ELSE Failed

ParseRest(text, left, level) ==
  LET op == NextToken(text, left.next) IN
  IF ~left.ok \/ op \notin ChainOps[level] THEN left
  ELSE LET right == ParseOperand(text, left.next + 1, level)
       IN IF right.ok
            THEN ParseRest(text, Parsed(Node(op, <<left.expr, right.expr>>), right.next), level)
            ELSE Failed

\* parseMetricExpr: the expression, if it is all there is before EOF.
ParseMetricExpr(text) ==
  LET all == ParseChain(text, 1, 1)
  IN IF all.ok /\ NextToken(text, all.next) = "EOF" THEN <<all.expr>> ELSE None

(* Text for the page ------------------------------------------------------------ *)

LiteralOf(q) == CHOOSE l \in DOMAIN Literals : Equals(Q(Literals[l]), q)

RECURSIVE FormatWithPrec(_, _), JoinArgs(_, _, _)

\* The arguments with the operator between them.
JoinArgs(args, op, prec) ==
  FormatWithPrec(Head(args), prec) \o
    (IF Len(args) = 1 THEN <<>> ELSE <<op>> \o JoinArgs(Tail(args), op, prec))

\* Mutant: no parentheses at all.
FormatWithPrec_Flat(e, parentPrec) ==
  IF e.metric # "" THEN <<e.metric>>
  ELSE IF e.value # None THEN <<LiteralOf(e.value[1])>>
  ELSE IF e.op = "" \/ e.args = <<>> THEN <<>>
  ELSE JoinArgs(e.args, e.op, OpPrecedence(e.op))

\* Parentheses only where the operator outside binds tighter.
FormatWithPrec(e, parentPrec) ==
  IF e.metric # "" THEN <<e.metric>>
  ELSE IF e.value # None THEN <<LiteralOf(e.value[1])>>
  ELSE IF e.op = "" \/ e.args = <<>> THEN <<>>
  ELSE LET prec == OpPrecedence(e.op)
           out == JoinArgs(e.args, e.op, prec)
       IN IF prec < parentPrec THEN <<"(">> \o out \o <<")">> ELSE out

FormatMetricExpr(e) == FormatWithPrec(e, 0)

(* Evaluation --------------------------------------------------------------------- *)

Apply(op, x, y) ==
  CASE op = "+" -> Plus(x, y) [] op = "-" -> Plus(x, Neg(y))
    [] op = "*" -> Times(x, y) [] op = "/" -> Over(x, y)

RECURSIVE EvalMetricExpr(_, _)

\* No value if a metric is missing, a divisor is zero or the operator is unknown.
EvalMetricExpr(e, metrics) ==
  IF e.metric # "" THEN IF e.metric \in DOMAIN metrics THEN <<metrics[e.metric]>> ELSE None
  ELSE IF e.value # None THEN e.value
  ELSE LET vals == [i \in DOMAIN e.args |-> EvalMetricExpr(e.args[i], metrics)]
           defined == \A i \in DOMAIN vals : vals[i] # None /\ ~(e.op = "/" /\ i > 1 /\ IsZero(vals[i][1]))
       IN IF e.op \notin UNION Range(ChainOps) \/ vals = <<>> \/ ~defined THEN None
          ELSE IF e.op = "-" /\ Len(vals) = 1 THEN <<Neg(vals[1][1])>>
          ELSE <<FoldLeft(LAMBDA x, v : Apply(e.op, x, v[1]), vals[1][1], Tail(vals))>>

=============================================================================
