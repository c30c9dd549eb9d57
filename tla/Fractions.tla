------------------------------ MODULE Fractions ------------------------------
(***************************************************************************)
(* The floating point numbers of metrics, thresholds and expressions, as   *)
(* exact fractions: rounding, the largest and the smallest floats are left *)
(* out.  A denominator is positive.                                        *)
(***************************************************************************)
EXTENDS Integers

Fractions == [n : Int, d : Int]

\* A pointer or an optional result is a sequence of at most one element.
None == <<>>

Q(n) == [n |-> n, d |-> 1]
Neg(x) == [x EXCEPT !.n = -@]
Plus(x, y) == [n |-> x.n * y.d + y.n * x.d, d |-> x.d * y.d]
Times(x, y) == [n |-> x.n * y.n, d |-> x.d * y.d]
Over(x, y) == IF y.n > 0 THEN [n |-> x.n * y.d, d |-> x.d * y.n]
                         ELSE [n |-> -x.n * y.d, d |-> -x.d * y.n]
Equals(x, y) == x.n * y.d = y.n * x.d
Less(x, y) == x.n * y.d < y.n * x.d
IsZero(x) == x.n = 0

=============================================================================
