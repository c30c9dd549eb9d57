-------------------------------- MODULE Lists --------------------------------
(* Lists that are filtered by position, in their order. *)
EXTENDS Naturals, Sequences

\* The rows at these positions.
Kept(rows, positions) ==
  LET upTo[n \in 0..Len(rows)] ==
        IF n = 0 THEN <<>>
        ELSE IF n \in positions THEN Append(upTo[n - 1], rows[n]) ELSE upTo[n - 1]
  IN upTo[Len(rows)]

=============================================================================
