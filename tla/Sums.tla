-------------------------------- MODULE Sums --------------------------------
(* Sums of sequences of numbers.                                           *)
EXTENDS Integers, Sequences

\* The sum of the numbers in c.
SumOf(c) ==
    LET upTo[n \in 0..Len(c)] == IF n = 0 THEN 0 ELSE upTo[n - 1] + c[n]
    IN  upTo[Len(c)]
=============================================================================
