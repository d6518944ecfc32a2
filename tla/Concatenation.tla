--------------------------- MODULE Concatenation ----------------------------
(* The concatenation of a sequence of sequences.                           *)
EXTENDS Integers, Sequences

\* The sequences of ss one after another, as nested loops push them.
Concat(ss) ==
  LET upTo[i \in 0..Len(ss)] == IF i = 0 THEN <<>> ELSE upTo[i - 1] \o ss[i]
  IN  upTo[Len(ss)]
=============================================================================
