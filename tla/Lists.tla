-------------------------------- MODULE Lists --------------------------------
(***************************************************************************)
(* What the trading models share: a map with one entry set or erased, the  *)
(* elements of a list that pass a test, and the sum of a list of numbers.  *)
(***************************************************************************)
EXTENDS Integers, Sequences, SequencesExt

With(f, x, v) == [y \in DOMAIN f \cup {x} |-> IF y = x THEN v ELSE f[y]]

Without(f, x) == [y \in DOMAIN f \ {x} |-> f[y]]

Kept(list, S) ==
    FoldLeft(LAMBDA kept, x : IF x \in S THEN Append(kept, x) ELSE kept, <<>>, list)

Total(numbers) == FoldLeft(LAMBDA sum, x : sum + x, 0, numbers)
=============================================================================
