-------------------------------- MODULE Runs --------------------------------
(***************************************************************************)
(* Runs of consecutive block indexes.                                      *)
(***************************************************************************)
EXTENDS Integers, Sequences

\* The indexes from first up to, but excluding, next.
Run(first, next) == [k \in 1 .. (next - first) |-> first + k - 1]

\* The larger of two numbers.
Larger(a, b) == IF a >= b THEN a ELSE b

=============================================================================
