--------------------------- MODULE OrderedReplica ---------------------------
(***************************************************************************)
(* What a copy of one conference subchain promises to the code that reads  *)
(* it: the blocks the server numbered 0, 1, 2, ... are handed over in      *)
(* their order, none of them twice.  A gapless replica also never skips    *)
(* one, so its blocks form a single run of consecutive indexes.            *)
(*                                                                         *)
(* Session implements it twice: gapless for the main chain, with gaps for  *)
(* the broadcast chain, whose old blocks the server may have discarded.    *)
(***************************************************************************)
EXTENDS Integers, Sequences, Runs

CONSTANT Gapless  \* whether skipping a block is forbidden, TRUE or FALSE

VARIABLES
  source,         \* how many blocks the server has produced
  log             \* the indexes handed over so far, oldest first

vars == <<source, log>>

Init ==
  /\ source \in Nat
  /\ log = <<>>

\* The server produces blocks; nothing is handed over.
Produce ==
  /\ source' \in Nat
  /\ source' > source
  /\ UNCHANGED log

\* A non-empty run of produced blocks is handed over, after all the others.
HandOver ==
  /\ \E first, next \in 0 .. source :
       /\ first < next
       /\ log # <<>> => first > log[Len(log)]
       /\ Gapless /\ log # <<>> => first = log[Len(log)] + 1
       /\ log' = log \o Run(first, next)
  /\ UNCHANGED source

Next == Produce \/ HandOver

Spec == Init /\ [][Next]_vars

=============================================================================
