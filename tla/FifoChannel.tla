---------------------------- MODULE FifoChannel ----------------------------
(***************************************************************************)
(* What signaling promises to one direction of a call: the messages of one *)
(* end are handed to the other in the order they were sent, none twice and *)
(* none left out.  Several may be handed over at once.                     *)
(***************************************************************************)
EXTENDS Integers, Sequences

VARIABLES
  sent,           \* the messages sent so far
  received        \* those handed over so far

vars == <<sent, received>>

Init == sent = <<>> /\ received = <<>>

Send ==
  /\ Len(sent') = Len(sent) + 1
  /\ SubSeq(sent', 1, Len(sent)) = sent
  /\ UNCHANGED received

HandOver ==
  /\ \E n \in Len(received) + 1 .. Len(sent) : received' = SubSeq(sent, 1, n)
  /\ UNCHANGED sent

Next == Send \/ HandOver

Spec == Init /\ [][Next]_vars

=============================================================================
