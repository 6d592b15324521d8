--------------------------- MODULE MCCallRegistry ---------------------------
(* Small instances of CallRegistry for TLC. *)
EXTENDS CallRegistry, TLC

\* The chats are interchangeable.
ChatSymmetry == Permutations(Chats)

=============================================================================
