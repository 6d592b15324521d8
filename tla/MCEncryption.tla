---------------------------- MODULE MCEncryption ----------------------------
(* Small instances of Encryption for TLC. *)
EXTENDS Encryption, TLC

\* The users are interchangeable.
UserSymmetry == Permutations(Users)

=============================================================================
