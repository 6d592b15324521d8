--------------------------- MODULE MCVerification ---------------------------
(***************************************************************************)
(* Small instances of Verification for TLC.                                *)
(***************************************************************************)
EXTENDS Verification, TLC

UserSymmetry == Permutations(Users)

=============================================================================
