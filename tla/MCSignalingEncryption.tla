----------------------- MODULE MCSignalingEncryption -----------------------
(***************************************************************************)
(* Small instances of SignalingEncryption for TLC.                         *)
(***************************************************************************)
EXTENDS SignalingEncryption, TLC

EndSymmetry == Permutations(Ends)

=============================================================================
