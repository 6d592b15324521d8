-------------------------- MODULE MCStreamManager --------------------------
(* Small instances of StreamManager for TLC. *)
EXTENDS StreamManager

\* A microphone and a camera.
TwoDevices == <<"microphone", "camera">>

=============================================================================
