-------------------------- MODULE MCMTProtoStream --------------------------
(* Small instances of MTProtoStream for TLC. *)
EXTENDS MTProtoStream

\* One camera.
OneEndpoint == <<"left">>

=============================================================================
