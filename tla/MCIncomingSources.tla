------------------------- MODULE MCIncomingSources -------------------------
(* Small instances of IncomingSources for TLC. *)
EXTENDS IncomingSources

\* The application knows nobody, one, or two of the three; whom it knew it may not know
\* any more.
SomeLists == {<<>>, <<"ann">>, <<"eve", "ann">>}

=============================================================================
