---------------------------- MODULE MCGroupChain ----------------------------
(* Small instances of GroupChain for TLC. *)
EXTENDS GroupChain, TLC

\* Ann takes part twice, Bob once.
OwnerOf == [k \in {"a1", "a2", "b1"} |-> IF k = "b1" THEN "bob" ELSE "ann"]

P(k, flags) == [user |-> OwnerOf[k], key |-> k, flags |-> flags]
Both == {"add", "remove"}

\* Groups with someone more, someone less, with other flags, and two of one user.
SomeGroups ==
  {[members |-> {P("a1", Both)}, external |-> Both],
   [members |-> {P("a1", Flags), P("b1", {})}, external |-> Both],
   [members |-> {P("a1", Both), P("b1", {})}, external |-> Flags],
   [members |-> {P("a1", {"add"}), P("b1", Both)}, external |-> {}],
   [members |-> {P("a1", Both), P("a2", {"add"})}, external |-> {"add"}]}

\* Sessions are alike: whose they are does not matter here.
Alike == Permutations(Sessions)

=============================================================================
