------------------------------ MODULE MCRouter ------------------------------
(* Instances of Router for TLC. *)
EXTENDS Router, TLC

CONSTANTS c1, c2, c3, a, b, h1, h2

Valid == {[hosts |-> {h1}, valid |-> TRUE], [hosts |-> {h2}, valid |-> TRUE]}
ValidOrNot == Valid \cup {[hosts |-> {h1}, valid |-> FALSE]}

\* The commands are alike, and so are the names.
Symmetry == Permutations(Commands) \cup Permutations(Names)
=============================================================================
