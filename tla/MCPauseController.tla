------------------------- MODULE MCPauseController -------------------------
(***************************************************************************)
(* A small instance of PauseController.  Two requests are enough for one   *)
(* to be released while the other is left behind; three channels allow two *)
(* complete pauses and a third that overtakes the requests of the first.   *)
(***************************************************************************)
EXTENDS PauseController

CONSTANTS w1, w2, m1

MCWaiters == {w1, w2}
MCMessages == {m1}
=============================================================================
