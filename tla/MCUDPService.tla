---------------------------- MODULE MCUDPService ----------------------------
(* Instances of UDPService for TLC. *)
EXTENDS UDPService, TLC

CONSTANTS d1, d2, t1, t2, t3, c1, p1, p2

TwoThenOne == d1 :> <<t1, t2>> @@ d2 :> <<t3>>
FirstMayBeEither == d1 :> {"deploy", "zerodowntime"} @@ d2 :> {"deploy"}
SecondMayBeEither == d1 :> {"deploy"} @@ d2 :> {"deploy", "zerodowntime"}
Hashes == c1 :> 1
SameClient == [p \in Packets |-> c1]
=============================================================================
