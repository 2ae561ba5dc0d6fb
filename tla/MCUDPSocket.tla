---------------------------- MODULE MCUDPSocket ----------------------------
(* An instance of UDPSocket for TLC. *)
EXTENDS UDPSocket, TLC

CONSTANTS p1, p2
=============================================================================
