----------------------------- MODULE MC_Server -----------------------------
(* An instance of Server for TLC. *)
EXTENDS Server

CONSTANTS c1, c2

TwoClients == {c1, c2}
ThreeFds   == 1 .. 3

AnyLeave == {"exit", "drop"}
NoThread == {"nothread"}
=============================================================================
