----------------------------- MODULE MC_RootCA -----------------------------
(* Instances of RootCA for TLC. *)
EXTENDS RootCA

CONSTANTS c1, c2

OneClient  == {c1}
TwoClients == {c1, c2}

CutFaults  == {"drop", "shortcsr"}
EveryFault == AllFaults
Crashes    == {"crash"}
=============================================================================
