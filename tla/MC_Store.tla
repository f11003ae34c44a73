------------------------------ MODULE MC_Store ------------------------------
(* Instances of Store for TLC. *)
EXTENDS Store, TLC

CONSTANTS t1, t2, a

TwoThreads == {t1, t2}
OneBase    == {a}

EveryFault == AllFaults
=============================================================================
