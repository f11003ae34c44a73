------------------------------- MODULE Shelf -------------------------------
(***************************************************************************)
(* What the shared directory promises to those who see only what has been  *)
(* reported: files and directories appear whole, in one step, under names  *)
(* that nothing had before, and stay as they are.                          *)
(***************************************************************************)
CONSTANTS
  Names,      \* the names there are
  Wholes,     \* what a file may hold when it is whole
  Free, Dir   \* nothing, and a directory

VARIABLE shelf  \* what is reported to be under each name

ShelfInit == shelf = [n \in Names |-> Free]

Appears(n, things) ==
  /\ shelf[n] = Free
  /\ shelf'[n] \in things
  /\ \A m \in Names \ {n} : shelf'[m] = shelf[m]

ShelfNext == \E n \in Names : Appears(n, Wholes \cup {Dir})

ShelfSpec == ShelfInit /\ [][ShelfNext]_shelf
=============================================================================
