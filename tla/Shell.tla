------------------------------- MODULE Shell -------------------------------
(***************************************************************************)
(* What cd and mkdir promise to one user: each does its work in one step,  *)
(* and cd goes where the path read as a whole leads, if that is a          *)
(* directory and the user is allowed there.                                *)
(***************************************************************************)
EXTENDS Integers, FiniteSets, Sequences

CONSTANTS
  Names,    \* the components of paths, besides ".." and "."
  Homes,    \* where a user starts
  Lines,    \* the paths a user may give to cd
  Allowed(_) \* whether a user may go to a directory

VARIABLES
  cwd,      \* the user's directory
  dirs      \* the directories there are

\* How many of the components i to j of path are in some set.
Among(path, i, j, some) == Cardinality({k \in i .. j : path[k] \in some})

\* A name lasts unless, up to some later component, more ".." than names follow it.
Lasts(path, i) ==
  /\ path[i] \in Names
  /\ \A j \in i + 1 .. Len(path) :
       Among(path, i + 1, j, {".."}) <= Among(path, i + 1, j, Names)

\* Where path leads, read as a whole: the names that last, in their order.
Leads(path) ==
  LET lasting == {i \in 1 .. Len(path) : Lasts(path, i)}
      rank(i) == Cardinality({j \in lasting : j <= i})
  IN  [k \in 1 .. Cardinality(lasting) |-> path[CHOOSE i \in lasting : rank(i) = k]]

Connected == cwd' \in Homes /\ UNCHANGED dirs

Changed ==
  /\ cwd' # cwd
  /\ \E line \in Lines : cwd' = Leads(cwd \o line)
  /\ Allowed(cwd') /\ cwd' \in dirs
  /\ UNCHANGED dirs

Made ==
  /\ \E d \in dirs, n \in Names : dirs' = dirs \cup {Append(d, n)}
  /\ UNCHANGED cwd

ShellNext == Connected \/ Changed \/ Made

ShellSpec == cwd \in Homes /\ [][ShellNext]_<<cwd, dirs>>
=============================================================================
