--------------------------- MODULE FileTransfer ---------------------------
(***************************************************************************)
(* What one transfer promises to whoever looks at the receiving disk: the  *)
(* copy grows by the source's fragments, in order and unaltered, and at    *)
(* the end it is either kept complete or removed.  The transfer modules    *)
(* are shown to implement this specification.                              *)
(***************************************************************************)
EXTENDS Integers, Sequences

CONSTANT Files       \* the files that may be sent: sequences of fragments

VARIABLES
  source,            \* the file being sent
  present,           \* a copy exists on the receiving disk
  copy,              \* its contents
  outcome            \* "none", "kept" or "dropped"

ftVars == <<source, present, copy, outcome>>

FTInit ==
  /\ source = <<>>
  /\ present = FALSE
  /\ copy = <<>>
  /\ outcome = "none"

Choose ==
  /\ ~present
  /\ source' \in Files
  /\ UNCHANGED <<present, copy, outcome>>

Create ==
  /\ ~present
  /\ present' = TRUE
  /\ UNCHANGED <<source, copy, outcome>>

Extend ==
  /\ present /\ outcome # "kept"
  /\ Len(copy) < Len(source)
  /\ copy' = Append(copy, source[Len(copy) + 1])
  /\ UNCHANGED <<source, present, outcome>>

Keep ==
  /\ present /\ copy = source
  /\ outcome' = "kept"
  /\ UNCHANGED <<source, present, copy>>

Drop ==
  /\ present /\ outcome # "kept"
  /\ outcome' = "dropped"
  /\ present' = FALSE
  /\ copy' = <<>>
  /\ UNCHANGED source

FTNext == Choose \/ Create \/ Extend \/ Keep \/ Drop

FTSpec == FTInit /\ [][FTNext]_ftVars
=============================================================================
