----------------------------- MODULE Signature -----------------------------
(***************************************************************************)
(* The ECDSA signature of one file fragment, as ecdsa.c makes it and       *)
(* ecdsaVerify.c checks it.  A signature is the sequence <<c>> of the      *)
(* contents it was made over; the empty sequence is what the caller is     *)
(* left with (sign = NULL, sign_len = 0) when ecdsa_sign returns early.    *)
(* Len(sign) is the model's sign_len.                                      *)
(***************************************************************************)
EXTENDS Integers, Sequences

NoSignature == <<>>

\* What ecdsa_sign leaves in *sign for contents c.  The key file is opened
\* for every fragment, so every fragment may find it unreadable.
Sign(c, keyUnreadable) ==
  {<<c>>} \cup (IF keyUnreadable THEN {NoSignature} ELSE {})

\* The int ecdsa_verify returns: -2 without a public key, the provider's -1 on
\* a signature that does not parse, 1 or 0 on one that does.
Verify(keyHeld, data, sign) ==
  CASE ~keyHeld                                      -> -2
    [] keyHeld /\ sign = NoSignature                 -> -1
    [] keyHeld /\ sign # NoSignature /\ sign[1] = data -> 1
    [] keyHeld /\ sign # NoSignature /\ sign[1] # data -> 0

\* Mutant of Accepts: the verification is skipped.
AcceptsAnything(keyHeld, data, sign) == TRUE

\* if(ecdsa_verify(...)): C takes every nonzero result as true.
Accepts(keyHeld, data, sign) == Verify(keyHeld, data, sign) # 0
=============================================================================
