----------------------------- MODULE MC_Upload -----------------------------
(* Instances of Upload for TLC. *)
EXTENDS UploadInvariant

CONSTANTS a, b

MCContent == {a, b}

\* Every file of up to three fragments.
MCFiles == UNION {[1 .. n -> MCContent] : n \in 0 .. 3}

\* A file of each of these lengths, in which neighbours differ.
MCFewFiles == {<<>>, <<a>>, <<a, b>>, <<a, b, a>>}

\* The files with at most one fragment.
MCShortFiles == UNION {[1 .. n -> MCContent] : n \in 0 .. 1}

\* An int nobody has written: negative, zero, positive.
MCJunk == {-1, 0, 2}

\* What keys, disk, a killed client and a server that ends may do; what memory, recv,
\* disk and a server that ends may do.
PeerFaults  == {"quit", "down", "diskerror", "shortwrite", "nokey", "nosign"}
StallFaults == {"shortbody", "alloc", "diskerror", "down"}
NoKey       == {"nokey"}
=============================================================================
