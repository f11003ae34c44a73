---------------------------- MODULE MC_Download ----------------------------
(* Instances of Download for TLC. *)
EXTENDS Download

CONSTANTS a, b

MCContent == {a, b}

\* Every file of up to three fragments.
MCFiles == UNION {[1 .. n -> MCContent] : n \in 0 .. 3}

\* A file of each of these lengths, in which neighbours differ.
MCFewFiles == {<<>>, <<a>>, <<a, b>>, <<a, b, a>>}

\* An int nobody has written: negative, zero, positive.
MCJunk == {-1, 0, 2}

\* What keys, disk, a killed client and a server that ends may do; what memory, recv
\* and disk may do, with a killed client; a server that ends, alone.
PeerFaults  == {"quit", "diskerror", "shortwrite", "nokey", "nosign", "down"}
StallFaults == {"quit", "shortbody", "alloc", "diskerror"}
DownFaults  == {"down"}
=============================================================================
