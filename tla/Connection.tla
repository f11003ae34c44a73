---------------------------- MODULE Connection ----------------------------
(***************************************************************************)
(* What passes on a connection during a transfer.  A recv() takes the      *)
(* first message; one that returns fewer bytes than it asked for leaves    *)
(* the rest of the message, a Rest, at the head of the stream.             *)
(*                                                                         *)
(* Lengths are counted in pieces: a file fragment is one piece, so is a    *)
(* signature.  Length_Info.total_len and the result of recv are sums of    *)
(* pieces, and file_size is the number of fragments.                       *)
(***************************************************************************)
EXTENDS Stream

CONSTANTS
  Content,   \* what a file fragment may contain
  Cut,       \* bytes on a disk that are no fragment of any file
  Files,     \* the files there are to send
  Junk       \* what an int nobody has written may hold

AllFaults ==
  { "quit",        \* the user kills the client
    "shortbody",   \* recv returns part of a fragment and its signature
    "alloc",       \* malloc returns NULL
    "diskerror",   \* write returns -1
    "shortwrite",  \* write stores part of a fragment
    "nokey",       \* the peer's certificate was not accepted: pub_key is NULL
    "nosign",      \* ecdsa_sign cannot read its private key
    "down" }       \* the server's process ends, as by another client's SIGPIPE

ASSUME ConnectionAssumption ==
  /\ Files \subseteq Seq(Content)
  /\ Cut \notin Content
  /\ Junk \subseteq Int /\ Junk # {}
  /\ Faults \subseteq AllFaults

Body(data, sign) == [kind |-> "body", data |-> data, sign |-> sign]
Rest             == [kind |-> "rest"]

\* Length_Info: the lengths of one fragment, of its signature and of both.
LengthInfo(file, sign) == [file |-> file, sign |-> sign, total |-> file + sign]
Info(file, sign)       == [kind |-> "info", len |-> LengthInfo(file, sign)]

\* A Length_Info nobody has written: three ints of which none follows from the others.
JunkInfo == [file : Junk, sign : Junk, total : Junk]

Signs    == {<<c>> : c \in Content} \cup {<<>>}
Commands == {"put", "get", "pwd"}
Lengths  == [file : Int, sign : Int, total : Int]
Message  == [kind : {"cmd"}, name : Commands]
            \cup [kind : {"num"}, num : Int]
            \cup [kind : {"info"}, len : Lengths]
            \cup [kind : {"body"}, data : Content, sign : Signs]
            \cup {Rest}

ConnectionInit ==
  /\ cpc = "prompt" /\ spc = "cmd"
  /\ c2s = <<>> /\ s2c = <<>>
  /\ cUp = TRUE /\ rst = FALSE

\* The server's process ends and its end is closed; what the client has not read may
\* be lost when the server has not read all either.
ProcessEnds ==
  /\ spc' = "killed" /\ c2s' = <<>>
  /\ \/ UNCHANGED s2c
     \/ c2s # <<>> /\ s2c' = <<>>
  /\ UNCHANGED <<cpc, cUp, rst>>

ServerDies == "down" \in Faults /\ spc \notin {"gone", "killed"} /\ ProcessEnds

\* send() at the client, which makes the stream to the server what is given and goes
\* on at pc.  To a server that has ended the bytes are lost, or SIGPIPE ends the client.
ClientSends(stream, pc) ==
  \/ spc # "killed" /\ c2s' = stream /\ cpc' = pc /\ UNCHANGED cUp
  \/ spc = "killed" /\ cpc' = pc /\ UNCHANGED <<c2s, cUp>>
  \/ spc = "killed" /\ cpc' = "gone" /\ cUp' = FALSE /\ UNCHANGED c2s

\* recv() at the client would return 0 or -1.
ClientAtEof == s2c = <<>> /\ spc = "killed"
=============================================================================
