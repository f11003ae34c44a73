-------------------------- MODULE UploadInvariant --------------------------
(***************************************************************************)
(* The inductive invariants behind the theorems about Upload.  Each is the *)
(* conjunction of parts that say what the streams, the two programs and    *)
(* the disk know of each other while server and client are in step         *)
(* (Paired); DiskStays is what remains when they are not.                  *)
(***************************************************************************)
EXTENDS Upload

Has(kind) == \E i \in 1 .. Len(c2s) : c2s[i].kind = kind

InLoop == spc \in {"size", "info", "body"}

\* The last verdict received, or the one on its way, is positive.
Acked == (s2c # <<>> /\ s2c[1].num # 0) \/ (cpc = "read" /\ sent > 0)

\* The i-th message of the stream to the server is where it may be.
Placed(i) ==
  LET m == c2s[i] IN
  /\ m.kind = "cmd"  => i = 1 /\ spc = "cmd" /\ file = <<>> /\ sent <= 1
  /\ m.kind = "num"  => /\ (i = 1 /\ spc = "size") \/ (i = 2 /\ c2s[1].kind = "cmd")
                        /\ sent <= 1
  /\ m.kind = "info" => /\ i = 1 \/ c2s[i - 1].kind = "num"
                        /\ m.len.file = 1 /\ m.len.total >= 1
  /\ m.kind = "body" => /\ i = Len(c2s) /\ (i = 1 \/ c2s[i - 1].kind = "info")
                        /\ sent >= 1
  /\ m.kind = "rest" => i = 1 /\ Len(c2s) = 1

\* The stream to the server is a part of put, size, Length_Info, body, in that
\* order, or what a short recv left of a body.
StreamInOrder == \A i \in 1 .. Len(c2s) : Placed(i)

\* Where the client is tells what it has sent.
ClientKnows ==
  /\ cUp = (cpc # "gone")
  /\ cpc \in {"prompt", "size", "end", "gone"} => s2c = <<>>
  /\ cpc = "prompt" /\ verdict = "none" => c2s = <<>> /\ spc = "cmd" /\ file = <<>> /\ sent = 0
  /\ cpc = "size" => /\ sent = 0 /\ file = <<>>
                     /\ \/ c2s = <<>> /\ spc = "size"
                        \/ spc = "cmd" /\ Len(c2s) = 1 /\ c2s[1].kind = "cmd"
  /\ cpc = "read" => s2c = <<>> /\ ~Has("info") /\ ~Has("body") /\ ~Has("rest")
  /\ cpc = "read" /\ sent = 0 => file = <<>> /\ (c2s # <<>> => c2s[Len(c2s)].kind = "num")
  /\ Has("body") => cpc \in {"wait", "gone"} /\ s2c = <<>>
  /\ Has("rest") => s2c = <<>>
  /\ cpc = "wait" => sent > 0

\* Stop and wait: a fragment that the server may still take is the one after those
\* on the disk, and a positive verdict is about the last one on the disk.
InStep ==
  /\ Has("body") /\ (InLoop \/ Has("cmd")) => Len(file) + 1 = sent
  /\ s2c # <<>> => Len(s2c) = 1 /\ c2s = <<>> /\ cpc = "wait"
  /\ Acked => /\ exists /\ Len(file) = sent /\ c2s = <<>>
              /\ spc \in {"info", "end", "cmd"} /\ success = 1 /\ filelen = 1

\* Where the server is tells what it has received.
ServerKnows ==
  /\ InLoop => exists /\ success = 1
  /\ spc = "size" => file = <<>>
  /\ spc = "end" => exists
  /\ spc = "body" => filelen = info.file
  /\ spc = "body" /\ (cUp \/ c2s # <<>>) => info.file = 1 /\ info.total >= 1

StopAndWait == StreamInOrder /\ ClientKnows /\ InStep /\ ServerKnows

\* The environment of the theorems about the file: both keys are there, writes are
\* whole and nobody kills the client.
Trusted == Faults \cap {"nokey", "nosign", "shortwrite", "quit"} = {}

\* With signatures that mean something: every body on its way carries the
\* signature of the fragment the client read last.
SignedInOrder ==
  /\ key = TRUE
  /\ sent <= Len(src)
  /\ \A i \in 1 .. Len(c2s) : c2s[i].kind = "body" => c2s[i].sign = <<src[sent]>>

GenuineInvariant == SignedInOrder /\ GenuinePrefix

\* With a client that is not killed: the server counts down what is missing, and
\* leaves the loop without an error only when nothing is.
Countdown ==
  /\ cUp = TRUE
  /\ \A i \in 1 .. Len(c2s) : c2s[i].kind = "num" => c2s[i].num = Len(src)
  /\ spc \in {"info", "body"} => left = Len(src) - Len(file) /\ left > 0
  /\ spc = "end" /\ Keeps => file = src
  /\ saved = "ok" => spc = "cmd" /\ exists /\ file = src

\* The client goes on only while the server does.
Together ==
  /\ spc = "body" => cpc # "read"
  /\ Acked /\ spc = "cmd" => saved = "ok"
  /\ cpc = "read" /\ ~Has("cmd") /\ spc \in {"end", "cmd"} => sent = Len(src)

\* A command, or what is left of an upload, is read when no file is there.
DiskKnows ==
  /\ cpc = "prompt" /\ verdict = "none" => saved = "none" /\ ~exists
  /\ Has("cmd") => ~exists
  /\ spc = "cmd" /\ c2s # <<>> /\ c2s[1].kind \in {"rest", "body"} => ~exists
  /\ spc = "end" /\ (Has("body") \/ Has("rest")) => success = 0
  /\ ~exists => file = <<>>

CompleteInvariant == Countdown /\ Together /\ DiskKnows

\* In step or not: no file is there before the upload begins, and what is there is
\* genuine, and whole when it was kept.
Untouched == cpc = "prompt" /\ verdict = "none" => file = <<>> /\ ~exists /\ saved = "none"
DiskStays == Untouched /\ GenuinePrefix /\ KeptIsWhole

\* The server's report is still open, or the client has told its user, about a
\* file that has a first fragment.
Reported == src # <<>> /\ (cUp \/ verdict # "none")

\* Until the end of the stream the server counts down what is missing, whatever
\* it stores.
Counted ==
  /\ sent <= Len(src)
  /\ \A i \in 1 .. Len(c2s) : c2s[i].kind = "num" => c2s[i].num = Len(src)
  /\ cUp /\ spc \in {"info", "body"} => left = Len(src) - Len(file) /\ left > 0
  /\ cUp => spc \notin {"gone", "killed"}

\* The server keeps a file once, at the end of a stream it has read to the end.
KeptAtEnd ==
  /\ cpc = "prompt" /\ verdict = "none" => saved = "none"
  /\ Has("cmd") => saved = "none"
  /\ Reported /\ saved = "ok" => spc \in {"cmd", "gone"} /\ c2s = <<>>
  /\ Reported /\ spc = "end" /\ c2s # <<>> => success = 0

\* A client that goes on, or has told its user "ok", is one whose file the server
\* keeps when it has all of it.
Passed ==
  /\ Acked /\ spc \in {"end", "cmd"} => sent = Len(src)
  /\ Acked /\ spc = "cmd" => saved = "ok"
  /\ cpc = "read" => spc # "body"
  /\ cpc = "read" /\ sent > 0 => status # 0
  /\ cpc = "read" /\ sent = 0 /\ src # <<>> /\ ~Has("cmd") => spc \notin {"end", "cmd"}
  /\ verdict # "none" => cpc \in {"prompt", "gone"}
  /\ verdict = "ok" /\ src # <<>> =>
       /\ c2s = <<>>
       /\ spc \in {"end", "cmd", "gone", "killed"}
       /\ spc = "end" => Keeps
       /\ spc = "cmd" => saved = "ok"

\* A negative verdict on its way comes from a server that keeps nothing; a client
\* that has given up left the server without the body it waits for.
Failed ==
  /\ s2c # <<>> /\ s2c[1].num = 0 =>
       /\ spc \in {"end", "cmd"}
       /\ spc = "end" => success = 0
       /\ spc = "cmd" => saved # "ok"
  /\ src # <<>> /\ (cpc = "end" \/ verdict = "failed") =>
       /\ cpc = "end" => status = 0
       /\ saved # "ok"
       /\ ~Has("body") /\ ~Has("rest")
       /\ spc \in {"body", "end"} => c2s = <<>>
       /\ spc = "cmd" => c2s = <<>> \/ Has("cmd")
       /\ spc \in {"size", "info"} \/ Has("cmd") => Has("info")
       /\ spc = "body" => info.total >= 1
       /\ spc = "end" => ~Keeps

VerdictInvariant == Counted /\ KeptAtEnd /\ Passed /\ Failed
=============================================================================
