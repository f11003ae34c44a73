------------------------- MODULE DownloadInvariant -------------------------
(***************************************************************************)
(* The inductive invariants behind the theorems about Download.  Each is   *)
(* the conjunction of parts that say what the streams, the two programs    *)
(* and the disk know of each other.                                        *)
(***************************************************************************)
EXTENDS Download

\* The client is in get_file and has not left its loop.
Receiving == cpc \in {"check", "size", "info", "body"}

\* What the server sends before it waits: the answer, the size, a Length_Info and
\* a body.  How many of the four the client has taken.
Taken == CASE cpc = "check" -> 0
           [] cpc = "size"  -> 1
           [] cpc = "info"  -> 2
           [] cpc = "body"  -> 3

\* The i-th message of the stream to the client is the one it will take i-th.
Placed(i) ==
  LET m == s2c[i] IN
  /\ Taken + i = 1 => m.kind = "num" /\ (m.num = 0 <=> spc = "cmd")
  /\ Taken + i = 2 => m.kind = "num" /\ m.num = Len(src)
  /\ Taken + i = 3 => m.kind = "info" /\ m.len = LengthInfo(1, Len(sign))
  /\ Taken + i = 4 => m.kind = "body" /\ m.sign = sign

StreamInOrder == Receiving => \A i \in 1 .. Len(s2c) : Taken + i <= 4 /\ Placed(i)

\* Stop and wait: where the server is tells how many of the four it has sent, and
\* whether the last fragment it has read is on the client's disk.
InStep ==
  Receiving =>
    \/ spc = "cmd" /\ cpc = "check" /\ s2c = <<>> /\ c2s = <<Cmd("get")>>
    \/ /\ spc = "wait" /\ cpc = "info" /\ s2c = <<>> /\ sent = Len(copy)
       /\ Len(c2s) = 1 /\ c2s[1].kind = "num" /\ c2s[1].num # 0
    \/ /\ c2s = <<>>
       /\ \/ spc = "cmd"   /\ cpc = "check" /\ Len(s2c) = 1 /\ served = "nofile"
          \/ spc = "size"  /\ Taken + Len(s2c) = 1 /\ sent = Len(copy)
          \/ spc = "read"  /\ Taken + Len(s2c) = 2 /\ sent = Len(copy)
          \/ spc = "data"  /\ Taken + Len(s2c) = 3 /\ sent = Len(copy) + 1
          \/ spc = "wait"  /\ Taken + Len(s2c) = 4 /\ sent = Len(copy) + 1
          \/ spc = "final" /\ Taken + Len(s2c) = 2 /\ sent = Len(copy) /\ sent = Len(src)
          \/ spc = "final" /\ Taken + Len(s2c) = 3 /\ sent = Len(copy) + 1

\* Where the client is tells what is on its disk and what is still to come.
ClientKnows ==
  /\ cUp = (cpc # "gone")
  /\ cpc = "prompt" /\ verdict = "none" =>
       c2s = <<>> /\ s2c = <<>> /\ spc = "cmd" /\ served = "none" /\ ~asked
  /\ (cpc = "prompt" /\ verdict = "none") \/ cpc = "check" => ~exists
  /\ cpc \in {"size", "info", "body", "end"} => exists
  /\ ~exists \/ cpc = "size" => copy = <<>>
  /\ Receiving => success = 1
  /\ cpc = "body" => info = LengthInfo(1, Len(sign)) /\ filelen = 1
  /\ cpc \in {"info", "body"} => left = Len(src) - Len(copy) /\ left > 0
  /\ Receiving \/ cpc = "end" => verdict = "none"
  /\ verdict = "none" => ~asked /\ cpc # "pwd"
  /\ verdict \in {"failed", "nofile"} => ~exists

\* The loop was left without an error: the server has all its fragments acknowledged.
LoopDone ==
  cpc = "end" /\ success = 1 =>
    /\ s2c = <<>> /\ sent = Len(src) /\ Len(copy) = Len(src)
    /\ \/ spc = "wait" /\ Len(c2s) = 1 /\ c2s[1].kind = "num" /\ c2s[1].num # 0
       \/ spc \in {"read", "final"} /\ c2s = <<>>

\* The i-th message of the stream to the server is where it may be.
Asked(i) ==
  LET m == c2s[i] IN
  /\ m.kind \in {"cmd", "num", "rest"}
  /\ m.kind = "cmd"  => i = Len(c2s)
  /\ m = Cmd("get")  => i = 1 /\ spc = "cmd" /\ ~exists /\ verdict = "none" /\ served = "none"
  /\ m.kind = "cmd" /\ m # Cmd("get") => m = Cmd("pwd") /\ asked
  /\ m.kind = "rest" => verdict # "none" /\ ~exists

CommandsInOrder == \A i \in 1 .. Len(c2s) : Asked(i)

\* The i-th message is the client's last word on the download.
Closes(i) == c2s[i].kind = "num" /\ (c2s[i].num # 0 <=> verdict = "ok")

\* The client has said its last word: the server has it before it, after the one on
\* the last fragment, and before the next command; or has heard it.
Settled ==
  /\ spc \notin {"size", "data"}
  /\ spc = "wait" => /\ Len(c2s) >= 2 /\ Closes(2)
                     /\ c2s[1].kind = "num" /\ (c2s[1].num # 0 => sent = Len(src))
  /\ spc \in {"read", "final"} => Len(c2s) >= 1 /\ Closes(1)
  /\ spc = "read" => sent = Len(src)
  /\ spc = "cmd" => served = verdict
  /\ \A i \in 1 .. Len(c2s) :
       c2s[i].kind = "num" => \/ i = 1 /\ spc \in {"wait", "read", "final"}
                              \/ i = 2 /\ spc = "wait"

\* A file that is kept is one whose server stays in step: the file served does not
\* change any more.
KeptIsSettled == verdict = "ok" => Settled /\ exists /\ Len(copy) = Len(src)

\* A client that is there has a server.
ServerThere == cUp => spc \notin {"gone", "killed"}

\* The server never counts further than its file.
Reads == sent <= Len(src) /\ (spc \in {"data", "wait"} => sent >= 1)

StopAndWait ==
  /\ StreamInOrder /\ InStep /\ ClientKnows /\ LoopDone
  /\ CommandsInOrder /\ KeptIsSettled /\ Reads

\* Of a server whose process has ended what the client still receives is what stop and
\* wait had put into the stream: the number and the Length_Info where it reads them.
KindAt(i) ==
  /\ Taken + i <= 4
  /\ Taken + i = 2 => s2c[i].kind = "num"
  /\ Taken + i = 3 => s2c[i].kind = "info" /\ s2c[i].len.total # 0

LastWords ==
  /\ Receiving => \A i \in 1 .. Len(s2c) : KindAt(i)
  /\ cpc = "body" /\ s2c # <<>> => info.total # 0
  /\ cpc = "prompt" /\ verdict = "none" => s2c = <<>>
  /\ cpc = "pwd" => verdict # "none"

\* What the types rest on, when the server's process may end too.
TypeInvariant ==
  /\ TypeOK /\ Reads
  /\ (ServerThere /\ StopAndWait) \/ (spc = "killed" /\ LastWords)

\* The environments of the theorems.  Steady: the server's process stays.  Trusted: both
\* keys are there and writes are whole.  Smooth: nothing makes one end leave the loop
\* without the other.
Steady  == "down" \notin Faults
Trusted == Faults \cap {"nokey", "nosign", "shortwrite", "down"} = {}
Smooth  == Faults \cap {"shortbody", "alloc", "down"} = {}

\* With signatures that mean something.
SignedInOrder ==
  /\ key = TRUE
  /\ Receiving /\ spc \in {"data", "wait"} /\ Len(copy) + 1 = sent => sign = <<src[sent]>>

GenuineInvariant == SignedInOrder /\ GenuineCopy

\* When both ends leave the loop together, a failed download closes like a good one.
ClosesTogether ==
  /\ cpc = "end" /\ success = 0 =>
       /\ s2c = <<>>
       /\ \/ spc = "wait" /\ Len(c2s) = 1 /\ c2s[1].kind = "num" /\ c2s[1].num = 0
          \/ spc = "final" /\ c2s = <<>>
  /\ verdict # "none" => Settled
  /\ verdict = "nofile" => spc \in {"cmd", "gone", "killed"}
  /\ \A i \in 1 .. Len(c2s) : c2s[i].kind # "rest"

\* The stream to the client is empty when the user types the next command, and has
\* the answer to pwd alone when the command has been taken.
StreamClean ==
  /\ cpc \in {"prompt", "gone"} => s2c = <<>>
  /\ cpc = "prompt" => \A i \in 1 .. Len(c2s) : c2s[i].kind # "cmd"
  /\ cpc = "pwd" => \/ s2c = <<>>
                    \/ s2c = <<Path>> /\ c2s = <<>> /\ spc = "cmd"

AgreementInvariant == ClosesTogether /\ StreamClean
=============================================================================
