----------------------------- MODULE Download -----------------------------
(***************************************************************************)
(* get: get_file or get_file_test in the client, clnt_get or clnt_get_test *)
(* in the server, and the pwd the user types next.  The server answers     *)
(* whether the file is there, sends its size and its signed fragments, and *)
(* waits for a verdict after each and for one more at the end.  The client *)
(* stores what it verifies and removes it when anything failed.            *)
(***************************************************************************)
EXTENDS Connection, Signature

VARIABLES
  \* the client's side: get_file's locals, its disk and what it prints
  testing,   \* get_file_test: the command is testget
  key,       \* pub_key # NULL
  left,      \* bytes_left
  info,      \* the Length_Info last received
  filelen,   \* file_len
  success,
  exists,    \* full_path is on the disk
  copy,      \* its contents
  verdict,   \* "none", "ok", "failed" or "nofile"
  asked,     \* pwd has been sent
  \* the server's side: clnt_get's locals and what it prints
  src,       \* the file
  sent,      \* number of fragments read
  sign,      \* the signature of the last one
  status,    \* the last verdict received
  served     \* "none", "ok" (upload success), "failed" or "nofile"

getClient == <<testing, key, left, info, filelen, success, exists, copy, verdict, asked>>
getServer == <<src, sent, sign, status, served>>
vars == <<connVars, getClient, getServer>>

Path == [kind |-> "path"]

DownloadInit ==
  /\ ConnectionInit
  /\ testing = FALSE /\ key \in BOOLEAN /\ (key \/ "nokey" \in Faults)
  /\ left = 0 /\ info = LengthInfo(0, 0) /\ filelen = 0 /\ success = 1
  /\ exists = FALSE /\ copy = <<>> /\ verdict = "none" /\ asked = FALSE
  /\ src = <<>> /\ sent = 0 /\ sign = NoSignature /\ status = 0 /\ served = "none"

----------------------------------------------------------------------------
(* The client. *)

\* The command goes out.  get_file_test sets file_len to 0, get_file does not.
\* One download per behaviour: verdict = "none".
GetStart(test) ==
  /\ cpc = "prompt" /\ verdict = "none"
  /\ testing' = test
  /\ left' \in Junk /\ info' \in JunkInfo /\ success' = 1
  /\ filelen' \in IF test THEN {0} ELSE Junk
  /\ ClientSends(Append(c2s, Cmd("get")), "check")
  /\ UNCHANGED <<spc, s2c, rst, key, exists, copy, verdict, asked, getServer>>

\* recv(&check_status); the file is created when the server has it.  When the server
\* has ended, check_status is what nobody has written.
GetCheck ==
  /\ cpc = "check"
  /\ \E n \in (IF s2c # <<>> THEN {Head(s2c).num} ELSE Junk) :
       IF n = 0
       THEN verdict' = "nofile" /\ cpc' = "prompt" /\ UNCHANGED <<exists, copy>>
       ELSE exists' = TRUE /\ copy' = <<>> /\ cpc' = "size" /\ UNCHANGED verdict
  /\ \/ s2c # <<>> /\ s2c' = Tail(s2c)
     \/ ClientAtEof /\ UNCHANGED s2c
  /\ UNCHANGED <<spc, c2s, cUp, rst, testing, key, left, info, filelen, success, asked, getServer>>

\* while(bytes_left > 0)
LoopHead(n) == IF n > 0 THEN "info" ELSE "end"

\* recv(&file_size); at end of file it stays unwritten.
GetSize ==
  /\ cpc = "size"
  /\ \/ s2c # <<>> /\ left' = Head(s2c).num /\ s2c' = Tail(s2c)
     \/ ClientAtEof /\ UNCHANGED <<left, s2c>>
  /\ cpc' = LoopHead(left')
  /\ UNCHANGED <<spc, c2s, cUp, rst, testing, key, info, filelen, success, exists, copy,
                 verdict, asked, getServer>>

\* recv(&info); at end of file the struct keeps what the last round left in it.
GetInfo ==
  /\ cpc = "info"
  /\ \/ s2c # <<>> /\ info' = Head(s2c).len /\ s2c' = Tail(s2c)
     \/ ClientAtEof /\ UNCHANGED <<info, s2c>>
  /\ filelen' = info'.file
  /\ cpc' = "body"
  /\ UNCHANGED <<spc, c2s, cUp, rst, testing, key, left, success, exists, copy, verdict, asked,
                 getServer>>

\* malloc fails, or recv returns part of the fragment or nothing any more: a break,
\* without the verdict the server waits for.  What was not received stays in the stream.
GetAbandon ==
  /\ cpc = "body"
  /\ \/ ("alloc" \in Faults \/ info.total < 0) /\ UNCHANGED s2c
     \/ ClientAtEof /\ info.total > 0 /\ UNCHANGED s2c
     \/ "shortbody" \in Faults /\ s2c # <<>> /\ s2c' = <<Rest>> \o Tail(s2c)
  /\ success' = 0
  /\ cpc' = "end"
  /\ UNCHANGED <<spc, c2s, cUp, rst, testing, key, left, info, filelen, exists, copy, verdict,
                 asked, getServer>>

\* Mutant of Writes: write is given total_len, so that the signature is stored too.
WritesAll(data) == {[file |-> Append(copy, <<data>>), check |-> 1]}

\* What write(fd, data) may leave in the file, and the sign of what it returns.
Writes(data) ==
  {[file |-> Append(copy, data), check |-> 1]}
  \cup (IF "diskerror" \in Faults THEN {[file |-> copy, check |-> -1]} ELSE {})
  \cup (IF "shortwrite" \in Faults
        THEN {[file |-> Append(copy, Cut), check |-> 1]} ELSE {})

\* Mutant of Verdict: success is sent before the write's result is looked at.
VerdictEarly(ok) ==
  /\ success' = IF ok THEN success ELSE 0
  /\ left' = left - info.file
  /\ ClientSends(Append(c2s, Num(success)), IF success' = 0 THEN "end" ELSE LoopHead(left'))

\* The verdict on this fragment goes to the server; a failed one breaks the loop.
Verdict(ok) ==
  /\ success' = IF ok THEN success ELSE 0
  /\ left' = left - info.file
  /\ ClientSends(Append(c2s, Num(success')), IF success' = 0 THEN "end" ELSE LoopHead(left'))

\* The whole fragment came: verify, write, answer.
GetBody ==
  /\ cpc = "body" /\ s2c # <<>> /\ Head(s2c).kind = "body"
  /\ info.total = 1 + Len(Head(s2c).sign)
  /\ s2c' = Tail(s2c)
  /\ IF Accepts(key, Head(s2c).data, Head(s2c).sign)
     THEN \E w \in Writes(Head(s2c).data) : copy' = w.file /\ Verdict(w.check >= 0)
     ELSE UNCHANGED copy /\ Verdict(FALSE)
  /\ UNCHANGED <<spc, rst, testing, key, info, filelen, exists, verdict, asked, getServer>>

\* total_len = 0 in an unwritten info: as in clnt_put, recv of nothing "succeeds" and
\* what malloc's block happens to hold is verified and stored, refused, or too long.
GetEmptyBody ==
  /\ cpc = "body" /\ info.total = 0
  /\ \/ info.file >= 0 /\ info.sign >= 0
        /\ \E w \in (IF info.file > 0 THEN Writes(Cut) ELSE {[file |-> copy, check |-> 1]}) :
             copy' = w.file /\ Verdict(w.check >= 0)
     \/ key /\ info.file >= 0 /\ info.sign > 0
        /\ Verdict(FALSE) /\ UNCHANGED copy
     \/ (info.file # 0 \/ info.sign # 0)
        /\ cpc' = "gone" /\ cUp' = FALSE /\ UNCHANGED <<c2s, copy, success, left>>
  /\ UNCHANGED <<spc, s2c, rst, testing, key, info, filelen, exists, verdict, asked, getServer>>

\* Mutant of Keeps: the result of the transfer is not looked at.
KeepsAlways == TRUE

\* if(file_len < 0) success = 0;  if(success) ...
Keeps == success # 0 /\ filelen >= 0

\* Mutant of GetEnd: the last verdict is not sent.
GetEndQuiet ==
  /\ cpc = "end"
  /\ verdict' = IF Keeps THEN "ok" ELSE "failed"
  /\ exists' = Keeps
  /\ copy' = IF Keeps THEN copy ELSE <<>>
  /\ success' = IF Keeps THEN success ELSE 0
  /\ cpc' = "prompt"
  /\ UNCHANGED <<spc, c2s, s2c, cUp, rst, testing, key, left, info, filelen, asked, getServer>>

\* After the loop: keep the file or remove it, tell the user and the server.
GetEnd ==
  /\ cpc = "end"
  /\ verdict' = IF Keeps THEN "ok" ELSE "failed"
  /\ exists' = Keeps
  /\ copy' = IF Keeps THEN copy ELSE <<>>
  /\ success' = IF Keeps THEN success ELSE 0
  /\ ClientSends(Append(c2s, Num(success')), "prompt")
  /\ UNCHANGED <<spc, s2c, rst, testing, key, left, info, filelen, asked, getServer>>

\* pwd: one command, one recv.
PwdStart ==
  /\ cpc = "prompt" /\ verdict # "none" /\ ~asked
  /\ asked' = TRUE
  /\ ClientSends(Append(c2s, Cmd("pwd")), "pwd")
  /\ UNCHANGED <<spc, s2c, rst, testing, key, left, info, filelen, success, exists, copy,
                 verdict, getServer>>

PwdReturns ==
  /\ cpc = "pwd"
  /\ \/ s2c # <<>> /\ s2c' = Tail(s2c)
     \/ ClientAtEof /\ UNCHANGED s2c
  /\ cpc' = "prompt"
  /\ UNCHANGED <<spc, c2s, cUp, rst, getClient, getServer>>

----------------------------------------------------------------------------
(* The server. *)

\* Mutant of Open: a missing file is not answered.
OpenSilent ==
  \/ /\ spc' = "cmd" /\ served' = "nofile"
     /\ UNCHANGED <<s2c, rst, src, sent, sign, status>>
  \/ /\ src' \in Files /\ sent' = 0 /\ status' = 1
     /\ ServerSend(Num(1), "size")
     /\ UNCHANGED <<sign, served>>

\* clnt_get: open the file, or say that there is none.
Open ==
  \/ /\ ServerSend(Num(0), "cmd")
     /\ served' = "nofile"
     /\ UNCHANGED <<src, sent, sign, status>>
  \/ /\ src' \in Files /\ sent' = 0 /\ status' = 1
     /\ ServerSend(Num(1), "size")
     /\ UNCHANGED <<sign, served>>

ServGet ==
  /\ spc = "cmd" /\ c2s # <<>> /\ Head(c2s) = Cmd("get")
  /\ c2s' = Tail(c2s)
  /\ Open
  /\ UNCHANGED <<cpc, cUp, getClient>>

ServPwd ==
  /\ spc = "cmd" /\ c2s # <<>> /\ Head(c2s) = Cmd("pwd")
  /\ c2s' = Tail(c2s)
  /\ ServerSend(Path, "cmd")
  /\ UNCHANGED <<cpc, cUp, getClient, getServer>>

\* handle_clnt reads what is left of pwd as a command: NULs, from which sscanf
\* stores nothing, so that the previous command, get, runs again.
ServLeftover ==
  /\ spc = "cmd" /\ c2s # <<>> /\ Head(c2s).kind = "rest"
  /\ c2s' = Tail(c2s)
  /\ Open
  /\ UNCHANGED <<cpc, cUp, getClient>>

\* stat, then send(&file_size).
ServSize ==
  /\ spc = "size"
  /\ ServerSend(Num(Len(src)), "read")
  /\ UNCHANGED <<cpc, c2s, cUp, getClient, getServer>>

\* read, ecdsa_sign, send(info).
ServInfo ==
  /\ spc = "read" /\ sent < Len(src)
  /\ sign' \in Sign(src[sent + 1], "nosign" \in Faults)
  /\ sent' = sent + 1
  /\ ServerSend(Info(1, Len(sign')), "data")
  /\ UNCHANGED <<cpc, c2s, cUp, getClient, src, status, served>>

\* What goes into send_buf.
Payload == IF testing THEN Content ELSE {src[sent]}

\* send(data and signature), or no memory for it and out of the loop.  A send that
\* returns an error, as to a client that has gone it may, only clears status.
ServData ==
  /\ spc = "data"
  /\ \/ /\ \E data \in Payload : ServerSend(Body(data, sign), "wait")
        /\ UNCHANGED status
     \/ /\ ~cUp /\ status' = 0 /\ spc' = "wait"
        /\ UNCHANGED <<s2c, rst>>
     \/ /\ "alloc" \in Faults
        /\ status' = 0 /\ spc' = "final"
        /\ UNCHANGED <<s2c, rst>>
  /\ UNCHANGED <<cpc, c2s, cUp, getClient, src, sent, sign, served>>

\* recv(&status): four bytes of what comes next; of a command they are text, not
\* 0, and the rest of it stays.  At end of file status keeps its value.
RecvStatus ==
  \/ /\ c2s # <<>> /\ Head(c2s).kind = "num"
     /\ status' = Head(c2s).num /\ c2s' = Tail(c2s)
  \/ /\ c2s # <<>> /\ Head(c2s).kind = "cmd"
     /\ status' = 1 /\ c2s' = <<Rest>> \o Tail(c2s)
  \/ ServerAtEof /\ UNCHANGED <<status, c2s>>

\* The verdict on the fragment.
ServStatus ==
  /\ spc = "wait"
  /\ RecvStatus
  /\ spc' = IF status' = 0 THEN "final" ELSE "read"
  /\ UNCHANGED <<cpc, s2c, cUp, rst, getClient, src, sent, sign, served>>

\* read returns 0.
ServEndOfFile ==
  /\ spc = "read" /\ sent = Len(src)
  /\ spc' = "final"
  /\ UNCHANGED <<cpc, c2s, s2c, cUp, rst, getClient, getServer>>

\* The client's last verdict, and what the server prints.
ServFinal ==
  /\ spc = "final"
  /\ RecvStatus
  /\ served' = IF status' # 0 THEN "ok" ELSE "failed"
  /\ spc' = "cmd"
  /\ UNCHANGED <<cpc, s2c, cUp, rst, getClient, src, sent, sign>>

----------------------------------------------------------------------------

ClientStep ==
  \/ GetCheck \/ GetSize \/ GetInfo \/ GetAbandon \/ GetBody \/ GetEmptyBody \/ GetEnd
  \/ PwdReturns

ServerStep ==
  \/ ServGet \/ ServPwd \/ ServLeftover \/ ServSize \/ ServInfo \/ ServData
  \/ ServStatus \/ ServEndOfFile \/ ServFinal
  \/ ServerHangup /\ UNCHANGED <<getClient, getServer>>

User ==
  \/ \E test \in BOOLEAN : GetStart(test)
  \/ PwdStart
  \/ ClientQuit /\ UNCHANGED <<getClient, getServer>>

Environment == ServerDies /\ UNCHANGED <<getClient, getServer>>

\* Both exchanges are over, or the client is, or the server.
Over ==
  /\ (cpc = "prompt" /\ asked /\ spc = "cmd") \/ spc \in {"gone", "killed"}
  /\ c2s = <<>>

Finished == Over /\ UNCHANGED vars

DownloadNext == ClientStep \/ ServerStep \/ User \/ Environment \/ Finished

DownloadSpec == DownloadInit /\ [][DownloadNext]_vars

\* Both processes keep being scheduled; the user and the other clients owe nothing.  A
\* client that keeps sending to a server that has ended is ended by SIGPIPE: the reset
\* that answers the first of its sends is there sooner or later.
DownloadFairSpec ==
  /\ DownloadSpec
  /\ WF_vars(ClientStep) /\ WF_vars(ServerStep)
  /\ SF_vars(ClientStep /\ cpc' = "gone")

----------------------------------------------------------------------------
(* What the download promises. *)

TypeOK ==
  /\ cpc \in {"prompt", "check", "size", "info", "body", "end", "pwd", "gone"}
  /\ spc \in {"cmd", "size", "read", "data", "wait", "final", "gone", "killed"}
  /\ c2s \in Seq(Message) /\ s2c \in Seq(Message \cup {Path})
  /\ cUp \in BOOLEAN /\ rst \in BOOLEAN
  /\ testing \in BOOLEAN /\ key \in BOOLEAN
  /\ left \in Int /\ info \in Lengths /\ filelen \in Int /\ success \in {0, 1}
  /\ exists \in BOOLEAN /\ copy \in Seq(Content \cup {Cut})
  /\ verdict \in {"none", "ok", "failed", "nofile"} /\ asked \in BOOLEAN
  /\ src \in Seq(Content) /\ sent \in Nat /\ sign \in Signs /\ status \in Int
  /\ served \in {"none", "ok", "failed", "nofile"}

\* Integrity: what get_file has on its disk is the beginning of the file that the
\* server signed, also when the data of testget is another file's.
GenuineCopy == Len(copy) <= Len(src) /\ \A i \in 1 .. Len(copy) : copy[i] = src[i]

\* A download that get_file calls complete is the whole file.
CompleteIsWhole == verdict = "ok" => exists /\ copy = src

\* Once both are through, the server's upload success is the client's: with the
\* empty file too, for which file_len is unwritten.
BothAgree ==
  verdict # "none" /\ served # "none" /\ c2s = <<>> /\ spc = "cmd" => served = verdict

\* The command after a get finds both streams clean: what pwd's recv takes is the
\* server's directory, not what an earlier transfer has left.
PwdGetsPath == cpc = "pwd" /\ s2c # <<>> => s2c = <<Path>>

\* get returns to the prompt, and pwd after it.
GetReturns == cpc \notin {"prompt", "gone"} ~> cpc \in {"prompt", "gone"}

\* What get_file prints, as the abstract transfer's outcome.
Outcome == CASE verdict \in {"none", "nofile"} -> "none"
             [] verdict = "ok"                 -> "kept"
             [] verdict = "failed"             -> "dropped"

Transfer == INSTANCE FileTransfer
              WITH source <- src, present <- exists, copy <- copy, outcome <- Outcome

\* The copy on the client's disk only grows by genuine fragments in order and is
\* kept whole or removed.
ImplementsTransfer == Transfer!FTSpec
=============================================================================
