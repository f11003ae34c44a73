------------------------------ MODULE Upload ------------------------------
(***************************************************************************)
(* put: put_file or put_file_test in the client, clnt_put in the server.   *)
(* The client sends the command and the size, then one fragment at a time  *)
(* with its signature, and waits for the verdict on each.  The server      *)
(* creates the file, appends every fragment whose verification "succeeds"  *)
(* and removes the file when anything failed.                              *)
(***************************************************************************)
EXTENDS Connection, Signature

VARIABLES
  \* the client's side: put_file's locals and what it prints
  src,       \* the file being sent
  testing,   \* put_file_test: the data sent comes from test_file/
  sent,      \* number of fragments read and sent
  status,    \* last verdict received
  verdict,   \* what it tells the user: "none", "ok" or "failed"
  \* the server's side: clnt_put's locals, the disk and what it prints
  key,       \* pub_key # NULL
  left,      \* bytes_left
  info,      \* the Length_Info last received
  filelen,   \* file_len
  success,
  exists,    \* full_path is on the disk
  file,      \* its contents
  saved      \* "none", "ok" (save success) or "failed" (save fail)

putClient == <<src, testing, sent, status, verdict>>
putServer == <<key, left, info, filelen, success, exists, file, saved>>
vars == <<connVars, putClient, putServer>>

UploadInit ==
  /\ ConnectionInit
  /\ src = <<>> /\ testing = FALSE /\ sent = 0 /\ status = 0 /\ verdict = "none"
  /\ key \in BOOLEAN /\ (key \/ "nokey" \in Faults)
  /\ left = 0 /\ info = LengthInfo(0, 0) /\ filelen = 0 /\ success = 1
  /\ exists = FALSE /\ file = <<>> /\ saved = "none"

----------------------------------------------------------------------------
(* The client. *)

\* The command goes out.  put_file leaves status unwritten where put_file_test
\* sets it to 1.  One upload per behaviour: verdict = "none".
PutStart(f, test) ==
  /\ cpc = "prompt" /\ verdict = "none"
  /\ src' = f /\ testing' = test /\ sent' = 0
  /\ status' \in IF test THEN {1} ELSE Junk
  /\ ClientSends(Append(c2s, Cmd("put")), "size")
  /\ UNCHANGED <<spc, s2c, rst, verdict, putServer>>

\* stat, then send(&file_size).
PutSize ==
  /\ cpc = "size"
  /\ ClientSends(Append(c2s, Num(Len(src))), "read")
  /\ UNCHANGED <<spc, s2c, rst, putClient, putServer>>

\* What goes into send_buf for the next fragment.
Payload == IF testing THEN Content ELSE {src[sent + 1]}

\* read, ecdsa_sign, send(info), send(data and signature).
PutFragment ==
  /\ cpc = "read" /\ sent < Len(src)
  /\ \E data \in Payload, sign \in Sign(src[sent + 1], "nosign" \in Faults) :
       ClientSends(c2s \o <<Info(1, Len(sign)), Body(data, sign)>>, "wait")
  /\ sent' = sent + 1
  /\ UNCHANGED <<spc, s2c, rst, src, testing, status, verdict, putServer>>

\* The same with a server that has ended, where the last send returns an error.
PutBroken ==
  /\ cpc = "read" /\ sent < Len(src) /\ spc = "killed"
  /\ sent' = sent + 1 /\ status' = 0
  /\ cpc' = "end"
  /\ UNCHANGED <<spc, c2s, s2c, cUp, rst, src, testing, verdict, putServer>>

\* malloc fails after the Length_Info has gone out.
PutNoMemory ==
  /\ "alloc" \in Faults
  /\ cpc = "read" /\ sent < Len(src)
  /\ \E sign \in Sign(src[sent + 1], "nosign" \in Faults) :
       ClientSends(Append(c2s, Info(1, Len(sign))), "end")
  /\ status' = 0
  /\ UNCHANGED <<spc, s2c, rst, src, testing, sent, verdict, putServer>>

\* recv(&status): the verdict on the fragment just sent.  When the server has ended,
\* status keeps its value.
PutStatus ==
  /\ cpc = "wait"
  /\ \/ s2c # <<>> /\ status' = Head(s2c).num /\ s2c' = Tail(s2c)
     \/ ClientAtEof /\ UNCHANGED <<status, s2c>>
  /\ cpc' = IF status' = 0 THEN "end" ELSE "read"
  /\ UNCHANGED <<spc, c2s, cUp, rst, src, testing, sent, verdict, putServer>>

\* End of file or a break; then the message to the user and the prompt again.
PutEnd ==
  /\ cpc = "end" \/ (cpc = "read" /\ sent = Len(src))
  /\ verdict' = IF status # 0 THEN "ok" ELSE "failed"
  /\ cpc' = "prompt"
  /\ UNCHANGED <<spc, c2s, s2c, cUp, rst, src, testing, sent, status, putServer>>

----------------------------------------------------------------------------
(* The server. *)

\* The entry of clnt_put: the file is created; file_size, info and file_len
\* are locals nobody has written.
Enter ==
  /\ exists' = TRUE /\ file' = <<>>
  /\ left' \in Junk /\ info' \in JunkInfo /\ filelen' \in Junk
  /\ success' = 1
  /\ spc' = "size"

ServPut ==
  /\ spc = "cmd" /\ c2s # <<>> /\ Head(c2s) = Cmd("put")
  /\ c2s' = Tail(c2s)
  /\ Enter
  /\ UNCHANGED <<cpc, s2c, cUp, rst, putClient, key, saved>>

\* handle_clnt reads what is left of a fragment as a command, and as whatever else
\* that command goes on to receive: from here on the thread is out of step.
ServLeftover ==
  /\ spc = "cmd" /\ c2s # <<>> /\ Head(c2s).kind \in {"rest", "body"}
  /\ c2s' = Tail(c2s)
  /\ spc' = "astray"
  /\ UNCHANGED <<cpc, s2c, cUp, rst, putClient, putServer>>

\* Out of step the thread may take anything from the stream, by handle_clnt or by a
\* command it runs, clnt_put again among them; may send a reply, of which put_file
\* takes the first bytes for its verdict; and may end, alone on the word exit or with
\* its process.  What it stores is another upload's, not this one's.  Bound: it does
\* not send again before the client has taken what there is.
ServAstray ==
  /\ spc = "astray"
  /\ \/ c2s # <<>> /\ c2s' = Tail(c2s) /\ UNCHANGED <<cpc, spc, s2c, cUp, rst>>
     \/ s2c = <<>> /\ (\E n \in Junk \cup {0, 1} : ServerSend(Num(n), "astray"))
                   /\ UNCHANGED <<cpc, c2s, cUp>>
     \/ ProcessEnds
  /\ UNCHANGED <<putClient, putServer>>

\* while(bytes_left > 0)
LoopHead(n) == IF n > 0 THEN "info" ELSE "end"

\* recv(&file_size); at end of file it stays unwritten.
ServSize ==
  /\ spc = "size"
  /\ \/ /\ c2s # <<>> /\ Head(c2s).kind = "num"
        /\ left' = Head(c2s).num
        /\ c2s' = Tail(c2s)
     \/ ServerAtEof /\ UNCHANGED <<left, c2s>>
  /\ spc' = LoopHead(left')
  /\ UNCHANGED <<cpc, s2c, cUp, rst, putClient, key, info, filelen, success, exists, file, saved>>

\* recv(&info); at end of file the struct keeps what the last round left in it.
ServInfo ==
  /\ spc = "info"
  /\ \/ /\ c2s # <<>> /\ Head(c2s).kind = "info"
        /\ info' = Head(c2s).len
        /\ c2s' = Tail(c2s)
     \/ ServerAtEof /\ UNCHANGED <<info, c2s>>
  /\ filelen' = info'.file
  /\ spc' = "body"
  /\ UNCHANGED <<cpc, s2c, cUp, rst, putClient, key, left, success, exists, file, saved>>

\* break out of the loop with success = 0, without an answer to the client.
Abandon ==
  /\ success' = 0
  /\ spc' = "end"
  /\ UNCHANGED <<cpc, s2c, cUp, rst, putClient, key, left, info, filelen, exists, file, saved>>

\* malloc(total_len) fails; the fragment stays in the stream.
ServNoMemory ==
  /\ spc = "body"
  /\ "alloc" \in Faults \/ info.total < 0
  /\ UNCHANGED c2s
  /\ Abandon

\* Mutant of ServShortBody: the end of the stream is no reason to leave the loop.
ServShortBodyLoops ==
  /\ spc = "body"
  /\ \/ /\ "shortbody" \in Faults
        /\ c2s # <<>> /\ Head(c2s).kind = "body"
        /\ c2s' = <<Rest>> \o Tail(c2s)
        /\ Abandon
     \/ /\ ServerAtEof /\ info.total > 0 /\ spc' = "info"
        /\ UNCHANGED <<cpc, c2s, s2c, cUp, rst, putClient, key, left, info, filelen, success,
                       exists, file, saved>>

\* recv_bytes != total_len: part of the fragment came, or nothing any more.
ServShortBody ==
  /\ spc = "body"
  /\ \/ /\ "shortbody" \in Faults
        /\ c2s # <<>> /\ Head(c2s).kind = "body"
        /\ c2s' = <<Rest>> \o Tail(c2s)
     \/ ServerAtEof /\ info.total > 0 /\ UNCHANGED c2s
  /\ Abandon

\* Mutant of Writes: write is given total_len, so that the signature is stored too.
WritesAll(data) == {[file |-> Append(file, <<data>>), check |-> 1]}

\* What write(fd, data) may leave in the file, and the sign of what it returns.
Writes(data) ==
  {[file |-> Append(file, data), check |-> 1]}
  \cup (IF "diskerror" \in Faults THEN {[file |-> file, check |-> -1]} ELSE {})
  \cup (IF "shortwrite" \in Faults
        THEN {[file |-> Append(file, Cut), check |-> 1]} ELSE {})

\* Mutant of Answer: the verdict is the one from before the write.
AnswerEarly(ok) ==
  /\ success' = IF ok THEN success ELSE 0
  /\ left' = left - info.file
  /\ ServerSend(Num(success), IF success' = 0 THEN "end" ELSE LoopHead(left'))

\* Mutant of Answer: a failed fragment is answered by nothing.
AnswerSuccessOnly(ok) ==
  /\ success' = IF ok THEN success ELSE 0
  /\ left' = left - info.file
  /\ IF ok THEN ServerSend(Num(1), LoopHead(left'))
           ELSE spc' = "end" /\ UNCHANGED <<s2c, rst>>

\* The verdict on this fragment goes to the client, then the loop's end: a failed
\* fragment breaks it.
Answer(ok) ==
  /\ success' = IF ok THEN success ELSE 0
  /\ left' = left - info.file
  /\ ServerSend(Num(success'), IF success' = 0 THEN "end" ELSE LoopHead(left'))

\* The whole fragment came: verify, write, answer.
ServBody ==
  /\ spc = "body"
  /\ c2s # <<>> /\ Head(c2s).kind = "body"
  /\ info.total = 1 + Len(Head(c2s).sign)
  /\ c2s' = Tail(c2s)
  /\ IF Accepts(key, Head(c2s).data, Head(c2s).sign)
     THEN \E w \in Writes(Head(c2s).data) : file' = w.file /\ Answer(w.check >= 0)
     ELSE UNCHANGED file /\ Answer(FALSE)
  /\ UNCHANGED <<cpc, cUp, putClient, key, info, filelen, exists, saved>>

\* total_len = 0 in an unwritten info: recv of nothing returns as many bytes as it was
\* asked for.  The memcpys then copy what malloc's block happens to hold, and end the
\* process when a length is negative or too long; ecdsa_verify takes those bytes for
\* no signature, which is an error and so accepted, or for one that does not match.
ServEmptyBody ==
  /\ spc = "body" /\ info.total = 0
  /\ \/ info.file >= 0 /\ info.sign >= 0
        /\ \E w \in (IF info.file > 0 THEN Writes(Cut) ELSE {[file |-> file, check |-> 1]}) :
             file' = w.file /\ Answer(w.check >= 0)
        /\ UNCHANGED <<cpc, c2s, cUp>>
     \/ key /\ info.file >= 0 /\ info.sign > 0
        /\ Answer(FALSE) /\ UNCHANGED <<cpc, c2s, cUp, file>>
     \/ (info.file # 0 \/ info.sign # 0)
        /\ ProcessEnds /\ UNCHANGED <<file, success, left>>
  /\ UNCHANGED <<putClient, key, info, filelen, exists, saved>>

\* Mutant of Keeps: the result of the transfer is not looked at.
KeepsAlways == TRUE

\* if(file_len < 0) success = 0;  if(success) ...
Keeps == success # 0 /\ filelen >= 0

\* After the loop: keep the file or remove it, and back to handle_clnt.
ServEnd ==
  /\ spc = "end"
  /\ saved' = IF Keeps THEN "ok" ELSE "failed"
  /\ exists' = Keeps
  /\ file' = IF Keeps THEN file ELSE <<>>
  /\ spc' = "cmd"
  /\ UNCHANGED <<cpc, c2s, s2c, cUp, rst, putClient, key, left, info, filelen, success>>

----------------------------------------------------------------------------

ClientStep == PutSize \/ PutFragment \/ PutBroken \/ PutNoMemory \/ PutStatus \/ PutEnd

ServerStep ==
  \/ ServPut \/ ServLeftover \/ ServAstray \/ ServSize \/ ServInfo
  \/ ServNoMemory \/ ServShortBody \/ ServBody \/ ServEmptyBody \/ ServEnd
  \/ ServerHangup /\ UNCHANGED <<putClient, putServer>>

User ==
  \/ \E f \in Files, test \in BOOLEAN : PutStart(f, test)
  \/ ClientQuit /\ UNCHANGED <<putClient, putServer>>

Environment == ServerDies /\ UNCHANGED <<putClient, putServer>>

\* The upload is over and both ends are where they take the next command.
Over ==
  /\ (cpc = "prompt" /\ verdict # "none" /\ spc = "cmd") \/ spc \in {"gone", "killed"}
  /\ c2s = <<>>

Finished == Over /\ UNCHANGED vars

UploadNext == ClientStep \/ ServerStep \/ User \/ Environment \/ Finished

UploadSpec == UploadInit /\ [][UploadNext]_vars

\* Both processes keep being scheduled; the user and the other clients owe nothing.  Of
\* a server that keeps sending to a client that has gone, the reset that answers the
\* first of its sends is there sooner or later.
UploadFairSpec ==
  /\ UploadSpec
  /\ WF_vars(ClientStep) /\ WF_vars(ServerStep)
  /\ SF_vars(ServerStep /\ rst')

----------------------------------------------------------------------------
(* What the upload promises. *)

TypeOK ==
  /\ cpc \in {"prompt", "size", "read", "wait", "end", "gone"}
  /\ spc \in {"cmd", "size", "info", "body", "end", "astray", "gone", "killed"}
  /\ c2s \in Seq(Message) /\ s2c \in Seq([kind : {"num"}, num : Int])
  /\ cUp \in BOOLEAN /\ rst \in BOOLEAN
  /\ src \in Seq(Content) /\ testing \in BOOLEAN /\ sent \in Nat /\ status \in Int
  /\ verdict \in {"none", "ok", "failed"}
  /\ key \in BOOLEAN /\ left \in Int /\ info \in Lengths /\ filelen \in Int
  /\ success \in {0, 1}
  /\ exists \in BOOLEAN /\ file \in Seq(Content \cup {Cut})
  /\ saved \in {"none", "ok", "failed"}

\* s is the beginning of t.
Begins(s, t) == Len(s) <= Len(t) /\ \A i \in 1 .. Len(s) : s[i] = t[i]

\* Integrity: at every moment what is on the server's disk is the beginning of the
\* file the client signed, also when put_file_test sends other data, fragments are
\* cut short and read as commands, or memory or disk fail.
GenuinePrefix == Begins(file, src)

\* clnt_put's "save success" means that the whole file is on the disk: a transfer
\* that stopped anywhere before its end is not kept.
KeptIsWhole == saved = "ok" => exists /\ file = src

\* What put_file tells its user is what clnt_put did, for every file that has a
\* first fragment, once both have returned.
VerdictAgrees ==
  verdict # "none" /\ saved # "none" /\ spc = "cmd" /\ src # <<>> =>
    (verdict = "ok" <=> saved = "ok")

\* The thread is in step with the client: it runs and has not read the rest of a
\* fragment as a command.
Paired == spc \notin {"astray", "killed"}

\* A fragment is on the disk before its positive verdict reaches the client, which
\* only then reads the next one: while the two are in step, a positive verdict, on its
\* way or just received, is about the last fragment sent, and all those sent are stored.
AckedIsStored ==
  Paired /\ ((s2c # <<>> /\ s2c[1].num # 0) \/ (cpc = "read" /\ sent > 0)) =>
    Len(s2c) <= 1 /\ exists /\ Len(file) = sent

\* put returns to the prompt: every fragment sent is answered, whatever the answer.
PutReturns == cpc \notin {"prompt", "gone"} ~> cpc \in {"prompt", "gone"}

\* Of a client that was killed at any point, the thread notices: whatever the unchecked
\* recvs have left in file_size and info, clnt_put's loop ends and handle_clnt's too.
ThreadEnds == ~cUp ~> spc \in {"gone", "killed"}

\* What clnt_put prints, as the abstract transfer's outcome.
Outcome == CASE saved = "none"   -> "none"
             [] saved = "ok"     -> "kept"
             [] saved = "failed" -> "dropped"

Transfer == INSTANCE FileTransfer
              WITH source <- src, present <- exists, copy <- file, outcome <- Outcome

\* Create, append genuine fragments in order, then keep the whole file or remove
\* what there is: nothing else ever happens to the file on the server.
ImplementsTransfer == Transfer!FTSpec
=============================================================================
