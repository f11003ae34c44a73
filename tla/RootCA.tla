------------------------------ MODULE RootCA ------------------------------
(***************************************************************************)
(* The root CA and its clients (client_to_ca).  The CA serves one          *)
(* connection at a time: it sends its certificate, then answers every      *)
(* request_cert with a certificate for the CSR that follows it, numbered   *)
(* from serial.txt, or with an empty answer.  Streams are sequences of     *)
(* messages; a recv that ends inside one leaves the rest at the head.      *)
(* serial.txt outlives the process, its connections do not.                *)
(***************************************************************************)
EXTENDS Integers, Sequences

CONSTANTS
  Clients,
  MaxRequests,  \* bound: requests of a client
  MaxFds,       \* connections the CA may leave open before accept fails
  Start,        \* what serial.txt holds at first, 0 when there is none
  Faults        \* what may go wrong, a subset of AllFaults

AllFaults ==
  { "drop",      \* a client's process ends anywhere
    "shortcsr",  \* recv returns part of a CSR
    "coalesce",  \* recv of a command returns what comes after it too
    "nocsr",     \* a client has no private key to make a CSR with
    "distrust",  \* a client has no key to verify its certificate with
    "nospace",   \* serial.txt cannot be opened or written
    "crash" }    \* the CA's process ends anywhere

ASSUME RootCAAssumption ==
  /\ MaxRequests \in Nat /\ MaxFds \in Nat /\ Start \in Nat
  /\ Faults \subseteq AllFaults

VARIABLES
  pc,        \* where the CA is; "down" when its process does not run
  cur,       \* the client it serves
  command,   \* what sscanf last stored
  wanted,    \* the request whose CSR sign_cert took, 0 when it took none
  serial,    \* sign_cert's serial
  disk,      \* the number in serial.txt, 0 when none can be read there
  issued,    \* every certificate signed, in order
  leaked,    \* connections of clients gone that were not closed
  conn,      \* each client's connection at the CA: "none", "backlog", "open"
  toCA, toClient,
  cpc,       \* where each client is; "away" when it has closed its end
  nreq,      \* number of its requests
  trusts,    \* ca_pub_key # NULL
  saved      \* client_cert.pem

caVars     == <<pc, cur, command, wanted, serial, disk, issued, leaked>>
clientVars == <<cpc, nreq, trusts, saved>>
vars == <<caVars, conn, toCA, toClient, clientVars>>

\* What clients send: the command, exit, a CSR's length, the nth CSR; and what a
\* recv left of them: a line feed, something that starts with NUL, other text.
Said(kind) == [kind |-> kind, nth |-> 0]
Csr(n)     == [kind |-> "csr", nth |-> n]
SaidType   == [kind : {"request_cert", "exit", "len", "csr", "blank", "nul", "rest"}, nth : Nat]

\* What the CA sends, and what client_cert.pem holds.
CACert     == [kind |-> "ca", nth |-> 0, serial |-> 0]
NoCert     == [kind |-> "pem", nth |-> 0, serial |-> 0]
Pem(n, s)  == [kind |-> "pem", nth |-> n, serial |-> s]
Garbage    == [kind |-> "garbage", nth |-> 0, serial |-> 0]
ReplyType  == [kind : {"ca", "pem", "garbage"}, nth : Nat, serial : Nat]
IssuedType == [to : Clients, nth : Nat, serial : Nat]

Init ==
  /\ pc = "accept" /\ command = "other" /\ wanted = 0 /\ serial = 0
  /\ cur \in Clients
  /\ disk = Start /\ issued = <<>> /\ leaked = 0
  /\ conn = [c \in Clients |-> "none"]
  /\ toCA = [c \in Clients |-> <<>>] /\ toClient = [c \in Clients |-> <<>>]
  /\ cpc = [c \in Clients |-> "away"] /\ nreq = [c \in Clients |-> 0]
  /\ trusts \in [Clients -> BOOLEAN]
  /\ "distrust" \in Faults \/ \A c \in Clients : trusts[c]
  /\ saved = [c \in Clients |-> NoCert]

----------------------------------------------------------------------------
(* The clients. *)

Goto(c, at) == cpc' = [cpc EXCEPT ![c] = at]
\* To a CA that has died nothing goes.
Say(c, ms) == toCA' = [toCA EXCEPT ![c] = IF conn[c] = "none" THEN <<>> ELSE @ \o ms]

Connect(c) ==
  /\ cpc[c] = "away" /\ conn[c] = "none" /\ pc # "down"
  /\ Goto(c, "hello")
  /\ conn' = [conn EXCEPT ![c] = "backlog"]
  /\ toClient' = [toClient EXCEPT ![c] = <<>>]
  /\ UNCHANGED <<caVars, toCA, nreq, trusts, saved>>

\* cert_get_pubkey.
Hello(c) ==
  /\ cpc[c] = "hello" /\ toClient[c] # <<>>
  /\ toClient' = [toClient EXCEPT ![c] = Tail(@)]
  /\ Goto(c, "prompt")
  /\ UNCHANGED <<caVars, conn, toCA, nreq, trusts, saved>>

\* The command goes out before the user types the subject's six fields.
Request(c) ==
  /\ cpc[c] = "prompt" /\ nreq[c] < MaxRequests
  /\ nreq' = [nreq EXCEPT ![c] = @ + 1]
  /\ Say(c, <<Said("request_cert")>>)
  /\ Goto(c, "subject")
  /\ UNCHANGED <<caVars, conn, toClient, trusts, saved>>

\* send_csr: length and CSR.  Without a key there is no X509_REQ to write: an
\* empty one goes out, or nothing.
SendCsr(c) ==
  /\ cpc[c] = "subject"
  /\ \/ Say(c, <<Said("len"), Csr(nreq[c])>>)
     \/ "nocsr" \in Faults /\ (Say(c, <<Said("len"), Csr(0)>>) \/ UNCHANGED toCA)
  /\ Goto(c, "wait")
  /\ UNCHANGED <<caVars, conn, toClient, nreq, trusts, saved>>

\* The answer: X509_verify of no certificate ends the process; save_cert follows
\* the verification whatever its result, on freed memory when it failed.
Receive(c) ==
  /\ cpc[c] = "wait" /\ toClient[c] # <<>>
  /\ toClient' = [toClient EXCEPT ![c] = Tail(@)]
  /\ LET m == Head(toClient[c]) IN
     \/ m.nth = 0 /\ Goto(c, "away") /\ UNCHANGED saved
     \/ m.nth # 0 /\ trusts[c] /\ Goto(c, "prompt") /\ saved' = [saved EXCEPT ![c] = m]
     \/ /\ m.nth # 0 /\ ~trusts[c]
        /\ \E left \in {m, Garbage}, at \in {"prompt", "away"} :
             saved' = [saved EXCEPT ![c] = left] /\ Goto(c, at)
  /\ UNCHANGED <<caVars, conn, toCA, nreq, trusts>>

Exit(c) ==
  /\ cpc[c] = "prompt"
  /\ Say(c, <<Said("exit")>>)
  /\ Goto(c, "away")
  /\ UNCHANGED <<caVars, conn, toClient, nreq, trusts, saved>>

Drop(c) ==
  /\ "drop" \in Faults /\ cpc[c] # "away"
  /\ Goto(c, "away")
  /\ UNCHANGED <<caVars, conn, toCA, toClient, nreq, trusts, saved>>

\* The CA has died: the client's next send or recv ends it too.
Lost(c) ==
  /\ cpc[c] # "away" /\ conn[c] = "none" /\ toClient[c] = <<>>
  /\ Goto(c, "away")
  /\ UNCHANGED <<caVars, conn, toCA, toClient, nreq, trusts, saved>>

----------------------------------------------------------------------------
(* The CA. *)

Stream == toCA[cur]
Gone   == cpc[cur] = "away"

\* The process ends, with every connection.
Die ==
  /\ pc' = "down" /\ wanted' = 0 /\ leaked' = 0
  /\ conn' = [c \in Clients |-> "none"]
  /\ toCA' = [c \in Clients |-> <<>>]
  /\ UNCHANGED <<cur, command, serial, disk, issued, toClient, clientVars>>

\* Two sends to c, then the next command; to a client that is gone the second may
\* raise SIGPIPE.
Sends(c, m) ==
  /\ \/ cpc[c] # "away" /\ toClient' = [toClient EXCEPT ![c] = Append(@, m)]
     \/ cpc[c] = "away" /\ UNCHANGED toClient
  /\ pc' = "cmd"

Accept(c) ==
  /\ pc = "accept" /\ conn[c] = "backlog" /\ leaked < MaxFds
  /\ cur' = c
  /\ conn' = [conn EXCEPT ![c] = "open"]
  /\ Sends(c, CACert)
  /\ UNCHANGED <<command, wanted, serial, disk, issued, leaked, toCA, clientVars>>

\* accept() has no descriptor left: exit(1).
AcceptFails ==
  /\ pc = "accept" /\ leaked = MaxFds
  /\ \E c \in Clients : conn[c] = "backlog"
  /\ Die

\* SIGPIPE, in send_cert or in the answer.
BrokenPipe ==
  /\ \/ pc = "accept" /\ leaked < MaxFds /\ \E c \in Clients : conn[c] = "backlog" /\ cpc[c] = "away"
     \/ pc = "reply" /\ Gone
  /\ Die

\* What sscanf stores of the bytes taken: it skips a line feed, and stores nothing
\* when a NUL or nothing follows.
Parsed(taken) ==
  LET words == SelectSeq(taken, LAMBDA m : m.kind # "blank") IN
  CASE words = <<>> \/ Head(words).kind \in {"nul", "len"} -> command
    [] words # <<>> /\ Head(words).kind \in {"request_cert", "exit"} -> Head(words).kind
    [] OTHER -> "other"

Drops(k) == toCA' = [toCA EXCEPT ![cur] = SubSeq(@, k + 1, Len(@))]

RecvCommand ==
  /\ pc = "cmd" /\ Stream # <<>>
  /\ \E k \in 1 .. (IF "coalesce" \in Faults THEN Len(Stream) ELSE 1) :
       /\ command' = Parsed(SubSeq(Stream, 1, k))
       /\ \/ /\ command' = "exit" /\ pc' = "accept"
             /\ conn' = [conn EXCEPT ![cur] = "none"]
             /\ toCA' = [toCA EXCEPT ![cur] = <<>>]
          \/ command' = "request_cert" /\ pc' = "len" /\ Drops(k) /\ UNCHANGED conn
          \/ command' = "other" /\ pc' = "cmd" /\ Drops(k) /\ UNCHANGED conn
  /\ UNCHANGED <<cur, wanted, serial, disk, issued, leaked, toClient, clientVars>>

\* Mutant of RecvEnd: the connection is closed twice.
RecvEndCloses ==
  /\ pc = "cmd" /\ Stream = <<>> /\ Gone
  /\ pc' = "accept" /\ leaked' = leaked - 1
  /\ conn' = [conn EXCEPT ![cur] = "none"]
  /\ UNCHANGED <<cur, command, wanted, serial, disk, issued, toCA, toClient, clientVars>>

\* recv <= 0: out of the loop without a close.
RecvEnd ==
  /\ pc = "cmd" /\ Stream = <<>> /\ Gone
  /\ pc' = "accept" /\ leaked' = leaked + 1
  /\ conn' = [conn EXCEPT ![cur] = "none"]
  /\ UNCHANGED <<cur, command, wanted, serial, disk, issued, toCA, toClient, clientVars>>

\* The CSR's length: four bytes of whatever is there; at end of file none.
RecvLen ==
  /\ pc = "len"
  /\ \/ /\ Stream # <<>> /\ Head(Stream).kind = "len"
        /\ Drops(1) /\ pc' = "csr"
     \/ /\ Stream # <<>> /\ Head(Stream).kind # "len"
        /\ toCA' = [toCA EXCEPT ![cur] =
                      <<Said(IF Head(@).kind = "exit" THEN "nul" ELSE "rest")>> \o Tail(@)]
        /\ pc' = "junk"
     \/ /\ Stream = <<>> /\ Gone
        /\ UNCHANGED toCA /\ pc' = "junk"
  /\ UNCHANGED <<cur, command, wanted, serial, disk, issued, leaked, conn, toClient, clientVars>>

\* The CSR, whole, without its last line feed, or in part; sign_cert takes the
\* first two.
RecvCsr ==
  /\ pc = "csr" /\ Stream # <<>>
  /\ \/ /\ Drops(1)
        /\ wanted' = Head(Stream).nth
     \/ /\ "shortcsr" \in Faults
        /\ \/ /\ toCA' = [toCA EXCEPT ![cur] = <<Said("blank")>> \o Tail(@)]
              /\ wanted' = Head(Stream).nth
           \/ /\ toCA' = [toCA EXCEPT ![cur] = <<Said("rest")>> \o Tail(@)]
              /\ wanted' = 0
  /\ pc' = IF wanted' = 0 THEN "reply" ELSE "serial"
  /\ UNCHANGED <<cur, command, serial, disk, issued, leaked, conn, toClient, clientVars>>

\* Mutant of RecvJunk: sign_cert takes the CSR of the request before.
RecvJunkParsed ==
  /\ pc = "junk"
  /\ \E k \in 0 .. Len(Stream) : Drops(k)
  /\ pc' = IF wanted = 0 THEN "reply" ELSE "serial"
  /\ UNCHANGED <<cur, command, wanted, serial, disk, issued, leaked, conn, toClient, clientVars>>

\* With a length that is none malloc may fail, or recv take all there is; what it
\* takes is no CSR.
RecvJunk ==
  /\ pc = "junk"
  /\ \E k \in 0 .. Len(Stream) : Drops(k)
  /\ wanted' = 0
  /\ pc' = "reply"
  /\ UNCHANGED <<cur, command, serial, disk, issued, leaked, conn, toClient, clientVars>>

\* read_serial, and fopen(.., "w") in write_serial, which empties the file.
ReadSerial ==
  /\ pc = "serial"
  /\ serial' = IF disk = 0 THEN 1 ELSE disk
  /\ \/ disk' = 0 /\ pc' = "store"
     \/ "nospace" \in Faults /\ UNCHANGED disk /\ pc' = "sign"
  /\ UNCHANGED <<cur, command, wanted, issued, leaked, conn, toCA, toClient, clientVars>>

\* Mutant of WriteSerial: the serial just used is written.
WriteSerialUsed ==
  /\ pc = "store"
  /\ disk' = serial
  /\ pc' = "sign"
  /\ UNCHANGED <<cur, command, wanted, serial, issued, leaked, conn, toCA, toClient, clientVars>>

\* fprintf and fclose.
WriteSerial ==
  /\ pc = "store"
  /\ \/ disk' = serial + 1
     \/ "nospace" \in Faults /\ UNCHANGED disk
  /\ pc' = "sign"
  /\ UNCHANGED <<cur, command, wanted, serial, issued, leaked, conn, toCA, toClient, clientVars>>

\* What X509_sign makes.
Certificate == [to |-> cur, nth |-> wanted, serial |-> serial]

\* The end of sign_cert.
SignCert ==
  /\ pc = "sign"
  /\ issued' = Append(issued, Certificate)
  /\ pc' = "reply"
  /\ UNCHANGED <<cur, command, wanted, serial, disk, leaked, conn, toCA, toClient, clientVars>>

\* Mutant of Reply: a rejected CSR is answered with the certificate before.
ReplyOld ==
  /\ pc = "reply"
  /\ Sends(cur, IF issued = <<>> THEN NoCert
                ELSE Pem(issued[Len(issued)].nth, issued[Len(issued)].serial))
  /\ UNCHANGED <<cur, command, wanted, serial, disk, issued, leaked, conn, toCA, clientVars>>

\* Mutant of Reply: a rejected CSR is not answered.
ReplySigned ==
  /\ pc = "reply"
  /\ IF wanted = 0 THEN pc' = "cmd" /\ UNCHANGED toClient ELSE Sends(cur, Pem(wanted, serial))
  /\ UNCHANGED <<cur, command, wanted, serial, disk, issued, leaked, conn, toCA, clientVars>>

\* The certificate, or an empty answer, and the next command.
Reply ==
  /\ pc = "reply"
  /\ Sends(cur, IF wanted = 0 THEN NoCert ELSE Pem(wanted, serial))
  /\ UNCHANGED <<cur, command, wanted, serial, disk, issued, leaked, conn, toCA, clientVars>>

Crash ==
  /\ "crash" \in Faults /\ pc # "down"
  /\ Die

\* The operator starts the CA again.
Restart ==
  /\ pc = "down"
  /\ pc' = "accept" /\ command' = "other"
  /\ UNCHANGED <<cur, wanted, serial, disk, issued, leaked, conn, toCA, toClient, clientVars>>

----------------------------------------------------------------------------

User(c) == Connect(c) \/ Request(c) \/ SendCsr(c) \/ Exit(c) \/ Drop(c)

ClientReads(c) == Hello(c) \/ Receive(c) \/ Lost(c)

CAStep ==
  \/ (\E c \in Clients : Accept(c)) \/ AcceptFails \/ BrokenPipe
  \/ RecvCommand \/ RecvEnd \/ RecvLen \/ RecvCsr \/ RecvJunk
  \/ ReadSerial \/ WriteSerial \/ SignCert \/ Reply

Next ==
  \/ CAStep \/ Crash \/ Restart
  \/ \E c \in Clients : User(c) \/ ClientReads(c)

Spec == Init /\ [][Next]_vars

\* The kernel runs the CA and the clients that have something to read; users,
\* operators and faults owe nothing.
FairSpec == Spec /\ WF_vars(CAStep) /\ \A c \in Clients : WF_vars(ClientReads(c))

----------------------------------------------------------------------------
(* What the CA promises. *)

TypeOK ==
  /\ pc \in {"down", "accept", "cmd", "len", "csr", "junk", "serial", "store", "sign", "reply"}
  /\ cur \in Clients /\ command \in {"request_cert", "exit", "other"}
  /\ wanted \in Nat /\ serial \in Nat /\ disk \in Nat /\ leaked \in Nat
  /\ issued \in Seq(IssuedType)
  /\ conn \in [Clients -> {"none", "backlog", "open"}]
  /\ toCA \in [Clients -> Seq(SaidType)]
  /\ toClient \in [Clients -> Seq(ReplyType)]
  /\ cpc \in [Clients -> {"away", "hello", "prompt", "subject", "wait"}]
  /\ nreq \in [Clients -> Nat] /\ trusts \in [Clients -> BOOLEAN]
  /\ saved \in [Clients -> ReplyType]

\* No two certificates have the same serial number, through restarts too.
UniqueSerials ==
  \A i, j \in 1 .. Len(issued) : issued[i].serial = issued[j].serial => i = j

\* A request is certified once at most, however the stream is cut and whatever
\* command is run again on what is left of it.
OncePerRequest ==
  \A i, j \in 1 .. Len(issued) :
    issued[i].to = issued[j].to /\ issued[i].nth = issued[j].nth => i = j

\* A certificate on its way answers its client's last request and was signed for
\* it, whatever the CA and the client have misread of each other before.
AnswersItsRequest ==
  \A c \in Clients : \A i \in 1 .. Len(toClient[c]) :
    toClient[c][i].nth # 0 /\ cpc[c] # "away" =>
      /\ toClient[c][i].nth = nreq[c]
      /\ \E n \in 1 .. Len(issued) :
           issued[n] = [to |-> c, nth |-> nreq[c], serial |-> toClient[c][i].serial]

\* A client that is being served gets an answer or its end of connection.
RequestAnswered ==
  \A c \in Clients : cpc[c] = "wait" /\ cur = c /\ conn[c] = "open" ~> cpc[c] # "wait"

----------------------------------------------------------------------------
(* The inductive invariant behind the theorem. *)

NextSerial == IF disk = 0 THEN 1 ELSE disk

\* All serial numbers given are below n.
Fresh(n) == \A i \in 1 .. Len(issued) : issued[i].serial < n

\* Between two requests serial.txt holds a number above all those given; while it
\* is being rewritten the CA has such a number in serial.
NextIsFresh ==
  /\ pc \notin {"store", "sign"} => Fresh(NextSerial)
  /\ pc \in {"store", "sign"} => serial > 0 /\ Fresh(serial)
  /\ pc = "sign" => disk = serial + 1
=============================================================================
