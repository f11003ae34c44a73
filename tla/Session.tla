------------------------------ MODULE Session ------------------------------
(***************************************************************************)
(* A client's sessions with the server, from its main loop to the thread   *)
(* that serves it: the exchange of certificates, then commands, one at a   *)
(* time, until exit, and then perhaps another connection.  put and get are *)
(* in Upload and Download; here are cd, pwd, ls, mkdir and local_cd.  The  *)
(* directories are shared with other clients, who may make more of them.   *)
(***************************************************************************)
EXTENDS Stream, SequencesExt

CONSTANTS
  Names,      \* the components of paths, besides ".." and "."
  Root,       \* root_dir
  Begins,     \* the names that begin with the letters of Root's last one, that one too
  Homes,      \* where a server may have been started, with "file" behind it
  Dirs,       \* the directories there are at first
  NewNames,   \* the names mkdir is asked for
  Lines,      \* the paths a user may give to cd
  MaxDepth    \* bound: components of a directory that is made

AllFaults ==
  { "quit",    \* the user kills the client
    "down" }   \* the server's process ends

Tokens == Names \cup {"..", "."}

ASSUME SessionAssumption ==
  /\ Names \cap {"..", ".", "/"} = {}
  /\ Root \in Seq(Names) /\ Root # <<>> /\ Root[Len(Root)] \in Begins
  /\ Homes \subseteq Dirs /\ Homes # {} /\ Dirs \subseteq Seq(Names)
  /\ NewNames \subseteq Names
  /\ Lines \subseteq Seq(Tokens)
  /\ MaxDepth \in Nat
  /\ Faults \subseteq AllFaults

VARIABLES
  atKeys,     \* the client's working directory is the one with client_key
  ccert, scert, \* the certificates of the two ends of this connection
  cpub, spub, \* pub_key: the client, the server holds the other's key
  cwd,        \* clnt_info->cwd
  dirs,       \* the directories on the server
  left,       \* ls at the server: entries still to send
  more,       \* ls at the client: status
  shown       \* the server's directory as the client was last told

certVars  == <<ccert, scert, cpub, spub>>
lsVars    == <<left, more>>
placeVars == <<cwd, dirs>>
vars == <<connVars, atKeys, certVars, placeVars, lsVars, shown>>

Cert(c)    == [kind |-> "cert", cert |-> c]
Path(p)    == [kind |-> "path", path |-> p]
Entry(n)   == [kind |-> "entry", name |-> n]
Mkdir(n)   == [kind |-> "mkdir", name |-> n]
\* What is typed at cd's prompt: a path behind two letters, or nothing there.
Line(path) == [kind |-> "line", path |-> path]
Blank      == [kind |-> "blank"]

\* No path of names.
Unknown == <<"/">>

SessionInit ==
  /\ cpc = "main" /\ spc = "gone"
  /\ c2s = <<>> /\ s2c = <<>> /\ cUp = FALSE /\ rst = FALSE
  /\ atKeys = TRUE
  /\ ccert = "missing" /\ scert = "missing" /\ cpub = FALSE /\ spub = FALSE
  /\ cwd \in Homes /\ dirs = Dirs
  /\ left = {} /\ more = FALSE
  /\ shown = Unknown

----------------------------------------------------------------------------
(* The client. *)

\* send() at the client, which then goes on at pc.  To a server that has gone the
\* bytes are lost, or SIGPIPE ends the client.
ClientSend(m, pc) ==
  \/ spc # "killed" /\ c2s' = Append(c2s, m) /\ cpc' = pc /\ UNCHANGED cUp
  \/ spc = "killed" /\ cpc' = pc /\ UNCHANGED <<c2s, cUp>>
  \/ spc = "killed" /\ cpc' = "gone" /\ cUp' = FALSE /\ UNCHANGED c2s

\* recv() of a message of some kind.
ClientGets(kind) == s2c # <<>> /\ Head(s2c).kind = kind
Received == s2c' = Tail(s2c)

\* recv would return 0 or -1: the server has gone and all it sent is read.
ClientAtEof == s2c = <<>> /\ spc = "killed"

Present(cert) == cert # "missing"

\* Mutant of Connect: pub_key is kept from the connection before.
ConnectKeeps ==
  /\ cpc = "main"
  /\ \E c, s \in {"good", "refused", "missing"} :
       /\ ccert' = (IF atKeys THEN c ELSE "missing")
       /\ scert' = s
  /\ c2s' = (IF Present(ccert') THEN <<Cert(ccert')>> ELSE <<>>)
  /\ s2c' = <<>> /\ cUp' = TRUE /\ rst' = FALSE
  /\ cpc' = "hello" /\ spc' = "hello"
  /\ spub' = FALSE /\ UNCHANGED cpub
  /\ cwd' \in Homes /\ left' = {} /\ more' = FALSE /\ shown' = Unknown
  /\ UNCHANGED <<atKeys, dirs>>

\* main: socket and connect; accept and a new thread; clnt_to_serv and its send_cert,
\* which sends nothing when the certificate is not in ./client_key.
Connect ==
  /\ cpc = "main"
  /\ \E c, s \in {"good", "refused", "missing"} :
       /\ ccert' = (IF atKeys THEN c ELSE "missing")
       /\ scert' = s
  /\ c2s' = (IF Present(ccert') THEN <<Cert(ccert')>> ELSE <<>>)
  /\ s2c' = <<>> /\ cUp' = TRUE /\ rst' = FALSE
  /\ cpc' = "hello" /\ spc' = "hello"
  /\ cpub' = FALSE /\ spub' = FALSE
  /\ cwd' \in Homes /\ left' = {} /\ more' = FALSE /\ shown' = Unknown
  /\ UNCHANGED <<atKeys, dirs>>

\* cert_get_pubkey, whose result nobody looks at: only a certificate the CA has
\* signed leaves a key.
Hello ==
  /\ cpc = "hello"
  /\ \/ ClientGets("cert") /\ Received /\ cpub' = (Head(s2c).cert = "good")
     \/ ClientAtEof /\ UNCHANGED <<s2c, cpub>>
  /\ cpc' = "prompt"
  /\ UNCHANGED <<spc, c2s, cUp, rst, atKeys, ccert, scert, spub, placeVars, lsVars, shown>>

\* local_cd, there or back.
LocalCd ==
  /\ cpc = "prompt"
  /\ atKeys' \in BOOLEAN
  /\ UNCHANGED <<connVars, certVars, placeVars, lsVars, shown>>

\* exit: back to main, which closes the socket.
Exit ==
  /\ cpc = "prompt"
  /\ c2s' = (IF spc = "killed" THEN c2s ELSE Append(c2s, Cmd("exit")))
  /\ cpc' = "main" /\ cUp' = FALSE /\ s2c' = <<>>
  /\ UNCHANGED <<spc, rst, atKeys, certVars, placeVars, lsVars, shown>>

\* The commands that begin with a word and wait for an answer.
Ask ==
  /\ cpc = "prompt"
  /\ \/ ClientSend(Cmd("pwd"), "pwd")
     \/ ClientSend(Cmd("cd"), "cdpath")
     \/ ClientSend(Cmd("ls"), "ls")
     \/ \E n \in NewNames : ClientSend(Mkdir(n), "mkdir")
  /\ more' = FALSE
  /\ UNCHANGED <<spc, s2c, rst, atKeys, certVars, placeVars, left, shown>>

\* serv_pwd's answer; at the end of the stream path holds whatever was there.
Pwd ==
  /\ cpc = "pwd"
  /\ \/ ClientGets("path") /\ Received /\ shown' = Head(s2c).path
     \/ ClientAtEof /\ shown' = Unknown /\ UNCHANGED s2c
  /\ cpc' = "prompt"
  /\ UNCHANGED <<spc, c2s, cUp, rst, atKeys, certVars, placeVars, lsVars>>

\* serv_change_dir: the directory to show in the prompt.
CdPath ==
  /\ cpc = "cdpath"
  /\ \/ ClientGets("path") /\ Received /\ shown' = Head(s2c).path
     \/ ClientAtEof /\ shown' = Unknown /\ UNCHANGED s2c
  /\ cpc' = "cdline"
  /\ UNCHANGED <<spc, c2s, cUp, rst, atKeys, certVars, placeVars, lsVars>>

\* What the user types at it.
CdLine ==
  /\ cpc = "cdline"
  /\ \/ \E path \in Lines : ClientSend(Line(path), "cdstatus")
     \/ ClientSend(Blank, "cdstatus")
  /\ UNCHANGED <<spc, s2c, rst, atKeys, certVars, placeVars, lsVars, shown>>

\* Mutant of CdStatus: without the serv_pwd at the end.
CdStatusOnly ==
  /\ cpc = "cdstatus"
  /\ \/ ClientGets("num") /\ Received
     \/ ClientAtEof /\ UNCHANGED s2c
  /\ cpc' = "prompt"
  /\ UNCHANGED <<spc, c2s, cUp, rst, atKeys, certVars, placeVars, lsVars, shown>>

\* The status, and serv_pwd, whose answer is taken in Pwd.
CdStatus ==
  /\ cpc = "cdstatus"
  /\ \/ ClientGets("num") /\ Received
     \/ ClientAtEof /\ UNCHANGED s2c
  /\ ClientSend(Cmd("pwd"), "pwd")
  /\ UNCHANGED <<spc, rst, atKeys, certVars, placeVars, lsVars, shown>>

\* make_dir_to_serv's answer.
MkdirStatus ==
  /\ cpc = "mkdir"
  /\ \/ ClientGets("num") /\ Received
     \/ ClientAtEof /\ UNCHANGED s2c
  /\ cpc' = "prompt"
  /\ UNCHANGED <<spc, c2s, cUp, rst, atKeys, certVars, placeVars, lsVars, shown>>

\* Mutant of LsName: one name only.
LsNameOnce ==
  /\ cpc = "ls" /\ ClientGets("entry")
  /\ Received /\ more' = TRUE /\ cpc' = "prompt"
  /\ UNCHANGED <<spc, c2s, cUp, rst, atKeys, certVars, placeVars, left, shown>>

\* ls: a status of 1 and a name.
LsName ==
  /\ cpc = "ls" /\ ClientGets("entry")
  /\ Received /\ more' = TRUE
  /\ UNCHANGED <<cpc, spc, c2s, cUp, rst, atKeys, certVars, placeVars, left, shown>>

\* A status of 0.  At the end of the stream status keeps its value: after a name the
\* loop goes round for ever.
LsEnd ==
  /\ cpc = "ls"
  /\ \/ ClientGets("num") /\ Received
     \/ ClientAtEof /\ ~more /\ UNCHANGED s2c
  /\ cpc' = "prompt"
  /\ UNCHANGED <<spc, c2s, cUp, rst, atKeys, certVars, placeVars, lsVars, shown>>

Quit == ClientQuit /\ UNCHANGED <<atKeys, certVars, placeVars, lsVars, shown>>

\* The client is started again, in the directory of its keys or another.
Start ==
  /\ cpc = "gone"
  /\ cpc' = "main" /\ atKeys' \in BOOLEAN
  /\ UNCHANGED <<spc, c2s, s2c, cUp, rst, certVars, placeVars, lsVars, shown>>

----------------------------------------------------------------------------
(* The server's thread. *)

\* recv() of a message of some kind, or of a command.
ServerGets(kind) == c2s # <<>> /\ Head(c2s).kind = kind
Taken == c2s' = Tail(c2s)
Commanded(name) == spc = "cmd" /\ c2s # <<>> /\ Head(c2s) = Cmd(name)

\* Mutant of ServHello: no answer to a certificate that is refused.
ServHelloStrict ==
  /\ spc = "hello"
  /\ \/ ServerGets("cert") /\ Taken /\ spub' = (Head(c2s).cert = "good")
     \/ ServerAtEof /\ UNCHANGED <<c2s, spub>>
  /\ \/ Present(scert) /\ spub' /\ ServerSend(Cert(scert), "cmd")
     \/ ~(Present(scert) /\ spub') /\ spc' = "cmd" /\ UNCHANGED <<s2c, rst>>
  /\ UNCHANGED <<cpc, cUp, atKeys, ccert, scert, cpub, placeVars, lsVars, shown>>

\* cert_get_pubkey, whose result nobody looks at, and send_cert.
ServHello ==
  /\ spc = "hello"
  /\ \/ ServerGets("cert") /\ Taken /\ spub' = (Head(c2s).cert = "good")
     \/ ServerAtEof /\ UNCHANGED <<c2s, spub>>
  /\ \/ Present(scert) /\ ServerSend(Cert(scert), "cmd")
     \/ ~Present(scert) /\ spc' = "cmd" /\ UNCHANGED <<s2c, rst>>
  /\ UNCHANGED <<cpc, cUp, atKeys, ccert, scert, cpub, placeVars, lsVars, shown>>

ServPwd ==
  /\ Commanded("pwd") /\ Taken
  /\ ServerSend(Path(cwd), "cmd")
  /\ UNCHANGED <<cpc, cUp, atKeys, certVars, placeVars, lsVars, shown>>

\* change_dir: send the present directory;
ServCd ==
  /\ Commanded("cd") /\ Taken
  /\ ServerSend(Path(cwd), "cdline")
  /\ UNCHANGED <<cpc, cUp, atKeys, certVars, placeVars, lsVars, shown>>

\* normalize_path, one token: ".." at the top of the stack, which never goes below
\* "/"; it holds 64 components, more than a path here has.
Push(stack, token) ==
  CASE token = ".."           -> IF stack = <<>> THEN stack ELSE Front(stack)
    [] token = "."            -> stack
    [] token \notin {"..", "."} -> Append(stack, token)

\* The stack after each token of path, and after the last.
Normalize(path) ==
  LET stack[i \in 0 .. Len(path)] == IF i = 0 THEN <<>> ELSE Push(stack[i - 1], path[i])
  IN  stack[Len(path)]

\* strncmp(path, root_dir, strlen(root_dir)) == 0.
UnderRoot(path) ==
  /\ Len(path) >= Len(Root)
  /\ SubSeq(path, 1, Len(Root) - 1) = Front(Root)
  /\ path[Len(Root)] \in Begins

\* The path behind the two letters of what was typed.  When there is none, or nothing
\* came, target is not written.
Target(path) ==
  \/ ServerGets("line") /\ Taken /\ path = Head(c2s).path
  \/ ServerGets("blank") /\ Taken
  \/ ServerAtEof /\ UNCHANGED c2s

\* Mutant of ChangeDir: cwd is the path as it was put together.
ChangeDirRaw ==
  /\ spc = "cdline"
  /\ \E path \in Lines :
       /\ Target(path)
       /\ LET new == Normalize(cwd \o path) IN
            \/ ~UnderRoot(new) /\ ServerSend(Num(1), "cmd") /\ UNCHANGED cwd
            \/ UnderRoot(new) /\ new \notin dirs /\ ServerSend(Num(2), "cmd") /\ UNCHANGED cwd
            \/ UnderRoot(new) /\ new \in dirs /\ cwd' = cwd \o path /\ ServerSend(Num(0), "cmd")
  /\ UNCHANGED <<cpc, cUp, atKeys, certVars, dirs, lsVars, shown>>

\* Mutant of ChangeDir: an early return without the send.
ChangeDirSilent ==
  /\ spc = "cdline"
  /\ \E path \in Lines :
       /\ Target(path)
       /\ LET new == Normalize(cwd \o path) IN
            \/ ~UnderRoot(new) /\ spc' = "cmd" /\ UNCHANGED <<cwd, s2c, rst>>
            \/ UnderRoot(new) /\ new \notin dirs /\ ServerSend(Num(2), "cmd") /\ UNCHANGED cwd
            \/ UnderRoot(new) /\ new \in dirs /\ cwd' = new /\ ServerSend(Num(0), "cmd")
  /\ UNCHANGED <<cpc, cUp, atKeys, certVars, dirs, lsVars, shown>>

\* then take a path and go there, if it is under the root and a directory.
ChangeDir ==
  /\ spc = "cdline"
  /\ \E path \in Lines :
       /\ Target(path)
       /\ LET new == Normalize(cwd \o path) IN
            \/ ~UnderRoot(new) /\ ServerSend(Num(1), "cmd") /\ UNCHANGED cwd
            \/ UnderRoot(new) /\ new \notin dirs /\ ServerSend(Num(2), "cmd") /\ UNCHANGED cwd
            \/ UnderRoot(new) /\ new \in dirs /\ cwd' = new /\ ServerSend(Num(0), "cmd")
  /\ UNCHANGED <<cpc, cUp, atKeys, certVars, dirs, lsVars, shown>>

\* make_dir; the gap between its stat and its mkdir is in Store.
ServMkdir ==
  /\ spc = "cmd" /\ ServerGets("mkdir") /\ Taken
  /\ LET new == Append(cwd, Head(c2s).name) IN
       \/ new \in dirs /\ ServerSend(Num(0), "cmd") /\ UNCHANGED dirs
       \/ /\ new \notin dirs /\ Len(new) <= MaxDepth
          /\ dirs' = dirs \cup {new} /\ ServerSend(Num(1), "cmd")
       \/ new \notin dirs /\ ServerSend(Num(-1), "cmd") /\ UNCHANGED dirs
  /\ UNCHANGED <<cpc, cUp, atKeys, certVars, cwd, lsVars, shown>>

\* ls: opendir, and then one entry after another.
ServLs ==
  /\ Commanded("ls") /\ Taken
  /\ left' = {n \in Names : Append(cwd, n) \in dirs}
  /\ spc' = "ls"
  /\ UNCHANGED <<cpc, s2c, cUp, rst, atKeys, certVars, placeVars, more, shown>>

ServEntry ==
  /\ spc = "ls"
  /\ \E n \in left : left' = left \ {n} /\ ServerSend(Entry(n), "ls")
  /\ UNCHANGED <<cpc, c2s, cUp, atKeys, certVars, placeVars, more, shown>>

ServLsEnd ==
  /\ spc = "ls" /\ left = {}
  /\ ServerSend(Num(0), "cmd")
  /\ UNCHANGED <<cpc, c2s, cUp, atKeys, certVars, placeVars, lsVars, shown>>

ServExit ==
  /\ Commanded("exit") /\ Taken
  /\ spc' = "gone"
  /\ UNCHANGED <<cpc, s2c, cUp, rst, atKeys, certVars, placeVars, lsVars, shown>>

ServHangup == ServerHangup /\ UNCHANGED <<atKeys, certVars, placeVars, lsVars, shown>>

\* Another client's mkdir.
OtherMkdir ==
  /\ \E d \in dirs, n \in NewNames :
       /\ UnderRoot(d) /\ Len(d) < MaxDepth
       /\ dirs' = dirs \cup {Append(d, n)}
  /\ UNCHANGED <<connVars, atKeys, certVars, cwd, lsVars, shown>>

\* The server's process ends; what the client has not read may be lost when the
\* server has not read all either.
ServerDies ==
  /\ "down" \in Faults /\ spc \notin {"gone", "killed"}
  /\ spc' = "killed" /\ c2s' = <<>>
  /\ \/ UNCHANGED s2c
     \/ c2s # <<>> /\ s2c' = <<>>
  /\ UNCHANGED <<cpc, cUp, rst, atKeys, certVars, placeVars, lsVars, shown>>

----------------------------------------------------------------------------

User == Connect \/ LocalCd \/ Exit \/ Ask \/ CdLine \/ Quit \/ Start

Client == Hello \/ Pwd \/ CdPath \/ CdStatus \/ MkdirStatus \/ LsName \/ LsEnd

Thread ==
  \/ ServHello \/ ServPwd \/ ServCd \/ ChangeDir \/ ServMkdir
  \/ ServLs \/ ServEntry \/ ServLsEnd \/ ServExit \/ ServHangup

SessionNext == User \/ Client \/ Thread \/ OtherMkdir \/ ServerDies

SessionSpec == SessionInit /\ [][SessionNext]_vars

\* Both processes are scheduled; users, other clients and failures owe nothing.
SessionFairSpec == SessionSpec /\ WF_vars(Client) /\ WF_vars(Thread)

----------------------------------------------------------------------------
(* What a session promises. *)

Certs   == {"good", "refused", "missing"}
Message ==
  [kind : {"cmd"}, name : {"pwd", "cd", "ls", "exit"}]
  \cup [kind : {"num"}, num : Int]
  \cup [kind : {"cert"}, cert : Certs]
  \cup [kind : {"path"}, path : Seq(Names)]
  \cup [kind : {"entry", "mkdir"}, name : Names]
  \cup [kind : {"line"}, path : Seq(Tokens)]
  \cup {Blank}

TypeOK ==
  /\ cpc \in {"main", "hello", "prompt", "pwd", "cdpath", "cdline", "cdstatus", "mkdir", "ls",
              "gone"}
  /\ spc \in {"hello", "cmd", "cdline", "ls", "gone", "killed"}
  /\ c2s \in Seq(Message) /\ s2c \in Seq(Message)
  /\ cUp \in BOOLEAN /\ rst \in BOOLEAN /\ atKeys \in BOOLEAN
  /\ ccert \in Certs /\ scert \in Certs /\ cpub \in BOOLEAN /\ spub \in BOOLEAN
  /\ cwd \in Seq(Names) /\ dirs \subseteq Seq(Names)
  /\ left \subseteq Names /\ more \in BOOLEAN
  /\ shown \in Seq(Names) \cup {Unknown}

\* Nothing on the wire says where a command starts: when the user is asked for the
\* next one, every request and every reply before it has been taken by the right recv.
CleanAtPrompt ==
  cpc = "prompt" /\ spc # "killed" => c2s = <<>> /\ s2c = <<>> /\ spc = "cmd"

\* The directory the user was last shown is the one the next command works in.
ShownIsCwd == cpc = "prompt" /\ spc # "killed" => shown \in {cwd, Unknown}

\* A key comes from the certificate of this connection's peer, signed by the CA;
\* none is left from the connection before.
KeysOfPeers == cUp => (cpub => scert = "good") /\ (spub => ccert = "good")

\* With a certificate at both ends the exchange of certificates ends.
HandshakeEnds ==
  cpc = "hello" /\ Present(ccert) /\ Present(scert) ~> cpc \in {"prompt", "gone"}

\* A command returns to the prompt or to the user, unless the server's process ends.
CommandReturns ==
  cpc \in {"pwd", "cdpath", "cdstatus", "mkdir", "ls"} ~>
    cpc \in {"prompt", "cdline", "gone"} \/ spc = "killed"

OneUser == INSTANCE Shell WITH Allowed <- UnderRoot

\* cd goes where the path read as a whole leads, in one step and by nothing else.
ImplementsShell == OneUser!ShellSpec

----------------------------------------------------------------------------
(* The inductive invariant behind the theorems. *)

\* Nothing is under way; one request is; one reply is; and the thread is at some place.
Rests(at)       == spc = at /\ c2s = <<>> /\ s2c = <<>>
Asked(at, m)    == spc = at /\ c2s = <<m>> /\ s2c = <<>>
Answered(at, m) == spc = at /\ c2s = <<>> /\ s2c = <<m>>

\* What two ends have of the exchange of certificates.
Greets ==
  /\ s2c \in {<<>>, <<Cert(scert)>>}
  /\ spc = "hello" => c2s \in {<<>>, <<Cert(ccert)>>} /\ s2c = <<>>
  /\ spc # "hello" => spc \in {"cmd", "killed"} /\ c2s = <<>>

\* A list under way: entries, and behind the last of them a 0.
Listing ==
  \/ Asked("cmd", Cmd("ls"))
  \/ /\ spc = "ls" /\ c2s = <<>>
     /\ \A i \in 1 .. Len(s2c) : s2c[i].kind = "entry"
  \/ /\ spc = "cmd" /\ c2s = <<>> /\ s2c # <<>>
     /\ s2c[Len(s2c)].kind = "num"
     /\ \A i \in 1 .. Len(s2c) - 1 : s2c[i].kind = "entry"

\* One request or one reply at a time, the one that the other end waits for.
InStep ==
  /\ cpc = "prompt"   => Rests("cmd")
  /\ cpc = "pwd"      => Asked("cmd", Cmd("pwd")) \/ Answered("cmd", Path(cwd))
  /\ cpc = "cdpath"   => Asked("cmd", Cmd("cd")) \/ Answered("cdline", Path(cwd))
  /\ cpc = "cdline"   => Rests("cdline")
  /\ cpc = "cdstatus" => \/ \E m \in {Blank} \cup {Line(path) : path \in Lines} : Asked("cdline", m)
                         \/ \E n \in 0 .. 2 : Answered("cmd", Num(n))
  /\ cpc = "mkdir"    => \/ \E n \in NewNames : Asked("cmd", Mkdir(n))
                         \/ \E n \in -1 .. 1 : Answered("cmd", Num(n))
  /\ cpc = "ls"       => Listing

\* The client has its end open from connect to exit; what it was shown is true unless
\* it is about to be told.
Dialogue ==
  /\ cUp <=> cpc \notin {"main", "gone"}
  /\ cpc = "hello" => Greets
  /\ spc # "killed" => InStep
  /\ cpc \in {"hello", "prompt", "cdline", "mkdir", "ls"} /\ spc # "killed" => shown \in {cwd, Unknown}

\* Directories are never removed: cwd is one there is.
Settled == cwd \in dirs /\ Homes \subseteq dirs

SessionInvariant == Dialogue /\ Settled /\ KeysOfPeers
=============================================================================
