--------------------------- MODULE SessionProofs ---------------------------
(* Theorems about Session. *)
EXTENDS Session, TLAPS, FiniteSetTheorems, FunctionTheorems, SequenceTheorems

\* What sending and receiving does to an empty stream and to one message.
LEMMA Single ==
  \A m : <<m>> # <<>> /\ Head(<<m>>) = m /\ Tail(<<m>>) = <<>> /\ Append(<<>>, m) = <<m>>
  OBVIOUS

LEMMA Taking ==
  ASSUME NEW S, NEW s \in Seq(S), s # <<>>
  PROVE  /\ Len(s) \in Nat /\ Len(s) >= 1 /\ Head(s) = s[1] /\ Head(s) \in S
         /\ Tail(s) \in Seq(S) /\ Len(Tail(s)) = Len(s) - 1
         /\ \A i \in 1 .. Len(s) - 1 : Tail(s)[i] = s[i + 1]
  BY SMT

LEMMA Giving ==
  ASSUME NEW S, NEW s \in Seq(S), NEW m \in S
  PROVE  /\ Append(s, m) \in Seq(S) /\ Len(s) \in Nat /\ Len(Append(s, m)) = Len(s) + 1
         /\ \A i \in 1 .. Len(s) : Append(s, m)[i] = s[i]
         /\ Append(s, m)[Len(s) + 1] = m
  BY SMT

\* The messages and their fields.
LEMMA Messages ==
  /\ \A n \in {"pwd", "cd", "ls", "exit"} : Cmd(n) \in Message
  /\ \A n \in Int : Num(n) \in Message
  /\ \A c \in Certs : Cert(c) \in Message
  /\ \A p \in Seq(Names) : Path(p) \in Message
  /\ \A n \in Names : Entry(n) \in Message /\ Mkdir(n) \in Message
  /\ \A p \in Lines : Line(p) \in Message
  /\ Blank \in Message
  BY SessionAssumption DEF Message, Cmd, Num, Cert, Path, Entry, Mkdir, Line, Blank

LEMMA Fields ==
  /\ \A n : Cmd(n).kind = "cmd" /\ Cmd(n).name = n
  /\ \A n : Num(n).kind = "num"
  /\ \A c : Cert(c).kind = "cert" /\ Cert(c).cert = c
  /\ \A p : Path(p).kind = "path" /\ Path(p).path = p
  /\ \A n : Entry(n).kind = "entry" /\ Mkdir(n).kind = "mkdir" /\ Mkdir(n).name = n
  /\ \A p : Line(p).kind = "line" /\ Line(p).path = p
  /\ Blank.kind = "blank"
  BY DEF Cmd, Num, Cert, Path, Entry, Mkdir, Line, Blank

LEMMA KindsOfMessage ==
  ASSUME NEW m \in Message
  PROVE  /\ m.kind = "path" => m.path \in Seq(Names)
         /\ m.kind = "mkdir" => m.name \in Names
  BY DEF Message, Blank

LEMMA ServerSendType ==
  ASSUME TypeOK, NEW m \in Message,
         NEW at \in {"hello", "cmd", "cdline", "ls", "gone", "killed"}, ServerSend(m, at)
  PROVE  s2c' \in Seq(Message) /\ rst' \in BOOLEAN
         /\ spc' \in {"hello", "cmd", "cdline", "ls", "gone", "killed"}
  <1>1. Append(s2c, m) \in Seq(Message)
    BY Giving DEF TypeOK
  <1> QED
    BY <1>1 DEF TypeOK, ServerSend

LEMMA ClientSendType ==
  ASSUME TypeOK, NEW m \in Message,
         NEW at \in {"pwd", "cdpath", "cdline", "cdstatus", "mkdir", "ls"}, ClientSend(m, at)
  PROVE  c2s' \in Seq(Message) /\ cUp' \in BOOLEAN /\ cpc' \in {at, "gone"}
  <1>1. Append(c2s, m) \in Seq(Message)
    BY Giving DEF TypeOK
  <1> QED
    BY <1>1 DEF TypeOK, ClientSend

LEMMA TypeStep ==
  ASSUME TypeOK, [SessionNext]_vars
  PROVE  TypeOK'
  <1> USE SessionAssumption DEF TypeOK
  <1>e. <<>> \in Seq(Message)
    OBVIOUS
  <1>t. /\ s2c # <<>> => Tail(s2c) \in Seq(Message) /\ Head(s2c) \in Message
        /\ c2s # <<>> => Tail(c2s) \in Seq(Message) /\ Head(c2s) \in Message
    BY Taking
  <1>p. s2c # <<>> /\ Head(s2c).kind = "path" => Head(s2c).path \in Seq(Names)
    BY <1>t, KindsOfMessage
  <1>1. CASE Connect
    <2>1. ccert' \in Certs /\ scert' \in Certs
      BY <1>1 DEF Connect, Certs
    <2>2. c2s' \in Seq(Message)
      <3>1. Cert(ccert') \in Message
        BY <2>1, Messages
      <3> QED
        BY <1>1, <3>1 DEF Connect
    <2>3. cwd' \in Seq(Names)
      BY <1>1 DEF Connect
    <2> QED
      BY <1>1, <1>e, <2>1, <2>2, <2>3 DEF Connect
  <1>2. CASE Hello
    <2>1. s2c' \in Seq(Message) /\ cpub' \in BOOLEAN
      BY <1>2, <1>t DEF Hello, ClientGets, Received
    <2> QED
      BY <1>2, <2>1 DEF Hello, placeVars, lsVars
  <1>3. CASE LocalCd
    BY <1>3 DEF LocalCd, connVars, certVars, placeVars, lsVars
  <1>4. CASE Exit
    <2>1. c2s' \in Seq(Message)
      BY <1>4, Messages, Giving DEF Exit
    <2> QED
      BY <1>4, <1>e, <2>1 DEF Exit, certVars, placeVars, lsVars
  <1>5. CASE Ask
    <2>1. c2s' \in Seq(Message) /\ cUp' \in BOOLEAN
          /\ cpc' \in {"pwd", "cdpath", "mkdir", "ls", "gone"}
      BY <1>5, Messages, ClientSendType DEF Ask
    <2> QED
      BY <1>5, <2>1 DEF Ask, certVars, placeVars
  <1>6. CASE Pwd \/ CdPath
    <2>1. s2c' \in Seq(Message) /\ shown' \in Seq(Names) \cup {Unknown}
      BY <1>6, <1>t, <1>p DEF Pwd, CdPath, ClientGets, Received
    <2> QED
      BY <1>6, <2>1 DEF Pwd, CdPath, certVars, placeVars, lsVars
  <1>7. CASE CdLine
    <2>1. c2s' \in Seq(Message) /\ cUp' \in BOOLEAN /\ cpc' \in {"cdstatus", "gone"}
      BY <1>7, Messages, ClientSendType DEF CdLine
    <2> QED
      BY <1>7, <2>1 DEF CdLine, certVars, placeVars, lsVars
  <1>8. CASE CdStatus
    <2>1. c2s' \in Seq(Message) /\ cUp' \in BOOLEAN /\ cpc' \in {"pwd", "gone"}
      BY <1>8, Messages, ClientSendType DEF CdStatus
    <2>2. s2c' \in Seq(Message)
      BY <1>8, <1>t DEF CdStatus, ClientGets, Received
    <2> QED
      BY <1>8, <2>1, <2>2 DEF CdStatus, certVars, placeVars, lsVars
  <1>9. CASE MkdirStatus \/ LsName \/ LsEnd
    <2>1. s2c' \in Seq(Message)
      BY <1>9, <1>t DEF MkdirStatus, LsName, LsEnd, ClientGets, Received
    <2> QED
      BY <1>9, <2>1 DEF MkdirStatus, LsName, LsEnd, certVars, placeVars, lsVars
  <1>10. CASE Quit
    BY <1>10, <1>e DEF Quit, ClientQuit, certVars, placeVars, lsVars
  <1>11. CASE Start
    BY <1>11 DEF Start, certVars, placeVars, lsVars
  <1>12. CASE ServHello
    <2>1. c2s' \in Seq(Message) /\ spub' \in BOOLEAN
      BY <1>12, <1>t DEF ServHello, ServerGets, Taken
    <2>2. s2c' \in Seq(Message) /\ rst' \in BOOLEAN
          /\ spc' \in {"hello", "cmd", "cdline", "ls", "gone", "killed"}
      <3>1. CASE ServerSend(Cert(scert), "cmd")
        BY <3>1, Messages, ServerSendType
      <3>2. CASE spc' = "cmd" /\ UNCHANGED <<s2c, rst>>
        BY <3>2
      <3> QED
        BY <1>12, <3>1, <3>2 DEF ServHello
    <2> QED
      BY <1>12, <2>1, <2>2 DEF ServHello, placeVars, lsVars
  <1>13. CASE ServPwd \/ ServCd
    <2>1. c2s' \in Seq(Message)
      BY <1>13, <1>t DEF ServPwd, ServCd, Commanded, Taken
    <2>2. s2c' \in Seq(Message) /\ rst' \in BOOLEAN
          /\ spc' \in {"hello", "cmd", "cdline", "ls", "gone", "killed"}
      BY <1>13, Messages, ServerSendType DEF ServPwd, ServCd
    <2> QED
      BY <1>13, <2>1, <2>2 DEF ServPwd, ServCd, certVars, placeVars, lsVars
  <1>14. CASE ChangeDir
    <2>0. PICK path \in Lines :
            /\ Target(path)
            /\ \E n \in 0 .. 2 : ServerSend(Num(n), "cmd")
            /\ cwd' = cwd \/ cwd' \in dirs
      BY <1>14 DEF ChangeDir
    <2>1. c2s' \in Seq(Message)
      BY <2>0, <1>t DEF Target, ServerGets, Taken
    <2>2. s2c' \in Seq(Message) /\ rst' \in BOOLEAN
          /\ spc' \in {"hello", "cmd", "cdline", "ls", "gone", "killed"}
      BY <2>0, Messages, ServerSendType
    <2> QED
      BY <1>14, <2>0, <2>1, <2>2 DEF ChangeDir, certVars, lsVars
  <1>15. CASE ServMkdir
    <2>0. Head(c2s).name \in Names
      BY <1>15, <1>t, KindsOfMessage DEF ServMkdir, ServerGets
    <2>1. c2s' \in Seq(Message)
      BY <1>15, <1>t DEF ServMkdir, ServerGets, Taken
    <2>2. s2c' \in Seq(Message) /\ rst' \in BOOLEAN
          /\ spc' \in {"hello", "cmd", "cdline", "ls", "gone", "killed"}
      <3>1. \E n \in -1 .. 1 : ServerSend(Num(n), "cmd")
        BY <1>15 DEF ServMkdir
      <3> QED
        BY <3>1, Messages, ServerSendType
    <2>3. dirs' \subseteq Seq(Names)
      <3>1. Append(cwd, Head(c2s).name) \in Seq(Names)
        BY <2>0, Giving
      <3>2. dirs' \in {dirs, dirs \cup {Append(cwd, Head(c2s).name)}}
        BY <1>15 DEF ServMkdir
      <3> QED
        BY <3>1, <3>2
    <2> QED
      BY <1>15, <2>1, <2>2, <2>3 DEF ServMkdir, certVars, lsVars
  <1>16. CASE ServLs
    BY <1>16, <1>t DEF ServLs, Commanded, Taken, certVars, placeVars
  <1>17. CASE ServEntry
    <2>1. s2c' \in Seq(Message) /\ rst' \in BOOLEAN
          /\ spc' \in {"hello", "cmd", "cdline", "ls", "gone", "killed"}
      BY <1>17, Messages, ServerSendType DEF ServEntry
    <2> QED
      BY <1>17, <2>1 DEF ServEntry, certVars, placeVars
  <1>18. CASE ServLsEnd
    <2>1. s2c' \in Seq(Message) /\ rst' \in BOOLEAN
          /\ spc' \in {"hello", "cmd", "cdline", "ls", "gone", "killed"}
      BY <1>18, Messages, ServerSendType DEF ServLsEnd
    <2> QED
      BY <1>18, <2>1 DEF ServLsEnd, certVars, placeVars, lsVars
  <1>19. CASE ServExit
    BY <1>19, <1>t DEF ServExit, Commanded, Taken, certVars, placeVars, lsVars
  <1>20. CASE ServHangup
    BY <1>20 DEF ServHangup, ServerHangup, certVars, placeVars, lsVars
  <1>21. CASE OtherMkdir
    <2>1. PICK d \in dirs, n \in NewNames : dirs' = dirs \cup {Append(d, n)}
      BY <1>21 DEF OtherMkdir
    <2>2. Append(d, n) \in Seq(Names)
      BY Giving
    <2>3. dirs' \subseteq Seq(Names)
      BY <2>1, <2>2
    <2> QED
      BY <1>21, <2>3 DEF OtherMkdir, connVars, certVars, lsVars
  <1>22. CASE ServerDies
    BY <1>22, <1>e DEF ServerDies, certVars, placeVars, lsVars
  <1>23. CASE UNCHANGED vars
    BY <1>23 DEF vars, connVars, certVars, placeVars, lsVars
  <1> QED
    BY <1>1, <1>2, <1>3, <1>4, <1>5, <1>6, <1>7, <1>8, <1>9, <1>10, <1>11, <1>12, <1>13,
       <1>14, <1>15, <1>16, <1>17, <1>18, <1>19, <1>20, <1>21, <1>22, <1>23
    DEF SessionNext, User, Client, Thread

\* What the two ends of a session hold keeps its type, whatever paths users type and
\* whoever stops.
THEOREM TypeCorrect == SessionSpec => []TypeOK
<1>0. <<>> \in Seq(Message)
  OBVIOUS
<1>1. SessionInit => TypeOK
  BY <1>0, SessionAssumption DEF SessionInit, TypeOK, Certs
<1>2. TypeOK /\ [SessionNext]_vars => TypeOK'
  BY TypeStep
<1> QED
  BY <1>1, <1>2, PTL DEF SessionSpec

----------------------------------------------------------------------------

\* Nothing is said of a client that has left, little of one whose server has gone.
LEMMA Away ==
  ASSUME cUp' = FALSE, cpc' \in {"main", "gone"}
  PROVE  Dialogue'
  BY DEF Dialogue, InStep

LEMMA Dead ==
  ASSUME Dialogue, spc' = "killed", cUp', cpc' \notin {"main", "gone", "hello"}
  PROVE  Dialogue'
  BY DEF Dialogue

\* What the server's thread has before it tells where the client is.
LEMMA AtCommand ==
  ASSUME TypeOK, Dialogue, cUp, spc = "cmd", c2s # <<>>
  PROVE  /\ s2c = <<>> /\ Head(c2s).kind \in {"cmd", "mkdir"}
         /\ \/ cpc = "pwd" /\ c2s = <<Cmd("pwd")>>
            \/ cpc = "cdpath" /\ c2s = <<Cmd("cd")>>
            \/ cpc = "ls" /\ c2s = <<Cmd("ls")>>
            \/ cpc = "mkdir" /\ \E n \in NewNames : c2s = <<Mkdir(n)>>
  <1>1. cpc \in {"pwd", "cdpath", "mkdir", "ls"}
    BY DEF TypeOK, Dialogue, Greets, InStep, Rests, Asked, Answered
  <1>2. CASE cpc = "pwd"
    BY <1>2, Single, Fields DEF Dialogue, InStep, Asked, Answered
  <1>3. CASE cpc = "cdpath"
    BY <1>3, Single, Fields DEF Dialogue, InStep, Asked, Answered
  <1>4. CASE cpc = "mkdir"
    BY <1>4, Single, Fields DEF Dialogue, InStep, Asked, Answered
  <1>5. CASE cpc = "ls"
    BY <1>5, Single, Fields DEF Dialogue, InStep, Listing, Asked, Answered
  <1> QED
    BY <1>1, <1>2, <1>3, <1>4, <1>5

LEMMA AtCertificate ==
  ASSUME TypeOK, Dialogue, cUp, spc = "hello"
  PROVE  cpc = "hello" /\ s2c = <<>> /\ c2s \in {<<>>, <<Cert(ccert)>>}
  <1>1. cpc = "hello"
    BY DEF TypeOK, Dialogue, InStep, Rests, Asked, Answered, Listing
  <1> QED
    BY <1>1 DEF Dialogue, Greets

LEMMA AtLine ==
  ASSUME TypeOK, Dialogue, cUp, spc = "cdline", c2s # <<>>
  PROVE  cpc = "cdstatus" /\ s2c = <<>> /\ \E m : c2s = <<m>>
  <1>1. cpc = "cdstatus"
    BY DEF TypeOK, Dialogue, InStep, Greets, Rests, Asked, Answered, Listing
  <1> QED
    BY <1>1 DEF Dialogue, InStep, Asked, Answered

LEMMA AtList ==
  ASSUME TypeOK, Dialogue, cUp, spc = "ls"
  PROVE  cpc = "ls" /\ c2s = <<>> /\ \A i \in 1 .. Len(s2c) : s2c[i].kind = "entry"
  <1>1. cpc = "ls"
    BY DEF TypeOK, Dialogue, InStep, Greets, Rests, Asked, Answered
  <1> QED
    BY <1>1 DEF Dialogue, InStep, Listing, Asked

\* The steps of the client.
LEMMA ClientDialogue ==
  ASSUME TypeOK, Dialogue, User \/ Client
  PROVE  Dialogue'
  <1>u. cUp <=> cpc \notin {"main", "gone"}
    BY DEF Dialogue
  <1>1. CASE Connect
    <2>1. /\ cpc' = "hello" /\ spc' = "hello" /\ cUp' = TRUE /\ s2c' = <<>> /\ shown' = Unknown
          /\ c2s' \in {<<>>, <<Cert(ccert')>>}
      BY <1>1 DEF Connect
    <2> QED
      BY <2>1 DEF Dialogue, Greets, InStep
  <1>2. CASE Hello
    <2>0. /\ cpc = "hello" /\ cpc' = "prompt" /\ Greets /\ cUp
          /\ UNCHANGED <<spc, c2s, cUp, cwd, shown>>
      BY <1>2, <1>u DEF Hello, Dialogue, placeVars
    <2>1. CASE spc = "killed"
      BY <2>0, <2>1, Dead
    <2>2. CASE spc # "killed"
      <3>1. s2c # <<>> /\ s2c' = Tail(s2c)
        BY <1>2, <2>2 DEF Hello, ClientGets, Received, ClientAtEof
      <3>2. s2c' = <<>> /\ spc = "cmd" /\ c2s = <<>>
        BY <2>0, <2>2, <3>1, Single DEF Greets
      <3> QED
        BY <2>0, <2>2, <3>2 DEF Dialogue, InStep, Rests
    <2> QED
      BY <2>1, <2>2
  <1>3. CASE LocalCd
    BY <1>3 DEF LocalCd, connVars, certVars, placeVars, Dialogue, Greets, InStep, Listing,
       Rests, Asked, Answered
  <1>4. CASE Exit
    BY <1>4, Away DEF Exit
  <1>5. CASE Ask
    <2>0. cpc = "prompt" /\ cUp /\ UNCHANGED <<spc, s2c, cwd, shown>>
      BY <1>5, <1>u DEF Ask, placeVars
    <2>1. CASE cpc' = "gone" /\ cUp' = FALSE
      BY <2>1, Away
    <2>2. CASE spc = "killed" /\ cpc' \in {"pwd", "cdpath", "ls", "mkdir"} /\ UNCHANGED cUp
      BY <2>0, <2>2, Dead
    <2>3. CASE /\ spc # "killed" /\ UNCHANGED cUp
               /\ \/ cpc' = "pwd" /\ c2s' = Append(c2s, Cmd("pwd"))
                  \/ cpc' = "cdpath" /\ c2s' = Append(c2s, Cmd("cd"))
                  \/ cpc' = "ls" /\ c2s' = Append(c2s, Cmd("ls"))
                  \/ cpc' = "mkdir" /\ \E n \in NewNames : c2s' = Append(c2s, Mkdir(n))
      <3>1. spc = "cmd" /\ c2s = <<>> /\ s2c = <<>> /\ shown \in {cwd, Unknown}
        BY <2>0, <2>3 DEF Dialogue, InStep, Rests
      <3>2. \/ cpc' = "pwd" /\ c2s' = <<Cmd("pwd")>>
            \/ cpc' = "cdpath" /\ c2s' = <<Cmd("cd")>>
            \/ cpc' = "ls" /\ c2s' = <<Cmd("ls")>>
            \/ cpc' = "mkdir" /\ \E n \in NewNames : c2s' = <<Mkdir(n)>>
        BY <2>3, <3>1, Single
      <3> QED
        BY <2>0, <2>3, <3>1, <3>2 DEF Dialogue, InStep, Listing, Asked
    <2> QED
      BY <1>5, <2>0, <2>1, <2>2, <2>3 DEF Ask, ClientSend
  <1>6. CASE Pwd \/ CdPath
    <2>0. /\ cUp /\ UNCHANGED <<spc, c2s, cUp, cwd>>
          /\ \/ cpc = "pwd" /\ cpc' = "prompt"
             \/ cpc = "cdpath" /\ cpc' = "cdline"
      BY <1>6, <1>u DEF Pwd, CdPath, placeVars
    <2>1. CASE spc = "killed"
      BY <2>0, <2>1, Dead
    <2>2. CASE spc # "killed"
      <3>1. s2c # <<>> /\ s2c' = Tail(s2c) /\ shown' = Head(s2c).path
        BY <1>6, <2>2 DEF Pwd, CdPath, ClientGets, Received, ClientAtEof
      <3>2. /\ s2c = <<Path(cwd)>> /\ c2s = <<>>
            /\ cpc = "pwd" => spc = "cmd"
            /\ cpc = "cdpath" => spc = "cdline"
        BY <2>0, <2>2, <3>1 DEF Dialogue, InStep, Asked, Answered
      <3>3. s2c' = <<>> /\ shown' = cwd
        BY <3>1, <3>2, Single, Fields
      <3> QED
        BY <2>0, <2>2, <3>2, <3>3 DEF Dialogue, InStep, Rests
    <2> QED
      BY <2>1, <2>2
  <1>7. CASE CdLine
    <2>0. cpc = "cdline" /\ cUp /\ UNCHANGED <<spc, s2c>>
      BY <1>7, <1>u DEF CdLine
    <2>1. CASE cpc' = "gone" /\ cUp' = FALSE
      BY <2>1, Away
    <2>2. CASE spc = "killed" /\ cpc' = "cdstatus" /\ UNCHANGED cUp
      BY <2>0, <2>2, Dead
    <2>3. CASE /\ spc # "killed" /\ cpc' = "cdstatus" /\ UNCHANGED cUp
               /\ \E m \in {Blank} \cup {Line(path) : path \in Lines} : c2s' = Append(c2s, m)
      <3>1. spc = "cdline" /\ c2s = <<>> /\ s2c = <<>>
        BY <2>0, <2>3 DEF Dialogue, InStep, Rests
      <3>2. \E m \in {Blank} \cup {Line(path) : path \in Lines} : c2s' = <<m>>
        BY <2>3, <3>1, Single
      <3> QED
        BY <2>0, <2>3, <3>1, <3>2 DEF Dialogue, InStep, Asked
    <2> QED
      BY <1>7, <2>1, <2>2, <2>3 DEF CdLine, ClientSend
  <1>8. CASE CdStatus
    <2>0. cpc = "cdstatus" /\ cUp /\ UNCHANGED <<spc, cwd>> /\ ClientSend(Cmd("pwd"), "pwd")
      BY <1>8, <1>u DEF CdStatus, placeVars
    <2>1. CASE cpc' = "gone" /\ cUp' = FALSE
      BY <2>1, Away
    <2>2. CASE spc = "killed" /\ cpc' = "pwd" /\ UNCHANGED cUp
      BY <2>0, <2>2, Dead
    <2>3. CASE spc # "killed" /\ cpc' = "pwd" /\ UNCHANGED cUp /\ c2s' = Append(c2s, Cmd("pwd"))
      <3>1. s2c # <<>> /\ s2c' = Tail(s2c)
        BY <1>8, <2>3 DEF CdStatus, ClientGets, Received, ClientAtEof
      <3>2. spc = "cmd" /\ c2s = <<>> /\ \E n \in 0 .. 2 : s2c = <<Num(n)>>
        BY <2>0, <2>3, <3>1 DEF Dialogue, InStep, Asked, Answered
      <3>3. s2c' = <<>> /\ c2s' = <<Cmd("pwd")>>
        BY <2>3, <3>1, <3>2, Single
      <3> QED
        BY <2>0, <2>3, <3>2, <3>3 DEF Dialogue, InStep, Asked
    <2> QED
      BY <2>0, <2>1, <2>2, <2>3 DEF ClientSend
  <1>9. CASE MkdirStatus
    <2>0. cpc = "mkdir" /\ cpc' = "prompt" /\ cUp /\ UNCHANGED <<spc, c2s, cUp, cwd, shown>>
      BY <1>9, <1>u DEF MkdirStatus, placeVars
    <2>1. CASE spc = "killed"
      BY <2>0, <2>1, Dead
    <2>2. CASE spc # "killed"
      <3>1. s2c # <<>> /\ s2c' = Tail(s2c)
        BY <1>9, <2>2 DEF MkdirStatus, ClientGets, Received, ClientAtEof
      <3>2. spc = "cmd" /\ c2s = <<>> /\ \E n \in -1 .. 1 : s2c = <<Num(n)>>
        BY <2>0, <2>2, <3>1 DEF Dialogue, InStep, Asked, Answered
      <3>3. s2c' = <<>>
        BY <3>1, <3>2, Single
      <3> QED
        BY <2>0, <2>2, <3>2, <3>3 DEF Dialogue, InStep, Rests
    <2> QED
      BY <2>1, <2>2
  <1>10. CASE LsName \/ LsEnd
    <2>0. /\ cpc = "ls" /\ cpc' \in {"ls", "prompt"} /\ cUp /\ UNCHANGED <<spc, c2s, cUp, cwd, shown>>
      BY <1>10, <1>u DEF LsName, LsEnd, placeVars
    <2>1. CASE spc = "killed"
      BY <2>0, <2>1, Dead
    <2>2. CASE spc # "killed"
      <3>1. s2c # <<>> /\ s2c' = Tail(s2c)
        BY <1>10, <2>2 DEF LsName, LsEnd, ClientGets, Received, ClientAtEof
      <3>2. /\ Len(s2c) \in Nat /\ Len(s2c) >= 1 /\ Head(s2c) = s2c[1]
            /\ Tail(s2c) \in Seq(Message) /\ Len(Tail(s2c)) = Len(s2c) - 1
            /\ \A i \in 1 .. Len(s2c) - 1 : Tail(s2c)[i] = s2c[i + 1]
        BY <3>1, Taking DEF TypeOK
      <3>3. Listing /\ ~Asked("cmd", Cmd("ls")) /\ shown \in {cwd, Unknown}
        BY <2>0, <2>2, <3>1 DEF Dialogue, InStep, Asked
      <3>4. CASE LsName
        <4>1. s2c[1].kind = "entry" /\ cpc' = "ls"
          BY <2>0, <3>2, <3>4 DEF LsName, ClientGets
        <4>2. Listing'
          <5>1. CASE spc = "ls" /\ c2s = <<>> /\ \A i \in 1 .. Len(s2c) : s2c[i].kind = "entry"
            BY <2>0, <3>1, <3>2, <5>1 DEF Listing
          <5>2. CASE /\ spc = "cmd" /\ c2s = <<>> /\ s2c[Len(s2c)].kind = "num"
                     /\ \A i \in 1 .. Len(s2c) - 1 : s2c[i].kind = "entry"
            <6>1. Len(s2c) # 1
              BY <4>1, <5>2
            <6>a. Len(s2c) - 1 \in 1 .. Len(s2c) - 1 /\ (Len(s2c) - 1) + 1 = Len(s2c)
              BY <3>2, <6>1
            <6>b. Tail(s2c) # <<>>
              BY <3>2, <6>a
            <6>2. Tail(s2c) # <<>> /\ Tail(s2c)[Len(s2c) - 1] = s2c[Len(s2c)]
              BY <3>2, <6>a, <6>b
            <6> QED
              BY <2>0, <3>1, <3>2, <5>2, <6>1, <6>2 DEF Listing
          <5> QED
            BY <3>3, <5>1, <5>2 DEF Listing
        <4> QED
          BY <2>0, <2>2, <3>3, <4>1, <4>2 DEF Dialogue, InStep
      <3>5. CASE LsEnd
        <4>1. s2c[1].kind = "num" /\ cpc' = "prompt"
          BY <2>0, <2>2, <3>2, <3>5 DEF LsEnd, ClientGets, ClientAtEof
        <4>2. spc = "cmd" /\ c2s = <<>> /\ Len(s2c) = 1
          BY <3>2, <3>3, <4>1 DEF Listing
        <4>3. s2c' = <<>>
          BY <3>1, <3>2, <4>2
        <4> QED
          BY <2>0, <2>2, <3>3, <4>1, <4>2, <4>3 DEF Dialogue, InStep, Rests
      <3> QED
        BY <1>10, <3>4, <3>5
    <2> QED
      BY <2>1, <2>2
  <1>11. CASE Quit
    BY <1>11, Away DEF Quit, ClientQuit
  <1>12. CASE Start
    BY <1>12, <1>u, Away DEF Start
  <1> QED
    BY <1>1, <1>2, <1>3, <1>4, <1>5, <1>6, <1>7, <1>8, <1>9, <1>10, <1>11, <1>12
    DEF User, Client

\* A reply to a client that is there.
LEMMA Replies ==
  ASSUME cUp, s2c = <<>>, NEW m, NEW at, ServerSend(m, at)
  PROVE  spc' = at /\ s2c' = <<m>>
  BY Single DEF ServerSend

\* The steps of the server and of other clients.
LEMMA ServerDialogue ==
  ASSUME TypeOK, Dialogue, Thread \/ OtherMkdir \/ ServerDies
  PROVE  Dialogue'
  <1>u. cUp <=> cpc \notin {"main", "gone"}
    BY DEF Dialogue
  <1>c. UNCHANGED <<cpc, cUp, shown>>
    BY DEF Thread, OtherMkdir, ServerDies, ServHello, ServPwd, ServCd, ChangeDir, ServMkdir, ServLs,
       ServEntry, ServLsEnd, ServExit, ServHangup, ServerHangup, connVars, lsVars
  <1>0. CASE ~cUp
    BY <1>0, <1>u, <1>c, Away DEF TypeOK
  <1> SUFFICES ASSUME cUp PROVE Dialogue'
    BY <1>0
  <1>1. CASE ServHello
    <2>1. /\ spc = "hello" /\ cpc = "hello" /\ s2c = <<>> /\ c2s \in {<<>>, <<Cert(ccert)>>}
          /\ shown \in {cwd, Unknown}
      BY <1>1, AtCertificate DEF ServHello, Dialogue
    <2>2. c2s' = <<>> /\ UNCHANGED <<ccert, scert, cwd>>
      BY <1>1, <2>1, Single DEF ServHello, ServerGets, Taken, ServerAtEof, placeVars
    <2>3. spc' = "cmd" /\ s2c' \in {<<>>, <<Cert(scert)>>}
      BY <1>1, <2>1, Replies DEF ServHello
    <2> QED
      BY <1>c, <2>1, <2>2, <2>3 DEF Dialogue, Greets, InStep
  <1>2. CASE ServPwd
    <2>1. spc = "cmd" /\ c2s # <<>> /\ Head(c2s) = Cmd("pwd") /\ c2s' = Tail(c2s) /\ UNCHANGED cwd
      BY <1>2 DEF ServPwd, Commanded, Taken, placeVars
    <2>2. cpc = "pwd" /\ c2s = <<Cmd("pwd")>> /\ s2c = <<>>
      BY <2>1, AtCommand, Single, Fields
    <2>3. spc' = "cmd" /\ s2c' = <<Path(cwd)>> /\ c2s' = <<>>
      BY <1>2, <2>1, <2>2, Replies, Single DEF ServPwd
    <2> QED
      BY <1>c, <2>1, <2>2, <2>3 DEF Dialogue, InStep, Answered
  <1>3. CASE ServCd
    <2>1. spc = "cmd" /\ c2s # <<>> /\ Head(c2s) = Cmd("cd") /\ c2s' = Tail(c2s) /\ UNCHANGED cwd
      BY <1>3 DEF ServCd, Commanded, Taken, placeVars
    <2>2. cpc = "cdpath" /\ c2s = <<Cmd("cd")>> /\ s2c = <<>>
      BY <2>1, AtCommand, Single, Fields
    <2>3. spc' = "cdline" /\ s2c' = <<Path(cwd)>> /\ c2s' = <<>>
      BY <1>3, <2>1, <2>2, Replies, Single DEF ServCd
    <2> QED
      BY <1>c, <2>1, <2>2, <2>3 DEF Dialogue, InStep, Answered
  <1>4. CASE ChangeDir
    <2>1. PICK path \in Lines : Target(path) /\ \E n \in 0 .. 2 : ServerSend(Num(n), "cmd")
      BY <1>4 DEF ChangeDir
    <2>2. spc = "cdline" /\ c2s # <<>> /\ c2s' = Tail(c2s)
      BY <1>4, <2>1 DEF ChangeDir, Target, ServerGets, Taken, ServerAtEof
    <2>3. cpc = "cdstatus" /\ s2c = <<>> /\ \E m : c2s = <<m>>
      BY <2>2, AtLine
    <2>4. c2s' = <<>> /\ spc' = "cmd" /\ \E n \in 0 .. 2 : s2c' = <<Num(n)>>
      BY <2>1, <2>2, <2>3, Replies, Single
    <2> QED
      BY <1>c, <2>3, <2>4 DEF Dialogue, InStep, Answered
  <1>5. CASE ServMkdir
    <2>1. spc = "cmd" /\ c2s # <<>> /\ Head(c2s).kind = "mkdir" /\ c2s' = Tail(c2s) /\ UNCHANGED cwd
      BY <1>5 DEF ServMkdir, ServerGets, Taken
    <2>2. cpc = "mkdir" /\ s2c = <<>> /\ \E m : c2s = <<m>>
      BY <2>1, AtCommand, Single, Fields
    <2>3. \E n \in -1 .. 1 : ServerSend(Num(n), "cmd")
      BY <1>5 DEF ServMkdir
    <2>4. c2s' = <<>> /\ spc' = "cmd" /\ \E n \in -1 .. 1 : s2c' = <<Num(n)>>
      BY <2>1, <2>2, <2>3, Replies, Single
    <2> QED
      BY <1>c, <2>1, <2>2, <2>4 DEF Dialogue, InStep, Answered
  <1>6. CASE ServLs
    <2>1. /\ spc = "cmd" /\ c2s # <<>> /\ Head(c2s) = Cmd("ls") /\ c2s' = Tail(c2s)
          /\ spc' = "ls" /\ UNCHANGED <<cwd, s2c>>
      BY <1>6 DEF ServLs, Commanded, Taken, placeVars
    <2>2. cpc = "ls" /\ c2s = <<Cmd("ls")>> /\ s2c = <<>>
      BY <2>1, AtCommand, Single, Fields
    <2>3. Listing'
      BY <2>1, <2>2, Single DEF Listing
    <2> QED
      BY <1>c, <2>1, <2>2, <2>3 DEF Dialogue, InStep
  <1>7. CASE ServEntry
    <2>1. PICK n \in Names : spc = "ls" /\ ServerSend(Entry(n), "ls")
      BY <1>7 DEF ServEntry, TypeOK
    <2>2. cpc = "ls" /\ c2s = <<>> /\ \A i \in 1 .. Len(s2c) : s2c[i].kind = "entry"
      BY <2>1, AtList
    <2>3. spc' = "ls" /\ s2c' = Append(s2c, Entry(n)) /\ UNCHANGED <<c2s, cwd>>
      BY <1>7, <2>1 DEF ServEntry, ServerSend, placeVars
    <2>4. \A i \in 1 .. Len(s2c') : s2c'[i].kind = "entry"
      <3>1. /\ Len(s2c) \in Nat /\ Len(s2c') = Len(s2c) + 1 /\ s2c'[Len(s2c) + 1] = Entry(n)
            /\ \A i \in 1 .. Len(s2c) : s2c'[i] = s2c[i]
        BY <2>3, Giving, Messages DEF TypeOK
      <3> QED
        BY <2>2, <3>1, Fields
    <2>5. Listing'
      BY <2>2, <2>3, <2>4 DEF Listing
    <2> QED
      BY <1>c, <2>1, <2>2, <2>3, <2>5 DEF Dialogue, InStep
  <1>8. CASE ServLsEnd
    <2>1. spc = "ls" /\ ServerSend(Num(0), "cmd") /\ UNCHANGED <<c2s, cwd>>
      BY <1>8 DEF ServLsEnd, placeVars
    <2>2. cpc = "ls" /\ c2s = <<>> /\ \A i \in 1 .. Len(s2c) : s2c[i].kind = "entry"
      BY <2>1, AtList
    <2>3. spc' = "cmd" /\ s2c' = Append(s2c, Num(0))
      BY <2>1 DEF ServerSend
    <2>4. /\ Len(s2c) \in Nat /\ Len(s2c') = Len(s2c) + 1 /\ s2c'[Len(s2c) + 1] = Num(0)
          /\ \A i \in 1 .. Len(s2c) : s2c'[i] = s2c[i]
      BY <2>3, Giving, Messages DEF TypeOK
    <2>5. Listing'
      BY <2>1, <2>2, <2>3, <2>4, Fields DEF Listing
    <2> QED
      BY <1>c, <2>1, <2>2, <2>3, <2>5 DEF Dialogue, InStep
  <1>9. CASE ServExit
    BY <1>9, AtCommand, Single, Fields DEF ServExit, Commanded
  <1>10. CASE ServHangup
    BY <1>10 DEF ServHangup, ServerHangup, ServerAtEof
  <1>11. CASE OtherMkdir
    BY <1>11 DEF OtherMkdir, connVars, certVars, Dialogue, Greets, InStep, Listing,
       Rests, Asked, Answered
  <1>12. CASE ServerDies
    <2>1. spc' = "killed" /\ c2s' = <<>> /\ UNCHANGED <<scert, cwd>>
      BY <1>12 DEF ServerDies, certVars, placeVars
    <2>2. CASE cpc # "hello"
      BY <1>u, <1>c, <2>1, <2>2, Dead
    <2>3. CASE cpc = "hello"
      <3>1. s2c' \in {<<>>, <<Cert(scert)>>}
        BY <1>12, <2>3 DEF ServerDies, Dialogue, Greets
      <3> QED
        BY <1>u, <1>c, <2>1, <2>3, <3>1 DEF Dialogue, Greets
    <2> QED
      BY <2>2, <2>3
  <1> QED
    BY <1>1, <1>2, <1>3, <1>4, <1>5, <1>6, <1>7, <1>8, <1>9, <1>10, <1>11, <1>12 DEF Thread

----------------------------------------------------------------------------

\* Directories are only ever added, and each cd ends where there is one.
LEMMA PlaceStep ==
  ASSUME TypeOK, Settled, [SessionNext]_vars
  PROVE  Settled'
  <1>0. ASSUME dirs \subseteq dirs',
               \/ UNCHANGED cwd
               \/ cwd' \in Homes
               \/ cwd' \in dirs
        PROVE  Settled'
    BY <1>0 DEF Settled
  <1>1. CASE Connect
    BY <1>0, <1>1 DEF Connect
  <1>2. CASE ChangeDir
    <2>1. UNCHANGED dirs /\ (UNCHANGED cwd \/ cwd' \in dirs)
      BY <1>2 DEF ChangeDir
    <2> QED
      BY <1>0, <2>1
  <1>3. CASE ServMkdir
    <2>1. dirs \subseteq dirs' /\ UNCHANGED cwd
      BY <1>3 DEF ServMkdir
    <2> QED
      BY <1>0, <2>1
  <1>4. CASE OtherMkdir
    <2>1. dirs \subseteq dirs' /\ UNCHANGED cwd
      BY <1>4 DEF OtherMkdir
    <2> QED
      BY <1>0, <2>1
  <1>5. CASE LocalCd \/ Exit \/ Ask \/ CdLine \/ Quit \/ Start
    BY <1>0, <1>5 DEF LocalCd, Exit, Ask, CdLine, Quit, Start, placeVars
  <1>6. CASE Client
    BY <1>0, <1>6 DEF Client, Hello, Pwd, CdPath, CdStatus, MkdirStatus, LsName, LsEnd, placeVars
  <1>7. CASE \/ ServHello \/ ServPwd \/ ServCd \/ ServLs \/ ServEntry \/ ServLsEnd \/ ServExit
             \/ ServHangup \/ ServerDies
    BY <1>0, <1>7 DEF ServHello, ServPwd, ServCd, ServLs, ServEntry, ServLsEnd, ServExit,
       ServHangup, ServerDies, placeVars
  <1>8. CASE UNCHANGED vars
    BY <1>0, <1>8 DEF vars, placeVars
  <1> QED
    BY <1>1, <1>2, <1>3, <1>4, <1>5, <1>6, <1>7, <1>8 DEF SessionNext, User, Thread

LEMMA KeysStep ==
  ASSUME TypeOK, Dialogue, KeysOfPeers, [SessionNext]_vars
  PROVE  KeysOfPeers'
  <1>0. ASSUME cUp' => cUp, UNCHANGED certVars PROVE KeysOfPeers'
    BY <1>0 DEF KeysOfPeers, certVars
  <1>1. CASE Connect
    BY <1>1 DEF Connect, KeysOfPeers
  <1>2. CASE Hello
    <2>1. cUp /\ Greets /\ UNCHANGED <<spub, ccert, scert, cUp>>
      BY <1>2 DEF Hello, Dialogue
    <2>2. cpub' => scert = "good" \/ UNCHANGED cpub
      <3>1. CASE ClientGets("cert") /\ cpub' = (Head(s2c).cert = "good")
        <4>1. s2c = <<Cert(scert)>>
          BY <2>1, <3>1 DEF Greets, ClientGets
        <4>2. Head(s2c).cert = scert
          BY <4>1, Single, Fields
        <4>3. cpub' = (scert = "good")
          BY <3>1, <4>2
        <4> QED
          BY <4>3
      <3>2. CASE UNCHANGED cpub
        BY <3>2
      <3> QED
        BY <1>2, <3>1, <3>2 DEF Hello
    <2> QED
      BY <2>1, <2>2 DEF KeysOfPeers
  <1>3. CASE ServHello
    <2>1. spc = "hello" /\ UNCHANGED <<cpub, ccert, scert, cUp>>
      BY <1>3 DEF ServHello
    <2>2. cUp /\ spub' => ccert = "good" \/ UNCHANGED spub
      <3>1. CASE ServerGets("cert") /\ spub' = (Head(c2s).cert = "good") /\ cUp
        <4>1. c2s = <<Cert(ccert)>>
          BY <2>1, <3>1, AtCertificate DEF ServerGets
        <4>2. Head(c2s).cert = ccert
          BY <4>1, Single, Fields
        <4>3. spub' = (ccert = "good")
          BY <3>1, <4>2
        <4> QED
          BY <4>3
      <3>2. CASE UNCHANGED spub
        BY <3>2
      <3> QED
        BY <1>3, <3>1, <3>2 DEF ServHello
    <2> QED
      BY <2>1, <2>2 DEF KeysOfPeers
  <1>4. CASE LocalCd \/ Exit \/ Ask \/ CdLine \/ Quit \/ Start
    BY <1>0, <1>4 DEF LocalCd, Exit, Ask, CdLine, Quit, ClientQuit, Start, ClientSend, connVars
  <1>5. CASE Pwd \/ CdPath \/ CdStatus \/ MkdirStatus \/ LsName \/ LsEnd
    BY <1>0, <1>5 DEF Pwd, CdPath, CdStatus, MkdirStatus, LsName, LsEnd, ClientSend
  <1>6. CASE \/ ServPwd \/ ServCd \/ ChangeDir \/ ServMkdir \/ ServLs \/ ServEntry \/ ServLsEnd
             \/ ServExit \/ ServHangup \/ OtherMkdir \/ ServerDies
    BY <1>0, <1>6 DEF ServPwd, ServCd, ChangeDir, ServMkdir, ServLs, ServEntry, ServLsEnd, ServExit,
       ServHangup, ServerHangup, OtherMkdir, ServerDies, connVars
  <1>7. CASE UNCHANGED vars
    BY <1>0, <1>7 DEF vars, connVars
  <1> QED
    BY <1>1, <1>2, <1>3, <1>4, <1>5, <1>6, <1>7 DEF SessionNext, User, Client, Thread

LEMMA SessionCorrect == SessionSpec => []SessionInvariant
<1>1. SessionInit => SessionInvariant
  <2> SUFFICES ASSUME SessionInit PROVE SessionInvariant
    OBVIOUS
  <2>1. Dialogue
    BY DEF SessionInit, Dialogue, InStep
  <2>2. Settled /\ KeysOfPeers
    BY SessionAssumption DEF SessionInit, Settled, KeysOfPeers
  <2> QED
    BY <2>1, <2>2 DEF SessionInvariant
<1>2. TypeOK /\ SessionInvariant /\ [SessionNext]_vars => SessionInvariant'
  <2> SUFFICES ASSUME TypeOK, SessionInvariant, [SessionNext]_vars PROVE SessionInvariant'
    OBVIOUS
  <2>1. Dialogue'
    <3>1. CASE UNCHANGED vars
      BY <3>1 DEF SessionInvariant, vars, connVars, certVars, placeVars, Dialogue, Greets, InStep,
         Listing, Rests, Asked, Answered
    <3> QED
      BY <3>1, ClientDialogue, ServerDialogue DEF SessionInvariant, SessionNext
  <2>2. Settled'
    BY PlaceStep DEF SessionInvariant
  <2>3. KeysOfPeers'
    BY KeysStep DEF SessionInvariant
  <2> QED
    BY <2>1, <2>2, <2>3 DEF SessionInvariant
<1> QED
  BY <1>1, <1>2, TypeCorrect, PTL DEF SessionSpec

\* Requests and replies stay paired: at the prompt nothing is left in either direction
\* and the thread waits for a command (main's loop in client.c, handle_clnt).
THEOREM PairedAtPrompt == SessionSpec => []CleanAtPrompt
<1>1. SessionInvariant => CleanAtPrompt
  BY DEF SessionInvariant, Dialogue, InStep, Rests, CleanAtPrompt
<1> QED
  BY <1>1, SessionCorrect, PTL

\* The directory in the prompt is that of the thread, through cd, exit and a new
\* connection (serv_change_dir, serv_pwd).
THEOREM PromptIsTrue == SessionSpec => []ShownIsCwd
<1>1. SessionInvariant => ShownIsCwd
  BY DEF SessionInvariant, Dialogue, ShownIsCwd
<1> QED
  BY <1>1, SessionCorrect, PTL

\* A key is that of this connection's certificate (cert_get_pubkey, clnt_to_serv).
THEOREM OwnKeys == SessionSpec => []KeysOfPeers
<1>1. SessionInvariant => KeysOfPeers
  BY DEF SessionInvariant
<1> QED
  BY <1>1, SessionCorrect, PTL

----------------------------------------------------------------------------
(* Paths: normalize_path's stack against the path read as a whole. *)

\* A set of naturals that is not empty has a least element: what the inductions on
\* the length of a path rest on.
LEMMA LeastNat ==
  ASSUME NEW T \in SUBSET Nat, T # {}
  PROVE  \E n \in T : \A m \in T : n <= m
<1>1. IsWellFoundedOn({ss \in Nat \X Nat : ss[1] < ss[2]}, Nat)
  BY NatLessThanWellFounded, SMT DEF OpToRel
<1>2. PICK n \in T : \A m \in T : <<m, n>> \notin {ss \in Nat \X Nat : ss[1] < ss[2]}
  BY <1>1, WFMin
<1>3. \A m \in T : ~(m < n)
  BY <1>2
<1> QED
  BY <1>3

\* f is the stack after each of the first n tokens.
StackTo(path, n, f) ==
  f = [i \in 0 .. n |-> IF i = 0 THEN <<>> ELSE Push(f[i - 1], path[i])]

\* normalize_path's loop has a stack after each token.
LEMMA StackExists ==
  ASSUME NEW path, NEW n \in Nat
  PROVE  \E f : StackTo(path, n, f)
<1> DEFINE T == {m \in Nat : ~\E f : StackTo(path, m, f)}
<1>1. 0 \notin T
  <2>1. StackTo(path, 0, [i \in 0 .. 0 |-> <<>>])
    BY DEF StackTo
  <2> QED
    BY <2>1
<1>2. ASSUME NEW m \in Nat, m \notin T PROVE m + 1 \notin T
  <2>1. PICK f : StackTo(path, m, f)
    BY <1>2
  <2> DEFINE g == [i \in 0 .. m + 1 |-> IF i = m + 1 THEN Push(f[m], path[i]) ELSE f[i]]
  <2>2. \A i \in 0 .. m : f[i] = IF i = 0 THEN <<>> ELSE Push(f[i - 1], path[i])
    BY <2>1 DEF StackTo
  <2>3. \A i \in 0 .. m + 1 : g[i] = IF i = 0 THEN <<>> ELSE Push(g[i - 1], path[i])
    <3> SUFFICES ASSUME NEW i \in 0 .. m + 1
                 PROVE  g[i] = IF i = 0 THEN <<>> ELSE Push(g[i - 1], path[i])
      OBVIOUS
    <3>1. CASE i = m + 1
      <4>1. g[m] = f[m] /\ g[i] = Push(f[m], path[i]) /\ i - 1 = m /\ i # 0
        BY <3>1
      <4> QED
        BY <4>1
    <3>2. CASE i \in 1 .. m
      <4>1. g[i] = f[i] /\ g[i - 1] = f[i - 1] /\ i # 0
        BY <3>2
      <4> QED
        BY <2>2, <3>2, <4>1
    <3>3. CASE i = 0
      BY <2>2, <3>3
    <3> QED
      BY <3>1, <3>2, <3>3
  <2> HIDE DEF g
  <2>4. g = [i \in 0 .. m + 1 |-> g[i]]
    BY DEF g
  <2>5. StackTo(path, m + 1, g)
    BY <2>3, <2>4 DEF StackTo
  <2> QED
    BY <2>5
<1>3. T = {}
  <2> SUFFICES ASSUME T # {} PROVE FALSE
    OBVIOUS
  <2>1. PICK m \in T : \A k \in T : m <= k
    BY LeastNat
  <2>2. m - 1 \in Nat /\ m - 1 \notin T
    BY <1>1, <2>1
  <2>3. (m - 1) + 1 \notin T
    BY <1>2, <2>2
  <2> QED
    BY <2>3
<1> QED
  BY <1>3

\* normalize_path pushes one token after another on an empty stack.
LEMMA StackOf ==
  ASSUME NEW path \in Seq(Tokens)
  PROVE  \E f : /\ f[0] = <<>> /\ Normalize(path) = f[Len(path)]
                /\ \A i \in 0 .. Len(path) - 1 : f[i + 1] = Push(f[i], path[i + 1])
<1> DEFINE f == CHOOSE g : StackTo(path, Len(path), g)
<1>1. Normalize(path) = f[Len(path)]
  BY DEF Normalize, StackTo
<1>2. StackTo(path, Len(path), f)
  BY StackExists
<1> HIDE DEF f
<1>3. \A i \in 0 .. Len(path) : f[i] = IF i = 0 THEN <<>> ELSE Push(f[i - 1], path[i])
  BY <1>2 DEF StackTo
<1>4. f[0] = <<>>
  <2>1. 0 \in 0 .. Len(path)
    OBVIOUS
  <2> QED
    BY <1>3, <2>1
<1>5. ASSUME NEW i \in 0 .. Len(path) - 1 PROVE f[i + 1] = Push(f[i], path[i + 1])
  <2>1. i + 1 \in 0 .. Len(path) /\ i + 1 # 0 /\ (i + 1) - 1 = i
    OBVIOUS
  <2> QED
    BY <1>3, <2>1
<1> QED
  BY <1>1, <1>4, <1>5

----------------------------------------------------------------------------

\* Shell counts as everyone does.
LEMMA SameCount ==
  \A S : OneUser!Cardinality(S) = Cardinality(S)
  BY DEF Cardinality, OneUser!Cardinality

\* How many more names than ".." there are behind the i-th component, up to the j-th.
Depth(path, i, j) ==
  OneUser!Among(path, i + 1, j, Names) - OneUser!Among(path, i + 1, j, {".."})

\* Each component of some kind adds one to their number, any other nothing.
LEMMA AmongStep ==
  ASSUME NEW path, NEW i \in Int, NEW j \in Int, i <= j + 1, NEW some
  PROVE  /\ OneUser!Among(path, i, j, some) \in Nat
         /\ OneUser!Among(path, j + 1, j, some) = 0
         /\ OneUser!Among(path, i, j + 1, some)
              = OneUser!Among(path, i, j, some) + (IF path[j + 1] \in some THEN 1 ELSE 0)
<1> DEFINE S(b) == {k \in i .. b : path[k] \in some}
<1>1. IsFiniteSet(S(j)) /\ Cardinality(S(j)) \in Nat
  BY FS_Interval, FS_Subset, FS_CardinalityType
<1>2. {k \in j + 1 .. j : path[k] \in some} = {}
  OBVIOUS
<1>3. Cardinality({k \in j + 1 .. j : path[k] \in some}) = 0
  BY <1>2, FS_EmptySet
<1>d. \A b : OneUser!Among(path, i, b, some) = Cardinality(S(b))
  BY SameCount DEF OneUser!Among
<1>e. OneUser!Among(path, j + 1, j, some) = 0
  BY <1>3, SameCount DEF OneUser!Among
<1>4. CASE path[j + 1] \in some
  <2>1. S(j + 1) = S(j) \cup {j + 1} /\ j + 1 \notin S(j)
    BY <1>4
  <2>2. Cardinality(S(j) \cup {j + 1}) = Cardinality(S(j)) + 1
    BY <1>1, <2>1, FS_AddElement
  <2> QED
    BY <1>1, <1>4, <1>d, <1>e, <2>1, <2>2
<1>5. CASE path[j + 1] \notin some
  <2>1. S(j + 1) = S(j)
    BY <1>5
  <2> QED
    BY <1>1, <1>5, <1>d, <1>e, <2>1
<1> QED
  BY <1>4, <1>5

\* In depth a name adds one, ".." takes one off, "." changes nothing.
LEMMA DepthStep ==
  ASSUME NEW path, NEW i \in Int, NEW j \in Int, i <= j
  PROVE  /\ Depth(path, i, j) \in Int /\ Depth(path, j, j) = 0
         /\ path[j + 1] \in Names => Depth(path, i, j + 1) = Depth(path, i, j) + 1
         /\ path[j + 1] = ".."    => Depth(path, i, j + 1) = Depth(path, i, j) - 1
         /\ path[j + 1] = "."     => Depth(path, i, j + 1) = Depth(path, i, j)
<1>1. ASSUME NEW some
      PROVE  /\ OneUser!Among(path, i + 1, j, some) \in Nat
             /\ OneUser!Among(path, j + 1, j, some) = 0
             /\ OneUser!Among(path, i + 1, j + 1, some)
                  = OneUser!Among(path, i + 1, j, some) + (IF path[j + 1] \in some THEN 1 ELSE 0)
  BY AmongStep
<1>2. ".." \notin Names /\ "." \notin Names /\ "." \notin {".."}
  BY SessionAssumption
<1> QED
  BY <1>1, <1>2 DEF Depth

\* The i-th component is a name that lasts up to the n-th.
LastsTo(path, i, n) ==
  path[i] \in Names /\ \A j \in i + 1 .. n : Depth(path, i, j) >= 0

\* place lists the components that last up to the n-th, in their order; behind the
\* k-th of them as many names are left as there are places behind it.
Places(path, n, place) ==
  /\ place \in Seq(1 .. n)
  /\ \A k, l \in 1 .. Len(place) : k < l => place[k] < place[l]
  /\ \A i \in 1 .. n : LastsTo(path, i, n) <=> \E k \in 1 .. Len(place) : place[k] = i
  /\ \A k \in 1 .. Len(place) : Depth(path, place[k], n) = Len(place) - k

\* stack holds the names at these places.
NamesAt(path, place, stack) ==
  /\ stack \in Seq(Names) /\ Len(stack) = Len(place)
  /\ \A k \in 1 .. Len(place) : stack[k] = path[place[k]]

\* One more component: who lasts now is who lasted, if it is still above.
LEMMA LastsStep ==
  ASSUME NEW path \in Seq(Tokens), NEW n \in Nat, n < Len(path), NEW i \in 1 .. n
  PROVE  LastsTo(path, i, n + 1) <=> LastsTo(path, i, n) /\ Depth(path, i, n + 1) >= 0
<1> DEFINE D(j) == Depth(path, i, j) >= 0
<1>1. i + 1 .. n + 1 = (i + 1 .. n) \cup {n + 1}
  OBVIOUS
<1>2. LastsTo(path, i, n + 1) <=> path[i] \in Names /\ \A j \in i + 1 .. n + 1 : D(j)
  BY DEF LastsTo
<1>3. LastsTo(path, i, n) <=> path[i] \in Names /\ \A j \in i + 1 .. n : D(j)
  BY DEF LastsTo
<1> HIDE DEF D
<1>4. (\A j \in i + 1 .. n + 1 : D(j)) <=> (\A j \in i + 1 .. n : D(j)) /\ D(n + 1)
  BY <1>1
<1> QED
  BY <1>2, <1>3, <1>4 DEF D

\* All but the last element of a sequence.
LEMMA Fronts ==
  ASSUME NEW S, NEW s \in Seq(S), Len(s) >= 1
  PROVE  /\ Front(s) \in Seq(S) /\ Len(Front(s)) = Len(s) - 1
         /\ \A k \in 1 .. Len(s) - 1 : Front(s)[k] = s[k]
<1>1. Len(s) - 1 \in Int /\ \A k \in 1 .. Len(s) - 1 : s[k] \in S
  <2>1. Len(s) \in Nat /\ \A k \in 1 .. Len(s) : s[k] \in S
    OBVIOUS
  <2> QED
    BY <2>1
<1> DEFINE t == SubSeq(s, 1, Len(s) - 1)
<1>2. /\ t \in Seq(S)
      /\ Len(t) = IF 1 <= Len(s) - 1 THEN Len(s) - 1 - 1 + 1 ELSE 0
      /\ \A k \in 1 .. Len(s) - 1 - 1 + 1 : t[k] = s[1 + k - 1]
  BY <1>1, SubSeqProperties
<1>f. Front(s) = t
  BY DEF Front
<1> HIDE DEF t
<1>3. Len(t) = Len(s) - 1
  <2> DEFINE n == Len(s)
  <2>1. n \in Nat /\ n >= 1
    OBVIOUS
  <2>2. Len(t) = IF 1 <= n - 1 THEN n - 1 - 1 + 1 ELSE 0
    BY <1>2
  <2> HIDE DEF n
  <2>3. Len(t) = n - 1
    BY <2>1, <2>2
  <2> QED
    BY <2>3 DEF n
<1>4. \A k \in 1 .. Len(s) - 1 : t[k] = s[k]
  <2> SUFFICES ASSUME NEW k \in 1 .. Len(s) - 1 PROVE t[k] = s[k]
    OBVIOUS
  <2>1. k \in 1 .. Len(s) - 1 - 1 + 1 /\ 1 + k - 1 = k
    BY <1>1
  <2>2. t[k] = s[1 + k - 1]
    BY <1>2, <2>1
  <2> QED
    BY <2>1, <2>2
<1> QED
  BY <1>2, <1>3, <1>4, <1>f

\* One token of normalize_path: the stack holds again the names that last, a ".."
\* having taken off the last of them, or nothing at "/".
LEMMA PlacesStep ==
  ASSUME NEW path \in Seq(Tokens), NEW n \in Nat, n < Len(path),
         NEW place, NEW stack, Places(path, n, place), NamesAt(path, place, stack)
  PROVE  \E p : Places(path, n + 1, p) /\ NamesAt(path, p, Push(stack, path[n + 1]))
<1> DEFINE t == path[n + 1]
<1>1. t \in Names \cup {"..", "."} /\ ".." \notin Names /\ "." \notin Names
  BY SessionAssumption DEF Tokens
<1>2. /\ place \in Seq(1 .. n) /\ Len(place) \in Nat
      /\ \A k \in 1 .. Len(place) : place[k] \in 1 .. n /\ place[k] \in Int /\ place[k] <= n
  BY DEF Places
<1>3. place \in Seq(1 .. n + 1)
  <2>1. 1 .. n \subseteq 1 .. n + 1
    OBVIOUS
  <2> QED
    BY <1>2, <2>1
<1>4. \A k \in 1 .. Len(place) : Depth(path, place[k], n) = Len(place) - k
  BY DEF Places
<1>5. \A k, l \in 1 .. Len(place) : k < l => place[k] < place[l]
  BY DEF Places
<1>6. \A i \in 1 .. n : LastsTo(path, i, n) <=> \E k \in 1 .. Len(place) : place[k] = i
  BY DEF Places
<1>7. \A i \in 1 .. n : LastsTo(path, i, n + 1) <=> LastsTo(path, i, n) /\ Depth(path, i, n + 1) >= 0
  BY LastsStep
<1>8. LastsTo(path, n + 1, n + 1) <=> t \in Names
  BY DEF LastsTo
<1>9. stack \in Seq(Names) /\ Len(stack) = Len(place) /\ \A k \in 1 .. Len(place) : stack[k] = path[place[k]]
  BY DEF NamesAt
<1>a. CASE t \in Names
  <2> DEFINE p == Append(place, n + 1)
  <2>1. Push(stack, t) = Append(stack, t)
    BY <1>1, <1>a DEF Push
  <2>2. /\ p \in Seq(1 .. n + 1) /\ Len(p) = Len(place) + 1 /\ p[Len(place) + 1] = n + 1
        /\ \A k \in 1 .. Len(place) : p[k] = place[k]
    <3>1. n + 1 \in 1 .. n + 1
      OBVIOUS
    <3> QED
      BY <1>3, <3>1, Giving
  <2> HIDE DEF p
  <2>r. 1 .. Len(p) = (1 .. Len(place)) \cup {Len(place) + 1}
    <3>1. Len(place) \in Nat /\ Len(p) = Len(place) + 1
      BY <1>2, <2>2
    <3> QED
      BY <3>1
  <2>3. \A k, l \in 1 .. Len(p) : k < l => p[k] < p[l]
    <3> SUFFICES ASSUME NEW k \in 1 .. Len(p), NEW l \in 1 .. Len(p), k < l PROVE p[k] < p[l]
      OBVIOUS
    <3>1. k \in 1 .. Len(place) /\ p[k] = place[k] /\ place[k] \in Int /\ place[k] <= n
      BY <1>2, <2>2
    <3>2. CASE l = Len(place) + 1
      BY <2>2, <3>1, <3>2
    <3>3. CASE l \in 1 .. Len(place)
      BY <1>5, <2>2, <3>1, <3>3
    <3> QED
      BY <2>r, <3>2, <3>3
  <2>4. \A k \in 1 .. Len(p) : Depth(path, p[k], n + 1) = Len(p) - k
    <3> SUFFICES ASSUME NEW k \in 1 .. Len(p) PROVE Depth(path, p[k], n + 1) = Len(p) - k
      OBVIOUS
    <3>1. CASE k = Len(place) + 1
      <4>1. Depth(path, n + 1, n + 1) = 0
        BY DepthStep
      <4> QED
        BY <1>2, <2>2, <3>1, <4>1
    <3>2. CASE k \in 1 .. Len(place)
      <4>1. p[k] = place[k] /\ place[k] \in Int /\ place[k] <= n
        BY <1>2, <2>2, <3>2
      <4>2. Depth(path, place[k], n + 1) = Depth(path, place[k], n) + 1
        BY <1>a, <4>1, DepthStep
      <4> QED
        BY <1>2, <1>4, <2>2, <3>2, <4>1, <4>2
    <3> QED
      BY <1>2, <2>2, <3>1, <3>2
  <2>5. ASSUME NEW i \in 1 .. n + 1
        PROVE  LastsTo(path, i, n + 1) <=> \E k \in 1 .. Len(p) : p[k] = i
    <3>1. CASE i = n + 1
      BY <1>2, <1>8, <1>a, <2>2, <3>1
    <3>2. CASE i \in 1 .. n
      <4>1. (\E k \in 1 .. Len(p) : p[k] = i) <=> \E k \in 1 .. Len(place) : place[k] = i
        <5>1. n + 1 # i
          BY <3>2
        <5>2. 1 .. Len(p) = (1 .. Len(place)) \cup {Len(place) + 1}
          BY <1>2, <2>2
        <5> QED
          BY <2>2, <5>1, <5>2
      <4>2. ASSUME LastsTo(path, i, n) PROVE Depth(path, i, n + 1) >= 0
        <5>1. PICK k \in 1 .. Len(place) : place[k] = i
          BY <1>6, <3>2, <4>2
        <5>2. Depth(path, i, n) = Len(place) - k
          BY <1>4, <5>1
        <5>3. Depth(path, i, n + 1) = Depth(path, i, n) + 1
          BY <1>a, <3>2, DepthStep
        <5> QED
          BY <1>2, <5>2, <5>3
      <4> QED
        BY <1>6, <1>7, <3>2, <4>1, <4>2
    <3> QED
      BY <3>1, <3>2
  <2>6. NamesAt(path, p, Append(stack, t))
    <3>1. /\ Append(stack, t) \in Seq(Names) /\ Len(Append(stack, t)) = Len(stack) + 1
          /\ Append(stack, t)[Len(stack) + 1] = t
          /\ \A k \in 1 .. Len(stack) : Append(stack, t)[k] = stack[k]
      BY <1>9, <1>a, Giving
    <3>2. ASSUME NEW k \in 1 .. Len(p) PROVE Append(stack, t)[k] = path[p[k]]
      <4>1. CASE k = Len(place) + 1
        BY <1>9, <2>2, <3>1, <4>1
      <4>2. CASE k \in 1 .. Len(place)
        BY <1>9, <2>2, <3>1, <4>2
      <4> QED
        BY <2>r, <4>1, <4>2
    <3> QED
      BY <1>9, <2>2, <3>1, <3>2 DEF NamesAt
  <2>7. Places(path, n + 1, p)
    BY <2>2, <2>3, <2>4, <2>5 DEF Places
  <2> QED
    BY <2>1, <2>6, <2>7
<1>b. CASE t = "."
  <2>1. Push(stack, t) = stack
    BY <1>b DEF Push
  <2>2. \A i \in 1 .. n : Depth(path, i, n + 1) = Depth(path, i, n)
    BY <1>b, DepthStep
  <2>3. \A k \in 1 .. Len(place) : Depth(path, place[k], n + 1) = Len(place) - k
    BY <1>2, <1>4, <2>2
  <2>4. ASSUME NEW i \in 1 .. n + 1
        PROVE  LastsTo(path, i, n + 1) <=> \E k \in 1 .. Len(place) : place[k] = i
    <3>1. CASE i = n + 1
      BY <1>1, <1>2, <1>8, <1>b, <3>1
    <3>2. CASE i \in 1 .. n
      <4>1. ASSUME LastsTo(path, i, n) PROVE Depth(path, i, n + 1) >= 0
        <5>1. PICK k \in 1 .. Len(place) : place[k] = i
          BY <1>6, <3>2, <4>1
        <5> QED
          BY <1>2, <2>3, <5>1
      <4> QED
        BY <1>6, <1>7, <3>2, <4>1
    <3> QED
      BY <3>1, <3>2
  <2>5. Places(path, n + 1, place)
    BY <1>3, <1>5, <2>3, <2>4 DEF Places
  <2> QED
    BY <2>1, <2>5
<1>c. CASE t = ".." /\ stack = <<>>
  <2>1. Push(stack, t) = stack
    BY <1>c DEF Push
  <2>2. Len(place) = 0
    BY <1>9, <1>c
  <2>3. ASSUME NEW i \in 1 .. n + 1 PROVE ~LastsTo(path, i, n + 1)
    <3>1. CASE i = n + 1
      BY <1>1, <1>8, <1>c, <3>1
    <3>2. CASE i \in 1 .. n
      BY <1>6, <1>7, <2>2, <3>2
    <3> QED
      BY <3>1, <3>2
  <2>4. Places(path, n + 1, place)
    BY <1>3, <2>2, <2>3 DEF Places
  <2> QED
    BY <2>1, <2>4
<1>d. CASE t = ".." /\ stack # <<>>
  <2> DEFINE p == Front(place)
  <2>0. Len(place) >= 1
    BY <1>9, <1>d, EmptySeq
  <2>1. Push(stack, t) = Front(stack)
    BY <1>d DEF Push
  <2>2. /\ p \in Seq(1 .. n + 1) /\ Len(p) = Len(place) - 1
        /\ \A k \in 1 .. Len(place) - 1 : p[k] = place[k]
    BY <1>3, <2>0, Fronts
  <2> HIDE DEF p
  <2>3. \A k, l \in 1 .. Len(p) : k < l => p[k] < p[l]
    <3>1. \A k \in 1 .. Len(p) : k \in 1 .. Len(place) /\ p[k] = place[k]
      BY <1>2, <2>2
    <3> QED
      BY <1>5, <3>1
  <2>a. \A i \in 1 .. n : Depth(path, i, n) \in Int /\ Depth(path, i, n + 1) = Depth(path, i, n) - 1
    BY <1>d, DepthStep
  <2>4. \A k \in 1 .. Len(p) : Depth(path, p[k], n + 1) = Len(p) - k
    <3>1. \A k \in 1 .. Len(p) : k \in 1 .. Len(place) /\ p[k] = place[k]
      BY <1>2, <2>2
    <3> QED
      BY <1>2, <1>4, <2>2, <2>a, <3>1
  <2>5. ASSUME NEW i \in 1 .. n + 1
        PROVE  LastsTo(path, i, n + 1) <=> \E k \in 1 .. Len(p) : p[k] = i
    <3>1. CASE i = n + 1
      <4>1. \A k \in 1 .. Len(p) : p[k] <= n
        BY <1>2, <2>2
      <4> QED
        BY <1>1, <1>8, <1>d, <3>1, <4>1
    <3>2. CASE i \in 1 .. n
      <4>1. ASSUME LastsTo(path, i, n + 1) PROVE \E k \in 1 .. Len(p) : p[k] = i
        <5>1. LastsTo(path, i, n) /\ Depth(path, i, n + 1) >= 0
          BY <1>7, <3>2, <4>1
        <5>2. PICK k \in 1 .. Len(place) : place[k] = i
          BY <1>6, <3>2, <5>1
        <5>3. Len(place) - k - 1 >= 0
          BY <1>4, <2>a, <3>2, <5>1, <5>2
        <5>4. k \in 1 .. Len(p) /\ p[k] = i
          <6>1. k \in 1 .. Len(place) - 1
            <7>1. Len(place) \in Nat /\ k \in Nat /\ k >= 1
              BY <1>2, <5>2
            <7> QED
              BY <5>3, <7>1
          <6> QED
            BY <2>2, <5>2, <6>1
        <5> QED
          BY <5>4
      <4>2. ASSUME NEW k \in 1 .. Len(p), p[k] = i PROVE LastsTo(path, i, n + 1)
        <5>0. k \in 1 .. Len(place) - 1
          BY <2>2
        <5>1. k \in 1 .. Len(place) /\ place[k] = i
          <6>1. k \in 1 .. Len(place)
            BY <1>2, <5>0
          <6> QED
            BY <2>2, <4>2, <5>0, <6>1
        <5>2. LastsTo(path, i, n)
          BY <1>6, <3>2, <5>1
        <5>3. Depth(path, i, n + 1) >= 0
          BY <1>2, <2>2, <2>4, <4>2
        <5> QED
          BY <1>7, <3>2, <5>2, <5>3
      <4> QED
        BY <4>1, <4>2
    <3> QED
      BY <3>1, <3>2
  <2>6. NamesAt(path, p, Front(stack))
    <3>1. /\ Front(stack) \in Seq(Names) /\ Len(Front(stack)) = Len(stack) - 1
          /\ \A k \in 1 .. Len(stack) - 1 : Front(stack)[k] = stack[k]
      BY <1>9, <2>0, Fronts
    <3>2. ASSUME NEW k \in 1 .. Len(p) PROVE Front(stack)[k] = path[p[k]]
      <4>1. k \in 1 .. Len(place) /\ k \in 1 .. Len(place) - 1
        BY <1>2, <2>2
      <4> QED
        BY <1>9, <2>2, <3>1, <4>1
    <3> QED
      BY <1>9, <2>2, <3>1, <3>2 DEF NamesAt
  <2>7. Places(path, n + 1, p)
    BY <2>2, <2>3, <2>4, <2>5 DEF Places
  <2> QED
    BY <2>1, <2>6, <2>7
<1> QED
  BY <1>1, <1>a, <1>b, <1>c, <1>d

\* After the whole path the stack holds the names that last.
LEMMA AllPlaces ==
  ASSUME NEW path \in Seq(Tokens)
  PROVE  \E place : Places(path, Len(path), place) /\ NamesAt(path, place, Normalize(path))
<1>1. PICK f : /\ f[0] = <<>> /\ Normalize(path) = f[Len(path)]
               /\ \A i \in 0 .. Len(path) - 1 : f[i + 1] = Push(f[i], path[i + 1])
  BY StackOf
<1> DEFINE Right(n) == \E place : Places(path, n, place) /\ NamesAt(path, place, f[n])
           T == {n \in Nat : n <= Len(path) /\ ~Right(n)}
<1>n. Len(path) \in Nat
  OBVIOUS
<1>2. Right(0)
  <2>1. <<>> \in Seq(1 .. 0) /\ <<>> \in Seq(Names) /\ Len(<<>>) = 0
    OBVIOUS
  <2>2. Places(path, 0, <<>>)
    BY <2>1 DEF Places
  <2>3. NamesAt(path, <<>>, f[0])
    BY <1>1, <2>1 DEF NamesAt
  <2> QED
    BY <2>2, <2>3
<1>3. ASSUME NEW n \in Nat, n < Len(path), Right(n) PROVE Right(n + 1)
  <2>1. PICK place : Places(path, n, place) /\ NamesAt(path, place, f[n])
    BY <1>3
  <2>2. \E p : Places(path, n + 1, p) /\ NamesAt(path, p, Push(f[n], path[n + 1]))
    BY <1>3, <2>1, PlacesStep
  <2>3. f[n + 1] = Push(f[n], path[n + 1])
    <3>1. n \in 0 .. Len(path) - 1
      BY <1>3, <1>n
    <3> QED
      BY <1>1, <3>1
  <2> QED
    BY <2>2, <2>3
<1> HIDE DEF Right
<1>4. T = {}
  <2> SUFFICES ASSUME T # {} PROVE FALSE
    OBVIOUS
  <2>1. PICK n \in T : \A m \in T : n <= m
    BY LeastNat
  <2>2. n \in Nat /\ n <= Len(path) /\ ~Right(n) /\ n # 0
    BY <1>2, <2>1
  <2>3. n - 1 \in Nat /\ n - 1 < Len(path) /\ (n - 1) + 1 = n
    BY <1>n, <2>2
  <2>4. Right(n - 1)
    BY <2>1, <2>2, <2>3
  <2>5. Right((n - 1) + 1)
    BY <1>3, <2>3, <2>4
  <2> QED
    BY <2>2, <2>3, <2>5
<1>5. Right(Len(path))
  BY <1>4, <1>n
<1> QED
  BY <1>1, <1>5 DEF Right

\* Shell's test of a name, in terms of depths.
LEMMA LastsAtEnd ==
  ASSUME NEW path \in Seq(Tokens), NEW i \in 1 .. Len(path)
  PROVE  LastsTo(path, i, Len(path)) <=> OneUser!Lasts(path, i)
<1>1. ASSUME NEW j \in i + 1 .. Len(path)
      PROVE  Depth(path, i, j) >= 0
               <=> OneUser!Among(path, i + 1, j, {".."}) <= OneUser!Among(path, i + 1, j, Names)
  <2>1. i + 1 \in Int /\ j \in Int /\ i + 1 <= j + 1
    OBVIOUS
  <2>2. \A some : OneUser!Among(path, i + 1, j, some) \in Nat
    BY <2>1, AmongStep
  <2>3. OneUser!Among(path, i + 1, j, Names) \in Nat /\ OneUser!Among(path, i + 1, j, {".."}) \in Nat
    BY <2>2
  <2> QED
    BY <2>3 DEF Depth
<1> QED
  BY <1>1 DEF LastsTo, OneUser!Lasts

\* The k-th of the places is the one with k places up to it.
LEMMA Ranks ==
  ASSUME NEW n \in Nat, NEW place \in Seq(1 .. n), NEW k \in 0 .. Len(place),
         \A a, b \in 1 .. Len(place) : a < b => place[a] < place[b]
  PROVE  Cardinality({place[a] : a \in 1 .. k}) = k
<1> DEFINE R == {place[a] : a \in 1 .. k}
           F == [a \in 1 .. k |-> place[a]]
<1>1. F \in [1 .. k -> R] /\ \A t \in R : \E a \in 1 .. k : F[a] = t
  OBVIOUS
<1>2. \A a, b \in 1 .. k : F[a] = F[b] => a = b
  <2> SUFFICES ASSUME NEW a \in 1 .. k, NEW b \in 1 .. k, place[a] = place[b] PROVE a = b
    OBVIOUS
  <2>1. /\ a \in 1 .. Len(place) /\ b \in 1 .. Len(place)
        /\ place[a] \in Int /\ place[b] \in Int
    OBVIOUS
  <2>2. ~(a < b) /\ ~(b < a)
    BY <2>1
  <2> QED
    BY <2>2
<1>3. F \in Bijection(1 .. k, R)
  BY <1>1, <1>2, Fun_IsBij
<1>4. ExistsBijection(1 .. k, R)
  BY <1>3 DEF ExistsBijection
<1> QED
  BY <1>4, FS_CountingElements

\* normalize_path and the path read as a whole agree: its stack, one token after
\* another, ends with the names no later ".." takes back, in their order, however
\* often the path climbs above "/" on its way.
THEOREM StackIsRight == \A path \in Seq(Tokens) : Normalize(path) = OneUser!Leads(path)
<1> SUFFICES ASSUME NEW path \in Seq(Tokens) PROVE Normalize(path) = OneUser!Leads(path)
  OBVIOUS
<1> DEFINE n == Len(path)
           lasting == {i \in 1 .. n : OneUser!Lasts(path, i)}
           rank(i) == OneUser!Cardinality({j \in lasting : j <= i})
<1>1. PICK place : Places(path, n, place) /\ NamesAt(path, place, Normalize(path))
  BY AllPlaces
<1>2. /\ n \in Nat /\ place \in Seq(1 .. n) /\ Len(place) \in Nat
      /\ \A k \in 1 .. Len(place) : place[k] \in 1 .. n
      /\ \A a, b \in 1 .. Len(place) : a < b => place[a] < place[b]
  BY <1>1 DEF Places
<1>3. lasting = {place[a] : a \in 1 .. Len(place)}
  <2>1. \A i \in 1 .. n : OneUser!Lasts(path, i) <=> \E k \in 1 .. Len(place) : place[k] = i
    BY <1>1, LastsAtEnd DEF Places
  <2> QED
    BY <1>2, <2>1
<1>4. OneUser!Cardinality(lasting) = Len(place)
  <2>1. Len(place) \in 0 .. Len(place)
    BY <1>2
  <2> QED
    BY <1>2, <1>3, <2>1, Ranks, SameCount
<1>5. ASSUME NEW k \in 1 .. Len(place) PROVE rank(place[k]) = k
  <2>1. {j \in lasting : j <= place[k]} = {place[a] : a \in 1 .. k}
    <3>1. ASSUME NEW a \in 1 .. Len(place) PROVE place[a] <= place[k] <=> a \in 1 .. k
      <4>1. place[a] \in Int /\ place[k] \in Int
        BY <1>2
      <4>2. (a < k => place[a] < place[k]) /\ (k < a => place[k] < place[a])
        BY <1>2
      <4> QED
        BY <4>1, <4>2
    <3>2. 1 .. k \subseteq 1 .. Len(place)
      BY <1>2
    <3> QED
      BY <1>3, <3>1, <3>2
  <2>2. k \in 0 .. Len(place)
    BY <1>2
  <2>3. Cardinality({place[a] : a \in 1 .. k}) = k
    BY <1>2, <2>2, Ranks
  <2> QED
    BY <2>1, <2>3, SameCount
<1> HIDE DEF rank, lasting
<1>6. ASSUME NEW k \in 1 .. Len(place) PROVE (CHOOSE i \in lasting : rank(i) = k) = place[k]
  <2>1. place[k] \in lasting /\ rank(place[k]) = k
    BY <1>3, <1>5
  <2>2. ASSUME NEW i \in lasting, rank(i) = k PROVE i = place[k]
    <3>1. PICK a \in 1 .. Len(place) : i = place[a]
      BY <1>3
    <3>2. a = k
      BY <1>5, <2>2, <3>1
    <3> QED
      BY <3>1, <3>2
  <2> QED
    BY <2>1, <2>2
<1>7. OneUser!Leads(path) = [k \in 1 .. Len(place) |-> path[place[k]]]
  <2>1. OneUser!Leads(path)
          = [k \in 1 .. OneUser!Cardinality(lasting) |-> path[CHOOSE i \in lasting : rank(i) = k]]
    BY DEF OneUser!Leads, lasting, rank
  <2> QED
    BY <1>4, <1>6, <2>1
<1>8. Normalize(path) = [k \in 1 .. Len(place) |-> path[place[k]]]
  <2>1. /\ Normalize(path) \in Seq(Names) /\ Len(Normalize(path)) = Len(place)
        /\ \A k \in 1 .. Len(place) : Normalize(path)[k] = path[place[k]]
    BY <1>1 DEF NamesAt
  <2>2. Normalize(path) = [k \in 1 .. Len(place) |-> Normalize(path)[k]]
    BY <2>1
  <2> QED
    BY <2>1, <2>2
<1> QED
  BY <1>7, <1>8

----------------------------------------------------------------------------

\* What a session does to cwd and to the directories is what Shell allows one user:
\* ChangeDir a cd that goes where the path leads, or one that is refused.
LEMMA ShellStep ==
  ASSUME TypeOK, Settled, [SessionNext]_vars
  PROVE  [OneUser!ShellNext]_<<cwd, dirs>>
  <1>0. UNCHANGED <<cwd, dirs>> => [OneUser!ShellNext]_<<cwd, dirs>>
    OBVIOUS
  <1>1. CASE Connect
    <2>1. OneUser!Connected
      BY <1>1 DEF Connect, OneUser!Connected
    <2> QED
      BY <2>1 DEF OneUser!ShellNext
  <1>2. CASE ChangeDir
    <2>0. PICK path \in Lines :
            \/ UNCHANGED cwd
            \/ /\ UnderRoot(Normalize(cwd \o path)) /\ Normalize(cwd \o path) \in dirs
               /\ cwd' = Normalize(cwd \o path)
      BY <1>2 DEF ChangeDir
    <2>1. UNCHANGED dirs
      BY <1>2 DEF ChangeDir
    <2>2. CASE UNCHANGED cwd
      BY <1>0, <2>1, <2>2
    <2>3. CASE /\ cwd' # cwd
               /\ UnderRoot(Normalize(cwd \o path)) /\ Normalize(cwd \o path) \in dirs
               /\ cwd' = Normalize(cwd \o path)
      <3>1. cwd \o path \in Seq(Tokens)
        <4>1. cwd \in Seq(Tokens)
          BY DEF TypeOK, Tokens
        <4>2. path \in Seq(Tokens)
          BY SessionAssumption
        <4> QED
          BY <4>1, <4>2, ConcatProperties
      <3>2. cwd' = OneUser!Leads(cwd \o path)
        BY <2>3, <3>1, StackIsRight
      <3>3. UnderRoot(cwd') /\ cwd' \in dirs
        BY <2>3
      <3>4. OneUser!Changed
        BY <2>1, <2>3, <3>2, <3>3 DEF OneUser!Changed
      <3> QED
        BY <3>4 DEF OneUser!ShellNext
    <2> QED
      BY <2>0, <2>2, <2>3
  <1>3. CASE ServMkdir
    <2>1. Head(c2s).name \in Names
      <3>1. c2s # <<>> /\ Head(c2s).kind = "mkdir"
        BY <1>3 DEF ServMkdir, ServerGets
      <3>2. Head(c2s) \in Message
        BY <3>1, Taking DEF TypeOK
      <3> QED
        BY <3>1, <3>2, KindsOfMessage
    <2>2. cwd \in dirs /\ UNCHANGED cwd /\ dirs' \in {dirs, dirs \cup {Append(cwd, Head(c2s).name)}}
      BY <1>3 DEF ServMkdir, Settled
    <2>3. CASE UNCHANGED dirs
      BY <1>0, <2>2, <2>3
    <2>4. CASE dirs' = dirs \cup {Append(cwd, Head(c2s).name)}
      <3>1. OneUser!Made
        BY <2>1, <2>2, <2>4 DEF OneUser!Made
      <3> QED
        BY <3>1 DEF OneUser!ShellNext
    <2> QED
      BY <2>2, <2>3, <2>4
  <1>4. CASE OtherMkdir
    <2>1. OneUser!Made
      BY <1>4, SessionAssumption DEF OtherMkdir, OneUser!Made
    <2> QED
      BY <2>1 DEF OneUser!ShellNext
  <1>5. CASE LocalCd \/ Exit \/ Ask \/ CdLine \/ Quit \/ Start
    BY <1>0, <1>5 DEF LocalCd, Exit, Ask, CdLine, Quit, Start, placeVars
  <1>6. CASE Client
    BY <1>0, <1>6 DEF Client, Hello, Pwd, CdPath, CdStatus, MkdirStatus, LsName, LsEnd, placeVars
  <1>7. CASE \/ ServHello \/ ServPwd \/ ServCd \/ ServLs \/ ServEntry \/ ServLsEnd \/ ServExit
             \/ ServHangup \/ ServerDies
    BY <1>0, <1>7 DEF ServHello, ServPwd, ServCd, ServLs, ServEntry, ServLsEnd, ServExit,
       ServHangup, ServerDies, placeVars
  <1>8. CASE UNCHANGED vars
    BY <1>0, <1>8 DEF vars, placeVars
  <1> QED
    BY <1>1, <1>2, <1>3, <1>4, <1>5, <1>6, <1>7, <1>8 DEF SessionNext, User, Thread

\* For every path a user types, cd goes in one step where the path read as a whole
\* leads, and only to a directory there is and under the root; nothing else moves a
\* user who stays connected, and directories come only from mkdir.
THEOREM Implements == SessionSpec => ImplementsShell
<1>1. SessionInit => cwd \in Homes
  BY DEF SessionInit
<1>2. TypeOK /\ SessionInvariant /\ [SessionNext]_vars => [OneUser!ShellNext]_<<cwd, dirs>>
  BY ShellStep DEF SessionInvariant
<1> QED
  BY <1>1, <1>2, TypeCorrect, SessionCorrect, PTL DEF SessionSpec, ImplementsShell, OneUser!ShellSpec
=============================================================================
