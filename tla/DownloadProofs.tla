--------------------------- MODULE DownloadProofs ---------------------------
(***************************************************************************)
(* Theorems about Download: its types, the file that get_file keeps, the   *)
(* verdicts of the two ends and the command after the download.            *)
(***************************************************************************)
EXTENDS DownloadInvariant, ConnectionProofs

\* The message at the head of the stream to the server.
LEMMA FirstMessage ==
  ASSUME TypeOK, c2s # <<>>
  PROVE  /\ Head(c2s) = c2s[1] /\ Head(c2s) \in Message
         /\ Len(c2s) \in Nat /\ Len(c2s) >= 1
         /\ Tail(c2s) \in Seq(Message) /\ Len(Tail(c2s)) = Len(c2s) - 1
         /\ \A i \in 1 .. Len(c2s) - 1 : Tail(c2s)[i] = c2s[i + 1]
  <1>1. c2s \in Seq(Message)
    BY DEF TypeOK
  <1> QED
    BY <1>1, Received

\* The message at the head of the stream to the client.
LEMMA FirstReply ==
  ASSUME TypeOK, s2c # <<>>
  PROVE  /\ Head(s2c) = s2c[1] /\ Head(s2c) \in Message \cup {Path}
         /\ Len(s2c) \in Nat /\ Len(s2c) >= 1
         /\ Tail(s2c) \in Seq(Message \cup {Path}) /\ Len(Tail(s2c)) = Len(s2c) - 1
         /\ \A i \in 1 .. Len(s2c) - 1 : Tail(s2c)[i] = s2c[i + 1]
  <1>1. s2c \in Seq(Message \cup {Path})
    BY DEF TypeOK
  <1> QED
    BY <1>1, Received

\* A client in its loop receives what it expects next.
LEMMA Expected ==
  ASSUME TypeOK, StopAndWait, Receiving, s2c # <<>>
  PROVE  /\ c2s = <<>> /\ cUp = TRUE
         /\ cpc = "check" => Head(s2c).kind = "num" /\ (Head(s2c).num = 0 <=> spc = "cmd")
         /\ cpc = "size"  => Head(s2c).kind = "num" /\ Head(s2c).num = Len(src)
         /\ cpc = "info"  => Head(s2c).kind = "info" /\ Head(s2c).len = LengthInfo(1, Len(sign))
         /\ cpc = "body"  => Head(s2c).kind = "body" /\ Head(s2c).sign = sign
  <1>1. Head(s2c) = s2c[1] /\ 1 \in 1 .. Len(s2c)
    BY FirstReply
  <1>2. Placed(1)
    BY <1>1 DEF StopAndWait, StreamInOrder
  <1>3. c2s = <<>>
    BY DEF StopAndWait, InStep
  <1>4. cUp = TRUE
    BY DEF StopAndWait, ClientKnows, Receiving
  <1> QED
    BY <1>1, <1>2, <1>3, <1>4 DEF Placed, Taken

\* Sending to the client keeps the stream well typed.
LEMMA SendType ==
  ASSUME TypeOK, NEW m \in Message \cup {Path},
         NEW pc \in {"cmd", "size", "read", "data", "wait", "final"}, ServerSend(m, pc)
  PROVE  /\ spc' \in {"cmd", "size", "read", "data", "wait", "final", "killed"}
         /\ s2c' \in Seq(Message \cup {Path}) /\ rst' \in BOOLEAN
  <1>1. Append(s2c, m) \in Seq(Message \cup {Path})
    BY Sent DEF TypeOK
  <1>2. rst' \in BOOLEAN
    BY Zenon DEF TypeOK, ServerSend
  <1> QED
    BY <1>1, <1>2 DEF TypeOK, ServerSend

LEMMA OpenType ==
  ASSUME TypeOK, Open
  PROVE  /\ spc' \in {"cmd", "size", "killed"}
         /\ s2c' \in Seq(Message \cup {Path}) /\ rst' \in BOOLEAN
         /\ src' \in Seq(Content) /\ sent' \in Nat /\ sign' \in Signs /\ status' \in Int
         /\ served' \in {"none", "ok", "failed", "nofile"}
  <1>1. Num(0) \in Message /\ Num(1) \in Message
    BY Messages
  <1>2. src' \in Seq(Content) /\ sent' \in Nat /\ sign' \in Signs /\ status' \in Int
    BY ConnectionAssumption DEF TypeOK, Open
  <1>3. served' \in {"none", "ok", "failed", "nofile"}
    BY DEF TypeOK, Open
  <1>4. CASE ServerSend(Num(0), "cmd")
    BY <1>1, <1>2, <1>3, <1>4, SendType DEF ServerSend
  <1>5. CASE ServerSend(Num(1), "size")
    BY <1>1, <1>2, <1>3, <1>5, SendType DEF ServerSend
  <1> QED
    BY <1>4, <1>5 DEF Open

LEMMA StatusType ==
  ASSUME TypeOK, RecvStatus
  PROVE  status' \in Int /\ c2s' \in Seq(Message)
  <1>1. CASE c2s # <<>> /\ Head(c2s).kind = "num" /\ status' = Head(c2s).num /\ c2s' = Tail(c2s)
    BY <1>1, FirstMessage, Fields
  <1>2. CASE c2s # <<>> /\ status' = 1 /\ c2s' = <<Rest>> \o Tail(c2s)
    <2>1. <<Rest>> \in Seq(Message) /\ Tail(c2s) \in Seq(Message)
      BY <1>2, Messages, FirstMessage
    <2> QED
      BY <1>2, <2>1
  <1> QED
    BY <1>1, <1>2 DEF RecvStatus, TypeOK

\* The client's sends, to a server that may have ended.
LEMMA ClientSendType ==
  ASSUME TypeOK, NEW stream \in Seq(Message),
         NEW pc \in {"check", "info", "end", "prompt", "pwd"}, ClientSends(stream, pc)
  PROVE  /\ c2s' \in Seq(Message) /\ cUp' \in BOOLEAN
         /\ cpc' \in {"prompt", "check", "info", "end", "pwd", "gone"}
  <1>1. c2s' \in Seq(Message) /\ cpc' \in {"prompt", "check", "info", "end", "pwd", "gone"}
    BY DEF TypeOK, ClientSends
  <1>2. cUp' = cUp \/ cUp' = FALSE
    BY DEF ClientSends
  <1> QED
    BY <1>1, <1>2 DEF TypeOK

LEMMA VerdictType ==
  ASSUME TypeOK, NEW ok \in BOOLEAN, Verdict(ok)
  PROVE  /\ success' \in {0, 1} /\ left' \in Int /\ c2s' \in Seq(Message)
         /\ cpc' \in {"prompt", "check", "info", "end", "pwd", "gone"} /\ cUp' \in BOOLEAN
  <1>1. success' \in {0, 1} /\ left' \in Int
    BY DEF TypeOK, Verdict, Lengths
  <1>a. Num(success') \in Message
    BY <1>1, Messages
  <1>2. Append(c2s, Num(success')) \in Seq(Message)
    BY <1>a, Sent DEF TypeOK
  <1> DEFINE pc == IF success' = 0 THEN "end" ELSE LoopHead(left')
  <1>3. pc \in {"check", "info", "end", "prompt", "pwd"}
    BY DEF LoopHead
  <1>4. ClientSends(Append(c2s, Num(success')), pc)
    BY DEF Verdict
  <1> HIDE DEF pc
  <1> QED
    BY <1>1, <1>2, <1>3, <1>4, ClientSendType

\* What a write leaves in the copy, of a fragment or of bytes that are none.
LEMMA WritesType ==
  ASSUME TypeOK, NEW data \in Content \cup {Cut}, NEW w \in Writes(data)
  PROVE  /\ w.file \in Seq(Content \cup {Cut})
         /\ (w.check >= 0) \in BOOLEAN
  <1>1. copy \in Seq(Content \cup {Cut})
    BY DEF TypeOK
  <1>2. /\ Append(copy, data) \in Seq(Content \cup {Cut})
        /\ Append(copy, Cut) \in Seq(Content \cup {Cut})
    BY <1>1, Sent
  <1>3. CASE w \in {[file |-> Append(copy, data), check |-> 1]}
    BY <1>2, <1>3
  <1>4. CASE w \in {[file |-> copy, check |-> -1]}
    BY <1>1, <1>4
  <1>5. CASE w \in {[file |-> Append(copy, Cut), check |-> 1]}
    BY <1>2, <1>5
  <1> QED
    BY <1>3, <1>4, <1>5 DEF Writes

\* Stop and wait puts into the stream what the client reads by its kind.
LEMMA KindsInOrder ==
  ASSUME TypeInvariant
  PROVE  /\ Receiving => \A i \in 1 .. Len(s2c) : KindAt(i)
         /\ cpc = "body" /\ s2c # <<>> => info.total # 0
         /\ cpc = "prompt" /\ verdict = "none" => s2c = <<>>
         /\ cpc = "pwd" => verdict # "none"
  <1>1. CASE StopAndWait
    <2>1. ASSUME Receiving, NEW i \in 1 .. Len(s2c) PROVE KindAt(i)
      <3>1. Taken + i <= 4 /\ Placed(i)
        BY <1>1, <2>1 DEF StopAndWait, StreamInOrder
      <3>2. Len(sign) \in {0, 1}
        BY DEF TypeInvariant, TypeOK, Signs
      <3>3. LengthInfo(1, Len(sign)).total # 0
        BY <3>2 DEF LengthInfo
      <3> QED
        BY <3>1, <3>3 DEF Placed, KindAt
    <2>2. cpc = "body" => info.total # 0
      <3>1. Len(sign) \in {0, 1}
        BY DEF TypeInvariant, TypeOK, Signs
      <3> QED
        BY <1>1, <3>1 DEF StopAndWait, ClientKnows, LengthInfo
    <2>3. /\ cpc = "prompt" /\ verdict = "none" => s2c = <<>>
          /\ cpc = "pwd" => verdict # "none"
      BY <1>1 DEF StopAndWait, ClientKnows
    <2> QED
      BY <2>1, <2>2, <2>3
  <1>2. CASE LastWords
    BY <1>2 DEF LastWords
  <1> QED
    BY <1>1, <1>2 DEF TypeInvariant

\* So a client that reads the size or a Length_Info finds one.
LEMMA KindExpected ==
  ASSUME TypeInvariant, Receiving, s2c # <<>>
  PROVE  /\ cpc = "size" => Head(s2c).num \in Int
         /\ cpc = "info" => Head(s2c).len \in Lengths
  <1>1. /\ TypeOK /\ Head(s2c) = s2c[1] /\ 1 \in 1 .. Len(s2c)
        /\ Head(s2c) \in Message \cup {Path}
    BY FirstReply DEF TypeInvariant
  <1>2. KindAt(1)
    BY <1>1, KindsInOrder
  <1>3. CASE cpc = "size"
    <2>1. Head(s2c).kind = "num"
      BY <1>1, <1>2, <1>3 DEF KindAt, Taken
    <2>2. Head(s2c) \in Message
      BY <1>1, <2>1 DEF Path
    <2> QED
      BY <1>3, <2>1, <2>2, Fields
  <1>4. CASE cpc = "info"
    <2>1. Head(s2c).kind = "info"
      BY <1>1, <1>2, <1>4 DEF KindAt, Taken
    <2>2. Head(s2c) \in Message
      BY <1>1, <2>1 DEF Path
    <2> QED
      BY <1>4, <2>1, <2>2, Fields
  <1> QED
    BY <1>3, <1>4

----------------------------------------------------------------------------

\* No step leaves the types.
LEMMA TypeStep ==
  ASSUME TypeInvariant, [DownloadNext]_vars
  PROVE  TypeOK'
  <1>t. TypeOK
    BY DEF TypeInvariant
  <1>1. ASSUME NEW test \in BOOLEAN, GetStart(test) PROVE TypeOK'
    <2>1. Append(c2s, Cmd("get")) \in Seq(Message)
      BY <1>t, Messages, Sent DEF TypeOK
    <2>2. left' \in Int /\ info' \in Lengths /\ filelen' \in Int
      BY <1>1, JunkType DEF GetStart
    <2>3. /\ c2s' \in Seq(Message) /\ cUp' \in BOOLEAN
          /\ cpc' \in {"prompt", "check", "info", "end", "pwd", "gone"}
      BY <1>t, <1>1, <2>1, ClientSendType DEF GetStart
    <2> QED
      BY <1>t, <1>1, <2>2, <2>3 DEF TypeOK, GetStart, getServer
  <1>2. CASE GetCheck
    <2>1. s2c' \in Seq(Message \cup {Path})
      BY <1>t, <1>2, FirstReply DEF GetCheck, TypeOK
    <2>2. CASE verdict' = "nofile" /\ cpc' = "prompt" /\ UNCHANGED <<exists, copy>>
      BY <1>t, <1>2, <2>1, <2>2 DEF TypeOK, GetCheck, getServer
    <2>3. CASE exists' = TRUE /\ copy' = <<>> /\ cpc' = "size" /\ UNCHANGED verdict
      <3>1. <<>> \in Seq(Content \cup {Cut})
        OBVIOUS
      <3> QED
        BY <1>t, <1>2, <2>1, <2>3, <3>1 DEF TypeOK, GetCheck, getServer
    <2> QED
      BY <1>2, <2>2, <2>3 DEF GetCheck
  <1>3. CASE GetSize
    <2>1. s2c' \in Seq(Message \cup {Path})
      BY <1>t, <1>3, FirstReply DEF GetSize, TypeOK
    <2>2. left' \in Int
      BY <1>t, <1>3, KindExpected DEF GetSize, Receiving, TypeOK
    <2> QED
      BY <1>t, <1>3, <2>1, <2>2 DEF TypeOK, GetSize, LoopHead, getServer
  <1>4. CASE GetInfo
    <2>1. s2c' \in Seq(Message \cup {Path})
      BY <1>t, <1>4, FirstReply DEF GetInfo, TypeOK
    <2>2. info' \in Lengths
      BY <1>t, <1>4, KindExpected DEF GetInfo, Receiving, TypeOK
    <2>3. filelen' \in Int
      BY <1>4, <2>2 DEF GetInfo, Lengths
    <2> QED
      BY <1>t, <1>4, <2>1, <2>2, <2>3 DEF TypeOK, GetInfo, getServer
  <1>5. CASE GetAbandon
    <2>1. s2c' \in Seq(Message \cup {Path})
      <3>1. CASE s2c # <<>> /\ s2c' = <<Rest>> \o Tail(s2c)
        <4>1. <<Rest>> \in Seq(Message \cup {Path}) /\ Tail(s2c) \in Seq(Message \cup {Path})
          BY <1>t, <3>1, Messages, FirstReply
        <4> QED
          BY <3>1, <4>1
      <3> QED
        BY <1>t, <1>5, <3>1 DEF GetAbandon, TypeOK
    <2> QED
      BY <1>t, <1>5, <2>1 DEF TypeOK, GetAbandon, getServer
  <1>6. CASE GetBody
    <2> DEFINE m == Head(s2c)
    <2>1. s2c' \in Seq(Message \cup {Path}) /\ m \in Message \cup {Path} /\ m.kind = "body"
      BY <1>t, <1>6, FirstReply DEF GetBody
    <2>2. m \in Message
      BY <2>1 DEF Path
    <2>3. m.data \in Content
      BY <2>1, <2>2, Fields
    <2>5. \A w \in Writes(m.data) : w.file \in Seq(Content \cup {Cut}) /\ (w.check >= 0) \in BOOLEAN
      BY <1>t, <2>3, WritesType
    <2>6. copy' \in Seq(Content \cup {Cut}) /\ \E ok \in BOOLEAN : Verdict(ok)
      <3>1. CASE Accepts(key, m.data, m.sign)
        <4>1. PICK w \in Writes(m.data) : copy' = w.file /\ Verdict(w.check >= 0)
          BY <1>6, <3>1 DEF GetBody
        <4> QED
          BY <2>5, <4>1
      <3>2. CASE ~Accepts(key, m.data, m.sign)
        BY <1>t, <1>6, <3>2 DEF GetBody, TypeOK
      <3> QED
        BY <3>1, <3>2
    <2>7. /\ success' \in {0, 1} /\ left' \in Int /\ c2s' \in Seq(Message)
          /\ cpc' \in {"prompt", "check", "info", "end", "pwd", "gone"} /\ cUp' \in BOOLEAN
      BY <1>t, <2>6, VerdictType
    <2> QED
      BY <1>t, <1>6, <2>1, <2>6, <2>7 DEF TypeOK, GetBody, getServer
  <1>22. CASE GetEmptyBody
    <2>u. /\ UNCHANGED <<spc, s2c, testing, key, info, filelen, exists, verdict, asked>>
          /\ UNCHANGED <<rst, getServer>>
      BY <1>22 DEF GetEmptyBody
    <2>1. CASE cpc' = "gone" /\ cUp' = FALSE /\ UNCHANGED <<c2s, copy, success, left>>
      <3>1. cUp' \in BOOLEAN /\ rst' \in BOOLEAN
        BY <1>t, <2>u, <2>1 DEF TypeOK
      <3> QED
        BY <1>t, <2>u, <2>1, <3>1 DEF TypeOK, getServer
    <2>2. CASE Verdict(FALSE) /\ UNCHANGED copy
      <3>1. /\ success' \in {0, 1} /\ left' \in Int /\ c2s' \in Seq(Message)
            /\ cpc' \in {"prompt", "check", "info", "end", "pwd", "gone"} /\ cUp' \in BOOLEAN
        BY <1>t, <2>2, VerdictType
      <3> QED
        BY <1>t, <2>u, <2>2, <3>1 DEF TypeOK, getServer
    <2>3. CASE \E w \in (IF info.file > 0 THEN Writes(Cut) ELSE {[file |-> copy, check |-> 1]}) :
                 copy' = w.file /\ Verdict(w.check >= 0)
      <3>1. PICK w \in (IF info.file > 0 THEN Writes(Cut) ELSE {[file |-> copy, check |-> 1]}) :
              copy' = w.file /\ Verdict(w.check >= 0)
        BY <2>3
      <3>2. w.file \in Seq(Content \cup {Cut}) /\ (w.check >= 0) \in BOOLEAN
        <4>1. CASE info.file > 0
          BY <1>t, <3>1, <4>1, WritesType
        <4>2. CASE ~(info.file > 0)
          BY <1>t, <3>1, <4>2 DEF TypeOK
        <4> QED
          BY <4>1, <4>2
      <3>3. /\ success' \in {0, 1} /\ left' \in Int /\ c2s' \in Seq(Message)
            /\ cpc' \in {"prompt", "check", "info", "end", "pwd", "gone"} /\ cUp' \in BOOLEAN
        BY <1>t, <3>1, <3>2, VerdictType
      <3> QED
        BY <1>t, <2>u, <3>1, <3>2, <3>3 DEF TypeOK, getServer
    <2> QED
      BY <1>22, <2>1, <2>2, <2>3 DEF GetEmptyBody
  <1>7. CASE GetEnd
    <2>1. success' \in {0, 1}
      BY <1>t, <1>7 DEF GetEnd, TypeOK
    <2>2. Append(c2s, Num(success')) \in Seq(Message)
      BY <1>t, <2>1, Messages, Sent DEF TypeOK
    <2>3. exists' \in BOOLEAN /\ copy' \in Seq(Content \cup {Cut})
      BY <1>t, <1>7 DEF GetEnd, TypeOK, Keeps
    <2>4. /\ c2s' \in Seq(Message) /\ cUp' \in BOOLEAN
          /\ cpc' \in {"prompt", "check", "info", "end", "pwd", "gone"}
      BY <1>t, <1>7, <2>2, ClientSendType DEF GetEnd
    <2> QED
      BY <1>t, <1>7, <2>1, <2>3, <2>4 DEF TypeOK, GetEnd, getServer
  <1>8. CASE PwdStart
    <2>1. Append(c2s, Cmd("pwd")) \in Seq(Message)
      BY <1>t, Messages, Sent DEF TypeOK
    <2>2. /\ c2s' \in Seq(Message) /\ cUp' \in BOOLEAN
          /\ cpc' \in {"prompt", "check", "info", "end", "pwd", "gone"}
      BY <1>t, <1>8, <2>1, ClientSendType DEF PwdStart
    <2> QED
      BY <1>t, <1>8, <2>2 DEF TypeOK, PwdStart, getServer
  <1>9. CASE PwdReturns
    <2>1. s2c' \in Seq(Message \cup {Path})
      BY <1>t, <1>9, FirstReply DEF PwdReturns, TypeOK
    <2> QED
      BY <1>t, <1>9, <2>1 DEF TypeOK, PwdReturns, getClient, getServer
  <1>10. CASE ServGet
    <2>1. c2s' \in Seq(Message)
      BY <1>t, <1>10, FirstMessage DEF ServGet
    <2> QED
      BY <1>t, <1>10, <2>1, OpenType DEF TypeOK, ServGet, getClient
  <1>11. CASE ServPwd
    <2>1. c2s' \in Seq(Message)
      BY <1>t, <1>11, FirstMessage DEF ServPwd
    <2> QED
      BY <1>t, <1>11, <2>1, SendType DEF TypeOK, ServPwd, getClient, getServer
  <1>12. CASE ServLeftover
    <2>1. c2s' \in Seq(Message)
      BY <1>t, <1>12, FirstMessage DEF ServLeftover
    <2> QED
      BY <1>t, <1>12, <2>1, OpenType DEF TypeOK, ServLeftover, getClient
  <1>13. CASE ServSize
    <2>1. Num(Len(src)) \in Message
      BY <1>t, Messages DEF TypeOK
    <2> QED
      BY <1>t, <1>13, <2>1, SendType DEF TypeOK, ServSize, getClient, getServer
  <1>14. CASE ServInfo
    <2>1. src[sent + 1] \in Content
      BY <1>t, <1>14 DEF ServInfo, TypeOK
    <2>2. ("nosign" \in Faults) \in BOOLEAN
      OBVIOUS
    <2>3. sign' \in Signs /\ Len(sign') \in {0, 1}
      BY <1>14, <2>1, <2>2, SignatureType DEF ServInfo
    <2>4. Info(1, Len(sign')) \in Message
      BY <2>3, Messages
    <2>5. /\ spc' \in {"cmd", "size", "read", "data", "wait", "final", "killed"}
          /\ s2c' \in Seq(Message \cup {Path}) /\ rst' \in BOOLEAN
      BY <1>t, <1>14, <2>4, SendType DEF ServInfo
    <2> QED
      BY <1>t, <1>14, <2>3, <2>5 DEF TypeOK, ServInfo, getClient
  <1>15. CASE ServData
    <2>1. CASE \E data \in Payload : ServerSend(Body(data, sign), "wait") /\ UNCHANGED status
      <3>1. PICK data \in Payload : ServerSend(Body(data, sign), "wait") /\ UNCHANGED status
        BY <2>1
      <3>2. data \in Content
        <4>1. src[sent] \in Content
          BY <1>t, <1>15 DEF TypeInvariant, TypeOK, Reads, ServData
        <4> QED
          BY <3>1, <4>1 DEF Payload
      <3>3. Body(data, sign) \in Message
        BY <1>t, <3>2, Messages DEF TypeOK
      <3>4. /\ spc' \in {"cmd", "size", "read", "data", "wait", "final", "killed"}
            /\ s2c' \in Seq(Message \cup {Path}) /\ rst' \in BOOLEAN
        BY <1>t, <3>1, <3>3, SendType
      <3> QED
        BY <1>t, <1>15, <3>1, <3>4 DEF TypeOK, ServData, getClient
    <2>2. CASE status' = 0 /\ spc' = "final" /\ UNCHANGED <<s2c, rst>>
      BY <1>t, <1>15, <2>2 DEF TypeOK, ServData, getClient
    <2>3. CASE status' = 0 /\ spc' = "wait" /\ UNCHANGED <<s2c, rst>>
      BY <1>t, <1>15, <2>3 DEF TypeOK, ServData, getClient
    <2> QED
      BY <1>15, <2>1, <2>2, <2>3 DEF ServData
  <1>16. CASE ServStatus
    BY <1>t, <1>16, StatusType DEF TypeOK, ServStatus, getClient
  <1>17. CASE ServEndOfFile
    BY <1>t, <1>17 DEF TypeOK, ServEndOfFile, getClient, getServer
  <1>18. CASE ServFinal
    BY <1>t, <1>18, StatusType DEF TypeOK, ServFinal, getClient
  <1>19. CASE ServerHangup /\ UNCHANGED <<getClient, getServer>>
    BY <1>t, <1>19 DEF TypeOK, ServerHangup, getClient, getServer
  <1>20. CASE ClientQuit /\ UNCHANGED <<getClient, getServer>>
    <2>1. rst' \in BOOLEAN
      BY <1>20, Zenon DEF ClientQuit
    <2>2. cpc' = "gone" /\ cUp' \in BOOLEAN /\ s2c' = <<>> /\ UNCHANGED <<spc, c2s, getClient, getServer>>
      BY <1>20 DEF ClientQuit
    <2> QED
      BY <1>t, <2>1, <2>2 DEF TypeOK, getClient, getServer
  <1>23. CASE Environment
    <2>1. /\ spc' = "killed" /\ c2s' = <<>> /\ (s2c' = s2c \/ s2c' = <<>>)
          /\ UNCHANGED <<cpc, cUp, rst, getClient, getServer>>
      BY <1>23 DEF Environment, ServerDies, ProcessEnds
    <2>2. <<>> \in Seq(Message) /\ <<>> \in Seq(Message \cup {Path})
      OBVIOUS
    <2>3. c2s' \in Seq(Message) /\ s2c' \in Seq(Message \cup {Path})
      BY <1>t, <2>1, <2>2 DEF TypeOK
    <2>4. cUp' \in BOOLEAN /\ rst' \in BOOLEAN
      BY <1>t, <2>1 DEF TypeOK
    <2> QED
      BY <1>t, <2>1, <2>3, <2>4 DEF TypeOK, getClient, getServer
  <1>21. CASE UNCHANGED vars
    BY <1>t, <1>21 DEF TypeOK, vars, connVars, getClient, getServer
  <1> QED
    BY <1>1, <1>2, <1>3, <1>4, <1>5, <1>6, <1>7, <1>8, <1>9, <1>10, <1>11, <1>12, <1>13,
       <1>14, <1>15, <1>16, <1>17, <1>18, <1>19, <1>20, <1>21, <1>22, <1>23
    DEF DownloadNext, ClientStep, ServerStep, User, Finished

\* The server reads its file up to its end and waits for verdicts on what it has read.
LEMMA ReadsStep ==
  ASSUME TypeOK, Reads, [DownloadNext]_vars
  PROVE  Reads'
  <1>1. CASE UNCHANGED <<src, sent>> /\ (spc' \notin {"data", "wait"} \/ spc' = spc)
    BY <1>1 DEF Reads
  <1>2. ASSUME Open PROVE Reads'
    <2>1. \/ UNCHANGED <<src, sent>>
          \/ sent' = 0 /\ src' \in Files
      BY <1>2 DEF Open
    <2>2. Len(src') \in Nat
      BY <2>1, ConnectionAssumption DEF TypeOK
    <2>3. spc' \notin {"data", "wait"}
      BY <1>2 DEF Open, ServerSend
    <2> QED
      BY <2>1, <2>2, <2>3 DEF Reads
  <1>3. CASE ServInfo
    <2>1. sent < Len(src) /\ sent' = sent + 1 /\ src' = src
      BY <1>3 DEF ServInfo
    <2> QED
      BY <2>1 DEF Reads, TypeOK
  <1>4. CASE ServData
    BY <1>4 DEF ServData, Reads
  <1>5. CASE ServGet \/ ServLeftover
    BY <1>2, <1>5 DEF ServGet, ServLeftover
  <1>6. CASE ServPwd \/ ServSize \/ ServStatus \/ ServEndOfFile \/ ServFinal
    <2>1. UNCHANGED <<src, sent>>
      BY <1>6 DEF ServPwd, ServSize, ServStatus, ServEndOfFile, ServFinal, getServer
    <2>2. spc' \notin {"data", "wait"}
      BY <1>6 DEF ServPwd, ServSize, ServStatus, ServEndOfFile, ServFinal, ServerSend
    <2> QED
      BY <1>1, <2>1, <2>2
  <1>7. CASE ServerHangup /\ UNCHANGED <<getClient, getServer>>
    BY <1>1, <1>7 DEF ServerHangup, getServer
  <1>8. CASE Environment
    BY <1>1, <1>8 DEF Environment, ServerDies, ProcessEnds, getServer
  <1>9. CASE ClientStep \/ User
    BY <1>1, <1>9
    DEF ClientStep, User, GetStart, GetCheck, GetSize, GetInfo, GetAbandon, GetBody, GetEmptyBody,
        GetEnd, PwdStart, PwdReturns, ClientQuit, getServer
  <1>10. CASE UNCHANGED vars
    BY <1>1, <1>10 DEF vars, connVars, getServer
  <1> QED
    BY <1>3, <1>4, <1>5, <1>6, <1>7, <1>8, <1>9, <1>10 DEF DownloadNext, ServerStep, Finished

\* The client of a server that has ended takes the server's last words in order.
LEMMA LastWordsStep ==
  ASSUME TypeInvariant, spc = "killed", LastWords, [DownloadNext]_vars
  PROVE  spc' = "killed" /\ LastWords'
  <1>t. TypeOK
    BY DEF TypeInvariant
  <1>a. ASSUME spc' = "killed", s2c' = <<>>, cpc' = "pwd" => verdict' # "none"
        PROVE  spc' = "killed" /\ LastWords'
    <2>1. Len(s2c') = 0
      BY <1>a
    <2> QED
      BY <1>a, <2>1 DEF LastWords
  <1>b. ASSUME spc' = "killed", ~Receiving', cpc' = "prompt" => verdict' # "none",
               cpc' = "pwd" => verdict' # "none"
        PROVE  spc' = "killed" /\ LastWords'
    BY <1>b DEF LastWords, Receiving
  <1>c. ASSUME Receiving, s2c # <<>>, s2c' = Tail(s2c), spc' = "killed",
               Receiving' => Taken' = Taken + 1, cpc' # "pwd",
               cpc' = "prompt" => verdict' # "none",
               cpc' = "body" => cpc = "info" /\ info' = Head(s2c).len
        PROVE  spc' = "killed" /\ LastWords'
    <2>1. /\ Head(s2c) = s2c[1] /\ Len(s2c) \in Nat /\ Len(s2c) >= 1 /\ Len(s2c') = Len(s2c) - 1
          /\ \A i \in 1 .. Len(s2c) - 1 : s2c'[i] = s2c[i + 1]
      BY <1>t, <1>c, FirstReply
    <2>2. Taken \in 0 .. 3
      BY <1>c DEF Taken, Receiving
    <2>3. ASSUME Receiving', NEW i \in 1 .. Len(s2c') PROVE KindAt(i)'
      <3>1. i + 1 \in 1 .. Len(s2c) /\ i \in Nat /\ s2c'[i] = s2c[i + 1]
        BY <2>1, <2>3
      <3>2. KindAt(i + 1)
        BY <1>c, <3>1 DEF LastWords
      <3>3. Taken' + i = Taken + (i + 1)
        BY <1>c, <2>2, <2>3, <3>1
      <3> QED
        BY <3>1, <3>2, <3>3 DEF KindAt
    <2>4. ASSUME cpc' = "body" PROVE info'.total # 0
      <3>1. cpc = "info" /\ info' = s2c[1].len /\ 1 \in 1 .. Len(s2c)
        BY <1>c, <2>1, <2>4
      <3>2. KindAt(1) /\ Taken = 2
        BY <1>c, <3>1 DEF LastWords, Taken
      <3> QED
        BY <3>1, <3>2 DEF KindAt
    <2> QED
      BY <1>c, <2>3, <2>4 DEF LastWords
  <1>1. ASSUME NEW test \in BOOLEAN, GetStart(test) PROVE spc' = "killed" /\ LastWords'
    <2>1. s2c' = <<>> /\ spc' = "killed" /\ cpc' \in {"check", "gone"}
      BY <1>1 DEF GetStart, ClientSends, LastWords
    <2> QED
      BY <1>a, <2>1
  <1>2. CASE GetCheck
    <2>1. /\ cpc = "check" /\ Receiving /\ spc' = "killed"
          /\ (cpc' = "prompt" /\ verdict' = "nofile") \/ cpc' = "size"
      BY <1>2 DEF GetCheck, Receiving
    <2>2. CASE s2c # <<>> /\ s2c' = Tail(s2c)
      BY <1>c, <2>1, <2>2 DEF Taken, Receiving
    <2>3. CASE s2c = <<>> /\ s2c' = s2c
      BY <1>a, <2>1, <2>3
    <2> QED
      BY <1>2, <2>2, <2>3 DEF GetCheck, ClientAtEof
  <1>3. CASE GetSize
    <2>1. cpc = "size" /\ Receiving /\ spc' = "killed" /\ cpc' \in {"info", "end"}
      BY <1>3 DEF GetSize, LoopHead, Receiving
    <2>2. CASE s2c # <<>> /\ s2c' = Tail(s2c)
      BY <1>c, <2>1, <2>2 DEF Taken, Receiving
    <2>3. CASE s2c = <<>> /\ s2c' = s2c
      BY <1>a, <2>1, <2>3
    <2> QED
      BY <1>3, <2>2, <2>3 DEF GetSize, ClientAtEof
  <1>4. CASE GetInfo
    <2>1. cpc = "info" /\ Receiving /\ spc' = "killed" /\ cpc' = "body"
      BY <1>4 DEF GetInfo, Receiving
    <2>2. CASE s2c # <<>> /\ info' = Head(s2c).len /\ s2c' = Tail(s2c)
      BY <1>c, <2>1, <2>2 DEF Taken
    <2>3. CASE s2c = <<>> /\ s2c' = s2c
      BY <1>a, <2>1, <2>3
    <2> QED
      BY <1>4, <2>2, <2>3 DEF GetInfo, ClientAtEof
  <1>5. CASE GetAbandon
    <2>1. spc' = "killed" /\ cpc' = "end"
      BY <1>5 DEF GetAbandon
    <2> QED
      BY <1>b, <2>1 DEF Receiving
  <1>v. ASSUME NEW ok, Verdict(ok) PROVE cpc' \in {"info", "end", "gone"}
    BY <1>v DEF Verdict, ClientSends, LoopHead
  <1>6. CASE GetBody
    <2>1. cpc = "body" /\ s2c # <<>> /\ s2c' = Tail(s2c) /\ spc' = "killed" /\ Receiving
      BY <1>6 DEF GetBody, Receiving
    <2>2. cpc' \in {"info", "end", "gone"}
      BY <1>6, <1>v DEF GetBody
    <2>3. Taken = 3 /\ Len(s2c) \in Nat /\ Len(s2c) >= 1
      BY <1>t, <2>1, FirstReply DEF Taken
    <2>4. Len(s2c) = 1
      <3>1. CASE Len(s2c) >= 2
        <4>1. 2 \in 1 .. Len(s2c)
          BY <2>3, <3>1
        <4>2. Taken + 2 <= 4
          BY <2>1, <4>1 DEF LastWords, KindAt
        <4> QED
          BY <2>3, <4>2
      <3> QED
        BY <2>3, <3>1
    <2>5. s2c' = <<>>
      BY <1>t, <2>1, <2>4, LastReceived DEF TypeOK
    <2> QED
      BY <1>a, <2>1, <2>2, <2>5
  <1>7. CASE GetEmptyBody
    <2>1. cpc = "body" /\ info.total = 0 /\ s2c' = s2c /\ spc' = "killed"
      BY <1>7 DEF GetEmptyBody
    <2>2. s2c' = <<>>
      BY <2>1 DEF LastWords
    <2>3. cpc' \in {"info", "end", "gone"}
      BY <1>7, <1>v DEF GetEmptyBody
    <2> QED
      BY <1>a, <2>1, <2>2, <2>3
  <1>8. CASE GetEnd
    <2>1. spc' = "killed" /\ verdict' # "none" /\ cpc' \in {"prompt", "gone"}
      BY <1>8 DEF GetEnd, ClientSends
    <2> QED
      BY <1>b, <2>1 DEF Receiving
  <1>9. CASE PwdStart \/ PwdReturns
    <2>1. spc' = "killed" /\ verdict' # "none" /\ cpc' \in {"prompt", "pwd", "gone"}
      BY <1>9 DEF PwdStart, PwdReturns, ClientSends, LastWords, getClient
    <2> QED
      BY <1>b, <2>1 DEF Receiving
  <1>10. CASE ClientQuit /\ UNCHANGED <<getClient, getServer>>
    <2>1. spc' = "killed" /\ cpc' = "gone"
      BY <1>10 DEF ClientQuit
    <2> QED
      BY <1>b, <2>1 DEF Receiving
  <1>11. CASE ServerStep
    BY <1>11
    DEF ServerStep, ServGet, ServPwd, ServLeftover, ServSize, ServInfo, ServData, ServStatus,
        ServEndOfFile, ServFinal, ServerHangup
  <1>12. CASE Environment
    BY <1>12 DEF Environment, ServerDies
  <1>13. CASE UNCHANGED vars
    <2>1. UNCHANGED <<cpc, spc, s2c, info, verdict>>
      BY <1>13 DEF vars, connVars, getClient
    <2> QED
      BY <2>1 DEF LastWords, KindAt, Receiving, Taken
  <1> QED
    BY <1>1, <1>2, <1>3, <1>4, <1>5, <1>6, <1>7, <1>8, <1>9, <1>10, <1>11, <1>12, <1>13
    DEF DownloadNext, ClientStep, User, Finished

\* A client that is there has a server, as long as the server's process stays.
LEMMA ServerThereStep ==
  ASSUME TypeOK, StopAndWait, ServerThere, [DownloadNext]_vars, ~Environment
  PROVE  ServerThere'
  <1>1. CASE ClientStep \/ User
    <2>1. spc' = spc /\ (cUp' => cUp)
      BY <1>1
      DEF ClientStep, User, GetStart, GetCheck, GetSize, GetInfo, GetAbandon, GetBody, Verdict,
          GetEmptyBody, GetEnd, PwdStart, PwdReturns, ClientQuit, ClientSends
    <2> QED
      BY <2>1 DEF ServerThere
  <1>2. CASE ServerStep
    <2>1. cUp' = cUp /\ (cUp => spc' \notin {"gone", "killed"})
      BY <1>2
      DEF ServerStep, ServGet, ServPwd, ServLeftover, Open, ServSize, ServInfo, ServData,
          ServStatus, ServEndOfFile, ServFinal, ServerHangup, ServerAtEof, ServerSend
    <2> QED
      BY <2>1 DEF ServerThere
  <1>3. CASE UNCHANGED vars
    BY <1>3 DEF vars, connVars, ServerThere
  <1> QED
    BY <1>1, <1>2, <1>3 DEF DownloadNext, Finished

\* What the end of the server's process leaves in the stream to the client.
LEMMA ServerDiesStep ==
  ASSUME TypeInvariant, ServerDies, UNCHANGED <<getClient, getServer>>
  PROVE  spc' = "killed" /\ LastWords'
  <1>1. spc' = "killed" /\ UNCHANGED <<cpc, info, verdict>> /\ (s2c' = s2c \/ s2c' = <<>>)
    BY DEF ServerDies, ProcessEnds, getClient
  <1>2. CASE s2c' = s2c
    <2>1. /\ Receiving => \A i \in 1 .. Len(s2c) : KindAt(i)
          /\ cpc = "body" /\ s2c # <<>> => info.total # 0
          /\ cpc = "prompt" /\ verdict = "none" => s2c = <<>>
          /\ cpc = "pwd" => verdict # "none"
      BY KindsInOrder
    <2> QED
      BY <1>1, <1>2, <2>1 DEF LastWords, KindAt, Receiving, Taken
  <1>3. CASE s2c' = <<>>
    <2>1. Len(s2c') = 0 /\ (cpc' = "pwd" => verdict' # "none")
      BY <1>1, <1>3, KindsInOrder
    <2> QED
      BY <1>1, <1>3, <2>1 DEF LastWords
  <1> QED
    BY <1>1, <1>2, <1>3

----------------------------------------------------------------------------
(* Stop and wait: the client's steps. *)

\* The two commands are not the same message, nor are a command and a number.
LEMMA CommandNames ==
  /\ Cmd("get") # Cmd("pwd")
  /\ Cmd("get").kind = "cmd" /\ Cmd("pwd").kind = "cmd"
  /\ \A n : Num(n).kind = "num" /\ Num(n).num = n
  /\ Rest.kind = "rest"
  BY DEF Cmd, Num, Rest

\* Receiving a command shifts the stream by one place.
LEMMA Consumed ==
  ASSUME TypeOK, c2s # <<>>, c2s' = Tail(c2s)
  PROVE  /\ Head(c2s) = c2s[1] /\ Len(c2s) \in Nat /\ Len(c2s) >= 1 /\ Len(c2s') = Len(c2s) - 1
         /\ \A i \in 1 .. Len(c2s') : i + 1 \in 1 .. Len(c2s) /\ c2s'[i] = c2s[i + 1]
         /\ Len(c2s) = 1 => c2s' = <<>>
  <1>1. /\ Head(c2s) = c2s[1] /\ Len(c2s) \in Nat /\ Len(c2s) >= 1
        /\ Len(c2s') = Len(c2s) - 1 /\ \A i \in 1 .. Len(c2s) - 1 : c2s'[i] = c2s[i + 1]
    BY FirstMessage
  <1>2. Len(c2s) = 1 => c2s' = <<>>
    BY LastReceived DEF TypeOK
  <1> QED
    BY <1>1, <1>2

\* Receiving a reply, likewise.
LEMMA ConsumedReply ==
  ASSUME TypeOK, s2c # <<>>, s2c' = Tail(s2c)
  PROVE  /\ Head(s2c) = s2c[1] /\ Len(s2c) \in Nat /\ Len(s2c) >= 1 /\ Len(s2c') = Len(s2c) - 1
         /\ \A i \in 1 .. Len(s2c') : i + 1 \in 1 .. Len(s2c) /\ s2c'[i] = s2c[i + 1]
         /\ Len(s2c) = 1 => s2c' = <<>>
  <1>1. /\ Head(s2c) = s2c[1] /\ Len(s2c) \in Nat /\ Len(s2c) >= 1
        /\ Len(s2c') = Len(s2c) - 1 /\ \A i \in 1 .. Len(s2c) - 1 : s2c'[i] = s2c[i + 1]
    BY FirstReply
  <1>2. Len(s2c) = 1 => s2c' = <<>>
    BY LastReceived DEF TypeOK
  <1> QED
    BY <1>1, <1>2

\* Sending a command puts it at the end.
LEMMA CommandSent ==
  ASSUME TypeOK, NEW m \in Message, c2s' = Append(c2s, m)
  PROVE  /\ Len(c2s) \in Nat /\ Len(c2s') = Len(c2s) + 1 /\ c2s'[Len(c2s) + 1] = m
         /\ \A i \in 1 .. Len(c2s) : c2s'[i] = c2s[i]
         /\ c2s = <<>> => c2s' = <<m>> /\ Len(c2s') = 1 /\ c2s'[1] = m
  <1>1. /\ Len(c2s) \in Nat /\ Len(c2s') = Len(c2s) + 1 /\ c2s'[Len(c2s) + 1] = m
        /\ \A i \in 1 .. Len(c2s) : c2s'[i] = c2s[i]
    BY Sent DEF TypeOK
  <1>2. c2s = <<>> => c2s' = <<m>>
    OBVIOUS
  <1> QED
    BY <1>1, <1>2

\* Sending a reply puts it at the end, if the client is still there.
LEMMA ReplySent ==
  ASSUME TypeOK, NEW m \in Message \cup {Path}, NEW pc, ServerSend(m, pc)
  PROVE  \/ /\ cUp /\ spc' = pc
            /\ Len(s2c) \in Nat /\ Len(s2c') = Len(s2c) + 1 /\ s2c'[Len(s2c) + 1] = m
            /\ \A i \in 1 .. Len(s2c) : s2c'[i] = s2c[i]
            /\ s2c = <<>> => s2c' = <<m>>
         \/ ~cUp /\ s2c' = s2c /\ spc' \in {pc, "killed"}
  <1>1. /\ Len(s2c) \in Nat /\ Len(Append(s2c, m)) = Len(s2c) + 1
        /\ Append(s2c, m)[Len(s2c) + 1] = m
        /\ \A i \in 1 .. Len(s2c) : Append(s2c, m)[i] = s2c[i]
    BY Sent DEF TypeOK
  <1>2. s2c = <<>> => Append(s2c, m) = <<m>>
    OBVIOUS
  <1> QED
    BY <1>1, <1>2 DEF ServerSend

\* A client that is neither in the loop nor at its end has no part in these.
LEMMA OutOfLoop ==
  ASSUME cpc' \in {"prompt", "pwd", "gone"}
  PROVE  StreamInOrder' /\ InStep' /\ LoopDone'
  BY DEF StreamInOrder, InStep, LoopDone, Receiving

\* A client that is there sends to a server and receives from it.
LEMMA Heard ==
  ASSUME ServerThere, StopAndWait, cpc # "gone"
  PROVE  /\ spc \notin {"gone", "killed"} /\ ~ClientAtEof
         /\ \A stream, pc : ClientSends(stream, pc) => c2s' = stream /\ cpc' = pc /\ cUp' = cUp
  <1>1. spc \notin {"gone", "killed"}
    BY DEF ServerThere, StopAndWait, ClientKnows
  <1> QED
    BY <1>1 DEF ClientAtEof, ClientSends

\* What get_file does with the verdict on a fragment, then.
LEMMA Judged ==
  ASSUME TypeOK, ServerThere, StopAndWait, cpc # "gone", NEW ok \in BOOLEAN, Verdict(ok)
  PROVE  /\ success' = (IF ok THEN success ELSE 0) /\ left' = left - info.file
         /\ c2s' = Append(c2s, Num(success')) /\ cUp' = cUp
         /\ cpc' = (IF success' = 0 THEN "end" ELSE LoopHead(left'))
  <1> DEFINE pc == IF success' = 0 THEN "end" ELSE LoopHead(left')
  <1>1. ClientSends(Append(c2s, Num(success')), pc)
    BY DEF Verdict
  <1>2. c2s' = Append(c2s, Num(success')) /\ cpc' = pc /\ cUp' = cUp
    <2> HIDE DEF pc
    <2> QED
      BY <1>1, Heard
  <1>3. success' = (IF ok THEN success ELSE 0) /\ left' = left - info.file
    BY DEF Verdict
  <1> QED
    BY <1>2, <1>3

\* An info that has come from the server is not that of an empty fragment.
LEMMA NoEmptyBody ==
  ASSUME TypeOK, StopAndWait
  PROVE  ~GetEmptyBody
  <1> SUFFICES ASSUME GetEmptyBody PROVE FALSE
    OBVIOUS
  <1>1. Len(sign) \in {0, 1}
    BY DEF TypeOK, Signs
  <1>2. cpc = "body" /\ info.total = 0
    BY DEF GetEmptyBody
  <1> QED
    BY <1>1, <1>2 DEF StopAndWait, ClientKnows, LengthInfo

LEMMA GetStartStep ==
  ASSUME TypeOK, ServerThere, StopAndWait, NEW test \in BOOLEAN, GetStart(test)
  PROVE  StopAndWait'
  <1>1. /\ c2s = <<>> /\ s2c = <<>> /\ spc = "cmd" /\ served = "none" /\ ~asked /\ ~exists /\ copy = <<>>
        /\ cpc = "prompt" /\ verdict = "none" /\ cUp = (cpc # "gone")
    BY DEF GetStart, StopAndWait, ClientKnows
  <1>a. c2s' = Append(c2s, Cmd("get")) /\ cpc' = "check" /\ cUp' = cUp
    BY <1>1, Heard DEF GetStart
  <1>2. c2s' = <<Cmd("get")>> /\ Len(c2s') = 1 /\ c2s'[1] = Cmd("get")
    BY <1>1, <1>a, CommandSent, Messages
  <1>3. /\ cpc' = "check" /\ success' = 1
        /\ UNCHANGED <<spc, s2c, cUp, exists, copy, verdict, asked, src, sent, sign, served>>
    BY <1>a DEF GetStart, getServer
  <1>4. StreamInOrder' /\ InStep' /\ LoopDone'
    BY <1>1, <1>2, <1>3 DEF StreamInOrder, InStep, LoopDone
  <1>5. ClientKnows'
    <2>1. cUp' = (cpc' # "gone")
      BY <1>1, <1>3
    <2> QED
      BY <1>1, <1>3, <2>1 DEF ClientKnows
  <1>6. CommandsInOrder'
    BY <1>1, <1>2, <1>3, CommandNames DEF CommandsInOrder, Asked
  <1>7. KeptIsSettled' /\ Reads'
    BY <1>1, <1>3 DEF StopAndWait, KeptIsSettled, Reads
  <1> QED
    BY <1>4, <1>5, <1>6, <1>7 DEF StopAndWait

LEMMA GetCheckStep ==
  ASSUME TypeOK, ServerThere, StopAndWait, GetCheck
  PROVE  StopAndWait'
  <1>1. /\ cpc = "check" /\ s2c # <<>> /\ s2c' = Tail(s2c) /\ Receiving
        /\ UNCHANGED <<spc, c2s, cUp, success, asked, src, sent, sign, served>>
    BY Heard DEF GetCheck, getServer, Receiving
  <1>2. c2s = <<>> /\ cUp = TRUE /\ (Head(s2c).num = 0 <=> spc = "cmd")
    BY <1>1, Expected
  <1>3. ~exists /\ copy = <<>> /\ success = 1 /\ verdict = "none" /\ ~asked /\ cUp = (cpc # "gone")
    BY <1>1 DEF StopAndWait, ClientKnows
  <1>4. /\ Len(s2c) \in Nat /\ Len(s2c') = Len(s2c) - 1
        /\ \A i \in 1 .. Len(s2c') : i + 1 \in 1 .. Len(s2c) /\ s2c'[i] = s2c[i + 1]
        /\ Len(s2c) = 1 => s2c' = <<>>
    BY <1>1, ConsumedReply
  <1>5. CommandsInOrder' /\ Reads'
    BY <1>1, <1>2 DEF StopAndWait, CommandsInOrder, Reads
  <1>6. cUp' = (cpc' # "gone")
    BY <1>1, <1>2 DEF GetCheck
  <1>7. CASE Head(s2c).num = 0
    <2>1. verdict' = "nofile" /\ cpc' = "prompt" /\ UNCHANGED <<exists, copy>>
      BY <1>1, <1>7 DEF GetCheck
    <2>2. ClientKnows' /\ KeptIsSettled'
      BY <1>1, <1>3, <1>6, <2>1 DEF ClientKnows, KeptIsSettled, Receiving
    <2> QED
      BY <1>5, <2>1, <2>2, OutOfLoop DEF StopAndWait
  <1>8. CASE Head(s2c).num # 0
    <2>1. exists' = TRUE /\ copy' = <<>> /\ cpc' = "size" /\ verdict' = verdict /\ spc # "cmd"
      BY <1>1, <1>2, <1>8 DEF GetCheck
    <2>2. StreamInOrder'
      <3> SUFFICES ASSUME NEW i \in 1 .. Len(s2c') PROVE (Taken + i <= 4 /\ Placed(i))'
        BY DEF StreamInOrder
      <3>1. Taken = 0 /\ Taken' = 1
        BY <1>1, <2>1 DEF Taken
      <3>2. Taken + (i + 1) <= 4 /\ Placed(i + 1) /\ s2c'[i] = s2c[i + 1] /\ i \in Nat /\ i >= 1
        BY <1>1, <1>4 DEF StopAndWait, StreamInOrder
      <3> QED
        BY <1>1, <3>1, <3>2 DEF Placed
    <2>3. InStep'
      <3>1. Taken = 0 /\ Taken' = 1
        BY <1>1, <2>1 DEF Taken
      <3> QED
        BY <1>1, <1>2, <1>3, <1>4, <2>1, <3>1 DEF StopAndWait, InStep
    <2>4. LoopDone' /\ ClientKnows' /\ KeptIsSettled'
      BY <1>1, <1>3, <1>6, <2>1 DEF LoopDone, ClientKnows, KeptIsSettled, Receiving
    <2> QED
      BY <1>5, <2>2, <2>3, <2>4 DEF StopAndWait
  <1> QED
    BY <1>7, <1>8

LEMMA GetSizeStep ==
  ASSUME TypeOK, ServerThere, StopAndWait, GetSize
  PROVE  StopAndWait'
  <1>1. /\ cpc = "size" /\ s2c # <<>> /\ s2c' = Tail(s2c) /\ Receiving
        /\ left' = Head(s2c).num /\ cpc' = LoopHead(left')
        /\ UNCHANGED <<spc, c2s, cUp, success, exists, copy, verdict, asked, src, sent, sign, served>>
    BY Heard DEF GetSize, getServer, Receiving
  <1>2. c2s = <<>> /\ cUp = TRUE /\ left' = Len(src)
    BY <1>1, Expected
  <1>3. exists /\ copy = <<>> /\ success = 1 /\ verdict = "none" /\ ~asked
    BY <1>1 DEF StopAndWait, ClientKnows
  <1>4. /\ Len(s2c) \in Nat /\ Len(s2c) >= 1 /\ Len(s2c') = Len(s2c) - 1
        /\ \A i \in 1 .. Len(s2c') : i + 1 \in 1 .. Len(s2c) /\ s2c'[i] = s2c[i + 1]
        /\ Len(s2c) = 1 => s2c' = <<>>
    BY <1>1, ConsumedReply
  <1>5. CommandsInOrder' /\ Reads'
    BY <1>1, <1>2 DEF StopAndWait, CommandsInOrder, Reads
  <1>6. cpc' \in {"info", "end"} /\ (cpc' = "info" <=> Len(src) > 0)
    BY <1>1, <1>2 DEF LoopHead
  <1>7. Taken = 1 /\ (cpc' = "info" => Taken' = 2) /\ Len(copy) = 0 /\ Len(src) \in Nat /\ sent \in Nat
    BY <1>1, <1>3 DEF Taken, TypeOK
  <1>8. StreamInOrder'
    <2> SUFFICES ASSUME cpc' = "info", NEW i \in 1 .. Len(s2c') PROVE (Taken + i <= 4 /\ Placed(i))'
      BY <1>6 DEF StreamInOrder, Receiving
    <2>1. Taken + (i + 1) <= 4 /\ Placed(i + 1) /\ s2c'[i] = s2c[i + 1] /\ i \in Nat /\ i >= 1
      BY <1>1, <1>4 DEF StopAndWait, StreamInOrder
    <2> QED
      BY <1>1, <1>7, <2>1 DEF Placed
  <1>9. InStep'
    BY <1>1, <1>2, <1>3, <1>4, <1>6, <1>7 DEF StopAndWait, InStep, Receiving
  <1>10. LoopDone'
    BY <1>1, <1>2, <1>3, <1>4, <1>6, <1>7 DEF StopAndWait, InStep, Receiving, LoopDone, Reads
  <1>11. ClientKnows' /\ KeptIsSettled'
    <2>1. cUp' = (cpc' # "gone")
      BY <1>1, <1>2, <1>6
    <2> QED
      BY <1>1, <1>2, <1>3, <1>6, <1>7, <2>1 DEF ClientKnows, KeptIsSettled, Receiving
  <1> QED
    BY <1>5, <1>8, <1>9, <1>10, <1>11 DEF StopAndWait

LEMMA GetInfoStep ==
  ASSUME TypeOK, ServerThere, StopAndWait, GetInfo
  PROVE  StopAndWait'
  <1>1. /\ cpc = "info" /\ s2c # <<>> /\ s2c' = Tail(s2c) /\ Receiving /\ cpc' = "body"
        /\ info' = Head(s2c).len /\ filelen' = info'.file
        /\ UNCHANGED <<spc, c2s, cUp, left, success, exists, copy, verdict, asked, src, sent, sign, served>>
    BY Heard DEF GetInfo, getServer, Receiving
  <1>2. c2s = <<>> /\ cUp = TRUE /\ info' = LengthInfo(1, Len(sign))
    BY <1>1, Expected
  <1>3. /\ exists /\ success = 1 /\ verdict = "none" /\ ~asked
        /\ left = Len(src) - Len(copy) /\ left > 0
    BY <1>1 DEF StopAndWait, ClientKnows
  <1>4. /\ Len(s2c) \in Nat /\ Len(s2c) >= 1 /\ Len(s2c') = Len(s2c) - 1
        /\ \A i \in 1 .. Len(s2c') : i + 1 \in 1 .. Len(s2c) /\ s2c'[i] = s2c[i + 1]
    BY <1>1, ConsumedReply
  <1>5. CommandsInOrder' /\ Reads'
    BY <1>1, <1>2 DEF StopAndWait, CommandsInOrder, Reads
  <1>7. Taken = 2 /\ Taken' = 3
    BY <1>1 DEF Taken
  <1>8. StreamInOrder'
    <2> SUFFICES ASSUME NEW i \in 1 .. Len(s2c') PROVE (Taken + i <= 4 /\ Placed(i))'
      BY DEF StreamInOrder
    <2>1. Taken + (i + 1) <= 4 /\ Placed(i + 1) /\ s2c'[i] = s2c[i + 1] /\ i \in Nat /\ i >= 1
      BY <1>1, <1>4 DEF StopAndWait, StreamInOrder
    <2> QED
      BY <1>1, <1>7, <2>1 DEF Placed
  <1>9. InStep' /\ LoopDone'
    BY <1>1, <1>2, <1>3, <1>4, <1>7 DEF StopAndWait, InStep, Receiving, LoopDone
  <1>11. ClientKnows' /\ KeptIsSettled'
    <2>1. cUp' = (cpc' # "gone")
      BY <1>1, <1>2
    <2>2. filelen' = 1
      BY <1>1, <1>2 DEF LengthInfo
    <2> QED
      BY <1>1, <1>2, <1>3, <2>1, <2>2 DEF ClientKnows, KeptIsSettled, Receiving
  <1> QED
    BY <1>5, <1>8, <1>9, <1>11 DEF StopAndWait

LEMMA GetAbandonStep ==
  ASSUME TypeOK, ServerThere, StopAndWait, GetAbandon
  PROVE  StopAndWait'
  <1>1. /\ cpc = "body" /\ cpc' = "end" /\ success' = 0 /\ Receiving
        /\ UNCHANGED <<spc, c2s, cUp, left, exists, copy, verdict, asked, src, sent, sign, served>>
    BY DEF GetAbandon, getServer, Receiving
  <1>2. exists /\ verdict = "none" /\ ~asked /\ cUp = (cpc # "gone")
    BY <1>1 DEF StopAndWait, ClientKnows
  <1>3. StreamInOrder' /\ InStep' /\ LoopDone'
    BY <1>1 DEF StreamInOrder, InStep, LoopDone, Receiving
  <1>4. ClientKnows' /\ KeptIsSettled'
    <2>1. cUp' = (cpc' # "gone")
      BY <1>1, <1>2
    <2> QED
      BY <1>1, <1>2, <2>1 DEF ClientKnows, KeptIsSettled, Receiving
  <1>5. CommandsInOrder' /\ Reads'
    BY <1>1 DEF StopAndWait, CommandsInOrder, Asked, Reads
  <1> QED
    BY <1>3, <1>4, <1>5 DEF StopAndWait

\* What the client adds to its copy is one fragment if it says so, and the server
\* waits for the verdict on it.
LEMMA FragmentTaken ==
  ASSUME TypeOK, ServerThere, StopAndWait, GetBody
  PROVE  /\ spc = "wait" /\ c2s = <<>> /\ cUp = TRUE /\ sent = Len(copy) + 1
         /\ s2c' = <<>> /\ info.file = 1
         /\ \E ok \in BOOLEAN : Verdict(ok) /\ (ok => Len(copy') = Len(copy) + 1)
  <1>1. cpc = "body" /\ s2c # <<>> /\ s2c' = Tail(s2c) /\ Receiving
    BY DEF GetBody, Receiving
  <1>2. c2s = <<>> /\ cUp = TRUE
    BY <1>1, Expected
  <1>3. /\ Len(s2c) \in Nat /\ Len(s2c) >= 1 /\ (Len(s2c) = 1 => s2c' = <<>>)
    BY <1>1, ConsumedReply
  <1>4. Taken = 3
    BY <1>1 DEF Taken
  <1>5. spc = "wait" /\ sent = Len(copy) + 1 /\ Len(s2c) = 1
    <2>1. \/ spc = "cmd"
          \/ cpc = "info"
          \/ 3 + Len(s2c) <= 3
          \/ spc = "wait" /\ 3 + Len(s2c) = 4 /\ sent = Len(copy) + 1
      BY <1>1, <1>4 DEF StopAndWait, InStep
    <2>2. spc = "cmd" => cpc = "check"
      BY <1>1 DEF StopAndWait, InStep
    <2>3. cpc # "info" /\ spc # "cmd"
      BY <1>1, <2>2
    <2>4. ~(3 + Len(s2c) <= 3)
      BY <1>3
    <2>5. spc = "wait" /\ 3 + Len(s2c) = 4 /\ sent = Len(copy) + 1
      BY <2>1, <2>3, <2>4
    <2>6. Len(s2c) = 1
      <3>1. \A n \in Nat : 3 + n = 4 => n = 1
        OBVIOUS
      <3> QED
        BY <1>3, <2>5, <3>1
    <2> QED
      BY <2>5, <2>6
  <1>6. info.file = 1
    <2>1. info = LengthInfo(1, Len(sign))
      BY <1>1 DEF StopAndWait, ClientKnows
    <2> QED
      BY <2>1 DEF LengthInfo
  <1>7. Head(s2c).data \in Content
    <2>1. Head(s2c) \in Message
      BY <1>1, FirstReply DEF GetBody, Path
    <2> QED
      BY <2>1, Fields DEF GetBody
  <1>8. \A w \in Writes(Head(s2c).data) : w.check >= 0 => Len(w.file) = Len(copy) + 1
    <2>1. /\ Len(Append(copy, Head(s2c).data)) = Len(copy) + 1
          /\ Len(Append(copy, Cut)) = Len(copy) + 1
      BY <1>7, Sent DEF TypeOK
    <2> QED
      BY <2>1 DEF Writes
  <1>9. \E ok \in BOOLEAN : Verdict(ok) /\ (ok => Len(copy') = Len(copy) + 1)
    <2>1. CASE Accepts(key, Head(s2c).data, Head(s2c).sign)
      <3>1. PICK w \in Writes(Head(s2c).data) : copy' = w.file /\ Verdict(w.check >= 0)
        BY <2>1 DEF GetBody
      <3>2. CASE w.check >= 0
        <4>1. Verdict(TRUE)
          BY <3>1, <3>2 DEF Verdict
        <4> QED
          BY <1>8, <3>1, <3>2, <4>1
      <3>3. CASE ~(w.check >= 0)
        <4>1. Verdict(FALSE)
          BY <3>1, <3>3 DEF Verdict
        <4> QED
          BY <4>1
      <3> QED
        BY <3>2, <3>3
    <2>2. CASE ~Accepts(key, Head(s2c).data, Head(s2c).sign)
      BY <2>2 DEF GetBody
    <2> QED
      BY <2>1, <2>2
  <1> QED
    BY <1>1, <1>2, <1>3, <1>5, <1>6, <1>9

LEMMA GetBodyStep ==
  ASSUME TypeOK, ServerThere, StopAndWait, GetBody
  PROVE  StopAndWait'
  <1>1. /\ cpc = "body" /\ Receiving
        /\ UNCHANGED <<spc, info, filelen, exists, verdict, asked, src, sent, sign, served>>
    BY DEF GetBody, getServer, Receiving
  <1>2. /\ spc = "wait" /\ c2s = <<>> /\ cUp = TRUE /\ sent = Len(copy) + 1
        /\ s2c' = <<>> /\ info.file = 1
    BY FragmentTaken
  <1>3. PICK ok \in BOOLEAN : Verdict(ok) /\ (ok => Len(copy') = Len(copy) + 1)
    BY FragmentTaken
  <1>4. /\ exists /\ success = 1 /\ verdict = "none" /\ ~asked
        /\ left = Len(src) - Len(copy) /\ left > 0
    BY <1>1 DEF StopAndWait, ClientKnows
  <1>5. /\ success' = (IF ok THEN 1 ELSE 0) /\ left' = left - 1
        /\ c2s' = Append(c2s, Num(success')) /\ cUp' = cUp
        /\ cpc' = IF success' = 0 THEN "end" ELSE LoopHead(left')
    BY <1>1, <1>2, <1>3, <1>4, Judged
  <1>6. Len(c2s') = 1 /\ c2s'[1].kind = "num" /\ c2s'[1].num = success'
    <2>1. Num(success') \in Message
      BY <1>5, Messages
    <2> QED
      BY <1>2, <1>5, <2>1, CommandSent, CommandNames
  <1>7. Len(s2c') = 0 /\ Len(copy) \in Nat /\ Len(src) \in Nat
    BY <1>2 DEF TypeOK
  <1>8. CommandsInOrder' /\ Reads'
    BY <1>1, <1>6 DEF StopAndWait, CommandsInOrder, Asked, Reads, Cmd
  <1>9. cpc' \in {"info", "end"} /\ (cpc' = "info" => Taken' = 2)
    BY <1>5 DEF LoopHead, Taken
  <1>10. cUp' = (cpc' # "gone")
    BY <1>2, <1>5, <1>9
  <1>11. CASE ok
    <2>1. success' = 1 /\ Len(copy') = Len(copy) + 1 /\ sent' = Len(copy')
          /\ left' = Len(src) - Len(copy') /\ cpc' = LoopHead(left')
      BY <1>1, <1>2, <1>3, <1>4, <1>5, <1>7, <1>11
    <2>2. StreamInOrder' /\ InStep'
      BY <1>1, <1>2, <1>6, <1>7, <1>9, <2>1 DEF StreamInOrder, InStep, Receiving
    <2>3. LoopDone'
      BY <1>1, <1>2, <1>4, <1>6, <1>7, <1>9, <2>1 DEF LoopDone, LoopHead
    <2>4. ClientKnows' /\ KeptIsSettled'
      BY <1>1, <1>4, <1>9, <1>10, <2>1 DEF ClientKnows, KeptIsSettled, Receiving, LoopHead
    <2> QED
      BY <1>8, <2>2, <2>3, <2>4 DEF StopAndWait
  <1>12. CASE ~ok
    <2>1. success' = 0 /\ cpc' = "end"
      BY <1>5, <1>12
    <2>2. StreamInOrder' /\ InStep' /\ LoopDone'
      BY <2>1 DEF StreamInOrder, InStep, LoopDone, Receiving
    <2>3. ClientKnows' /\ KeptIsSettled'
      BY <1>1, <1>4, <1>10, <2>1 DEF ClientKnows, KeptIsSettled, Receiving
    <2> QED
      BY <1>8, <2>2, <2>3 DEF StopAndWait
  <1> QED
    BY <1>11, <1>12

\* A client that has left the loop without an error closes the download.
LEMMA EndSettles ==
  ASSUME TypeOK, ServerThere, StopAndWait, GetEnd, success = 1
  PROVE  Settled'
  <1>1. /\ cpc = "end" /\ verdict' = (IF Keeps THEN "ok" ELSE "failed")
        /\ success' = (IF Keeps THEN 1 ELSE 0) /\ c2s' = Append(c2s, Num(success'))
        /\ UNCHANGED <<spc, src, sent, served>>
    BY Heard DEF GetEnd, getServer
  <1>2. /\ sent = Len(src)
        /\ \/ spc = "wait" /\ Len(c2s) = 1 /\ c2s[1].kind = "num" /\ c2s[1].num # 0
           \/ spc \in {"read", "final"} /\ c2s = <<>>
    BY <1>1 DEF StopAndWait, LoopDone
  <1>3. Num(success') \in Message
    BY <1>1, Messages
  <1>4. /\ Len(c2s) \in Nat /\ Len(c2s') = Len(c2s) + 1 /\ c2s'[Len(c2s) + 1] = Num(success')
        /\ \A i \in 1 .. Len(c2s) : c2s'[i] = c2s[i]
    BY <1>1, <1>3, CommandSent
  <1>5. /\ c2s'[Len(c2s) + 1].kind = "num"
        /\ c2s'[Len(c2s) + 1].num # 0 <=> verdict' = "ok"
    BY <1>1, <1>4, CommandNames
  <1>6. CASE spc = "wait"
    <2>a. Len(c2s) = 1
      BY <1>2, <1>6
    <2>1. Len(c2s') = 2 /\ c2s'[1] = c2s[1] /\ Closes(2)'
      <3>1. Len(c2s) + 1 = 2
        BY <2>a
      <3> QED
        BY <1>4, <1>5, <2>a, <3>1 DEF Closes
    <2> QED
      BY <1>1, <1>2, <1>6, <2>1 DEF Settled
  <1>7. CASE spc \in {"read", "final"}
    <2>1. Len(c2s') = 1 /\ Closes(1)'
      BY <1>2, <1>4, <1>5, <1>7 DEF Closes
    <2> QED
      BY <1>1, <1>2, <1>7, <2>1 DEF Settled
  <1> QED
    BY <1>2, <1>6, <1>7

LEMMA GetEndStep ==
  ASSUME TypeOK, ServerThere, StopAndWait, GetEnd
  PROVE  StopAndWait'
  <1>1. /\ cpc = "end" /\ cpc' = "prompt" /\ c2s' = Append(c2s, Num(success'))
        /\ verdict' = (IF Keeps THEN "ok" ELSE "failed")
        /\ exists' = Keeps /\ copy' = (IF Keeps THEN copy ELSE <<>>)
        /\ success' = (IF Keeps THEN success ELSE 0)
        /\ UNCHANGED <<spc, s2c, cUp, asked, src, sent, sign, served>>
    BY Heard DEF GetEnd, getServer
  <1>2. /\ exists /\ verdict = "none" /\ ~asked /\ cUp = (cpc # "gone")
    BY <1>1 DEF StopAndWait, ClientKnows
  <1>3. Num(success') \in Message
    <2>1. success' \in Int
      BY <1>1 DEF TypeOK
    <2> QED
      BY <2>1, Messages
  <1>4. /\ Len(c2s) \in Nat /\ Len(c2s') = Len(c2s) + 1 /\ c2s'[Len(c2s) + 1].kind = "num"
        /\ \A i \in 1 .. Len(c2s) : c2s'[i] = c2s[i]
    BY <1>1, <1>3, CommandSent, CommandNames
  <1>5. CommandsInOrder'
    <2> SUFFICES ASSUME NEW i \in 1 .. Len(c2s') PROVE Asked(i)'
      BY DEF CommandsInOrder
    <2>1. CASE i = Len(c2s) + 1
      BY <1>4, <2>1, CommandNames DEF Asked
    <2>2. CASE i \in 1 .. Len(c2s)
      <3>1. Asked(i) /\ c2s'[i] = c2s[i]
        BY <1>4, <2>2 DEF StopAndWait, CommandsInOrder
      <3>2. c2s[i].kind = "num"
        BY <1>2, <3>1 DEF Asked
      <3> QED
        BY <3>1, <3>2, CommandNames DEF Asked
    <2> QED
      BY <1>4, <2>1, <2>2
  <1>6. ClientKnows'
    <2>1. cUp' = (cpc' # "gone")
      BY <1>1, <1>2
    <2> QED
      BY <1>1, <1>2, <2>1 DEF ClientKnows, Receiving
  <1>7. KeptIsSettled'
    <2> SUFFICES ASSUME verdict' = "ok" PROVE Settled' /\ exists' /\ Len(copy)' = Len(src)'
      BY DEF KeptIsSettled
    <2>1. Keeps /\ success = 1 /\ copy' = copy /\ exists'
      BY <1>1 DEF Keeps, TypeOK
    <2>2. Len(copy) = Len(src)
      BY <1>1, <2>1 DEF StopAndWait, LoopDone
    <2> QED
      BY <1>1, <2>1, <2>2, EndSettles
  <1>8. Reads'
    BY <1>1 DEF StopAndWait, Reads
  <1> QED
    BY <1>1, <1>5, <1>6, <1>7, <1>8, OutOfLoop DEF StopAndWait

----------------------------------------------------------------------------
(* Stop and wait: after the client's last word. *)

\* The server takes the next message of its stream, or is at the end of it.
LEMMA StatusTaken ==
  ASSUME TypeOK, RecvStatus
  PROVE  \/ /\ c2s # <<>> /\ c2s[1].kind = "num" /\ c2s' = Tail(c2s) /\ status' = c2s[1].num
         \/ /\ c2s # <<>> /\ c2s[1].kind = "cmd" /\ status' = 1 /\ c2s' = <<Rest>> \o Tail(c2s)
         \/ c2s = <<>> /\ ~cUp /\ c2s' = c2s /\ status' = status
  BY FirstMessage DEF RecvStatus, ServerAtEof

\* Once the client has said its last word both ends stay settled, and the file that
\* is served stays the one that was downloaded.
LEMMA SettledStep ==
  ASSUME TypeOK, ServerThere, StopAndWait, verdict # "none", Settled,
         verdict = "nofile" => spc \in {"cmd", "gone", "killed"},
         \A i \in 1 .. Len(c2s) : c2s[i].kind # "rest",
         [DownloadNext]_vars, ~Environment
  PROVE  /\ UNCHANGED <<verdict, exists, copy, src>>
         /\ Settled'
         /\ verdict' = "nofile" => spc' \in {"cmd", "gone", "killed"}
         /\ \A i \in 1 .. Len(c2s') : c2s'[i].kind # "rest"
<1> DEFINE Stays == /\ UNCHANGED <<verdict, exists, copy, src>>
                    /\ Settled'
                    /\ verdict' = "nofile" => spc' \in {"cmd", "gone", "killed"}
                    /\ \A i \in 1 .. Len(c2s') : c2s'[i].kind # "rest"
<1>a. cpc \notin {"check", "size", "info", "body", "end"}
  BY DEF StopAndWait, ClientKnows, Receiving
<1>b. Len(c2s) \in Nat
  BY DEF TypeOK
<1>c. c2s # <<>> => /\ Head(c2s) = c2s[1] /\ 1 \in 1 .. Len(c2s)
                    /\ Head(c2s) # Cmd("get") /\ Head(c2s).kind # "rest"
  <2>1. c2s # <<>> => Head(c2s) = c2s[1] /\ 1 \in 1 .. Len(c2s)
    BY FirstMessage
  <2>2. c2s # <<>> => Head(c2s) # Cmd("get")
    BY <2>1 DEF StopAndWait, CommandsInOrder, Asked
  <2> QED
    BY <2>1, <2>2
<1>1. ASSUME NEW test \in BOOLEAN, GetStart(test) PROVE Stays
  BY <1>1 DEF GetStart
<1>2. CASE GetCheck \/ GetSize \/ GetInfo \/ GetAbandon \/ GetBody \/ GetEmptyBody \/ GetEnd
  BY <1>2, <1>a DEF GetCheck, GetSize, GetInfo, GetAbandon, GetBody, GetEmptyBody, GetEnd
<1>3. CASE PwdStart
  <2>a. c2s' = Append(c2s, Cmd("pwd"))
    BY <1>3, Heard DEF PwdStart
  <2>1. /\ Len(c2s') = Len(c2s) + 1 /\ c2s'[Len(c2s) + 1].kind = "cmd"
        /\ \A i \in 1 .. Len(c2s) : c2s'[i] = c2s[i]
    BY <2>a, CommandSent, Messages, CommandNames
  <2>2. UNCHANGED <<spc, verdict, exists, copy, src, sent, served>>
    BY <1>3 DEF PwdStart, getServer
  <2>3. \A i \in 1 .. Len(c2s) : Closes(i) => Closes(i)'
    BY <2>1, <2>2 DEF Closes
  <2>4. Settled'
    BY <1>b, <2>1, <2>2, <2>3 DEF Settled
  <2> QED
    BY <1>b, <2>1, <2>2, <2>4
<1>4. CASE PwdReturns
  BY <1>4 DEF PwdReturns, getClient, getServer, Settled, Closes
<1>5. CASE ServGet
  BY <1>5, <1>c DEF ServGet
<1>6. CASE ServPwd
  <2>1. /\ spc = "cmd" /\ c2s # <<>> /\ c2s' = Tail(c2s) /\ spc' \in {"cmd", "killed"}
        /\ UNCHANGED <<verdict, exists, copy, src, sent, served>>
    BY <1>6 DEF ServPwd, ServerSend, getClient, getServer
  <2>2. \A i \in 1 .. Len(c2s') : i + 1 \in 1 .. Len(c2s) /\ c2s'[i] = c2s[i + 1]
    BY <2>1, Consumed
  <2>3. Settled'
    BY <2>1, <2>2 DEF Settled
  <2> QED
    BY <2>1, <2>2, <2>3
<1>7. CASE ServLeftover
  BY <1>7, <1>c DEF ServLeftover
<1>8. CASE ServSize \/ ServInfo \/ ServData
  BY <1>8 DEF ServSize, ServInfo, ServData, Settled, TypeOK
<1>9. CASE ServStatus
  <2>1. /\ spc = "wait" /\ spc' = (IF status' = 0 THEN "final" ELSE "read") /\ RecvStatus
        /\ UNCHANGED <<verdict, exists, copy, src, sent, served>>
    BY <1>9 DEF ServStatus, getClient
  <2>2. /\ Len(c2s) >= 2 /\ Closes(2) /\ c2s[1].kind = "num" /\ (c2s[1].num # 0 => sent = Len(src))
        /\ c2s # <<>>
    BY <2>1 DEF Settled
  <2>3. c2s' = Tail(c2s) /\ status' = c2s[1].num
    BY <2>1, <2>2, StatusTaken
  <2>4. /\ Len(c2s') = Len(c2s) - 1
        /\ \A i \in 1 .. Len(c2s') : i + 1 \in 1 .. Len(c2s) /\ c2s'[i] = c2s[i + 1]
    BY <2>2, <2>3, Consumed
  <2>5. Len(c2s') >= 1 /\ c2s'[1] = c2s[2] /\ Closes(1)'
    BY <1>b, <2>1, <2>2, <2>4 DEF Closes
  <2>6. \A i \in 1 .. Len(c2s') : c2s'[i].kind = "num" => i = 1
    BY <1>b, <2>1, <2>4 DEF Settled
  <2>7. Settled'
    BY <2>1, <2>2, <2>3, <2>5, <2>6 DEF Settled
  <2> QED
    BY <2>1, <2>4, <2>7
<1>10. CASE ServEndOfFile
  <2>1. spc = "read" /\ spc' = "final" /\ UNCHANGED <<c2s, verdict, exists, copy, src, sent, served>>
    BY <1>10 DEF ServEndOfFile, getClient, getServer
  <2>2. Settled'
    BY <2>1 DEF Settled, Closes
  <2> QED
    BY <2>1, <2>2
<1>11. CASE ServFinal
  <2>1. /\ spc = "final" /\ spc' = "cmd" /\ RecvStatus
        /\ served' = (IF status' # 0 THEN "ok" ELSE "failed")
        /\ UNCHANGED <<verdict, exists, copy, src, sent>>
    BY <1>11 DEF ServFinal, getClient
  <2>2. Len(c2s) >= 1 /\ Closes(1) /\ c2s # <<>>
    BY <2>1 DEF Settled
  <2>3. c2s' = Tail(c2s) /\ status' = c2s[1].num
    BY <2>1, <2>2, StatusTaken DEF Closes
  <2>4. \A i \in 1 .. Len(c2s') : i + 1 \in 1 .. Len(c2s) /\ c2s'[i] = c2s[i + 1]
    BY <2>2, <2>3, Consumed
  <2>5. served' = verdict
    BY <2>1, <2>2, <2>3 DEF Closes, TypeOK
  <2>6. \A i \in 1 .. Len(c2s') : c2s'[i].kind # "num"
    BY <1>b, <2>1, <2>4 DEF Settled
  <2>7. Settled'
    BY <2>1, <2>5, <2>6 DEF Settled
  <2> QED
    BY <2>1, <2>4, <2>7
<1>12. CASE ServerHangup /\ UNCHANGED <<getClient, getServer>>
  <2>1. c2s = <<>> /\ c2s' = <<>> /\ spc' = "gone" /\ UNCHANGED <<verdict, exists, copy, src>>
    BY <1>12 DEF ServerHangup, ServerAtEof, getClient, getServer
  <2>2. Settled'
    BY <2>1 DEF Settled
  <2> QED
    BY <2>1, <2>2
<1>13. CASE ClientQuit /\ UNCHANGED <<getClient, getServer>>
  BY <1>13 DEF ClientQuit, getClient, getServer, Settled, Closes
<1>14. CASE UNCHANGED vars
  BY <1>14 DEF vars, connVars, getClient, getServer, Settled, Closes
<1> QED
  BY <1>1, <1>2, <1>3, <1>4, <1>5, <1>6, <1>7, <1>8, <1>9, <1>10, <1>11, <1>12, <1>13, <1>14
  DEF DownloadNext, ClientStep, ServerStep, User, Finished

\* So a file that is kept stays the one served.
LEMMA KeptStep ==
  ASSUME TypeOK, ServerThere, StopAndWait, verdict = "ok", [DownloadNext]_vars, ~Environment
  PROVE  KeptIsSettled' /\ UNCHANGED <<verdict, exists, copy, src>>
  <1>1. Settled /\ exists /\ Len(copy) = Len(src)
    BY DEF StopAndWait, KeptIsSettled
  <1>2. \A i \in 1 .. Len(c2s) : c2s[i].kind # "rest"
    BY <1>1 DEF StopAndWait, CommandsInOrder, Asked
  <1>3. UNCHANGED <<verdict, exists, copy, src>> /\ Settled'
    BY <1>1, <1>2, SettledStep
  <1> QED
    BY <1>1, <1>3 DEF KeptIsSettled

----------------------------------------------------------------------------
(* Stop and wait: pwd, the server's steps and the kill. *)

\* The parts that a settled download leaves to be shown.
OtherParts == StreamInOrder /\ InStep /\ ClientKnows /\ LoopDone /\ CommandsInOrder /\ Reads

LEMMA PwdSteps ==
  ASSUME TypeOK, ServerThere, StopAndWait, PwdStart \/ PwdReturns
  PROVE  OtherParts'
  <1>1. CASE PwdStart
    <2>a. cpc = "prompt" /\ cpc' = "pwd" /\ c2s' = Append(c2s, Cmd("pwd")) /\ cUp' = cUp
      BY <1>1, Heard DEF PwdStart
    <2>1. /\ cpc = "prompt" /\ cpc' = "pwd" /\ verdict # "none" /\ ~asked /\ asked' = TRUE
          /\ UNCHANGED <<spc, s2c, cUp, info, filelen, left, success, exists, copy, verdict>>
          /\ UNCHANGED <<src, sent, sign, served>>
      BY <1>1, <2>a DEF PwdStart, getServer
    <2>2. /\ Len(c2s) \in Nat /\ Len(c2s') = Len(c2s) + 1 /\ c2s'[Len(c2s) + 1] = Cmd("pwd")
          /\ \A i \in 1 .. Len(c2s) : c2s'[i] = c2s[i]
      BY <2>a, CommandSent, Messages
    <2>3. CommandsInOrder'
      <3> SUFFICES ASSUME NEW i \in 1 .. Len(c2s') PROVE Asked(i)'
        BY DEF CommandsInOrder
      <3>1. CASE i = Len(c2s) + 1
        BY <2>1, <2>2, <3>1, CommandNames DEF Asked
      <3>2. CASE i \in 1 .. Len(c2s)
        <4>1. Asked(i) /\ c2s'[i] = c2s[i]
          BY <2>2, <3>2 DEF StopAndWait, CommandsInOrder
        <4>2. c2s[i].kind # "cmd" /\ c2s[i] # Cmd("get")
          BY <2>1, <4>1, CommandNames DEF Asked
        <4> QED
          BY <2>1, <4>1, <4>2 DEF Asked
      <3> QED
        BY <2>2, <3>1, <3>2
    <2>4. ClientKnows'
      <3>1. cUp' = (cpc' # "gone")
        BY <2>1 DEF StopAndWait, ClientKnows
      <3> QED
        BY <2>1, <3>1 DEF StopAndWait, ClientKnows, Receiving
    <2>5. Reads'
      BY <2>1 DEF StopAndWait, Reads
    <2> QED
      BY <2>1, <2>3, <2>4, <2>5, OutOfLoop DEF OtherParts
  <1>2. CASE PwdReturns
    <2>1. /\ cpc = "pwd" /\ cpc' = "prompt"
          /\ UNCHANGED <<spc, c2s, cUp, getClient, getServer>>
      BY <1>2 DEF PwdReturns
    <2>2. ClientKnows'
      <3>1. cUp' = (cpc' # "gone")
        BY <2>1 DEF StopAndWait, ClientKnows
      <3> QED
        BY <2>1, <3>1 DEF StopAndWait, ClientKnows, Receiving, getClient, getServer
    <2>3. CommandsInOrder' /\ Reads'
      BY <2>1 DEF StopAndWait, CommandsInOrder, Asked, Reads, getClient, getServer
    <2> QED
      BY <2>1, <2>2, <2>3, OutOfLoop DEF OtherParts
  <1> QED
    BY <1>1, <1>2

LEMMA ServGetStep ==
  ASSUME TypeOK, ServerThere, StopAndWait, ServGet
  PROVE  OtherParts' /\ verdict' = verdict /\ verdict # "ok"
  <1>1. /\ spc = "cmd" /\ c2s # <<>> /\ Head(c2s) = Cmd("get") /\ c2s' = Tail(c2s) /\ Open
        /\ UNCHANGED <<cpc, cUp, info, filelen, left, success, exists, copy, verdict, asked>>
    BY DEF ServGet, getClient
  <1>2. Head(c2s) = c2s[1] /\ Len(c2s) \in Nat /\ 1 \in 1 .. Len(c2s) /\ (Len(c2s) = 1 => c2s' = <<>>)
    BY <1>1, Consumed
  <1>3. ~exists /\ verdict = "none" /\ c2s' = <<>> /\ copy = <<>>
    BY <1>1, <1>2, CommandNames DEF StopAndWait, CommandsInOrder, Asked, ClientKnows
  <1>4. cpc \in {"check", "gone"} /\ cUp = (cpc # "gone") /\ ~asked
    BY <1>1, <1>3 DEF StopAndWait, ClientKnows, TypeOK
  <1>5. cpc = "check" => s2c = <<>>
    BY <1>1 DEF StopAndWait, InStep, Receiving
  <1>6. \/ ServerSend(Num(0), "cmd") /\ served' = "nofile" /\ UNCHANGED <<src, sent, sign>>
        \/ ServerSend(Num(1), "size") /\ sent' = 0 /\ src' \in Files
    BY <1>1 DEF Open
  <1>7. Num(0) \in Message \cup {Path} /\ Num(1) \in Message \cup {Path}
    BY Messages
  <1>8. Reads'
    <2>1. Len(src') \in Nat
      BY <1>6, ConnectionAssumption DEF TypeOK
    <2>2. spc' \notin {"data", "wait"}
      BY <1>6 DEF ServerSend
    <2> QED
      BY <1>6, <2>1, <2>2 DEF StopAndWait, Reads
  <1>9. CommandsInOrder'
    BY <1>3 DEF CommandsInOrder
  <1>10. ClientKnows'
    <2>1. cUp' = (cpc' # "gone")
      BY <1>1, <1>4
    <2>2. cpc' = "check" => success' = 1
      BY <1>1 DEF StopAndWait, ClientKnows, Receiving
    <2> QED
      BY <1>1, <1>3, <1>4, <2>1, <2>2 DEF ClientKnows, Receiving
  <1>11. CASE cpc = "gone"
    BY <1>1, <1>3, <1>8, <1>9, <1>10, <1>11, OutOfLoop DEF OtherParts
  <1>12. CASE cpc = "check"
    <2>1. cUp /\ s2c = <<>> /\ cpc' = "check" /\ Taken' = 0 /\ Len(copy') = 0
      BY <1>1, <1>3, <1>4, <1>5, <1>12 DEF Taken
    <2>2. \/ spc' = "cmd" /\ s2c' = <<Num(0)>> /\ served' = "nofile"
          \/ spc' = "size" /\ s2c' = <<Num(1)>> /\ sent' = 0
      BY <1>6, <2>1 DEF ServerSend
    <2>3. /\ Len(s2c') = 1 /\ s2c'[1].kind = "num"
          /\ (s2c'[1].num = 0 <=> spc' = "cmd")
      BY <2>2, CommandNames
    <2>4. StreamInOrder'
      BY <2>1, <2>3 DEF StreamInOrder, Placed
    <2>5. InStep' /\ LoopDone'
      BY <1>3, <2>1, <2>2, <2>3 DEF InStep, LoopDone
    <2> QED
      BY <1>3, <1>8, <1>9, <1>10, <2>4, <2>5, <1>1 DEF OtherParts
  <1> QED
    BY <1>4, <1>11, <1>12

LEMMA ServPwdStep ==
  ASSUME TypeOK, ServerThere, StopAndWait, ServPwd
  PROVE  OtherParts' /\ verdict' = verdict
  <1>1. /\ spc = "cmd" /\ c2s # <<>> /\ Head(c2s) = Cmd("pwd") /\ c2s' = Tail(c2s)
        /\ UNCHANGED <<cpc, cUp, getClient, getServer>> /\ spc' \in {"cmd", "killed"}
    BY DEF ServPwd, ServerSend
  <1>2. Head(c2s) = c2s[1] /\ Len(c2s) \in Nat /\ 1 \in 1 .. Len(c2s) /\ (Len(c2s) = 1 => c2s' = <<>>)
    BY <1>1, Consumed
  <1>3. asked /\ c2s' = <<>>
    BY <1>1, <1>2, CommandNames DEF StopAndWait, CommandsInOrder, Asked
  <1>4. verdict # "none" /\ cpc \in {"prompt", "pwd", "gone"}
    BY <1>3 DEF StopAndWait, ClientKnows, TypeOK, Receiving
  <1>5. ClientKnows'
    <2>1. cUp' = (cpc' # "gone")
      BY <1>1 DEF StopAndWait, ClientKnows
    <2> QED
      BY <1>1, <1>4, <2>1 DEF StopAndWait, ClientKnows, Receiving, getClient, getServer
  <1>6. CommandsInOrder' /\ Reads'
    <2>1. Len(c2s') = 0 /\ UNCHANGED <<src, sent>> /\ spc' \notin {"data", "wait"}
      BY <1>1, <1>3 DEF getServer
    <2>2. CommandsInOrder'
      BY <2>1 DEF CommandsInOrder
    <2>3. Reads'
      BY <2>1 DEF StopAndWait, Reads
    <2> QED
      BY <2>2, <2>3
  <1> QED
    BY <1>1, <1>4, <1>5, <1>6, OutOfLoop DEF OtherParts, getClient

LEMMA ServLeftoverStep ==
  ASSUME TypeOK, ServerThere, StopAndWait, ServLeftover
  PROVE  OtherParts' /\ verdict' = verdict /\ verdict # "ok"
  <1>1. /\ spc = "cmd" /\ c2s # <<>> /\ Head(c2s).kind = "rest" /\ c2s' = Tail(c2s) /\ Open
        /\ UNCHANGED <<cpc, cUp, info, filelen, left, success, exists, copy, verdict, asked>>
    BY DEF ServLeftover, getClient
  <1>2. /\ Head(c2s) = c2s[1] /\ Len(c2s) \in Nat /\ 1 \in 1 .. Len(c2s) /\ Len(c2s') = Len(c2s) - 1
        /\ \A i \in 1 .. Len(c2s') : i + 1 \in 1 .. Len(c2s) /\ c2s'[i] = c2s[i + 1]
    BY <1>1, Consumed
  <1>3. verdict # "none" /\ ~exists
    BY <1>1, <1>2 DEF StopAndWait, CommandsInOrder, Asked
  <1>4. cpc \in {"prompt", "pwd", "gone"} /\ verdict # "ok"
    BY <1>3 DEF StopAndWait, ClientKnows, KeptIsSettled, TypeOK, Receiving
  <1>5. ClientKnows'
    <2>1. cUp' = (cpc' # "gone")
      BY <1>1 DEF StopAndWait, ClientKnows
    <2>2. copy' = <<>>
      BY <1>1, <1>3 DEF StopAndWait, ClientKnows
    <2> QED
      BY <1>1, <1>3, <1>4, <2>1, <2>2 DEF ClientKnows, Receiving
  <1>6. CommandsInOrder'
    <2> SUFFICES ASSUME NEW i \in 1 .. Len(c2s') PROVE Asked(i)'
      BY DEF CommandsInOrder
    <2>1. Asked(i + 1) /\ c2s'[i] = c2s[i + 1] /\ i \in Nat /\ i >= 1
      BY <1>2 DEF StopAndWait, CommandsInOrder
    <2>2. c2s[i + 1] # Cmd("get")
      BY <2>1 DEF Asked
    <2>3. i + 1 = Len(c2s) => i = Len(c2s')
      BY <1>2, <2>1
    <2> QED
      BY <1>1, <2>1, <2>2, <2>3 DEF Asked
  <1>7. Reads'
    <2>1. \/ UNCHANGED <<src, sent>>
          \/ sent' = 0 /\ src' \in Files
      BY <1>1 DEF Open
    <2>2. Len(src') \in Nat
      BY <2>1, ConnectionAssumption DEF TypeOK
    <2>3. spc' \notin {"data", "wait"}
      BY <1>1 DEF Open, ServerSend
    <2> QED
      BY <2>1, <2>2, <2>3 DEF StopAndWait, Reads
  <1> QED
    BY <1>1, <1>4, <1>5, <1>6, <1>7, OutOfLoop DEF OtherParts

\* The next of the four messages goes out.
LEMMA NextSent ==
  ASSUME TypeOK, ServerThere, StopAndWait, Receiving, UNCHANGED <<cpc, src>>,
         NEW m \in Message, NEW pc, ServerSend(m, pc), spc # "cmd", pc # "cmd",
         NEW n \in 1 .. 3, Taken + Len(s2c) = n, n = 2 \/ sign' = sign,
         n = 1 => m.kind = "num" /\ m.num = Len(src),
         n = 2 => m.kind = "info" /\ m.len = LengthInfo(1, Len(sign')),
         n = 3 => m.kind = "body" /\ m.sign = sign
  PROVE  StreamInOrder' /\ spc' = pc /\ Taken' + Len(s2c') = n + 1
  <1>1. cUp
    BY DEF StopAndWait, ClientKnows, Receiving
  <1>2. m \in Message \cup {Path}
    OBVIOUS
  <1>3. /\ spc' = pc
        /\ Len(s2c) \in Nat /\ Len(s2c') = Len(s2c) + 1 /\ s2c'[Len(s2c) + 1] = m
        /\ \A i \in 1 .. Len(s2c) : s2c'[i] = s2c[i]
    BY <1>1, <1>2, ReplySent
  <1>4. Taken' = Taken /\ Taken \in 0 .. 3
    BY DEF Taken, Receiving
  <1>5. Taken' + Len(s2c') = n + 1
    BY <1>3, <1>4
  <1>6. StreamInOrder'
    <2> SUFFICES ASSUME NEW i \in 1 .. Len(s2c') PROVE (Taken + i <= 4 /\ Placed(i))'
      BY DEF StreamInOrder
    <2>1. CASE i = Len(s2c) + 1
      <3>1. Taken' + i = n + 1 /\ s2c'[i] = m
        BY <1>3, <1>5, <2>1
      <3> QED
        BY <3>1 DEF Placed
    <2>2. CASE i \in 1 .. Len(s2c)
      <3>1. Taken + i <= 4 /\ Placed(i) /\ s2c'[i] = s2c[i] /\ Taken' + i <= n
        BY <1>3, <1>4, <2>2 DEF StopAndWait, StreamInOrder
      <3>2. n = 2 => Taken' + i # 3 /\ Taken' + i # 4
        BY <1>4, <3>1
      <3>3. Taken' + i # 4
        BY <1>4, <3>1
      <3> QED
        BY <1>3, <1>4, <3>1, <3>2, <3>3 DEF Placed
    <2> QED
      BY <1>3, <2>1, <2>2
  <1> QED
    BY <1>3, <1>5, <1>6

\* A step of a server that is in the loop: what it needs to be in step.
LEMMA ServerInLoop ==
  ASSUME TypeOK, ServerThere, StopAndWait, spc \notin {"cmd", "gone"}, Receiving' => StreamInOrder' /\ InStep',
         LoopDone', Reads', CommandsInOrder', cpc = "body" => sign' = sign,
         UNCHANGED <<cpc, cUp, getClient, src>>
  PROVE  OtherParts'
  <1>1. StreamInOrder' /\ InStep'
    BY DEF StreamInOrder, InStep
  <1>2. ClientKnows'
    <2>1. cUp' = (cpc' # "gone")
      BY DEF StopAndWait, ClientKnows
    <2>2. ~(cpc = "prompt" /\ verdict = "none")
      BY DEF StopAndWait, ClientKnows
    <2> QED
      BY <2>1, <2>2 DEF StopAndWait, ClientKnows, Receiving, getClient
  <1> QED
    BY <1>1, <1>2 DEF OtherParts

LEMMA ServSizeStep ==
  ASSUME TypeOK, ServerThere, StopAndWait, ServSize
  PROVE  OtherParts' /\ verdict' = verdict
  <1>1. /\ spc = "size" /\ ServerSend(Num(Len(src)), "read")
        /\ UNCHANGED <<cpc, c2s, cUp, getClient, getServer>>
    BY DEF ServSize
  <1>2. spc' \in {"read", "killed"}
    BY <1>1 DEF ServerSend
  <1>3. LoopDone'
    BY <1>1 DEF StopAndWait, LoopDone, getClient
  <1>4. Reads' /\ CommandsInOrder'
    BY <1>1, <1>2 DEF StopAndWait, Reads, CommandsInOrder, Asked, getClient, getServer
  <1>5. ASSUME Receiving' PROVE StreamInOrder' /\ InStep'
    <2>1. Receiving /\ UNCHANGED <<cpc, src, sign, copy, sent>> /\ Num(Len(src)) \in Message
      BY <1>1, <1>5, Messages DEF Receiving, getClient, getServer, TypeOK
    <2>2. c2s = <<>> /\ Taken + Len(s2c) = 1 /\ sent = Len(copy)
      BY <1>1, <2>1 DEF StopAndWait, InStep
    <2>3. StreamInOrder' /\ spc' = "read" /\ Taken' + Len(s2c') = 2
      <3>1. 1 + 1 = 2 /\ 1 \in 1 .. 3
        OBVIOUS
      <3> QED
        BY <1>1, <2>1, <2>2, <3>1, NextSent, CommandNames
    <2> QED
      BY <1>1, <2>1, <2>2, <2>3 DEF InStep
  <1> QED
    BY <1>1, <1>3, <1>4, <1>5, ServerInLoop DEF getClient, getServer

LEMMA ServInfoStep ==
  ASSUME TypeOK, ServerThere, StopAndWait, ServInfo
  PROVE  OtherParts' /\ verdict' = verdict
  <1>1. /\ spc = "read" /\ sent < Len(src) /\ sent' = sent + 1
        /\ ServerSend(Info(1, Len(sign')), "data")
        /\ UNCHANGED <<cpc, c2s, cUp, getClient, src, served>>
    BY DEF ServInfo
  <1>2. spc' \in {"data", "killed"}
    BY <1>1 DEF ServerSend
  <1>3. Info(1, Len(sign')) \in Message
    <2>1. src[sent + 1] \in Content
      BY <1>1 DEF TypeOK
    <2>2. ("nosign" \in Faults) \in BOOLEAN
      OBVIOUS
    <2>3. Len(sign') \in {0, 1}
      BY <2>1, <2>2, SignatureType DEF ServInfo
    <2> QED
      BY <2>3, Messages
  <1>4. LoopDone'
    BY <1>1 DEF StopAndWait, LoopDone, getClient, TypeOK
  <1>5. Reads' /\ CommandsInOrder'
    BY <1>1, <1>2 DEF StopAndWait, Reads, CommandsInOrder, Asked, getClient, TypeOK
  <1>6. ASSUME Receiving PROVE c2s = <<>> /\ Taken + Len(s2c) = 2 /\ sent = Len(copy) /\ cpc # "body"
    <2>1. c2s = <<>> /\ Taken + Len(s2c) = 2 /\ sent = Len(copy)
      BY <1>1, <1>6 DEF StopAndWait, InStep
    <2>2. Len(s2c) \in Nat
      BY DEF TypeOK
    <2>3. cpc # "body"
      BY <2>1, <2>2 DEF Taken
    <2> QED
      BY <2>1, <2>3
  <1>7. ASSUME Receiving' PROVE StreamInOrder' /\ InStep'
    <2>1. Receiving /\ UNCHANGED <<cpc, src, copy>>
      BY <1>1, <1>7 DEF Receiving, getClient
    <2>2. c2s = <<>> /\ Taken + Len(s2c) = 2 /\ sent = Len(copy)
      BY <2>1, <1>6
    <2>3. StreamInOrder' /\ spc' = "data" /\ Taken' + Len(s2c') = 3
      <3>1. 2 + 1 = 3 /\ 2 \in 1 .. 3
        OBVIOUS
      <3>2. Info(1, Len(sign')).kind = "info" /\ Info(1, Len(sign')).len = LengthInfo(1, Len(sign'))
        BY DEF Info
      <3> QED
        BY <1>1, <1>3, <2>1, <2>2, <3>1, <3>2, NextSent
    <2> QED
      BY <1>1, <2>1, <2>2, <2>3 DEF InStep
  <1>8. cpc = "body" => Receiving
    BY DEF Receiving
  <1> QED
    BY <1>1, <1>4, <1>5, <1>6, <1>7, <1>8, ServerInLoop DEF getClient

LEMMA ServDataStep ==
  ASSUME TypeOK, ServerThere, StopAndWait, ServData
  PROVE  OtherParts' /\ verdict' = verdict
  <1>1. /\ spc = "data" /\ UNCHANGED <<cpc, c2s, cUp, getClient, src, sent, sign, served>>
    BY DEF ServData
  <1>2. \/ \E data \in Content : ServerSend(Body(data, sign), "wait")
        \/ ~cUp /\ spc' = "wait"
        \/ spc' = "final" /\ s2c' = s2c
    <2>1. Payload \subseteq Content
      BY <1>1 DEF TypeOK, StopAndWait, Reads, Payload
    <2> QED
      BY <2>1 DEF ServData
  <1>3. spc' \in {"wait", "final", "killed"}
    BY <1>2 DEF ServerSend
  <1>4. LoopDone'
    BY <1>1 DEF StopAndWait, LoopDone, getClient
  <1>5. Reads' /\ CommandsInOrder'
    BY <1>1, <1>3 DEF StopAndWait, Reads, CommandsInOrder, Asked, getClient
  <1>6. ASSUME Receiving' PROVE StreamInOrder' /\ InStep'
    <2>1. Receiving /\ UNCHANGED <<cpc, src, sign, copy, sent>>
      BY <1>1, <1>6 DEF Receiving, getClient
    <2>2. c2s = <<>> /\ Taken + Len(s2c) = 3 /\ sent = Len(copy) + 1
      BY <1>1, <2>1 DEF StopAndWait, InStep
    <2>3. CASE \E data \in Content : ServerSend(Body(data, sign), "wait")
      <3>1. PICK data \in Content : ServerSend(Body(data, sign), "wait")
        BY <2>3
      <3>2. Body(data, sign) \in Message
        BY Messages DEF TypeOK
      <3>3. Body(data, sign).kind = "body" /\ Body(data, sign).sign = sign
        BY DEF Body
      <3>4. 3 + 1 = 4 /\ 3 \in 1 .. 3
        OBVIOUS
      <3>5. StreamInOrder' /\ spc' = "wait" /\ Taken' + Len(s2c') = 4
        BY <1>1, <2>1, <2>2, <3>1, <3>2, <3>3, <3>4, NextSent
      <3> QED
        BY <1>1, <2>1, <2>2, <3>5 DEF InStep
    <2>4. CASE spc' = "final" /\ s2c' = s2c
      <3>1. Taken' = Taken
        BY <2>1 DEF Taken
      <3>2. StreamInOrder'
        BY <1>1, <2>1, <2>4, <3>1 DEF StopAndWait, StreamInOrder, Placed
      <3>3. InStep'
        BY <1>1, <2>1, <2>2, <2>4, <3>1 DEF InStep
      <3> QED
        BY <3>2, <3>3
    <2>5. cUp
      BY <2>1 DEF StopAndWait, ClientKnows, Receiving
    <2> QED
      BY <1>2, <2>3, <2>4, <2>5
  <1> QED
    BY <1>1, <1>4, <1>5, <1>6, ServerInLoop DEF getClient

\* What a recv of four bytes leaves of the stream is still in order: of a command
\* it leaves a rest only after the download has failed.
LEMMA StatusCommands ==
  ASSUME TypeOK, ServerThere, StopAndWait, spc \in {"wait", "final"}, RecvStatus,
         UNCHANGED <<exists, verdict, asked>>
  PROVE  CommandsInOrder'
  <1>1. CASE c2s # <<>> /\ c2s[1].kind = "num" /\ c2s' = Tail(c2s)
    <2>1. /\ Len(c2s) \in Nat /\ Len(c2s') = Len(c2s) - 1
          /\ \A i \in 1 .. Len(c2s') : i + 1 \in 1 .. Len(c2s) /\ c2s'[i] = c2s[i + 1]
      BY <1>1, Consumed
    <2> SUFFICES ASSUME NEW i \in 1 .. Len(c2s') PROVE Asked(i)'
      BY DEF CommandsInOrder
    <2>2. Asked(i + 1) /\ c2s'[i] = c2s[i + 1] /\ i \in Nat /\ i >= 1
      BY <2>1 DEF StopAndWait, CommandsInOrder
    <2>3. c2s[i + 1] # Cmd("get")
      BY <2>2 DEF Asked
    <2>4. i + 1 = Len(c2s) => i = Len(c2s')
      BY <2>1, <2>2
    <2> QED
      BY <2>2, <2>3, <2>4 DEF Asked
  <1>2. CASE c2s # <<>> /\ c2s[1].kind = "cmd" /\ c2s' = <<Rest>> \o Tail(c2s)
    <2>1. 1 \in 1 .. Len(c2s) /\ c2s \in Seq(Message)
      BY <1>2, FirstMessage DEF TypeOK
    <2>2. Asked(1)
      BY <2>1 DEF StopAndWait, CommandsInOrder
    <2>3. Len(c2s) = 1 /\ asked
      BY <1>2, <2>2 DEF Asked
    <2>4. c2s' = <<Rest>>
      <3>1. Tail(c2s) = <<>> /\ <<Rest>> \in Seq(Message)
        BY <2>1, <2>3, LastReceived, Messages
      <3> QED
        BY <1>2, <3>1, ConcatEmptySeq
    <2>5. verdict # "none"
      BY <2>3 DEF StopAndWait, ClientKnows
    <2>6. verdict # "ok"
      BY <1>2 DEF StopAndWait, KeptIsSettled, Settled, Closes
    <2>7. ~exists
      BY <2>5, <2>6 DEF StopAndWait, ClientKnows, TypeOK
    <2>8. Len(c2s') = 1 /\ c2s'[1].kind = "rest" /\ c2s'[1] # Cmd("get")
      BY <2>4, CommandNames
    <2> QED
      BY <2>5, <2>7, <2>8 DEF CommandsInOrder, Asked
  <1>3. CASE c2s = <<>> /\ c2s' = c2s
    BY <1>3 DEF CommandsInOrder
  <1> QED
    BY <1>1, <1>2, <1>3, StatusTaken

LEMMA ServStatusStep ==
  ASSUME TypeOK, ServerThere, StopAndWait, ServStatus
  PROVE  OtherParts' /\ verdict' = verdict
  <1>1. /\ spc = "wait" /\ RecvStatus /\ spc' = (IF status' = 0 THEN "final" ELSE "read")
        /\ UNCHANGED <<cpc, s2c, cUp, getClient, src, sent, sign, served>>
    BY DEF ServStatus
  <1>2. Reads'
    BY <1>1 DEF StopAndWait, Reads
  <1>3. CommandsInOrder'
    BY <1>1, StatusCommands DEF getClient
  <1>4. ASSUME Len(c2s) = 1, c2s[1].kind = "num", c2s[1].num # 0
        PROVE  c2s' = <<>> /\ spc' = "read"
    <2>1. c2s # <<>>
      <3>1. Len(<<>>) = 0 /\ 0 # 1
        OBVIOUS
      <3> QED
        BY <1>4, <3>1, Zenon
    <2>2. c2s' = Tail(c2s) /\ status' = c2s[1].num
      BY <1>1, <1>4, <2>1, StatusTaken
    <2> QED
      BY <1>1, <1>4, <2>1, <2>2, Consumed
  <1>5. ASSUME Receiving' PROVE StreamInOrder' /\ InStep'
    <2>1. Receiving /\ UNCHANGED <<cpc, s2c, src, sign, copy, sent>>
      BY <1>1, <1>5 DEF Receiving, getClient
    <2>2. c2s # <<>>
      <3>1. cUp = TRUE
        BY <2>1 DEF StopAndWait, ClientKnows, Receiving
      <3> QED
        BY <1>1, <3>1, StatusTaken
    <2>3. /\ cpc = "info" /\ s2c = <<>> /\ sent = Len(copy)
          /\ Len(c2s) = 1 /\ c2s[1].kind = "num" /\ c2s[1].num # 0
      BY <1>1, <2>1, <2>2 DEF StopAndWait, InStep
    <2>4. Taken' = 2
      BY <2>1, <2>3 DEF Taken
    <2> QED
      BY <1>4, <2>1, <2>3, <2>4 DEF StreamInOrder, InStep
  <1>6. LoopDone'
    <2> SUFFICES ASSUME cpc = "end", success = 1 PROVE LoopDone'
      BY <1>1 DEF LoopDone, getClient
    <2>1. /\ s2c = <<>> /\ sent = Len(src) /\ Len(copy) = Len(src)
          /\ Len(c2s) = 1 /\ c2s[1].kind = "num" /\ c2s[1].num # 0
      BY <1>1 DEF StopAndWait, LoopDone
    <2> QED
      BY <1>1, <1>4, <2>1 DEF LoopDone, getClient
  <1> QED
    BY <1>1, <1>2, <1>3, <1>5, <1>6, ServerInLoop DEF getClient

LEMMA ServEndOfFileStep ==
  ASSUME TypeOK, ServerThere, StopAndWait, ServEndOfFile
  PROVE  OtherParts' /\ verdict' = verdict
  <1>1. /\ spc = "read" /\ sent = Len(src) /\ spc' = "final"
        /\ UNCHANGED <<cpc, c2s, s2c, cUp, getClient, getServer>>
    BY DEF ServEndOfFile
  <1>2. Reads' /\ CommandsInOrder'
    BY <1>1 DEF StopAndWait, Reads, CommandsInOrder, Asked, getClient, getServer
  <1>3. LoopDone'
    BY <1>1 DEF StopAndWait, LoopDone, getClient, getServer
  <1>4. ASSUME Receiving' PROVE StreamInOrder' /\ InStep'
    <2>1. Receiving /\ UNCHANGED <<cpc, s2c, src, sign, copy, sent>> /\ Taken' = Taken
      BY <1>1, <1>4 DEF Receiving, getClient, getServer, Taken
    <2>2. c2s = <<>> /\ Taken + Len(s2c) = 2 /\ sent = Len(copy)
      BY <1>1, <2>1 DEF StopAndWait, InStep
    <2>3. StreamInOrder'
      BY <1>1, <2>1 DEF StopAndWait, StreamInOrder, Placed
    <2> QED
      BY <1>1, <2>1, <2>2, <2>3 DEF InStep
  <1> QED
    BY <1>1, <1>2, <1>3, <1>4, ServerInLoop DEF getClient, getServer

LEMMA ServFinalStep ==
  ASSUME TypeOK, ServerThere, StopAndWait, ServFinal
  PROVE  OtherParts' /\ verdict' = verdict
  <1>1. /\ spc = "final" /\ RecvStatus /\ spc' = "cmd"
        /\ UNCHANGED <<cpc, s2c, cUp, getClient, src, sent, sign>>
    BY DEF ServFinal
  <1>2. Reads'
    BY <1>1 DEF StopAndWait, Reads
  <1>3. CommandsInOrder'
    BY <1>1, StatusCommands DEF getClient
  <1>4. c2s = <<>> => cpc = "gone"
    BY <1>1, StatusTaken DEF StopAndWait, ClientKnows, TypeOK
  <1>5. ~Receiving'
    BY <1>1, <1>4 DEF StopAndWait, InStep, Receiving, getClient
  <1>6. LoopDone'
    BY <1>1, <1>4 DEF StopAndWait, LoopDone, getClient
  <1> QED
    BY <1>1, <1>2, <1>3, <1>5, <1>6, ServerInLoop DEF getClient

LEMMA HangupStep ==
  ASSUME TypeOK, ServerThere, StopAndWait, ServerHangup, UNCHANGED <<getClient, getServer>>
  PROVE  OtherParts' /\ verdict' = verdict
  <1>1. /\ cpc' = cpc /\ cUp' = cUp /\ cpc = "gone" /\ c2s' = <<>> /\ spc' = "gone"
    BY DEF ServerHangup, ServerAtEof, StopAndWait, ClientKnows
  <1>2. ClientKnows'
    <2>1. cUp' = (cpc' # "gone")
      BY <1>1 DEF StopAndWait, ClientKnows
    <2> QED
      BY <1>1, <2>1 DEF StopAndWait, ClientKnows, Receiving, getClient, getServer
  <1>3. CommandsInOrder' /\ Reads'
    BY <1>1 DEF StopAndWait, CommandsInOrder, Reads, getServer
  <1> QED
    BY <1>1, <1>2, <1>3, OutOfLoop DEF OtherParts, getClient

LEMMA QuitStep ==
  ASSUME TypeOK, ServerThere, StopAndWait, ClientQuit, UNCHANGED <<getClient, getServer>>
  PROVE  OtherParts' /\ verdict' = verdict
  <1>1. cpc' = "gone" /\ cUp' = FALSE /\ UNCHANGED <<spc, c2s, getClient, getServer>>
    BY DEF ClientQuit
  <1>2. ClientKnows'
    <2>1. cUp' = (cpc' # "gone")
      BY <1>1
    <2> QED
      BY <1>1, <2>1 DEF StopAndWait, ClientKnows, Receiving, getClient, getServer
  <1>3. CommandsInOrder' /\ Reads'
    BY <1>1 DEF StopAndWait, CommandsInOrder, Asked, Reads, getClient, getServer
  <1> QED
    BY <1>1, <1>2, <1>3, OutOfLoop DEF OtherParts, getClient

\* Every step keeps the two ends in step with each other.
LEMMA StopAndWaitStep ==
  ASSUME TypeOK, ServerThere, StopAndWait, [DownloadNext]_vars, ~Environment
  PROVE  StopAndWait'
  <1>1. ASSUME OtherParts', verdict' = verdict PROVE StopAndWait'
    <2>1. KeptIsSettled'
      <3>1. CASE verdict = "ok"
        BY <3>1, KeptStep
      <3>2. CASE verdict # "ok"
        BY <1>1, <3>2 DEF KeptIsSettled
      <3> QED
        BY <3>1, <3>2
    <2> QED
      BY <1>1, <2>1 DEF OtherParts, StopAndWait
  <1>2. ASSUME NEW test \in BOOLEAN, GetStart(test) PROVE StopAndWait'
    BY <1>2, GetStartStep
  <1>3. CASE GetCheck \/ GetSize \/ GetInfo \/ GetAbandon \/ GetBody \/ GetEmptyBody \/ GetEnd
    BY <1>3, NoEmptyBody, GetCheckStep, GetSizeStep, GetInfoStep, GetAbandonStep, GetBodyStep, GetEndStep
  <1>4. CASE PwdStart \/ PwdReturns
    <2>1. verdict' = verdict
      BY <1>4 DEF PwdStart, PwdReturns, getClient
    <2> QED
      BY <1>1, <1>4, <2>1, PwdSteps
  <1>5. CASE ServGet \/ ServPwd \/ ServLeftover
    BY <1>1, <1>5, ServGetStep, ServPwdStep, ServLeftoverStep
  <1>6. CASE ServSize \/ ServInfo \/ ServData
    BY <1>1, <1>6, ServSizeStep, ServInfoStep, ServDataStep
  <1>7. CASE ServStatus \/ ServEndOfFile \/ ServFinal
    BY <1>1, <1>7, ServStatusStep, ServEndOfFileStep, ServFinalStep
  <1>8. CASE ServerHangup /\ UNCHANGED <<getClient, getServer>>
    BY <1>1, <1>8, HangupStep
  <1>9. CASE ClientQuit /\ UNCHANGED <<getClient, getServer>>
    BY <1>1, <1>9, QuitStep
  <1>10. CASE UNCHANGED vars
    <2>1. OtherParts' /\ verdict' = verdict
      <3>1. UNCHANGED <<cpc, spc, c2s, s2c, cUp, rst, getClient, getServer>>
        BY <1>10 DEF vars, connVars
      <3>2. Taken' = Taken /\ Receiving' = Receiving
        BY <3>1 DEF Taken, Receiving
      <3>3. StreamInOrder' /\ InStep' /\ LoopDone'
        BY <3>1, <3>2 DEF StopAndWait, StreamInOrder, Placed, InStep, LoopDone, getClient, getServer
      <3>4. ClientKnows'
        BY <3>1 DEF StopAndWait, ClientKnows, Receiving, getClient, getServer
      <3>5. CommandsInOrder' /\ Reads'
        BY <3>1 DEF StopAndWait, CommandsInOrder, Asked, Reads, getClient, getServer
      <3> QED
        BY <3>1, <3>3, <3>4, <3>5 DEF OtherParts, getClient
    <2> QED
      BY <1>1, <2>1
  <1> QED
    BY <1>2, <1>3, <1>4, <1>5, <1>6, <1>7, <1>8, <1>9, <1>10
    DEF DownloadNext, ClientStep, ServerStep, User, Finished

\* It all holds at the beginning.
LEMMA InitHolds == DownloadInit => TypeOK /\ Reads /\ ServerThere /\ StopAndWait
<1>1. DownloadInit => TypeOK
  <2>1. LengthInfo(0, 0) \in Lengths
    BY DEF LengthInfo, Lengths
  <2>2. DownloadInit => key \in BOOLEAN
    BY Zenon DEF DownloadInit
  <2>3. DownloadInit => c2s \in Seq(Message) /\ s2c \in Seq(Message \cup {Path})
                        /\ src \in Seq(Content) /\ copy \in Seq(Content \cup {Cut})
    BY DEF DownloadInit, ConnectionInit
  <2>4. DownloadInit => /\ cUp \in BOOLEAN /\ rst \in BOOLEAN /\ testing \in BOOLEAN
                        /\ exists \in BOOLEAN /\ asked \in BOOLEAN
    BY Zenon DEF DownloadInit, ConnectionInit
  <2>5. DownloadInit => info \in Lengths
    BY <2>1 DEF DownloadInit
  <2>6. DownloadInit => sign \in Signs
    BY DEF DownloadInit, NoSignature, Signs
  <2>7. DownloadInit => /\ cpc = "prompt" /\ spc = "cmd" /\ sent = 0 /\ status = 0
                        /\ verdict = "none" /\ left = 0 /\ filelen = 0 /\ success = 1
                        /\ served = "none"
    BY DEF DownloadInit, ConnectionInit
  <2> QED
    BY <2>2, <2>3, <2>4, <2>5, <2>6, <2>7 DEF TypeOK
<1>2. DownloadInit => Reads /\ ServerThere /\ StopAndWait
  <2> SUFFICES ASSUME DownloadInit PROVE Reads /\ ServerThere /\ StopAndWait
    OBVIOUS
  <2>1. /\ cpc = "prompt" /\ spc = "cmd" /\ c2s = <<>> /\ s2c = <<>> /\ sent = 0 /\ src = <<>>
        /\ verdict = "none" /\ ~exists /\ copy = <<>> /\ ~asked /\ served = "none" /\ cUp = TRUE
    BY DEF DownloadInit, ConnectionInit
  <2>2. cUp = (cpc # "gone")
    BY <2>1
  <2>3. StreamInOrder /\ InStep /\ LoopDone
    BY <2>1 DEF StreamInOrder, InStep, LoopDone, Receiving
  <2>4. ClientKnows
    BY <2>1, <2>2 DEF ClientKnows, Receiving
  <2>5. CommandsInOrder /\ KeptIsSettled /\ Reads
    BY <2>1 DEF CommandsInOrder, KeptIsSettled, Reads
  <2>6. ServerThere
    BY <2>1 DEF ServerThere
  <2> QED
    BY <2>3, <2>4, <2>5, <2>6 DEF StopAndWait
<1> QED
  BY <1>1, <1>2

\* While the server's process stays, the two ends are in step.
LEMMA StopAndWaitInvariant ==
  ASSUME Steady
  PROVE  DownloadSpec => [](TypeOK /\ ServerThere /\ StopAndWait)
<1>1. ASSUME TypeOK, ServerThere, StopAndWait, [DownloadNext]_vars
      PROVE  TypeOK' /\ ServerThere' /\ StopAndWait'
  <2>1. ~Environment
    BY DEF Environment, ServerDies, Steady
  <2>2. TypeInvariant
    BY <1>1 DEF TypeInvariant, StopAndWait
  <2> QED
    BY <1>1, <2>1, <2>2, TypeStep, ServerThereStep, StopAndWaitStep
<1> QED
  BY <1>1, InitHolds, PTL DEF DownloadSpec

\* The locals, the disk and the streams of both ends of a download keep their
\* types, whatever goes wrong: in particular every recv of get_file finds a message
\* of the kind it reads, also when the server's process has ended meanwhile.
THEOREM TypeCorrect == DownloadSpec => []TypeOK
<1>1. DownloadInit => TypeInvariant
  BY InitHolds DEF TypeInvariant
<1>2. ASSUME TypeInvariant, [DownloadNext]_vars PROVE TypeInvariant'
  <2>1. TypeOK' /\ Reads'
    BY <1>2, TypeStep, ReadsStep DEF TypeInvariant
  <2>2. CASE ServerThere /\ StopAndWait /\ ~Environment
    BY <1>2, <2>1, <2>2, ServerThereStep, StopAndWaitStep DEF TypeInvariant
  <2>3. CASE Environment
    BY <1>2, <2>1, <2>3, ServerDiesStep DEF TypeInvariant, Environment
  <2>4. CASE spc = "killed" /\ LastWords
    BY <1>2, <2>1, <2>4, LastWordsStep DEF TypeInvariant
  <2> QED
    BY <1>2, <2>2, <2>3, <2>4 DEF TypeInvariant
<1>3. TypeInvariant => TypeOK
  BY DEF TypeInvariant
<1> QED
  BY <1>1, <1>2, <1>3, PTL DEF DownloadSpec

----------------------------------------------------------------------------
(* The file that get_file keeps. *)

\* What GetBody puts into the copy, when signatures mean something, is the fragment
\* that the server read last and that the copy lacks, or nothing.
LEMMA FragmentGenuine ==
  ASSUME Trusted, TypeOK, ServerThere, StopAndWait, GenuineInvariant, GetBody
  PROVE  /\ Len(copy) + 1 = sent /\ sent <= Len(src)
         /\ \/ copy' = Append(copy, src[sent]) /\ Verdict(TRUE)
            \/ copy' = copy /\ Verdict(FALSE)
  <1>1. cpc = "body" /\ s2c # <<>> /\ Receiving
    BY DEF GetBody, Receiving
  <1>2. spc = "wait" /\ sent = Len(copy) + 1
    BY FragmentTaken
  <1>3. key = TRUE /\ sign = <<src[sent]>> /\ Head(s2c).sign = sign /\ sent <= Len(src)
    BY <1>1, <1>2, Expected DEF GenuineInvariant, SignedInOrder, StopAndWait, Reads
  <1>4. CASE Accepts(key, Head(s2c).data, Head(s2c).sign)
    <2>1. Head(s2c).data = src[sent]
      BY <1>3, <1>4, AcceptsSigned
    <2>2. PICK w \in Writes(Head(s2c).data) : copy' = w.file /\ Verdict(w.check >= 0)
      BY <1>4 DEF GetBody
    <2>3. CASE w = [file |-> Append(copy, src[sent]), check |-> 1]
      <3>1. Verdict(TRUE)
        BY <2>2, <2>3 DEF Verdict
      <3> QED
        BY <1>2, <1>3, <2>2, <2>3, <3>1
    <2>4. CASE w = [file |-> copy, check |-> -1]
      <3>1. Verdict(FALSE)
        BY <2>2, <2>4 DEF Verdict
      <3> QED
        BY <1>2, <1>3, <2>2, <2>4, <3>1
    <2> QED
      BY <2>1, <2>2, <2>3, <2>4 DEF Writes, Trusted
  <1>5. CASE ~Accepts(key, Head(s2c).data, Head(s2c).sign)
    BY <1>2, <1>3, <1>5 DEF GetBody
  <1> QED
    BY <1>4, <1>5

\* A copy that stays, or is emptied, stays genuine while the source does.
LEMMA GenuineKept ==
  ASSUME TypeOK, GenuineCopy, copy' = <<>> \/ UNCHANGED <<copy, src>>, Len(src') \in Nat
  PROVE  GenuineCopy'
  BY DEF GenuineCopy, TypeOK

LEMMA GenuineStep ==
  ASSUME Trusted, TypeOK, ServerThere, StopAndWait, TypeOK', GenuineInvariant, [DownloadNext]_vars
  PROVE  GenuineInvariant'
  <1>a. key' = key => key' = TRUE
    BY DEF GenuineInvariant, SignedInOrder
  <1>b. Len(src') \in Nat /\ Len(copy) \in Nat
    BY DEF TypeOK
  <1>c. ASSUME key' = key, copy' = <<>> \/ UNCHANGED <<copy, src>>,
               Receiving' /\ spc' \in {"data", "wait"} /\ Len(copy') + 1 = sent'
                 => sign' = <<src'[sent']>>
        PROVE  GenuineInvariant'
    BY <1>a, <1>b, <1>c, GenuineKept DEF GenuineInvariant, SignedInOrder
  <1>1. ASSUME NEW test \in BOOLEAN, GetStart(test) PROVE GenuineInvariant'
    <2>1. spc' = "cmd" /\ UNCHANGED <<key, copy, src>>
      BY <1>1 DEF GetStart, getServer, StopAndWait, ClientKnows
    <2> QED
      BY <1>c, <2>1
  <1>2. CASE GetCheck
    <2>1. copy = <<>> /\ copy' = <<>> /\ Receiving /\ UNCHANGED <<key, spc, src, sent, sign>>
      BY <1>2 DEF GetCheck, getServer, StopAndWait, ClientKnows, Receiving
    <2> QED
      BY <1>c, <2>1 DEF GenuineInvariant, SignedInOrder
  <1>3. CASE GetSize \/ GetInfo
    <2>1. Receiving /\ UNCHANGED <<key, spc, copy, src, sent, sign>>
      BY <1>3 DEF GetSize, GetInfo, getServer, Receiving
    <2> QED
      BY <1>c, <2>1 DEF GenuineInvariant, SignedInOrder
  <1>4. CASE GetAbandon \/ GetEnd \/ PwdStart \/ PwdReturns
    <2>1. ~Receiving' /\ UNCHANGED <<key, src>> /\ (copy' = copy \/ copy' = <<>>)
      BY <1>4
      DEF GetAbandon, GetEnd, PwdStart, PwdReturns, ClientSends, getClient, getServer, Receiving
    <2> QED
      BY <1>c, <2>1
  <1>5. CASE GetBody
    <2>1. UNCHANGED <<key, spc, src, sent, sign>>
      BY <1>5 DEF GetBody, getServer
    <2>2. Len(copy) + 1 = sent /\ sent <= Len(src)
      BY <1>5, FragmentGenuine
    <2>3. CASE copy' = Append(copy, src[sent])
      <3>1. src[sent] \in Content
        BY <1>b, <2>2 DEF TypeOK
      <3>2. /\ Len(copy') = Len(copy) + 1 /\ copy'[Len(copy) + 1] = src[sent]
            /\ \A i \in 1 .. Len(copy) : copy'[i] = copy[i]
        BY <2>3, <3>1, Sent DEF TypeOK
      <3>3. GenuineCopy'
        BY <1>b, <2>1, <2>2, <3>2 DEF GenuineInvariant, GenuineCopy
      <3>4. Len(copy') + 1 # sent'
        BY <1>b, <2>1, <2>2, <3>2
      <3> QED
        BY <1>a, <2>1, <3>3, <3>4 DEF GenuineInvariant, SignedInOrder
    <2>4. CASE copy' = copy /\ Verdict(FALSE)
      <3>1. ~Receiving'
        BY <2>4 DEF Verdict, ClientSends, Receiving
      <3> QED
        BY <1>c, <2>1, <2>4, <3>1
    <2> QED
      BY <1>5, <2>3, <2>4, FragmentGenuine
  <1>6. CASE ServGet \/ ServLeftover
    <2>1. ~exists
      <3>1. CASE ServGet
        <4>1. c2s # <<>> /\ Head(c2s) = c2s[1] /\ 1 \in 1 .. Len(c2s) /\ c2s[1] = Cmd("get")
          BY <3>1, FirstMessage DEF ServGet
        <4> QED
          BY <4>1 DEF StopAndWait, CommandsInOrder, Asked
      <3>2. CASE ServLeftover
        <4>1. c2s # <<>> /\ Head(c2s) = c2s[1] /\ 1 \in 1 .. Len(c2s) /\ c2s[1].kind = "rest"
          BY <3>2, FirstMessage DEF ServLeftover
        <4> QED
          BY <4>1 DEF StopAndWait, CommandsInOrder, Asked
      <3> QED
        BY <1>6, <3>1, <3>2
    <2>2. copy' = <<>> /\ key' = key
      BY <1>6, <2>1 DEF StopAndWait, ClientKnows, ServGet, ServLeftover, getClient
    <2>3. spc' \in {"cmd", "size", "killed"}
      BY <1>6 DEF ServGet, ServLeftover, Open, ServerSend
    <2> QED
      BY <1>c, <2>2, <2>3
  <1>7. CASE ServPwd \/ ServSize \/ ServStatus \/ ServEndOfFile \/ ServFinal
    <2>1. UNCHANGED <<key, copy, src>>
      BY <1>7 DEF ServPwd, ServSize, ServStatus, ServEndOfFile, ServFinal, getClient, getServer
    <2>2. spc' \notin {"data", "wait"}
      BY <1>7 DEF ServPwd, ServSize, ServStatus, ServEndOfFile, ServFinal, ServerSend
    <2> QED
      BY <1>c, <2>1, <2>2
  <1>8. CASE ServInfo
    <2>1. sign' = <<src[sent + 1]>> /\ sent' = sent + 1 /\ UNCHANGED <<key, copy, src>>
      BY <1>8 DEF ServInfo, Sign, Trusted, getClient
    <2> QED
      BY <1>c, <2>1
  <1>9. CASE ServData
    <2>1. spc = "data" /\ Receiving' = Receiving /\ UNCHANGED <<key, copy, src, sent, sign>>
      BY <1>9 DEF ServData, Receiving, getClient
    <2> QED
      BY <1>c, <2>1 DEF GenuineInvariant, SignedInOrder
  <1>10. CASE (ServerHangup \/ ClientQuit) /\ UNCHANGED <<getClient, getServer>>
    <2>1. (spc' = "gone" \/ ~Receiving') /\ UNCHANGED <<key, copy, src>>
      BY <1>10 DEF ServerHangup, ClientQuit, Receiving, getClient, getServer
    <2> QED
      BY <1>c, <2>1
  <1>11. CASE UNCHANGED vars
    <2>1. Receiving' = Receiving /\ UNCHANGED <<key, spc, copy, src, sent, sign>>
      BY <1>11 DEF vars, connVars, getClient, getServer, Receiving
    <2> QED
      BY <1>c, <2>1 DEF GenuineInvariant, SignedInOrder
  <1>12. ~GetEmptyBody /\ ~Environment
    BY NoEmptyBody DEF Environment, ServerDies, Trusted
  <1> QED
    BY <1>1, <1>2, <1>3, <1>4, <1>5, <1>6, <1>7, <1>8, <1>9, <1>10, <1>11, <1>12
    DEF DownloadNext, ClientStep, ServerStep, User, Finished

\* The invariants of a download whose signatures mean something.
LEMMA TrustedInvariant ==
  ASSUME Trusted
  PROVE  DownloadSpec => [](TypeOK /\ ServerThere /\ StopAndWait /\ GenuineInvariant)
<1>1. DownloadInit => GenuineInvariant
  <2> SUFFICES ASSUME DownloadInit PROVE GenuineInvariant
    OBVIOUS
  <2>1. key = TRUE /\ cpc = "prompt" /\ copy = <<>> /\ src = <<>>
    BY DEF DownloadInit, ConnectionInit, Trusted
  <2> QED
    BY <2>1 DEF GenuineInvariant, SignedInOrder, GenuineCopy, Receiving
<1>2. /\ TypeOK /\ ServerThere /\ StopAndWait /\ TypeOK' /\ GenuineInvariant
      /\ [DownloadNext]_vars
      => GenuineInvariant'
  BY GenuineStep
<1>3. Steady
  BY DEF Trusted, Steady
<1> QED
  BY <1>1, <1>2, <1>3, StopAndWaitInvariant, PTL DEF DownloadSpec

\* In a trusted environment get_file's copy is, at every moment, the beginning of
\* the file that the server signs: also when clnt_get_test sends another file's
\* data, recv returns part of a fragment, memory or disk fail, the client is
\* killed, or what is left of a pwd makes the server open another file; but not when
\* the server's process ends before the first Length_Info is there.
THEOREM Genuine ==
  ASSUME Trusted
  PROVE  DownloadSpec => []GenuineCopy
<1>1. GenuineInvariant => GenuineCopy
  BY DEF GenuineInvariant
<1> QED
  BY <1>1, TrustedInvariant, PTL

\* A genuine copy of the source's length is the source.
LEMMA WholeCopy ==
  ASSUME TypeOK, GenuineCopy, Len(copy) = Len(src)
  PROVE  copy = src
  <1>1. copy \in Seq(Content \cup {Cut}) /\ src \in Seq(Content \cup {Cut})
    BY DEF TypeOK
  <1>2. \A i \in 1 .. Len(copy) : copy[i] = src[i]
    BY DEF GenuineCopy
  <1> QED
    BY <1>1, <1>2, SeqEqual

\* And a download that get_file calls complete is the whole file, as long as the server's
\* process stays: the server did not go on to another file meanwhile.
THEOREM Complete ==
  ASSUME Trusted
  PROVE  DownloadSpec => []CompleteIsWhole
<1>1. TypeOK /\ ServerThere /\ StopAndWait /\ GenuineInvariant => CompleteIsWhole
  BY WholeCopy DEF StopAndWait, KeptIsSettled, GenuineInvariant, CompleteIsWhole
<1> QED
  BY <1>1, TrustedInvariant, PTL

\* Every step is one of the abstract transfer's, or none.
LEMMA TransferStep ==
  ASSUME Trusted, TypeOK, ServerThere, StopAndWait, GenuineInvariant, [DownloadNext]_vars
  PROVE  [Transfer!FTNext]_(Transfer!ftVars)
  <1>a. UNCHANGED <<src, exists, copy, verdict>> => UNCHANGED Transfer!ftVars
    BY DEF Transfer!ftVars, Outcome
  <1>b. verdict' = verdict => Outcome' = Outcome
    BY DEF Outcome
  <1>1. ASSUME NEW test \in BOOLEAN, GetStart(test) PROVE UNCHANGED Transfer!ftVars
    BY <1>1, <1>a DEF GetStart, getServer
  <1>2. CASE GetCheck
    <2>1. cpc = "check" /\ src' = src
      BY <1>2 DEF GetCheck, getServer
    <2>2. exists = FALSE /\ copy = <<>> /\ verdict = "none"
      BY <2>1 DEF TypeOK, StopAndWait, ClientKnows, Receiving
    <2>3. CASE verdict' = "nofile" /\ UNCHANGED <<exists, copy>>
      BY <2>1, <2>2, <2>3 DEF Transfer!ftVars, Outcome
    <2>4. CASE exists' = TRUE /\ copy' = <<>> /\ verdict' = verdict
      BY <1>b, <2>1, <2>2, <2>4 DEF Transfer!FTNext, Transfer!Create
    <2> QED
      BY <1>2, <2>3, <2>4 DEF GetCheck
  <1>3. CASE GetSize \/ GetInfo \/ GetAbandon \/ PwdStart \/ PwdReturns
    BY <1>3, <1>a DEF GetSize, GetInfo, GetAbandon, PwdStart, PwdReturns, getClient, getServer
  <1>4. CASE GetBody
    <2>1. UNCHANGED <<src, exists, verdict>> /\ cpc = "body"
      BY <1>4 DEF GetBody, getServer
    <2>2. exists /\ verdict = "none"
      BY <2>1 DEF StopAndWait, ClientKnows, Receiving
    <2>3. CASE copy' = copy
      BY <1>a, <2>1, <2>3
    <2>4. CASE copy' = Append(copy, src[sent])
      <3>1. copy # Append(copy, src[sent])
        <4>1. copy \in Seq(Content \cup {Cut})
          BY DEF TypeOK
        <4> QED
          BY <4>1
      <3>2. Len(copy) + 1 = sent /\ sent <= Len(src)
        BY <1>4, <2>4, <3>1, FragmentGenuine DEF StopAndWait, Reads
      <3>3. Len(copy) \in Nat /\ Len(src) \in Nat
        BY DEF TypeOK
      <3>4. Len(copy) < Len(src)
        BY <3>2, <3>3
      <3>5. copy' = Append(copy, src[Len(copy) + 1])
        BY <2>4, <3>2
      <3>6. Outcome = "none" /\ Outcome' = Outcome
        BY <1>b, <2>1, <2>2 DEF Outcome
      <3> QED
        BY <2>1, <2>2, <3>4, <3>5, <3>6 DEF Transfer!FTNext, Transfer!Extend
    <2> QED
      BY <1>4, <2>3, <2>4, FragmentGenuine
  <1>5. CASE GetEnd
    <2>1. /\ cpc = "end" /\ src' = src /\ exists' = Keeps
          /\ verdict' = (IF Keeps THEN "ok" ELSE "failed")
          /\ copy' = (IF Keeps THEN copy ELSE <<>>)
      BY <1>5 DEF GetEnd, getServer
    <2>2. exists = TRUE /\ verdict = "none"
      BY <2>1 DEF TypeOK, StopAndWait, ClientKnows
    <2>3. CASE Keeps
      <3>1. success = 1
        BY <2>3 DEF Keeps, TypeOK
      <3>2. copy = src
        BY <2>1, <3>1, WholeCopy DEF StopAndWait, LoopDone, GenuineInvariant
      <3>3. exists' = TRUE
        <4>1. Keeps = TRUE
          BY <2>3 DEF Keeps
        <4> QED
          BY <2>1, <4>1
      <3> QED
        BY <2>1, <2>2, <2>3, <3>2, <3>3 DEF Transfer!FTNext, Transfer!Keep, Outcome
    <2>4. CASE ~Keeps
      <3>1. exists' = FALSE
        <4>1. Keeps = FALSE
          BY <2>4 DEF Keeps
        <4> QED
          BY <2>1, <4>1
      <3> QED
        BY <2>1, <2>2, <2>4, <3>1 DEF Transfer!FTNext, Transfer!Drop, Outcome
    <2> QED
      BY <2>3, <2>4
  <1>6. CASE ServGet \/ ServLeftover
    <2>1. Open /\ UNCHANGED <<exists, copy, verdict>>
      BY <1>6 DEF ServGet, ServLeftover, getClient
    <2>2. exists = FALSE
      <3>1. c2s # <<>> /\ Head(c2s) = c2s[1] /\ 1 \in 1 .. Len(c2s)
        BY <1>6, FirstMessage DEF ServGet, ServLeftover
      <3>2. Asked(1) /\ (c2s[1] = Cmd("get") \/ c2s[1].kind = "rest")
        BY <1>6, <3>1 DEF ServGet, ServLeftover, StopAndWait, CommandsInOrder
      <3> QED
        BY <3>2 DEF Asked, TypeOK
    <2>3. CASE src' = src
      BY <1>a, <2>1, <2>3
    <2>4. CASE src' \in Files
      BY <1>b, <2>1, <2>2, <2>4 DEF Transfer!FTNext, Transfer!Choose
    <2> QED
      BY <2>1, <2>3, <2>4 DEF Open
  <1>7. CASE ServPwd \/ ServSize \/ ServInfo \/ ServData \/ ServStatus \/ ServEndOfFile \/ ServFinal
    BY <1>7, <1>a
    DEF ServPwd, ServSize, ServInfo, ServData, ServStatus, ServEndOfFile, ServFinal,
        getClient, getServer
  <1>8. CASE (ServerHangup \/ ClientQuit) /\ UNCHANGED <<getClient, getServer>>
    BY <1>8, <1>a DEF getClient, getServer
  <1>9. CASE UNCHANGED vars
    BY <1>9, <1>a DEF vars, getClient, getServer
  <1>10. ~GetEmptyBody /\ ~Environment
    BY NoEmptyBody DEF Environment, ServerDies, Trusted
  <1> QED
    BY <1>1, <1>2, <1>3, <1>4, <1>5, <1>6, <1>7, <1>8, <1>9, <1>10
    DEF DownloadNext, ClientStep, ServerStep, User, Finished

\* In a trusted environment the download implements the abstract transfer: the copy
\* on the client's disk is created, extended by genuine fragments in order, and then
\* kept whole or removed; no other file is opened for it in between.
THEOREM Implements ==
  ASSUME Trusted
  PROVE  DownloadSpec => ImplementsTransfer
<1>1. DownloadInit => Transfer!FTInit
  BY DEF DownloadInit, Transfer!FTInit, Outcome
<1>2. TypeOK /\ ServerThere /\ StopAndWait /\ GenuineInvariant /\ [DownloadNext]_vars
      => [Transfer!FTNext]_(Transfer!ftVars)
  BY TransferStep
<1> QED
  BY <1>1, <1>2, TrustedInvariant, PTL DEF DownloadSpec, ImplementsTransfer, Transfer!FTSpec

----------------------------------------------------------------------------
(* The two ends' verdicts, when they leave the loop together. *)

\* The other clauses of a step that leaves the download open.
LEMMA StillOpen ==
  ASSUME verdict' = "none", cpc' # "end" \/ success' # 0,
         \A i \in 1 .. Len(c2s') : c2s'[i].kind # "rest"
  PROVE  ClosesTogether'
  BY DEF ClosesTogether

\* Nothing is left over in the stream to the server of a download that is open.
LEMMA NoLeftover ==
  ASSUME TypeOK, ServerThere, StopAndWait, verdict = "none"
  PROVE  /\ \A i \in 1 .. Len(c2s) : c2s[i].kind # "rest"
         /\ \A i \in 1 .. Len(c2s) : c2s[i].kind = "cmd" => spc = "cmd"
  <1> SUFFICES ASSUME NEW i \in 1 .. Len(c2s)
               PROVE  c2s[i].kind # "rest" /\ (c2s[i].kind = "cmd" => spc = "cmd")
    OBVIOUS
  <1>1. Asked(i) /\ ~asked
    BY DEF StopAndWait, CommandsInOrder, ClientKnows
  <1> QED
    BY <1>1 DEF Asked

\* A failed download closes like a good one: the verdict on the fragment that was
\* refused is followed by the last one.
LEMMA FailureSettles ==
  ASSUME TypeOK, ServerThere, StopAndWait, ClosesTogether, GetEnd, success = 0
  PROVE  Settled'
  <1>1. /\ cpc = "end" /\ verdict' = "failed" /\ success' = 0 /\ c2s' = Append(c2s, Num(0))
        /\ UNCHANGED <<spc, src, sent, served>>
    BY Heard DEF GetEnd, Keeps, getServer
  <1>2. \/ spc = "wait" /\ Len(c2s) = 1 /\ c2s[1].kind = "num" /\ c2s[1].num = 0
        \/ spc = "final" /\ c2s = <<>>
    BY <1>1 DEF ClosesTogether
  <1>3. /\ Len(c2s) \in Nat /\ Len(c2s') = Len(c2s) + 1 /\ c2s'[Len(c2s) + 1] = Num(0)
        /\ \A i \in 1 .. Len(c2s) : c2s'[i] = c2s[i]
    BY <1>1, CommandSent, Messages
  <1>4. CASE spc = "wait"
    <2>a. Len(c2s) = 1 /\ c2s[1].kind = "num" /\ c2s[1].num = 0
      BY <1>2, <1>4
    <2>b. Len(c2s) + 1 = 2
      BY <2>a
    <2>1. Len(c2s') = 2 /\ c2s'[1] = c2s[1] /\ c2s'[2] = Num(0)
      BY <1>3, <2>a, <2>b
    <2>2. Closes(2)'
      BY <1>1, <2>1, CommandNames DEF Closes
    <2> QED
      BY <1>1, <1>4, <2>a, <2>1, <2>2 DEF Settled
  <1>5. CASE spc = "final"
    <2>1. c2s' = <<Num(0)>>
      BY <1>1, <1>2, <1>5
    <2>2. Len(c2s') = 1 /\ c2s'[1] = Num(0)
      BY <2>1
    <2>3. Closes(1)'
      BY <1>1, <2>2, CommandNames DEF Closes
    <2> QED
      BY <1>1, <1>5, <2>2, <2>3 DEF Settled
  <1> QED
    BY <1>2, <1>4, <1>5

\* In a smooth environment the client does not leave its loop without a verdict.
LEMMA NoAbandon ==
  ASSUME Smooth, TypeOK, ServerThere, StopAndWait
  PROVE  ~GetAbandon
  <1> SUFFICES ASSUME GetAbandon PROVE FALSE
    OBVIOUS
  <1>1. cpc = "body" /\ info.total < 0
    BY Heard DEF GetAbandon, Smooth
  <1>2. Len(sign) \in {0, 1}
    BY DEF TypeOK, Signs
  <1> QED
    BY <1>1, <1>2 DEF StopAndWait, ClientKnows, LengthInfo

\* What the client does in the loop and after it.
LEMMA ClientCloses ==
  ASSUME Smooth, TypeOK, ServerThere, StopAndWait, ClosesTogether, ClientStep, verdict = "none"
  PROVE  ClosesTogether'
  <1>a. \A i \in 1 .. Len(c2s) : c2s[i].kind # "rest"
    BY NoLeftover
  <1>1. CASE GetCheck
    <2>1. /\ cpc = "check" /\ s2c # <<>> /\ Receiving
          /\ UNCHANGED <<spc, c2s, success, src, sent, served>>
      BY <1>1, Heard DEF GetCheck, getServer, Receiving
    <2>2. c2s = <<>> /\ (Head(s2c).num = 0 <=> spc = "cmd") /\ Len(c2s) = 0
      BY <2>1, Expected
    <2>3. CASE Head(s2c).num = 0
      <3>1. verdict' = "nofile" /\ cpc' = "prompt"
        BY <1>1, <2>1, <2>3 DEF GetCheck
      <3>2. served = "nofile"
        BY <2>1, <2>2, <2>3 DEF StopAndWait, InStep
      <3>3. Settled'
        BY <2>1, <2>2, <2>3, <3>1, <3>2 DEF Settled
      <3> QED
        BY <2>1, <2>2, <2>3, <3>1, <3>3 DEF ClosesTogether
    <2>4. CASE Head(s2c).num # 0
      <3>1. verdict' = "none" /\ cpc' = "size"
        BY <1>1, <2>1, <2>4 DEF GetCheck
      <3> QED
        BY <1>a, <2>1, <3>1, StillOpen
    <2> QED
      BY <2>3, <2>4
  <1>2. CASE GetSize \/ GetInfo
    <2>1. Receiving /\ UNCHANGED <<c2s, success, verdict>>
      BY <1>2 DEF GetSize, GetInfo, Receiving
    <2>2. success' = 1
      BY <2>1 DEF StopAndWait, ClientKnows
    <2> QED
      BY <1>a, <2>1, <2>2, StillOpen
  <1>3. CASE GetAbandon \/ GetEmptyBody
    BY <1>3, NoAbandon, NoEmptyBody
  <1>4. CASE GetBody
    <2>1. UNCHANGED <<spc, verdict>> /\ cpc = "body"
      BY <1>4 DEF GetBody
    <2>2. spc = "wait" /\ c2s = <<>> /\ s2c' = <<>>
      BY <1>4, FragmentTaken
    <2>3. success' \in {0, 1} /\ c2s' = Append(c2s, Num(success'))
      BY <1>4, <2>1, FragmentTaken, Judged DEF TypeOK
    <2>4. Num(success') \in Message
      BY <2>3, Messages
    <2>5. Len(c2s') = 1 /\ c2s'[1] = Num(success')
      BY <2>2, <2>3, <2>4, CommandSent
    <2>6. c2s'[1].kind = "num" /\ c2s'[1].num = success'
      BY <2>5, CommandNames
    <2> QED
      BY <2>1, <2>2, <2>5, <2>6 DEF ClosesTogether
  <1>5. CASE GetEnd
    <2>1. cpc' = "prompt" /\ verdict' \in {"ok", "failed"} /\ c2s' = Append(c2s, Num(success'))
      BY <1>5, Heard DEF GetEnd
    <2>2. success' \in {0, 1}
      BY <1>5 DEF GetEnd, TypeOK
    <2>3. Num(success') \in Message
      BY <2>2, Messages
    <2>4. \A i \in 1 .. Len(c2s') : c2s'[i].kind # "rest"
      BY <1>a, <2>1, <2>3, CommandSent, CommandNames
    <2>5. success = 0 \/ success = 1
      BY DEF TypeOK
    <2>6. Settled'
      BY <1>5, <2>5, EndSettles, FailureSettles
    <2> QED
      BY <2>1, <2>4, <2>6 DEF ClosesTogether
  <1>6. CASE PwdReturns
    BY <1>6 DEF PwdReturns, StopAndWait, ClientKnows
  <1> QED
    BY <1>1, <1>2, <1>3, <1>4, <1>5, <1>6 DEF ClientStep

\* A server that waits for the verdict on a fragment the client has refused hears it.
LEMMA ServerCloses ==
  ASSUME Smooth, TypeOK, ServerThere, StopAndWait, ClosesTogether, ServerStep, verdict = "none"
  PROVE  ClosesTogether'
  <1>a. /\ \A i \in 1 .. Len(c2s) : c2s[i].kind # "rest"
        /\ \A i \in 1 .. Len(c2s) : c2s[i].kind = "cmd" => spc = "cmd"
    BY NoLeftover
  <1>b. UNCHANGED <<cpc, verdict, success>>
    BY DEF ServerStep, ServGet, ServPwd, ServLeftover, ServSize, ServInfo, ServData, ServStatus,
           ServEndOfFile, ServFinal, ServerHangup, getClient
  <1>c. cpc = "end" => cUp = TRUE
    BY DEF StopAndWait, ClientKnows
  <1>d. c2s # <<>> => 1 \in 1 .. Len(c2s) /\ c2s \in Seq(Message)
    BY FirstMessage DEF TypeOK
  <1>1. c2s' = c2s \/ (c2s # <<>> /\ c2s' = Tail(c2s))
    <2>1. ASSUME RecvStatus, spc # "cmd" PROVE c2s' = c2s \/ (c2s # <<>> /\ c2s' = Tail(c2s))
      BY <1>a, <1>d, <2>1, StatusTaken
    <2> QED
      BY <2>1
      DEF ServerStep, ServGet, ServPwd, ServLeftover, ServSize, ServInfo, ServData, ServStatus,
          ServEndOfFile, ServFinal, ServerHangup
  <1>2. \A i \in 1 .. Len(c2s') : c2s'[i].kind # "rest"
    <2>1. CASE c2s' = c2s
      BY <1>a, <2>1
    <2>2. CASE c2s # <<>> /\ c2s' = Tail(c2s)
      BY <1>a, <2>2, Consumed
    <2> QED
      BY <1>1, <2>1, <2>2
  <1>3. ASSUME cpc = "end", success = 0
        PROVE  /\ s2c' = <<>>
               /\ \/ spc' = "wait" /\ Len(c2s') = 1 /\ c2s'[1].kind = "num" /\ c2s'[1].num = 0
                  \/ spc' = "final" /\ c2s' = <<>>
    <2>1. /\ s2c = <<>>
          /\ \/ spc = "wait" /\ Len(c2s) = 1 /\ c2s[1].kind = "num" /\ c2s[1].num = 0
             \/ spc = "final" /\ c2s = <<>>
      BY <1>3 DEF ClosesTogether
    <2>2. ServStatus \/ ServFinal
      BY <2>1 DEF ServerStep, ServGet, ServPwd, ServLeftover, ServSize, ServInfo, ServData,
                  ServEndOfFile, ServerHangup
    <2>3. RecvStatus /\ s2c' = s2c
      BY <2>2 DEF ServStatus, ServFinal
    <2>4. c2s # <<>>
      BY <1>c, <1>3, <2>3, StatusTaken
    <2>5. spc = "wait" /\ Len(c2s) = 1 /\ c2s[1].kind = "num" /\ c2s[1].num = 0
      BY <2>1, <2>4
    <2>6. c2s' = Tail(c2s) /\ status' = 0
      BY <2>3, <2>4, <2>5, StatusTaken
    <2>7. c2s' = <<>>
      BY <2>4, <2>5, <2>6, Consumed
    <2>8. spc' = "final"
      BY <2>2, <2>5, <2>6 DEF ServStatus, ServFinal
    <2> QED
      BY <2>1, <2>3, <2>7, <2>8
  <1> QED
    BY <1>b, <1>2, <1>3 DEF ClosesTogether

\* Every step of a smooth environment keeps the ends together.
LEMMA ClosingStep ==
  ASSUME Smooth, TypeOK, ServerThere, StopAndWait, StopAndWait', ClosesTogether, [DownloadNext]_vars
  PROVE  ClosesTogether'
  <1>e. ~Environment
    BY DEF Environment, ServerDies, Smooth
  <1>1. CASE verdict # "none"
    <2>1. /\ verdict' = verdict /\ Settled'
          /\ verdict' = "nofile" => spc' \in {"cmd", "gone", "killed"}
          /\ \A i \in 1 .. Len(c2s') : c2s'[i].kind # "rest"
      BY <1>e, <1>1, SettledStep DEF ClosesTogether
    <2>2. cpc' # "end"
      BY <1>1, <2>1 DEF StopAndWait, ClientKnows
    <2> QED
      BY <2>1, <2>2 DEF ClosesTogether
  <1>2. CASE verdict = "none"
    <2>1. CASE ClientStep
      BY <1>2, <2>1, ClientCloses
    <2>2. CASE ServerStep
      BY <1>2, <2>2, ServerCloses
    <2>3. ASSUME NEW test \in BOOLEAN, GetStart(test) PROVE ClosesTogether'
      <3>1. cpc' = "check" /\ verdict' = "none" /\ c2s' = Append(c2s, Cmd("get"))
        BY <1>2, <2>3, Heard DEF GetStart
      <3>2. \A i \in 1 .. Len(c2s') : c2s'[i].kind # "rest"
        BY <1>2, <3>1, NoLeftover, CommandSent, Messages, CommandNames
      <3> QED
        BY <3>1, <3>2, StillOpen
    <2>4. CASE PwdStart
      BY <1>2, <2>4 DEF PwdStart
    <2>5. CASE ClientQuit /\ UNCHANGED <<getClient, getServer>>
      <3>1. cpc' = "gone" /\ c2s' = c2s /\ verdict' = "none"
        BY <1>2, <2>5 DEF ClientQuit, getClient
      <3> QED
        BY <1>2, <3>1, NoLeftover, StillOpen
    <2>6. CASE UNCHANGED vars
      BY <1>2, <2>6 DEF vars, connVars, getClient, getServer, ClosesTogether, Settled, Closes
    <2> QED
      BY <1>e, <2>1, <2>2, <2>3, <2>4, <2>5, <2>6 DEF DownloadNext, User, Finished
  <1> QED
    BY <1>1, <1>2

\* The client's steps: it takes the last answer before it goes back to the prompt.
LEMMA ClientStreamClean ==
  ASSUME Smooth, TypeOK, ServerThere, StopAndWait, AgreementInvariant,
         ClientStep \/ PwdStart \/ (\E test \in BOOLEAN : GetStart(test))
  PROVE  StreamClean'
  <1>a. ClosesTogether /\ StreamClean
    BY DEF AgreementInvariant
  <1>1. CASE \E test \in BOOLEAN : GetStart(test)
    <2>1. cpc' = "check"
      BY <1>1, Heard DEF GetStart
    <2> QED
      BY <2>1 DEF StreamClean
  <1>2. CASE GetCheck
    <2>1. cpc = "check" /\ s2c # <<>> /\ s2c' = Tail(s2c) /\ Receiving /\ c2s' = c2s
      BY <1>2, Heard DEF GetCheck, Receiving
    <2>2. CASE Head(s2c).num = 0
      <3>1. c2s = <<>> /\ spc = "cmd" /\ cpc' = "prompt"
        BY <1>2, <2>1, <2>2, Expected DEF GetCheck
      <3>2. Len(s2c) = 1
        BY <2>1, <3>1 DEF StopAndWait, InStep
      <3>3. s2c' = <<>> /\ Len(c2s') = 0
        BY <2>1, <3>1, <3>2, ConsumedReply
      <3> QED
        BY <3>1, <3>3 DEF StreamClean
    <2>3. CASE Head(s2c).num # 0
      BY <1>2, <2>1, <2>3 DEF GetCheck, StreamClean
    <2> QED
      BY <2>2, <2>3
  <1>3. CASE GetSize \/ GetInfo \/ GetBody
    <2>1. cpc' \in {"info", "body", "end"}
      <3>1. CASE GetSize \/ GetInfo
        BY <3>1 DEF GetSize, GetInfo, LoopHead
      <3>2. CASE GetBody
        <4>1. cpc = "body" /\ \E ok \in BOOLEAN : Verdict(ok)
          BY <3>2, FragmentTaken DEF GetBody
        <4> QED
          BY <4>1, Judged DEF LoopHead
      <3> QED
        BY <1>3, <3>1, <3>2
    <2> QED
      BY <2>1 DEF StreamClean
  <1>4. CASE GetAbandon \/ GetEmptyBody
    BY <1>4, NoAbandon, NoEmptyBody
  <1>5. CASE GetEnd
    <2>1. /\ cpc = "end" /\ cpc' = "prompt" /\ s2c' = s2c /\ c2s' = Append(c2s, Num(success'))
          /\ success' \in {0, 1} /\ success \in {0, 1}
      BY <1>5, Heard DEF GetEnd, TypeOK
    <2>2. s2c = <<>> /\ (c2s = <<>> \/ (Len(c2s) = 1 /\ c2s[1].kind = "num"))
      BY <1>a, <2>1 DEF StopAndWait, LoopDone, ClosesTogether
    <2>3. Num(success') \in Message
      BY <2>1, Messages
    <2>4. \A i \in 1 .. Len(c2s) : c2s[i].kind # "cmd"
      <3>1. Len(<<>>) = 0
        OBVIOUS
      <3> QED
        BY <2>2, <3>1
    <2>5. \A i \in 1 .. Len(c2s') : c2s'[i].kind # "cmd"
      BY <2>1, <2>3, <2>4, CommandSent, CommandNames
    <2> QED
      BY <2>1, <2>2, <2>5 DEF StreamClean
  <1>6. CASE PwdStart
    <2>1. cpc = "prompt" /\ cpc' = "pwd" /\ s2c' = s2c
      BY <1>6, Heard DEF PwdStart
    <2> QED
      BY <1>a, <2>1 DEF StreamClean
  <1>7. CASE PwdReturns
    <2>1. cpc = "pwd" /\ cpc' = "prompt" /\ s2c # <<>> /\ s2c' = Tail(s2c) /\ c2s' = c2s
      BY <1>7, Heard DEF PwdReturns
    <2>2. s2c = <<Path>> /\ c2s = <<>>
      BY <1>a, <2>1 DEF StreamClean
    <2>3. s2c' = <<>> /\ Len(c2s') = 0
      BY <2>1, <2>2
    <2> QED
      BY <2>1, <2>3 DEF StreamClean
  <1> QED
    BY <1>1, <1>2, <1>3, <1>4, <1>5, <1>6, <1>7 DEF ClientStep

\* The server's steps: after the download it answers pwd and sends nothing else.
LEMMA ServerStreamClean ==
  ASSUME Smooth, TypeOK, ServerThere, StopAndWait, AgreementInvariant, ServerStep
  PROVE  StreamClean'
  <1>a. ClosesTogether /\ StreamClean
    BY DEF AgreementInvariant
  <1>b. cpc' = cpc /\ cUp' = cUp
    BY DEF ServerStep, ServGet, ServPwd, ServLeftover, ServSize, ServInfo, ServData, ServStatus,
           ServEndOfFile, ServFinal, ServerHangup
  <1>c. cUp = (cpc # "gone")
    BY DEF StopAndWait, ClientKnows
  <1>d. c2s # <<>> => /\ 1 \in 1 .. Len(c2s) /\ Head(c2s) = c2s[1] /\ Asked(1)
                      /\ c2s[1].kind # "rest"
    <2>1. c2s # <<>> => 1 \in 1 .. Len(c2s) /\ Head(c2s) = c2s[1]
      BY FirstMessage
    <2> QED
      BY <1>a, <2>1 DEF StopAndWait, CommandsInOrder, ClosesTogether
  <1>1. CASE cpc = "gone"
    <2>1. s2c' = s2c
      BY <1>1, <1>c
      DEF ServerStep, ServGet, ServPwd, ServLeftover, Open, ServSize, ServInfo, ServData,
          ServStatus, ServEndOfFile, ServFinal, ServerHangup, ServerSend
    <2> QED
      BY <1>1, <1>a, <1>b, <2>1 DEF StreamClean
  <1>2. ASSUME cpc \in {"prompt", "pwd"}
        PROVE  \/ ServGet /\ cpc = "prompt" /\ c2s[1].kind = "cmd" /\ c2s # <<>>
               \/ ServPwd
               \/ ServStatus \/ ServEndOfFile \/ ServFinal
    <2>1. CASE ServSize \/ ServInfo \/ ServData
      <3>1. spc # "cmd"
        BY <2>1 DEF ServSize, ServInfo, ServData
      <3>2. verdict # "none"
        BY <1>2, <3>1 DEF StopAndWait, ClientKnows
      <3>3. Settled
        BY <1>a, <3>2 DEF ClosesTogether
      <3> QED
        BY <2>1, <3>3 DEF ServSize, ServInfo, ServData, Settled, TypeOK
    <2>2. CASE ServGet
      <3>1. c2s # <<>> /\ Head(c2s) = Cmd("get")
        BY <2>2 DEF ServGet
      <3>2. c2s[1].kind = "cmd" /\ verdict = "none"
        BY <1>d, <3>1, CommandNames DEF Asked
      <3>3. cpc # "pwd"
        BY <3>2 DEF StopAndWait, ClientKnows
      <3> QED
        BY <1>2, <2>2, <3>1, <3>2, <3>3
    <2>3. CASE ServLeftover
      BY <1>d, <2>3 DEF ServLeftover
    <2>4. CASE ServerHangup
      BY <1>2, <1>c, <2>4 DEF ServerHangup, ServerAtEof
    <2> QED
      BY <2>1, <2>2, <2>3, <2>4 DEF ServerStep
  <1>3. ASSUME ServPwd PROVE c2s # <<>> /\ c2s[1].kind = "cmd" /\ c2s' = <<>>
    <2>1. c2s # <<>> /\ Head(c2s) = Cmd("pwd") /\ c2s' = Tail(c2s)
      BY <1>3 DEF ServPwd
    <2>2. c2s[1].kind = "cmd" /\ Len(c2s) = 1
      BY <1>d, <2>1, CommandNames DEF Asked
    <2> QED
      BY <2>1, <2>2, Consumed
  <1>4. CASE cpc = "prompt"
    <2>1. s2c = <<>> /\ \A i \in 1 .. Len(c2s) : c2s[i].kind # "cmd"
      BY <1>a, <1>4 DEF StreamClean
    <2>2. ServStatus \/ ServEndOfFile \/ ServFinal
      BY <1>2, <1>3, <1>4, <1>d, <2>1
    <2>3. s2c' = s2c /\ (c2s' = c2s \/ RecvStatus)
      BY <2>2 DEF ServStatus, ServEndOfFile, ServFinal
    <2>4. c2s' = c2s \/ (c2s # <<>> /\ c2s' = Tail(c2s))
      BY <1>d, <2>1, <2>3, StatusTaken
    <2>5. \A i \in 1 .. Len(c2s') : c2s'[i].kind # "cmd"
      <3>1. CASE c2s' = c2s
        BY <2>1, <3>1
      <3>2. CASE c2s # <<>> /\ c2s' = Tail(c2s)
        BY <2>1, <3>2, Consumed
      <3> QED
        BY <2>4, <3>1, <3>2
    <2> QED
      BY <1>4, <1>b, <2>1, <2>3, <2>5 DEF StreamClean
  <1>5. CASE cpc = "pwd"
    <2>1. \/ s2c = <<>>
          \/ s2c = <<Path>> /\ c2s = <<>> /\ spc = "cmd"
      BY <1>a, <1>5 DEF StreamClean
    <2>2. CASE ServPwd
      <3>1. s2c = <<>> /\ cUp
        BY <1>3, <1>5, <1>c, <2>1, <2>2
      <3>2. s2c' = Append(s2c, Path) /\ spc' = "cmd"
        BY <2>2, <3>1 DEF ServPwd, ServerSend
      <3>3. s2c' = <<Path>>
        BY <3>1, <3>2
      <3> QED
        BY <1>3, <1>5, <1>b, <2>2, <3>2, <3>3 DEF StreamClean
    <2>3. CASE ServStatus \/ ServEndOfFile \/ ServFinal
      <3>1. spc # "cmd" /\ s2c' = s2c
        BY <2>3 DEF ServStatus, ServEndOfFile, ServFinal
      <3> QED
        BY <1>5, <1>b, <2>1, <3>1 DEF StreamClean
    <2> QED
      BY <1>2, <1>5, <2>2, <2>3
  <1>6. CASE cpc \notin {"prompt", "pwd", "gone"}
    BY <1>6, <1>b DEF StreamClean
  <1> QED
    BY <1>1, <1>4, <1>5, <1>6

\* Every step of a smooth environment keeps the streams clean.
LEMMA CleanStep ==
  ASSUME Smooth, TypeOK, ServerThere, StopAndWait, AgreementInvariant, [DownloadNext]_vars
  PROVE  StreamClean'
  <1>1. CASE ClientStep \/ PwdStart \/ (\E test \in BOOLEAN : GetStart(test))
    BY <1>1, ClientStreamClean
  <1>2. CASE ServerStep
    BY <1>2, ServerStreamClean
  <1>3. CASE ClientQuit /\ UNCHANGED <<getClient, getServer>>
    BY <1>3 DEF ClientQuit, StreamClean
  <1>4. CASE UNCHANGED vars
    BY <1>4 DEF vars, connVars, AgreementInvariant, StreamClean
  <1>5. ~Environment
    BY DEF Environment, ServerDies, Smooth
  <1> QED
    BY <1>1, <1>2, <1>3, <1>4, <1>5 DEF DownloadNext, User, Finished

LEMMA SmoothInvariant ==
  ASSUME Smooth
  PROVE  DownloadSpec => [](TypeOK /\ ServerThere /\ StopAndWait /\ AgreementInvariant)
<1>1. DownloadInit => AgreementInvariant
  <2>1. DownloadInit => cpc = "prompt" /\ verdict = "none" /\ s2c = <<>> /\ c2s = <<>>
    BY DEF DownloadInit, ConnectionInit
  <2>2. c2s = <<>> => Len(c2s) = 0
    OBVIOUS
  <2> QED
    BY <2>1, <2>2 DEF AgreementInvariant, ClosesTogether, StreamClean
<1>2. /\ TypeOK /\ ServerThere /\ StopAndWait /\ StopAndWait' /\ AgreementInvariant
      /\ [DownloadNext]_vars
      => AgreementInvariant'
  BY ClosingStep, CleanStep DEF AgreementInvariant
<1>3. Steady
  BY DEF Smooth, Steady
<1> QED
  BY <1>1, <1>2, <1>3, StopAndWaitInvariant, PTL DEF DownloadSpec

\* When neither end leaves the loop without the other, both are through with the
\* same verdict: what the server prints after clnt_get is what get_file printed.
THEOREM Agree ==
  ASSUME Smooth
  PROVE  DownloadSpec => []BothAgree
<1>1. AgreementInvariant => BothAgree
  BY DEF AgreementInvariant, ClosesTogether, Settled, BothAgree
<1> QED
  BY <1>1, SmoothInvariant, PTL

\* And the command after the download finds the stream clean: what its recv takes
\* is the server's answer to it.
THEOREM PathReceived ==
  ASSUME Smooth
  PROVE  DownloadSpec => []PwdGetsPath
<1>1. AgreementInvariant => PwdGetsPath
  BY DEF AgreementInvariant, StreamClean, PwdGetsPath
<1> QED
  BY <1>1, SmoothInvariant, PTL

=============================================================================
