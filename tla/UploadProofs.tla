--------------------------- MODULE UploadProofs ---------------------------
(* Theorems about Upload. *)
EXTENDS UploadInvariant, ConnectionProofs

\* The message at the head of the stream to the server.
LEMMA FirstMessage ==
  ASSUME TypeOK, c2s # <<>>
  PROVE  /\ Head(c2s) = c2s[1] /\ Head(c2s) \in Message
         /\ Len(c2s) \in Nat /\ Len(c2s) >= 1
         /\ Tail(c2s) \in Seq(Message) /\ Len(Tail(c2s)) = Len(c2s) - 1
         /\ \A i \in 1 .. Len(c2s) - 1 : Tail(c2s)[i] = c2s[i + 1]
  <1>1. c2s \in Seq(Message)
    BY DEF TypeOK
  <1> QED
    BY <1>1, Received

\* What goes into a Body is a fragment's contents.
LEMMA PayloadType ==
  ASSUME TypeOK, sent < Len(src)
  PROVE  src[sent + 1] \in Content /\ Payload \subseteq Content
  BY SMT DEF TypeOK, Payload

\* Sending to the client keeps the streams and the counters well typed.
LEMMA SendType ==
  ASSUME TypeOK, NEW n \in Int, NEW pc \in {"cmd", "size", "info", "body", "end", "astray"},
         ServerSend(Num(n), pc)
  PROVE  /\ spc' \in {"cmd", "size", "info", "body", "end", "astray", "gone", "killed"}
         /\ s2c' \in Seq([kind : {"num"}, num : Int]) /\ rst' \in BOOLEAN
  <1>1. Num(n) \in [kind : {"num"}, num : Int]
    BY Messages
  <1>2. Append(s2c, Num(n)) \in Seq([kind : {"num"}, num : Int])
    BY <1>1, Sent DEF TypeOK
  <1> QED
    BY <1>2 DEF TypeOK, ServerSend

LEMMA AnswerType ==
  ASSUME TypeOK, NEW ok \in BOOLEAN, Answer(ok)
  PROVE  /\ spc' \in {"cmd", "size", "info", "body", "end", "astray", "gone", "killed"}
         /\ s2c' \in Seq([kind : {"num"}, num : Int]) /\ rst' \in BOOLEAN
         /\ success' \in {0, 1} /\ left' \in Int
  <1>1. success' \in {0, 1} /\ left' \in Int
    BY DEF TypeOK, Answer, Lengths
  <1>2. (IF success' = 0 THEN "end" ELSE LoopHead(left')) \in {"cmd", "size", "info", "body", "end"}
    BY DEF LoopHead
  <1> QED
    BY <1>1, <1>2, SendType DEF Answer

\* So does what the client sends.
LEMMA ClientSendType ==
  ASSUME TypeOK, NEW stream \in Seq(Message), NEW pc \in {"size", "read", "wait", "end"},
         ClientSends(stream, pc)
  PROVE  /\ c2s' \in Seq(Message) /\ cUp' \in BOOLEAN
         /\ cpc' \in {"prompt", "size", "read", "wait", "end", "gone"}
  <1>1. c2s' \in Seq(Message) /\ cpc' \in {"prompt", "size", "read", "wait", "end", "gone"}
    BY DEF TypeOK, ClientSends
  <1>2. cUp' = cUp \/ cUp' = FALSE
    BY DEF ClientSends
  <1> QED
    BY <1>1, <1>2 DEF TypeOK

\* The end of the server's process empties streams.
LEMMA ProcessEndType ==
  ASSUME TypeOK, ProcessEnds
  PROVE  /\ spc' = "killed" /\ c2s' = <<>> /\ c2s' \in Seq(Message)
         /\ s2c' \in Seq([kind : {"num"}, num : Int])
         /\ UNCHANGED <<cpc, cUp, rst>>
  <1>1. <<>> \in Seq([kind : {"num"}, num : Int]) /\ <<>> \in Seq(Message)
    OBVIOUS
  <1> QED
    BY <1>1 DEF TypeOK, ProcessEnds

\* What a write leaves in the file, of a fragment or of bytes that are none.
LEMMA WritesType ==
  ASSUME TypeOK, NEW data \in Content \cup {Cut}, NEW w \in Writes(data)
  PROVE  /\ w.file \in Seq(Content \cup {Cut})
         /\ (w.check >= 0) \in BOOLEAN
  <1>1. file \in Seq(Content \cup {Cut})
    BY DEF TypeOK
  <1>2. /\ Append(file, data) \in Seq(Content \cup {Cut})
        /\ Append(file, Cut) \in Seq(Content \cup {Cut})
    BY <1>1, Sent
  <1>3. CASE w \in {[file |-> Append(file, data), check |-> 1]}
    BY <1>2, <1>3
  <1>4. CASE w \in {[file |-> file, check |-> -1]}
    BY <1>1, <1>4
  <1>5. CASE w \in {[file |-> Append(file, Cut), check |-> 1]}
    BY <1>2, <1>5
  <1> QED
    BY <1>3, <1>4, <1>5 DEF Writes

----------------------------------------------------------------------------

\* No step leaves the types.
LEMMA TypeStep ==
  ASSUME TypeOK, [UploadNext]_vars
  PROVE  TypeOK'
  <2>1. ASSUME NEW f \in Files, NEW test \in BOOLEAN, PutStart(f, test) PROVE TypeOK'
    <3>1. f \in Seq(Content)
      BY ConnectionAssumption
    <3>2. Append(c2s, Cmd("put")) \in Seq(Message)
      BY Messages, Sent DEF TypeOK
    <3>3. status' \in Int
      BY <2>1, JunkType DEF PutStart
    <3>4. /\ c2s' \in Seq(Message) /\ cUp' \in BOOLEAN
          /\ cpc' \in {"prompt", "size", "read", "wait", "end", "gone"}
      BY <2>1, <3>2, ClientSendType DEF PutStart
    <3> QED
      BY <2>1, <3>1, <3>3, <3>4 DEF TypeOK, PutStart, putServer
  <2>2. CASE PutSize
    <3>1. Append(c2s, Num(Len(src))) \in Seq(Message)
      BY Messages, Sent DEF TypeOK
    <3>2. /\ c2s' \in Seq(Message) /\ cUp' \in BOOLEAN
          /\ cpc' \in {"prompt", "size", "read", "wait", "end", "gone"}
      BY <2>2, <3>1, ClientSendType DEF PutSize
    <3> QED
      BY <2>2, <3>2 DEF TypeOK, PutSize, putServer, putClient
  <2>3. CASE PutFragment
    <3>1. PICK data \in Payload, sign \in Sign(src[sent + 1], "nosign" \in Faults) :
            ClientSends(c2s \o <<Info(1, Len(sign)), Body(data, sign)>>, "wait")
      BY <2>3 DEF PutFragment
    <3>a. src[sent + 1] \in Content /\ Payload \subseteq Content
      BY <2>3, PayloadType DEF PutFragment
    <3>b. ("nosign" \in Faults) \in BOOLEAN
      OBVIOUS
    <3>2. data \in Content /\ sign \in Signs /\ Len(sign) \in {0, 1}
      BY <3>a, <3>b, SignatureType
    <3>3. c2s \o <<Info(1, Len(sign)), Body(data, sign)>> \in Seq(Message)
      BY <3>2, Messages, SentTwo DEF TypeOK
    <3>4. /\ c2s' \in Seq(Message) /\ cUp' \in BOOLEAN
          /\ cpc' \in {"prompt", "size", "read", "wait", "end", "gone"}
      BY <3>1, <3>3, ClientSendType
    <3> QED
      BY <2>3, <3>4 DEF TypeOK, PutFragment, putServer
  <2>4. CASE PutNoMemory
    <3>1. PICK sign \in Sign(src[sent + 1], "nosign" \in Faults) :
            ClientSends(Append(c2s, Info(1, Len(sign))), "end")
      BY <2>4 DEF PutNoMemory
    <3>a. src[sent + 1] \in Content
      BY <2>4, PayloadType DEF PutNoMemory
    <3>b. ("nosign" \in Faults) \in BOOLEAN
      OBVIOUS
    <3>2. Len(sign) \in {0, 1}
      BY <3>a, <3>b, SignatureType
    <3>3. Append(c2s, Info(1, Len(sign))) \in Seq(Message)
      BY <3>2, Messages, Sent DEF TypeOK
    <3>4. /\ c2s' \in Seq(Message) /\ cUp' \in BOOLEAN
          /\ cpc' \in {"prompt", "size", "read", "wait", "end", "gone"}
      BY <3>1, <3>3, ClientSendType
    <3> QED
      BY <2>4, <3>4 DEF TypeOK, PutNoMemory, putServer
  <2>5. CASE PutStatus
    <3>1. CASE s2c # <<>> /\ status' = Head(s2c).num /\ s2c' = Tail(s2c)
      <4>1. s2c \in Seq([kind : {"num"}, num : Int])
        BY DEF TypeOK
      <4>2. Head(s2c) \in [kind : {"num"}, num : Int]
        BY <3>1, <4>1, Received
      <4>3. s2c' \in Seq([kind : {"num"}, num : Int])
        BY <3>1, <4>1, Received
      <4>4. status' \in Int
        BY <3>1, <4>2
      <4> QED
        BY <2>5, <4>3, <4>4 DEF TypeOK, PutStatus, putServer
    <3>2. CASE UNCHANGED <<status, s2c>>
      BY <2>5, <3>2 DEF TypeOK, PutStatus, putServer
    <3> QED
      BY <2>5, <3>1, <3>2 DEF PutStatus
  <2>6. CASE PutEnd
    BY <2>6 DEF TypeOK, PutEnd, putServer
  <2>7. CASE ServPut
    BY <2>7, Received, JunkType DEF TypeOK, ServPut, Enter, putClient
  <2>8. CASE ServLeftover
    <3>1. c2s' \in Seq(Message)
      BY <2>8, Received DEF TypeOK, ServLeftover
    <3> QED
      BY <2>8, <3>1 DEF TypeOK, ServLeftover, putClient, putServer
  <2>9. CASE ServSize
    <3>a. c2s # <<>> => /\ Tail(c2s) \in Seq(Message)
                        /\ Head(c2s).kind = "num" => Head(c2s).num \in Int
      BY FirstMessage, Fields
    <3>1. left' \in Int /\ c2s' \in Seq(Message)
      BY <2>9, <3>a DEF TypeOK, ServSize
    <3> QED
      BY <2>9, <3>1 DEF TypeOK, ServSize, LoopHead, putClient
  <2>10. CASE ServInfo
    <3>a. c2s # <<>> => /\ Tail(c2s) \in Seq(Message)
                        /\ Head(c2s).kind = "info" => Head(c2s).len \in Lengths
      BY FirstMessage, Fields
    <3>1. info' \in Lengths /\ c2s' \in Seq(Message)
      BY <2>10, <3>a DEF TypeOK, ServInfo
    <3>2. filelen' \in Int
      BY <2>10, <3>1 DEF ServInfo, Lengths
    <3> QED
      BY <2>10, <3>1, <3>2 DEF TypeOK, ServInfo, putClient
  <2>11. CASE ServNoMemory
    BY <2>11 DEF TypeOK, ServNoMemory, Abandon, putClient
  <2>12. CASE ServShortBody
    <3>1. c2s' \in Seq(Message)
      <4>1. CASE c2s # <<>> /\ c2s' = <<Rest>> \o Tail(c2s)
        <5>1. <<Rest>> \in Seq(Message) /\ Tail(c2s) \in Seq(Message)
          BY <4>1, Messages, Received DEF TypeOK
        <5> QED
          BY <4>1, <5>1
      <4> QED
        BY <2>12, <4>1 DEF TypeOK, ServShortBody
    <3> QED
      BY <2>12, <3>1 DEF TypeOK, ServShortBody, Abandon, putClient
  <2>13. CASE ServBody
    <3> DEFINE m == Head(c2s)
    <3>1. m \in Message /\ m.kind = "body" /\ c2s' \in Seq(Message)
      BY <2>13, Received DEF TypeOK, ServBody
    <3>2. m.data \in Content
      BY <3>1, Fields
    <3>5. file' \in Seq(Content \cup {Cut})
      BY <2>13, <3>2, WritesType DEF ServBody, TypeOK
    <3>6. \E ok \in BOOLEAN : Answer(ok)
      <4>1. \A w : (w.check >= 0) \in BOOLEAN
        OBVIOUS
      <4> QED
        BY <2>13, <4>1, Zenon DEF ServBody
    <3> QED
      BY <2>13, <3>1, <3>5, <3>6, AnswerType DEF TypeOK, ServBody, putClient
  <2>14. CASE ServEmptyBody
    <3> DEFINE Stored == IF info.file > 0 THEN Writes(Cut) ELSE {[file |-> file, check |-> 1]}
    <3>1. CASE \E w \in Stored : /\ file' = w.file /\ Answer(w.check >= 0)
                                 /\ UNCHANGED <<cpc, c2s, cUp>>
      <4>1. PICK w \in Stored : /\ file' = w.file /\ Answer(w.check >= 0)
                                /\ UNCHANGED <<cpc, c2s, cUp>>
        BY <3>1
      <4>2. file \in Seq(Content \cup {Cut})
        BY DEF TypeOK
      <4>3. w.file \in Seq(Content \cup {Cut}) /\ (w.check >= 0) \in BOOLEAN
        BY <4>2, WritesType
      <4> QED
        BY <2>14, <4>1, <4>3, AnswerType DEF TypeOK, ServEmptyBody, putClient
    <3>2. CASE Answer(FALSE) /\ UNCHANGED <<cpc, c2s, cUp, file>>
      BY <2>14, <3>2, AnswerType DEF TypeOK, ServEmptyBody, putClient
    <3>3. CASE ProcessEnds /\ UNCHANGED <<file, success, left>>
      BY <2>14, <3>3, ProcessEndType DEF TypeOK, ServEmptyBody, putClient
    <3> QED
      BY <2>14, <3>1, <3>2, <3>3 DEF ServEmptyBody
  <2>15. CASE ServEnd
    BY <2>15 DEF TypeOK, ServEnd, Keeps, putClient
  <2>16. CASE ServerHangup /\ UNCHANGED <<putClient, putServer>>
    BY <2>16 DEF TypeOK, ServerHangup, putClient, putServer
  <2>17. CASE ClientQuit /\ UNCHANGED <<putClient, putServer>>
    <3>1. rst' \in BOOLEAN
      BY <2>17, Zenon DEF ClientQuit
    <3>2. cpc' = "gone" /\ cUp' \in BOOLEAN /\ s2c' = <<>> /\ UNCHANGED <<spc, c2s, putClient, putServer>>
      BY <2>17 DEF ClientQuit
    <3> QED
      BY <3>1, <3>2 DEF TypeOK, putClient, putServer
  <2>18. CASE UNCHANGED vars
    BY <2>18 DEF TypeOK, vars, connVars, putClient, putServer
  <2>19. CASE PutBroken
    BY <2>19 DEF TypeOK, PutBroken, putServer
  <2>20. CASE ServAstray
    <3>1. CASE c2s # <<>> /\ c2s' = Tail(c2s) /\ UNCHANGED <<cpc, spc, s2c, cUp, rst>>
      BY <2>20, <3>1, FirstMessage DEF TypeOK, ServAstray, putClient, putServer
    <3>2. ASSUME NEW n \in Junk \cup {0, 1}, ServerSend(Num(n), "astray"), UNCHANGED <<cpc, c2s, cUp>>
          PROVE  TypeOK'
      <4>1. n \in Int
        BY JunkType
      <4> QED
        BY <2>20, <3>2, <4>1, SendType DEF TypeOK, ServAstray, putClient, putServer
    <3>3. CASE ProcessEnds
      BY <2>20, <3>3, ProcessEndType DEF TypeOK, ServAstray, putClient, putServer
    <3> QED
      BY <2>20, <3>1, <3>2, <3>3 DEF ServAstray
  <2>21. CASE Environment
    BY <2>21, ProcessEndType DEF TypeOK, Environment, ServerDies, putClient, putServer
  <2> QED
    BY <2>1, <2>2, <2>3, <2>4, <2>5, <2>6, <2>7, <2>8, <2>9, <2>10, <2>11, <2>12, <2>13,
       <2>14, <2>15, <2>16, <2>17, <2>18, <2>19, <2>20, <2>21
    DEF UploadNext, ClientStep, ServerStep, User, Finished

\* The locals and the streams of both ends keep their types, whatever goes wrong.
THEOREM TypeCorrect == UploadSpec => []TypeOK
<1>1. UploadInit => TypeOK
  <2>1. LengthInfo(0, 0) \in Lengths
    BY DEF LengthInfo, Lengths
  <2>2. UploadInit => key \in BOOLEAN
    BY Zenon DEF UploadInit
  <2>3. UploadInit => c2s \in Seq(Message) /\ s2c \in Seq([kind : {"num"}, num : Int])
                      /\ src \in Seq(Content) /\ file \in Seq(Content \cup {Cut})
    BY DEF UploadInit, ConnectionInit
  <2>4. UploadInit => cUp \in BOOLEAN /\ rst \in BOOLEAN /\ testing \in BOOLEAN /\ exists \in BOOLEAN
    BY Zenon DEF UploadInit, ConnectionInit
  <2>5. UploadInit => info \in Lengths
    BY <2>1 DEF UploadInit
  <2>6. UploadInit => /\ cpc = "prompt" /\ spc = "cmd" /\ sent = 0 /\ status = 0
                      /\ verdict = "none" /\ left = 0 /\ filelen = 0 /\ success = 1
                      /\ saved = "none"
    BY DEF UploadInit, ConnectionInit
  <2> QED
    BY <2>2, <2>3, <2>4, <2>5, <2>6 DEF TypeOK
<1>2. TypeOK /\ [UploadNext]_vars => TypeOK'
  BY TypeStep
<1> QED
  BY <1>1, <1>2, PTL DEF UploadSpec

----------------------------------------------------------------------------

\* What PutSize adds to the stream.
LEMMA SizeSent ==
  ASSUME TypeOK, Paired, PutSize
  PROVE  /\ Len(c2s) \in Nat /\ Len(c2s') = Len(c2s) + 1
         /\ c2s'[Len(c2s) + 1] = Num(Len(src)) /\ c2s'[Len(c2s) + 1].kind = "num"
         /\ \A i \in 1 .. Len(c2s) : c2s'[i] = c2s[i]
         /\ cpc' = "read" /\ cUp' = cUp
  <1>1. Num(Len(src)) \in Message /\ Num(Len(src)).kind = "num"
    BY Messages DEF TypeOK, Num
  <1>2. /\ c2s' = Append(c2s, Num(Len(src))) /\ c2s \in Seq(Message)
        /\ cpc' = "read" /\ cUp' = cUp
    BY DEF PutSize, TypeOK, ClientSends, Paired
  <1> QED
    BY <1>1, <1>2, Sent

\* What PutFragment adds to the stream.
LEMMA FragmentSent ==
  ASSUME TypeOK, Paired, PutFragment
  PROVE  /\ Len(c2s) \in Nat /\ Len(c2s') = Len(c2s) + 2
         /\ c2s'[Len(c2s) + 1].kind = "info" /\ c2s'[Len(c2s) + 1].len.file = 1
         /\ c2s'[Len(c2s) + 1].len.total >= 1
         /\ c2s'[Len(c2s) + 2].kind = "body"
         /\ \A i \in 1 .. Len(c2s) : c2s'[i] = c2s[i]
  <1>1. PICK data \in Payload, sign \in Sign(src[sent + 1], "nosign" \in Faults) :
          c2s' = c2s \o <<Info(1, Len(sign)), Body(data, sign)>>
    BY DEF PutFragment, ClientSends, Paired
  <1>2. src[sent + 1] \in Content /\ Payload \subseteq Content
    BY PayloadType DEF PutFragment
  <1>3. ("nosign" \in Faults) \in BOOLEAN
    OBVIOUS
  <1>4. data \in Content /\ sign \in Signs /\ Len(sign) \in {0, 1}
    BY <1>2, <1>3, SignatureType
  <1>5. Info(1, Len(sign)) \in Message /\ Body(data, sign) \in Message
    BY <1>4, Messages
  <1>6. /\ Len(c2s) \in Nat /\ Len(c2s') = Len(c2s) + 2
        /\ c2s'[Len(c2s) + 1] = Info(1, Len(sign)) /\ c2s'[Len(c2s) + 2] = Body(data, sign)
        /\ \A i \in 1 .. Len(c2s) : c2s'[i] = c2s[i]
    BY <1>1, <1>5, SentTwo DEF TypeOK
  <1> QED
    BY <1>4, <1>6 DEF Info, LengthInfo, Body

\* What PutNoMemory adds to the stream.
LEMMA InfoSent ==
  ASSUME TypeOK, Paired, PutNoMemory
  PROVE  /\ Len(c2s) \in Nat /\ Len(c2s') = Len(c2s) + 1
         /\ c2s'[Len(c2s) + 1].kind = "info" /\ c2s'[Len(c2s) + 1].len.file = 1
         /\ c2s'[Len(c2s) + 1].len.total >= 1
         /\ \A i \in 1 .. Len(c2s) : c2s'[i] = c2s[i]
  <1>1. PICK sign \in Sign(src[sent + 1], "nosign" \in Faults) :
          c2s' = Append(c2s, Info(1, Len(sign)))
    BY DEF PutNoMemory, ClientSends, Paired
  <1>2. src[sent + 1] \in Content
    BY PayloadType DEF PutNoMemory
  <1>3. ("nosign" \in Faults) \in BOOLEAN
    OBVIOUS
  <1>4. Len(sign) \in {0, 1}
    BY <1>2, <1>3, SignatureType
  <1>5. Info(1, Len(sign)) \in Message
    BY <1>4, Messages
  <1>6. /\ Len(c2s) \in Nat /\ Len(c2s') = Len(c2s) + 1
        /\ c2s'[Len(c2s) + 1] = Info(1, Len(sign))
        /\ \A i \in 1 .. Len(c2s) : c2s'[i] = c2s[i]
    BY <1>1, <1>5, Sent DEF TypeOK
  <1> QED
    BY <1>4, <1>6 DEF Info, LengthInfo

\* Receiving a message shifts the stream by one place.
LEMMA Consumed ==
  ASSUME TypeOK, c2s # <<>>, c2s' = Tail(c2s)
  PROVE  /\ Head(c2s) = c2s[1] /\ Len(c2s) \in Nat /\ Len(c2s') = Len(c2s) - 1
         /\ \A i \in 1 .. Len(c2s') : i + 1 \in 1 .. Len(c2s) /\ c2s'[i] = c2s[i + 1]
         /\ \A kind : Has(kind)' => Has(kind)
  <1>1. /\ Head(c2s) = c2s[1] /\ Len(c2s) \in Nat /\ Len(c2s) >= 1
        /\ Len(c2s') = Len(c2s) - 1 /\ \A i \in 1 .. Len(c2s) - 1 : c2s'[i] = c2s[i + 1]
    BY FirstMessage
  <1>2. \A i \in 1 .. Len(c2s') : i + 1 \in 1 .. Len(c2s) /\ c2s'[i] = c2s[i + 1]
    BY <1>1
  <1>3. ASSUME NEW kind, Has(kind)' PROVE Has(kind)
    <2>1. PICK i \in 1 .. Len(c2s') : c2s'[i].kind = kind
      BY <1>3 DEF Has
    <2> QED
      BY <1>2, <2>1 DEF Has
  <1> QED
    BY <1>1, <1>2, <1>3

\* A body at the head of the stream is all of it.
LEMMA BodyIsLast ==
  ASSUME TypeOK, StopAndWait, c2s # <<>>, Head(c2s).kind \in {"body", "rest"}
  PROVE  /\ Len(c2s) = 1 /\ Tail(c2s) = <<>> /\ s2c = <<>> /\ ~Acked
         /\ cpc # "read" /\ c2s[1].kind = Head(c2s).kind
  <1>1. /\ Head(c2s) = c2s[1] /\ Len(c2s) \in Nat /\ Len(c2s) >= 1
        /\ Tail(c2s) \in Seq(Message) /\ Len(Tail(c2s)) = Len(c2s) - 1
    BY FirstMessage
  <1>a. 1 \in 1 .. Len(c2s) /\ c2s[1].kind \in {"body", "rest"}
    BY <1>1
  <1>2. Len(c2s) = 1
    BY <1>a DEF StopAndWait, StreamInOrder, Placed
  <1>3. Tail(c2s) = <<>>
    BY <1>2, LastReceived DEF TypeOK
  <1>4. Has("body") \/ Has("rest")
    BY <1>1 DEF Has
  <1>5. s2c = <<>> /\ cpc # "read"
    BY <1>4 DEF StopAndWait, ClientKnows
  <1> QED
    BY <1>1, <1>2, <1>3, <1>5 DEF Acked

\* Once the thread is out of step, or its process has ended, it stays so.
LEMMA NeverPairedAgain ==
  ASSUME [UploadNext]_vars, Paired'
  PROVE  Paired
<1> SUFFICES ASSUME spc \in {"astray", "killed"} PROVE spc' \in {"astray", "killed"}
  BY DEF Paired
<1>1. ASSUME NEW f \in Files, NEW test \in BOOLEAN, PutStart(f, test) PROVE spc' = spc
  BY <1>1 DEF PutStart
<1>2. CASE ClientStep
  BY <1>2 DEF ClientStep, PutSize, PutFragment, PutBroken, PutNoMemory, PutStatus, PutEnd
<1>3. CASE ServerStep
  BY <1>3 DEF ServerStep, ServPut, ServLeftover, ServAstray, ServSize, ServInfo, ServNoMemory,
              ServShortBody, ServBody, ServEmptyBody, ServEnd, ServerHangup, ServerSend, ProcessEnds
<1>4. CASE ClientQuit
  BY <1>4 DEF ClientQuit
<1>5. CASE Environment
  BY <1>5 DEF Environment, ServerDies, ProcessEnds
<1>6. CASE UNCHANGED vars
  BY <1>6 DEF vars, connVars
<1> QED
  BY <1>1, <1>2, <1>3, <1>4, <1>5, <1>6 DEF UploadNext, User, Finished

\* Every step keeps the two ends in step with each other.
LEMMA StopAndWaitStep ==
  ASSUME TypeOK, StopAndWait, Paired, Paired', [UploadNext]_vars
  PROVE  StopAndWait'
  <2>1. ASSUME NEW f \in Files, NEW test \in BOOLEAN, PutStart(f, test) PROVE StopAndWait'
    <3>a. /\ c2s' = Append(c2s, Cmd("put")) /\ Len(c2s) = 0 /\ Len(c2s') = 1 /\ c2s'[1].kind = "cmd"
      BY <2>1, Messages, Sent DEF PutStart, TypeOK, Cmd, StopAndWait, ClientKnows, ClientSends, Paired
    <3>1. StreamInOrder'
      BY <2>1, <3>a DEF StopAndWait, StreamInOrder, Placed, ClientKnows, PutStart, putServer, ClientSends, Paired
    <3>2. ClientKnows'
      BY <2>1, <3>a DEF StopAndWait, ClientKnows, PutStart, putServer, Has, ClientSends, Paired
    <3>3. InStep'
      BY <2>1, <3>a DEF StopAndWait, InStep, PutStart, Has, Acked, ClientSends, Paired
    <3>4. ServerKnows'
      BY <2>1, <3>a DEF StopAndWait, ClientKnows, ServerKnows, PutStart, putServer, InLoop, ClientSends, Paired
    <3> QED
      BY <3>1, <3>2, <3>3, <3>4 DEF StopAndWait
  <2>2. CASE PutSize
    <3>a. /\ Len(c2s) \in Nat /\ Len(c2s') = Len(c2s) + 1 /\ c2s'[Len(c2s) + 1].kind = "num"
          /\ \A i \in 1 .. Len(c2s) : c2s'[i] = c2s[i]
      BY <2>2, SizeSent
    <3>1. StreamInOrder'
      BY <2>2, <3>a DEF StopAndWait, StreamInOrder, Placed, ClientKnows, PutSize, putClient, putServer, ClientSends, Paired
    <3>2. ClientKnows'
      BY <2>2, <3>a DEF StopAndWait, ClientKnows, PutSize, putServer, Has, ClientSends, Paired
    <3>3. InStep'
      BY <2>2, <3>a DEF StopAndWait, ClientKnows, InStep, PutSize, putClient, Has, Acked, ClientSends, Paired
    <3>4. ServerKnows'
      BY <2>2, <3>a DEF StopAndWait, ClientKnows, ServerKnows, PutSize, putServer, InLoop, ClientSends, Paired
    <3> QED
      BY <3>1, <3>2, <3>3, <3>4 DEF StopAndWait
  <2>3. CASE PutFragment
    <3>a. /\ Len(c2s) \in Nat /\ Len(c2s') = Len(c2s) + 2
          /\ c2s'[Len(c2s) + 1].kind = "info" /\ c2s'[Len(c2s) + 1].len.file = 1
          /\ c2s'[Len(c2s) + 1].len.total >= 1
          /\ c2s'[Len(c2s) + 2].kind = "body"
          /\ \A i \in 1 .. Len(c2s) : c2s'[i] = c2s[i]
      BY <2>3, FragmentSent
    <3>b. /\ cpc = "read" /\ sent' = sent + 1 /\ sent \in Nat /\ UNCHANGED <<spc, file>>
      BY <2>3 DEF PutFragment, putServer, TypeOK, ClientSends, Paired
    <3>c. c2s # <<>> => sent = 0 /\ c2s[Len(c2s)].kind = "num"
      BY <3>b DEF StopAndWait, ClientKnows, InStep, Acked
    <3>d. Len(c2s) > 0 => c2s # <<>>
      OBVIOUS
    <3>1. StreamInOrder'
      <4> SUFFICES ASSUME NEW i \in 1 .. Len(c2s') PROVE Placed(i)'
        BY DEF StreamInOrder
      <4>1. CASE i \in 1 .. Len(c2s)
        <5>1. c2s'[i] = c2s[i] /\ c2s'[1] = c2s[1] /\ (i > 1 => c2s'[i - 1] = c2s[i - 1]) /\ sent = 0
          BY <4>1, <3>a, <3>c, <3>d
        <5>2. c2s[i].kind # "body" /\ c2s[i].kind # "info" /\ c2s[i].kind # "rest"
          BY <4>1, <3>b DEF StopAndWait, ClientKnows, Has
        <5> QED
          BY <4>1, <5>1, <5>2, <3>b DEF StopAndWait, StreamInOrder, Placed
      <4>2. CASE i = Len(c2s) + 1
        BY <4>2, <3>a, <3>c, <3>d DEF Placed
      <4>3. CASE i = Len(c2s) + 2
        BY <4>3, <3>a, <3>b DEF Placed
      <4> QED
        BY <4>1, <4>2, <4>3, <3>a
    <3>2. ClientKnows'
      BY <2>3, <3>a DEF TypeOK, StopAndWait, ClientKnows, PutFragment, ClientSends, Paired
    <3>3. InStep'
      BY <2>3, <3>a DEF TypeOK, StopAndWait, ClientKnows, InStep, PutFragment, putServer, Acked, ClientSends, Paired
    <3>4. ServerKnows'
      BY <2>3, <3>a DEF StopAndWait, ClientKnows, ServerKnows, PutFragment, putServer, InLoop, ClientSends, Paired
    <3> QED
      BY <3>1, <3>2, <3>3, <3>4 DEF StopAndWait
  <2>4. CASE PutNoMemory
    <3>a. /\ Len(c2s) \in Nat /\ Len(c2s') = Len(c2s) + 1
          /\ c2s'[Len(c2s) + 1].kind = "info" /\ c2s'[Len(c2s) + 1].len.file = 1
          /\ c2s'[Len(c2s) + 1].len.total >= 1
          /\ \A i \in 1 .. Len(c2s) : c2s'[i] = c2s[i]
      BY <2>4, InfoSent
    <3>1. StreamInOrder'
      <4>1. /\ cpc = "read" /\ UNCHANGED <<sent, spc, file>>
            /\ c2s # <<>> => sent = 0 /\ c2s[Len(c2s)].kind = "num"
        BY <2>4 DEF PutNoMemory, putServer, StopAndWait, ClientKnows, InStep, Acked, TypeOK, ClientSends, Paired
      <4>2. Len(c2s) > 0 => c2s # <<>>
        OBVIOUS
      <4> SUFFICES ASSUME NEW i \in 1 .. Len(c2s') PROVE Placed(i)'
        BY DEF StreamInOrder
      <4>3. CASE i \in 1 .. Len(c2s)
        <5>1. c2s'[i] = c2s[i] /\ c2s'[1] = c2s[1] /\ (i > 1 => c2s'[i - 1] = c2s[i - 1])
          BY <4>3, <3>a
        <5>2. c2s[i].kind # "body" /\ c2s[i].kind # "rest"
          BY <4>1, <4>3 DEF StopAndWait, ClientKnows, Has
        <5> QED
          BY <4>1, <4>3, <5>1, <5>2 DEF StopAndWait, StreamInOrder, Placed
      <4>4. CASE i = Len(c2s) + 1
        BY <3>a, <4>1, <4>2, <4>4 DEF Placed
      <4> QED
        BY <3>a, <4>3, <4>4
    <3>2. ClientKnows'
      BY <2>4, <3>a DEF StopAndWait, ClientKnows, PutNoMemory, Has, ClientSends, Paired
    <3>3. InStep'
      BY <2>4, <3>a DEF StopAndWait, InStep, PutNoMemory, Has, InLoop, Acked, ClientSends, Paired
    <3>4. ServerKnows'
      BY <2>4, <3>a DEF StopAndWait, ClientKnows, ServerKnows, PutNoMemory, putServer, InLoop, ClientSends, Paired
    <3> QED
      BY <3>1, <3>2, <3>3, <3>4 DEF StopAndWait
  <2>5. CASE PutStatus
    <3>a. /\ Len(s2c) = 1 /\ s2c' = <<>> /\ c2s = <<>> /\ Head(s2c) = s2c[1]
      BY <2>5, Received DEF PutStatus, TypeOK, StopAndWait, InStep, ClientAtEof, Paired
    <3>1. StreamInOrder'
      BY <2>5, <3>a DEF StreamInOrder, PutStatus, ClientAtEof, Paired
    <3>2. ClientKnows'
      BY <2>5, <3>a DEF StopAndWait, ClientKnows, PutStatus, Has, ClientAtEof, Paired
    <3>3. InStep'
      BY <2>5, <3>a DEF StopAndWait, InStep, PutStatus, putServer, Has, Acked, ClientAtEof, Paired
    <3>4. ServerKnows'
      BY <2>5, <3>a DEF StopAndWait, ServerKnows, PutStatus, putServer, InLoop, ClientAtEof, Paired
    <3> QED
      BY <3>1, <3>2, <3>3, <3>4 DEF StopAndWait
  <2>6. CASE PutEnd
    <3>1. StreamInOrder'
      BY <2>6 DEF StopAndWait, StreamInOrder, Placed, PutEnd, putServer
    <3>2. ClientKnows'
      BY <2>6 DEF StopAndWait, ClientKnows, PutEnd, Has
    <3>3. InStep'
      BY <2>6 DEF StopAndWait, InStep, PutEnd, putServer, Has, InLoop, Acked
    <3>4. ServerKnows'
      BY <2>6 DEF StopAndWait, ServerKnows, PutEnd, putServer, InLoop
    <3> QED
      BY <3>1, <3>2, <3>3, <3>4 DEF StopAndWait
  <2>7. CASE ServPut
    <3>1. StreamInOrder'
      BY <2>7, FirstMessage DEF TypeOK, StopAndWait, StreamInOrder, Placed, ServPut, Enter, putClient
    <3>2. ClientKnows'
      BY <2>7, FirstMessage DEF TypeOK, StopAndWait, ClientKnows, ServerKnows, ServPut, Enter, putClient, Has, InLoop
    <3>3. InStep'
      <4>1. /\ c2s # <<>> /\ c2s[1].kind = "cmd" /\ file' = <<>> /\ UNCHANGED <<s2c, sent, cpc>>
            /\ c2s' = Tail(c2s)
        BY <2>7, FirstMessage DEF ServPut, Cmd, Enter, putClient
      <4>2. ~Acked /\ s2c = <<>>
        BY <4>1 DEF StopAndWait, InStep
      <4>a. 1 \in 1 .. Len(c2s)
        BY <4>1, FirstMessage
      <4>3. file = <<>> /\ sent <= 1
        BY <4>1, <4>a DEF StopAndWait, StreamInOrder, Placed
      <4>4. Has("body")' => Has("body")
        BY <4>1, Consumed
      <4>5. Has("body") => sent = 1
        BY <4>3 DEF StopAndWait, StreamInOrder, Placed, Has, TypeOK
      <4> QED
        BY <4>1, <4>2, <4>4, <4>5 DEF InStep, Acked
    <3>4. ServerKnows'
      BY <2>7, FirstMessage DEF ServerKnows, ServPut, Enter
    <3> QED
      BY <3>1, <3>2, <3>3, <3>4 DEF StopAndWait
  <2>8. CASE ServLeftover
    BY <2>8 DEF ServLeftover, Paired
  <2>9. CASE ServSize
    <3>1. CASE c2s # <<>> /\ Head(c2s).kind = "num" /\ c2s' = Tail(c2s)
      <4>a. /\ c2s[1].kind = "num" /\ 1 \in 1 .. Len(c2s) /\ Len(c2s) \in Nat
            /\ Len(c2s') = Len(c2s) - 1
            /\ \A i \in 1 .. Len(c2s') : i + 1 \in 1 .. Len(c2s) /\ c2s'[i] = c2s[i + 1]
            /\ \A k : Has(k)' => Has(k)
        BY <3>1, Consumed
      <4>b. s2c = <<>> /\ ~Acked
        BY <3>1 DEF StopAndWait, InStep
      <4>c. /\ spc = "size" /\ spc' \in {"info", "end"}
            /\ UNCHANGED <<cpc, s2c, cUp, rst, putClient, key, info, filelen, success, exists, file>>
        BY <2>9, <3>1 DEF ServSize, LoopHead
      <4>1. StreamInOrder'
        <5> SUFFICES ASSUME NEW i \in 1 .. Len(c2s') PROVE Placed(i)'
          BY DEF StreamInOrder
        <5>1. /\ i \in Nat /\ i >= 1 /\ c2s'[i] = c2s[i + 1] /\ (i > 1 => c2s'[i - 1] = c2s[i])
          BY <4>a
        <5>2. Placed(i + 1) /\ Placed(1)
          BY <4>a DEF StopAndWait, StreamInOrder
        <5> QED
          BY <4>a, <4>c, <5>1, <5>2 DEF Placed, putClient
      <4>2. ClientKnows'
        BY <4>a, <4>b, <4>c DEF StopAndWait, ClientKnows, putClient
      <4>3. InStep'
        BY <3>1, <4>a, <4>b, <4>c DEF StopAndWait, InStep, InLoop, Acked, putClient
      <4>4. ServerKnows'
        BY <4>a, <4>b, <4>c DEF StopAndWait, ServerKnows, InLoop
      <4> QED
        BY <4>1, <4>2, <4>3, <4>4 DEF StopAndWait
    <3>2. CASE c2s = <<>> /\ ~cUp /\ c2s' = c2s
      <4>a. cpc = "gone" /\ s2c = <<>>
        BY <3>2 DEF StopAndWait, ClientKnows
      <4>c. /\ spc = "size" /\ spc' \in {"info", "end"}
            /\ UNCHANGED <<cpc, s2c, cUp, rst, putClient, key, info, filelen, success, exists, file>>
        BY <2>9, <3>2 DEF ServSize, LoopHead
      <4>1. StreamInOrder'
        BY <3>2, <4>a, <4>c DEF StreamInOrder
      <4>2. ClientKnows'
        BY <3>2, <4>a, <4>c DEF StopAndWait, ClientKnows
      <4>3. InStep'
        BY <3>2, <4>a, <4>c DEF InStep, Has, Acked
      <4>4. ServerKnows'
        BY <3>2, <4>a, <4>c DEF StopAndWait, ServerKnows, InLoop
      <4> QED
        BY <4>1, <4>2, <4>3, <4>4 DEF StopAndWait
    <3> QED
      BY <2>9, <3>1, <3>2 DEF ServSize, ServerAtEof
  <2>10. CASE ServInfo
    <3>1. CASE c2s # <<>> /\ Head(c2s).kind = "info" /\ c2s' = Tail(c2s)
      <4>a. /\ c2s[1].kind = "info" /\ 1 \in 1 .. Len(c2s) /\ Len(c2s) \in Nat
            /\ Len(c2s') = Len(c2s) - 1
            /\ \A i \in 1 .. Len(c2s') : i + 1 \in 1 .. Len(c2s) /\ c2s'[i] = c2s[i + 1]
            /\ \A k : Has(k)' => Has(k)
        BY <3>1, Consumed
      <4>b. s2c = <<>> /\ ~Acked
        BY <3>1 DEF StopAndWait, InStep
      <4>c. /\ spc = "info" /\ spc' = "body" /\ info' = c2s[1].len /\ filelen' = info'.file
            /\ UNCHANGED <<cpc, s2c, cUp, rst, putClient, key, left, success, exists, file>>
        BY <2>10, <3>1 DEF ServInfo
      <4>1. StreamInOrder'
        <5> SUFFICES ASSUME NEW i \in 1 .. Len(c2s') PROVE Placed(i)'
          BY DEF StreamInOrder
        <5>1. /\ i \in Nat /\ i >= 1 /\ c2s'[i] = c2s[i + 1] /\ (i > 1 => c2s'[i - 1] = c2s[i])
          BY <4>a
        <5>2. Placed(i + 1) /\ Placed(1)
          BY <4>a DEF StopAndWait, StreamInOrder
        <5> QED
          BY <4>a, <4>c, <5>1, <5>2 DEF Placed, putClient
      <4>2. ClientKnows'
        BY <4>a, <4>b, <4>c DEF StopAndWait, ClientKnows, putClient
      <4>3. InStep'
        BY <4>a, <4>b, <4>c DEF TypeOK, StopAndWait, StreamInOrder, Placed, ClientKnows, InStep, ServerKnows, putClient, InLoop, Acked
      <4>4. ServerKnows'
        BY <4>a, <4>b, <4>c DEF StopAndWait, StreamInOrder, Placed, ServerKnows, InLoop
      <4> QED
        BY <4>1, <4>2, <4>3, <4>4 DEF StopAndWait
    <3>2. CASE c2s = <<>> /\ ~cUp /\ c2s' = c2s
      <4>a. cpc = "gone" /\ s2c = <<>>
        BY <3>2 DEF StopAndWait, ClientKnows
      <4>c. /\ spc = "info" /\ spc' = "body" /\ filelen' = info'.file
            /\ UNCHANGED <<cpc, s2c, cUp, rst, putClient, key, left, success, exists, file>>
        BY <2>10, <3>2 DEF ServInfo
      <4>1. StreamInOrder'
        BY <3>2, <4>a, <4>c DEF StreamInOrder
      <4>2. ClientKnows'
        BY <3>2, <4>a, <4>c DEF StopAndWait, ClientKnows
      <4>3. InStep'
        BY <3>2, <4>a, <4>c DEF InStep, Has, Acked
      <4>4. ServerKnows'
        BY <3>2, <4>a, <4>c DEF StopAndWait, ServerKnows, InLoop
      <4> QED
        BY <4>1, <4>2, <4>3, <4>4 DEF StopAndWait
    <3> QED
      BY <2>10, <3>1, <3>2 DEF ServInfo, ServerAtEof
  <2>11. CASE ServNoMemory
    <3>1. StreamInOrder'
      BY <2>11 DEF StopAndWait, StreamInOrder, Placed, ServNoMemory, Abandon, putClient
    <3>2. ClientKnows'
      BY <2>11 DEF StopAndWait, ClientKnows, ServNoMemory, Abandon, putClient, Has
    <3>3. InStep'
      BY <2>11 DEF StopAndWait, InStep, ServNoMemory, Abandon, putClient, Has, InLoop, Acked
    <3>4. ServerKnows'
      BY <2>11 DEF StopAndWait, ServerKnows, ServNoMemory, Abandon, InLoop
    <3> QED
      BY <3>1, <3>2, <3>3, <3>4 DEF StopAndWait
  <2>12. CASE ServShortBody
    <3>a. \/ c2s # <<>> /\ Len(c2s) = 1 /\ c2s[1].kind = "body"
             /\ Len(c2s') = 1 /\ c2s'[1].kind = "rest" /\ s2c = <<>> /\ ~Acked
          \/ c2s = <<>> /\ c2s' = c2s /\ ~cUp
      <4>1. CASE c2s # <<>> /\ Head(c2s).kind = "body" /\ c2s' = <<Rest>> \o Tail(c2s)
        <5>1. Tail(c2s) = <<>> /\ Len(c2s) = 1 /\ c2s[1].kind = "body" /\ s2c = <<>> /\ ~Acked
          BY <4>1, BodyIsLast
        <5>a. <<Rest>> \in Seq(Message)
          BY Messages
        <5>2. c2s' = <<Rest>>
          BY <4>1, <5>1, <5>a, ConcatEmptySeq
        <5>3. Len(c2s') = 1 /\ c2s'[1] = Rest
          BY <5>2
        <5>4. Rest.kind = "rest"
          BY DEF Rest
        <5> QED
          BY <4>1, <5>1, <5>3, <5>4, Zenon
      <4> QED
        BY <2>12, <4>1 DEF ServShortBody, ServerAtEof
    <3>1. StreamInOrder'
      BY <2>12, <3>a DEF StreamInOrder, Placed
    <3>2. ClientKnows'
      BY <2>12, <3>a DEF StopAndWait, ClientKnows, ServShortBody, Abandon, putClient, Has
    <3>3. InStep'
      BY <2>12, <3>a DEF StopAndWait, InStep, ServShortBody, Abandon, putClient, Has, Acked
    <3>4. ServerKnows'
      BY <2>12, <3>a DEF StopAndWait, ServerKnows, ServShortBody, Abandon, InLoop
    <3> QED
      BY <3>1, <3>2, <3>3, <3>4 DEF StopAndWait
  <2>13. CASE ServBody
    <3>a. /\ c2s # <<>> /\ Len(c2s) = 1 /\ c2s[1].kind = "body" /\ c2s' = <<>> /\ s2c = <<>> /\ ~Acked
          /\ cpc \in {"wait", "gone"} /\ Len(file) + 1 = sent /\ exists /\ success = 1
          /\ filelen = info.file /\ (cUp => info.file = 1)
      <4>1. /\ c2s # <<>> /\ Len(c2s) = 1 /\ c2s[1].kind = "body" /\ c2s' = <<>> /\ s2c = <<>> /\ ~Acked
            /\ spc = "body"
        BY <2>13, BodyIsLast DEF ServBody
      <4>2. Has("body") /\ InLoop
        BY <4>1 DEF Has, InLoop
      <4> QED
        BY <4>1, <4>2 DEF StopAndWait, ClientKnows, InStep, ServerKnows
    <3>b. /\ UNCHANGED <<cpc, cUp, sent, verdict, info, filelen, exists>>
          /\ \E ok \in BOOLEAN :
               /\ Answer(ok)
               /\ IF ok THEN Len(file') = Len(file) + 1 ELSE TRUE
      <4>1. Head(c2s).data \in Content
        BY <2>13, <3>a, FirstMessage, Fields DEF ServBody
      <4>2. \A w \in Writes(Head(c2s).data) : w.check >= 0 => Len(w.file) = Len(file) + 1
        <5>1. /\ Len(Append(file, Head(c2s).data)) = Len(file) + 1
              /\ Len(Append(file, Cut)) = Len(file) + 1
          BY <4>1, Sent DEF TypeOK
        <5> QED
          BY <5>1 DEF Writes
      <4>3. CASE Accepts(key, Head(c2s).data, Head(c2s).sign)
        <5>1. PICK w \in Writes(Head(c2s).data) : file' = w.file /\ Answer(w.check >= 0)
          BY <2>13, <4>3 DEF ServBody
        <5>2. CASE w.check >= 0
          <6>1. Answer(TRUE)
            BY <5>1, <5>2 DEF Answer
          <6> QED
            BY <2>13, <4>2, <5>1, <5>2, <6>1 DEF ServBody, putClient
        <5>3. CASE ~(w.check >= 0)
          <6>1. Answer(FALSE)
            BY <5>1, <5>3 DEF Answer
          <6> QED
            BY <2>13, <6>1 DEF ServBody, putClient
        <5> QED
          BY <5>2, <5>3
      <4>4. CASE ~Accepts(key, Head(c2s).data, Head(c2s).sign)
        BY <2>13, <4>4 DEF ServBody, putClient
      <4> QED
        BY <4>3, <4>4
    <3>c. PICK ok \in BOOLEAN : Answer(ok) /\ IF ok THEN Len(file') = Len(file) + 1 ELSE TRUE
      BY <3>b
    <3>d. /\ success' = IF ok THEN 1 ELSE 0
          /\ IF ok THEN spc' \in {"info", "end", "killed"} ELSE spc' \in {"end", "killed"}
          /\ \/ cUp /\ s2c' = Append(s2c, Num(success')) /\ spc' # "killed"
             \/ ~cUp /\ s2c' = s2c
      BY <3>a, <3>c DEF Answer, ServerSend, LoopHead
    <3>e. ASSUME s2c' # <<>>
          PROVE  cUp /\ Len(s2c') = 1 /\ s2c'[1].num = success' /\ spc' # "killed"
      <4>1. cUp /\ s2c' = Append(s2c, Num(success')) /\ spc' # "killed"
        BY <3>a, <3>d, <3>e
      <4>2. success' \in Int /\ Num(success') \in [kind : {"num"}, num : Int]
        BY <3>d, Messages
      <4>3. Len(s2c') = 1 /\ s2c'[1] = Num(success')
        BY <3>a, <4>1, <4>2, Sent, EmptySeq
      <4> QED
        BY <4>1, <4>3 DEF Num
    <3>f. Len(c2s') = 0 /\ Len(file') \in Nat
      BY <3>a, <2>13, TypeStep DEF UploadNext, ServerStep, TypeOK
    <3>1. StreamInOrder'
      BY <3>a, <3>b, <3>c, <3>d, <3>e, <3>f DEF StreamInOrder
    <3>2. ClientKnows'
      <4>1. cUp' = (cpc' # "gone")
        BY <3>b DEF StopAndWait, ClientKnows
      <4>2. cpc' = "gone" => s2c' = <<>>
        BY <3>b, <3>e DEF StopAndWait, ClientKnows
      <4>3. \A kind : ~Has(kind)'
        BY <3>f DEF Has
      <4> QED
        BY <3>a, <3>b, <4>1, <4>2, <4>3 DEF ClientKnows
    <3>3. InStep'
      <4>1. ~Has("body")' /\ ~Has("cmd")'
        BY <3>f DEF Has
      <4>2. s2c' # <<>> => Len(s2c') = 1 /\ c2s' = <<>> /\ cpc' = "wait"
        BY <3>a, <3>b, <3>e DEF StopAndWait, ClientKnows
      <4>3. ASSUME Acked' PROVE ok /\ cUp /\ spc' # "killed"
        <5>1. s2c' # <<>> /\ s2c'[1].num # 0
          BY <3>a, <3>b, <4>3 DEF Acked
        <5> QED
          BY <3>d, <3>e, <5>1
      <4>4. ASSUME Acked'
            PROVE  /\ exists' /\ Len(file') = sent' /\ c2s' = <<>>
                   /\ spc' \in {"info", "end", "cmd"} /\ success' = 1 /\ filelen' = 1
        BY <3>a, <3>b, <3>c, <3>d, <4>3, <4>4
      <4> QED
        BY <4>1, <4>2, <4>4 DEF InStep
    <3>4. ServerKnows'
      BY <3>a, <3>b, <3>c, <3>d, <3>e, <3>f DEF ServerKnows, InLoop
    <3> QED
      BY <3>1, <3>2, <3>3, <3>4 DEF StopAndWait
  <2>14. CASE ServEmptyBody
    <3>a. /\ ~cUp /\ c2s = <<>> /\ s2c = <<>> /\ cpc = "gone" /\ ~Acked /\ exists
          /\ success = 1 /\ spc = "body" /\ filelen = info.file
      <4>1. spc = "body" /\ info.total = 0
        BY <2>14 DEF ServEmptyBody
      <4>2. ~cUp /\ c2s = <<>> /\ exists /\ success = 1 /\ filelen = info.file
        BY <4>1 DEF StopAndWait, ServerKnows, InLoop
      <4>3. cpc = "gone" /\ s2c = <<>>
        BY <4>2 DEF StopAndWait, ClientKnows
      <4> QED
        BY <4>1, <4>2, <4>3 DEF Acked
    <3>b. PICK ok \in BOOLEAN : Answer(ok) /\ UNCHANGED <<cpc, c2s, cUp>>
      <4>1. ASSUME ProcessEnds PROVE FALSE
        BY <4>1 DEF ProcessEnds, Paired
      <4>2. \A w : (w.check >= 0) \in BOOLEAN
        OBVIOUS
      <4> QED
        BY <2>14, <4>1, <4>2, Zenon DEF ServEmptyBody
    <3>c. /\ UNCHANGED <<putClient, info, filelen, exists>>
          /\ s2c' = s2c /\ spc' \in {"info", "end"}
          /\ spc' = "info" => success' = 1
      <4>1. success' = IF ok THEN 1 ELSE 0
        BY <3>a, <3>b DEF Answer
      <4>2. s2c' = s2c /\ spc' = IF success' = 0 THEN "end" ELSE LoopHead(left')
        BY <3>a, <3>b DEF Answer, ServerSend, Paired
      <4> QED
        BY <2>14, <4>1, <4>2 DEF ServEmptyBody, LoopHead
    <3>d. Len(c2s') = 0 /\ \A kind : ~Has(kind)'
      BY <3>a, <3>b DEF Has
    <3>1. StreamInOrder'
      BY <3>d DEF StreamInOrder
    <3>2. ClientKnows'
      BY <3>a, <3>b, <3>c, <3>d DEF StopAndWait, ClientKnows, putClient
    <3>3. InStep'
      BY <3>a, <3>b, <3>c, <3>d DEF InStep, Acked, putClient
    <3>4. ServerKnows'
      BY <3>a, <3>b, <3>c DEF ServerKnows, InLoop
    <3> QED
      BY <3>1, <3>2, <3>3, <3>4 DEF StopAndWait
  <2>15. CASE ServEnd
    <3>1. StreamInOrder'
      BY <2>15 DEF StopAndWait, StreamInOrder, Placed, ServEnd, putClient
    <3>2. ClientKnows'
      BY <2>15 DEF StopAndWait, ClientKnows, ServEnd, putClient, Has
    <3>3. InStep'
      <4>1. /\ spc = "end" /\ spc' = "cmd" /\ UNCHANGED <<cpc, c2s, s2c, sent, success, filelen>>
        BY <2>15 DEF ServEnd, putClient
      <4>2. ~Has("cmd")
        BY <4>1 DEF StopAndWait, StreamInOrder, Placed, Has
      <4>3. Acked => exists' /\ file' = file
        <5>1. Acked => success = 1 /\ filelen = 1
          BY DEF StopAndWait, InStep
        <5>2. Acked => Keeps
          BY <5>1 DEF Keeps
        <5> QED
          BY <2>15, <5>2 DEF ServEnd
      <4> QED
        BY <4>1, <4>2, <4>3 DEF StopAndWait, InStep, InLoop, Acked, Has
    <3>4. ServerKnows'
      BY <2>15 DEF ServerKnows, ServEnd, InLoop
    <3> QED
      BY <3>1, <3>2, <3>3, <3>4 DEF StopAndWait
  <2>16. CASE ServerHangup /\ UNCHANGED <<putClient, putServer>>
    <3>1. StreamInOrder'
      BY <2>16 DEF StreamInOrder, ServerHangup, ServerAtEof
    <3>2. ClientKnows'
      <4>1. cpc = "gone"
        BY <2>16 DEF ServerHangup, ServerAtEof, StopAndWait, ClientKnows
      <4> QED
        BY <2>16, <4>1 DEF ServerHangup, StopAndWait, ClientKnows, Has, putClient
    <3>3. InStep'
      BY <2>16 DEF TypeOK, StopAndWait, ClientKnows, InStep, ServerHangup, ServerAtEof, putClient, Has, Acked
    <3>4. ServerKnows'
      BY <2>16 DEF ServerKnows, ServerHangup, InLoop
    <3> QED
      BY <3>1, <3>2, <3>3, <3>4 DEF StopAndWait
  <2>17. CASE ClientQuit /\ UNCHANGED <<putClient, putServer>>
    <3>1. StreamInOrder'
      BY <2>17 DEF StopAndWait, StreamInOrder, Placed, ClientQuit, putClient, putServer
    <3>2. ClientKnows'
      <4>1. cUp' = (cpc' # "gone")
        BY <2>17 DEF ClientQuit
      <4> QED
        BY <2>17, <4>1 DEF ClientQuit, StopAndWait, ClientKnows, Has
    <3>3. InStep'
      BY <2>17 DEF StopAndWait, InStep, ClientQuit, putClient, putServer, Has, InLoop, Acked
    <3>4. ServerKnows'
      BY <2>17 DEF StopAndWait, ServerKnows, ClientQuit, putServer, InLoop
    <3> QED
      BY <3>1, <3>2, <3>3, <3>4 DEF StopAndWait
  <2>18. CASE UNCHANGED vars
    <3>1. StreamInOrder'
      BY <2>18 DEF StopAndWait, StreamInOrder, Placed, vars, connVars, putClient, putServer
    <3>2. ClientKnows'
      BY <2>18 DEF StopAndWait, ClientKnows, vars, connVars, putClient, putServer, Has
    <3>3. InStep'
      BY <2>18 DEF StopAndWait, InStep, vars, connVars, putClient, putServer, Has, InLoop, Acked
    <3>4. ServerKnows'
      BY <2>18 DEF StopAndWait, ServerKnows, vars, connVars, putServer, InLoop
    <3> QED
      BY <3>1, <3>2, <3>3, <3>4 DEF StopAndWait
  <2>19. CASE PutBroken
    BY <2>19 DEF PutBroken, Paired
  <2>20. CASE ServAstray
    BY <2>20 DEF ServAstray, Paired
  <2>21. CASE Environment
    BY <2>21 DEF Environment, ServerDies, ProcessEnds, Paired
  <2> QED
    BY <2>1, <2>2, <2>3, <2>4, <2>5, <2>6, <2>7, <2>8, <2>9, <2>10, <2>11, <2>12, <2>13, <2>14,
       <2>15, <2>16, <2>17, <2>18, <2>19, <2>20, <2>21
    DEF UploadNext, ClientStep, ServerStep, User, Finished

\* The stop-and-wait rule is an invariant for as long as the two ends are in step.
LEMMA StopAndWaitInvariant == UploadSpec => [](TypeOK /\ (Paired => StopAndWait))
<1>1. UploadInit => StopAndWait
  <2> SUFFICES ASSUME UploadInit PROVE StopAndWait
    OBVIOUS
  <2>1. Len(c2s) = 0 /\ \A kind : ~Has(kind)
    BY DEF UploadInit, ConnectionInit, Has
  <2>a. cUp = (cpc # "gone")
    <3>1. cUp = TRUE /\ cpc = "prompt"
      BY DEF UploadInit, ConnectionInit
    <3>2. (cpc # "gone") = TRUE
      BY <3>1
    <3> QED
      BY <3>1, <3>2
  <2>2. StreamInOrder /\ ClientKnows
    <3>1. /\ cpc = "prompt" /\ spc = "cmd" /\ c2s = <<>> /\ s2c = <<>>
          /\ file = <<>> /\ sent = 0
      BY DEF UploadInit, ConnectionInit
    <3>2. StreamInOrder
      BY <2>1 DEF StreamInOrder
    <3>3. ClientKnows
      BY <2>1, <2>a, <3>1 DEF ClientKnows
    <3> QED
      BY <3>2, <3>3
  <2>3. InStep /\ ServerKnows
    BY <2>1 DEF UploadInit, ConnectionInit, InStep, ServerKnows, InLoop, Acked
  <2> QED
    BY <2>2, <2>3 DEF StopAndWait
<1>2. TypeOK /\ (Paired => StopAndWait) /\ [UploadNext]_vars => (Paired => StopAndWait)'
  BY StopAndWaitStep, NeverPairedAgain
<1> QED
  BY <1>1, <1>2, TypeCorrect, PTL DEF UploadSpec

\* Whatever goes wrong - memory, disk, cut fragments, missing keys, a killed client,
\* a server that ends -, while the thread is in step with the client a positive verdict
\* is about the last fragment sent, and all those sent are then on the server's disk.
THEOREM Acknowledged == UploadSpec => []AckedIsStored
<1>1. TypeOK /\ (Paired => StopAndWait) => AckedIsStored
  <2> SUFFICES ASSUME TypeOK, StopAndWait, Acked
               PROVE  Len(s2c) <= 1 /\ exists /\ Len(file) = sent
    BY DEF AckedIsStored, Acked
  <2>1. exists /\ Len(file) = sent
    BY DEF StopAndWait, InStep
  <2>2. Len(s2c) <= 1
    <3>1. CASE s2c = <<>>
      BY <3>1
    <3>2. CASE s2c # <<>>
      <4>1. Len(s2c) = 1
        BY <3>2 DEF StopAndWait, InStep
      <4> QED
        BY <4>1
    <3> QED
      BY <3>1, <3>2
  <2> QED
    BY <2>1, <2>2
<1> QED
  BY <1>1, StopAndWaitInvariant, PTL
=============================================================================
