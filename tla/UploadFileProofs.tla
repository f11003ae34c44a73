------------------------- MODULE UploadFileProofs -------------------------
(***************************************************************************)
(* Theorems about the file that clnt_put writes: what is in it while the   *)
(* upload runs, what "save success" means, and that the upload implements  *)
(* the abstract transfer.                                                  *)
(***************************************************************************)
EXTENDS UploadProofs

\* Where the disk holds nothing or what it held, the source stays and no new body
\* goes out, the file stays a signed beginning of the source.
LEMMA GenuineKept ==
  ASSUME TypeOK, GenuineInvariant,
         UNCHANGED <<src, sent, key>>, file' = file \/ file' = <<>>,
         \A i \in 1 .. Len(c2s') : c2s'[i].kind = "body" =>
           \E j \in 1 .. Len(c2s) : c2s[j] = c2s'[i]
  PROVE  GenuineInvariant'
  <1>1. Begins(file, src)'
    <2>1. CASE file' = file
      BY <2>1 DEF GenuineInvariant, GenuinePrefix, Begins
    <2>2. CASE file' = <<>>
      BY <2>2 DEF Begins, TypeOK
    <2> QED
      BY <2>1, <2>2
  <1>2. \A i \in 1 .. Len(c2s') : c2s'[i].kind = "body" => c2s'[i].sign = <<src[sent]>>
    BY DEF GenuineInvariant, SignedInOrder
  <1> QED
    BY <1>1, <1>2 DEF GenuineInvariant, SignedInOrder, GenuinePrefix

LEMMA GenuineStep ==
  ASSUME Trusted, TypeOK, StopAndWait, Countdown, Paired, Paired',
         GenuineInvariant, [UploadNext]_vars
  PROVE  GenuineInvariant'
  <2>1. ASSUME NEW f \in Files, NEW test \in BOOLEAN, PutStart(f, test) PROVE GenuineInvariant'
    <3>1. c2s' = Append(c2s, Cmd("put")) /\ c2s = <<>> /\ file = <<>>
      BY <2>1 DEF PutStart, StopAndWait, ClientKnows, ClientSends, Paired
    <3>2. Len(c2s') = 1 /\ c2s'[1].kind = "cmd"
      BY <3>1, Sent, Messages, EmptySeq DEF Cmd
    <3>3. f \in Seq(Content)
      BY ConnectionAssumption
    <3>4. /\ src' = f /\ sent' = 0 /\ file' = <<>> /\ key' = key
      BY <2>1, <3>1 DEF PutStart, putServer, ClientSends, Paired
    <3>5. Begins(file, src)'
      BY <3>3, <3>4 DEF Begins
    <3> QED
      BY <3>2, <3>3, <3>4, <3>5 DEF GenuineInvariant, SignedInOrder, GenuinePrefix
  <2>2. CASE PutSize
    <3>1. /\ Len(c2s) \in Nat /\ Len(c2s') = Len(c2s) + 1 /\ c2s'[Len(c2s) + 1].kind = "num"
          /\ \A i \in 1 .. Len(c2s) : c2s'[i] = c2s[i]
      BY <2>2, SizeSent
    <3>2. \A i \in 1 .. Len(c2s') : c2s'[i].kind = "body" =>
            \E j \in 1 .. Len(c2s) : c2s[j] = c2s'[i]
      BY <3>1
    <3> QED
      BY <2>2, <3>2, GenuineKept DEF PutSize, putClient, putServer, ClientSends, Paired
  <2>3. CASE PutFragment
    <3>1. PICK data \in Payload, sign \in Sign(src[sent + 1], "nosign" \in Faults) :
            c2s' = c2s \o <<Info(1, Len(sign)), Body(data, sign)>>
      BY <2>3 DEF PutFragment, ClientSends, Paired
    <3>2. src[sent + 1] \in Content /\ Payload \subseteq Content
      BY <2>3, PayloadType DEF PutFragment, ClientSends, Paired
    <3>3. sign = <<src[sent + 1]>>
      BY <3>1 DEF Trusted, Sign
    <3>4. Body(data, sign) \in Message /\ Info(1, Len(sign)) \in Message
      BY <3>2, <3>3, Messages DEF Signs
    <3>5. /\ Len(c2s) \in Nat /\ Len(c2s') = Len(c2s) + 2
          /\ c2s'[Len(c2s) + 1] = Info(1, Len(sign)) /\ c2s'[Len(c2s) + 2] = Body(data, sign)
          /\ \A i \in 1 .. Len(c2s) : c2s'[i] = c2s[i]
      BY <3>1, <3>4, SentTwo DEF TypeOK
    <3>6. /\ sent' = sent + 1 /\ sent < Len(src) /\ UNCHANGED <<src, key, file>>
          /\ \A i \in 1 .. Len(c2s) : c2s[i].kind # "body"
      BY <2>3 DEF PutFragment, putServer, StopAndWait, ClientKnows, Has, ClientSends, Paired
    <3>7. ASSUME NEW i \in 1 .. Len(c2s'), c2s'[i].kind = "body"
          PROVE  c2s'[i].sign = <<src'[sent']>>
      <4>1. i = Len(c2s) + 2
        BY <3>5, <3>6, <3>7 DEF Info
      <4> QED
        BY <3>3, <3>5, <3>6, <4>1 DEF Body
    <3>8. sent' <= Len(src')
      BY <3>6 DEF TypeOK
    <3>9. GenuinePrefix'
      BY <3>6 DEF GenuineInvariant, GenuinePrefix, Begins
    <3> QED
      BY <3>6, <3>7, <3>8, <3>9 DEF GenuineInvariant, SignedInOrder
  <2>4. CASE PutNoMemory
    <3>1. \A i \in 1 .. Len(c2s') : c2s'[i].kind = "body" =>
            \E j \in 1 .. Len(c2s) : c2s[j] = c2s'[i]
      BY <2>4, InfoSent
    <3> QED
      BY <2>4, <3>1, GenuineKept DEF PutNoMemory, putServer, ClientSends, Paired
  <2>5. CASE PutStatus
    BY <2>5, GenuineKept DEF PutStatus, putServer, ClientAtEof, Paired
  <2>6. CASE PutEnd
    BY <2>6, GenuineKept DEF PutEnd, putServer
  <2> DEFINE Shrinks == c2s' = c2s \/ (c2s # <<>> /\ c2s' = Tail(c2s))
  <2>a. Shrinks => \A i \in 1 .. Len(c2s') : c2s'[i].kind = "body" =>
                     \E j \in 1 .. Len(c2s) : c2s[j] = c2s'[i]
    BY Consumed
  <2> HIDE DEF Shrinks
  <2>7. CASE ServPut
    <3>1. Shrinks
      BY <2>7 DEF Shrinks, ServPut
    <3> QED
      BY <2>7, <2>a, <3>1, GenuineKept DEF ServPut, Enter, putClient
  <2>8. CASE ServLeftover
    BY <2>8 DEF ServLeftover, Paired
  <2>9. CASE ServSize
    <3>1. Shrinks
      BY <2>9 DEF Shrinks, ServSize
    <3> QED
      BY <2>9, <2>a, <3>1, GenuineKept DEF ServSize, putClient
  <2>10. CASE ServInfo
    <3>1. Shrinks
      BY <2>10 DEF Shrinks, ServInfo
    <3> QED
      BY <2>10, <2>a, <3>1, GenuineKept DEF ServInfo, putClient
  <2>11. CASE ServNoMemory
    BY <2>11, GenuineKept DEF ServNoMemory, Abandon, putClient
  <2>12. CASE ServShortBody
    <3>1. \A i \in 1 .. Len(c2s') : c2s'[i].kind = "body" =>
            \E j \in 1 .. Len(c2s) : c2s[j] = c2s'[i]
      <4>1. CASE c2s # <<>> /\ Head(c2s).kind = "body" /\ c2s' = <<Rest>> \o Tail(c2s)
        <5>1. Tail(c2s) = <<>>
          BY <4>1, BodyIsLast
        <5>2. <<Rest>> \in Seq(Message)
          BY Messages
        <5>3. c2s' = <<Rest>>
          BY <4>1, <5>1, <5>2, ConcatEmptySeq
        <5> QED
          BY <5>3 DEF Rest
      <4> QED
        BY <2>12, <4>1 DEF ServShortBody
    <3> QED
      BY <2>12, <3>1, GenuineKept DEF ServShortBody, Abandon, putClient
  <2>13. CASE ServBody
    <3>1. /\ c2s # <<>> /\ Len(c2s) = 1 /\ c2s[1] = Head(c2s) /\ c2s[1].kind = "body"
          /\ c2s' = <<>> /\ spc = "body"
      BY <2>13, BodyIsLast, FirstMessage DEF ServBody
    <3>2. Len(file) + 1 = sent
      <4>1. Has("body") /\ InLoop
        BY <3>1 DEF Has, InLoop
      <4> QED
        BY <4>1 DEF StopAndWait, InStep
    <3>3. key = TRUE /\ Head(c2s).sign = <<src[sent]>> /\ sent <= Len(src)
      BY <3>1 DEF GenuineInvariant, SignedInOrder
    <3>4. UNCHANGED <<src, sent, key>>
      BY <2>13 DEF ServBody, putClient
    <3>5. Begins(file', src)
      <4>1. CASE Accepts(key, Head(c2s).data, Head(c2s).sign)
        <5>1. Head(c2s).data = src[sent]
          BY <3>3, <4>1, AcceptsSigned
        <5>2. PICK w \in Writes(Head(c2s).data) : file' = w.file
          BY <2>13, <4>1 DEF ServBody
        <5>3. file' = Append(file, src[sent]) \/ file' = file
          BY <5>1, <5>2 DEF Writes, Trusted
        <5>4. src[sent] \in Content \cup {Cut} /\ file \in Seq(Content \cup {Cut})
          BY <3>2, <3>3, ElementOfSeq DEF TypeOK
        <5>5. /\ Len(Append(file, src[sent])) = Len(file) + 1 /\ Len(file) \in Nat
              /\ \A i \in 1 .. Len(file) : Append(file, src[sent])[i] = file[i]
              /\ Append(file, src[sent])[Len(file) + 1] = src[sent]
          BY <5>4, Sent
        <5>6. Begins(Append(file, src[sent]), src)
          BY <3>2, <3>3, <5>5 DEF GenuineInvariant, GenuinePrefix, Begins
        <5> QED
          BY <5>3, <5>6 DEF GenuineInvariant, GenuinePrefix
      <4>2. CASE ~Accepts(key, Head(c2s).data, Head(c2s).sign)
        BY <2>13, <4>2 DEF ServBody, GenuineInvariant, GenuinePrefix
      <4> QED
        BY <4>1, <4>2
    <3>6. Len(c2s') = 0
      BY <3>1
    <3> QED
      BY <3>3, <3>4, <3>5, <3>6 DEF GenuineInvariant, SignedInOrder, GenuinePrefix
  <2>14. CASE ServEmptyBody
    <3>1. cUp
      BY DEF Countdown
    <3> QED
      BY <2>14, <3>1 DEF ServEmptyBody, StopAndWait, ServerKnows
  <2>15. CASE ServEnd
    BY <2>15, GenuineKept DEF ServEnd, putClient
  <2>16. CASE ServerHangup /\ UNCHANGED <<putClient, putServer>>
    BY <2>16, GenuineKept DEF ServerHangup, putClient, putServer
  <2>17. CASE ClientQuit /\ UNCHANGED <<putClient, putServer>>
    BY <2>17, GenuineKept DEF ClientQuit, putClient, putServer
  <2>18. CASE UNCHANGED vars
    BY <2>18, GenuineKept DEF vars, connVars, putClient, putServer
  <2>19. CASE PutBroken \/ ServAstray
    BY <2>19 DEF PutBroken, ServAstray, Paired
  <2>20. CASE Environment
    BY <2>20 DEF Environment, ServerDies, ProcessEnds, Paired
  <2> QED
    BY <2>1, <2>2, <2>3, <2>4, <2>5, <2>6, <2>7, <2>8, <2>9, <2>10, <2>11, <2>12, <2>13,
       <2>14, <2>15, <2>16, <2>17, <2>18, <2>19, <2>20
    DEF UploadNext, ClientStep, ServerStep, User, Finished

\* At first nothing is sent and nothing stored.
LEMMA GenuineInit ==
  ASSUME Trusted, UploadInit
  PROVE  GenuineInvariant
  <2>1. key = TRUE
    BY DEF UploadInit, Trusted
  <2>2. Len(c2s) = 0 /\ sent = 0 /\ src = <<>> /\ file = <<>>
    BY DEF UploadInit, ConnectionInit
  <2> QED
    BY <2>1, <2>2 DEF GenuineInvariant, SignedInOrder, GenuinePrefix, Begins

----------------------------------------------------------------------------

\* A verdict of 1 goes out only after the fragment has been appended.
LEMMA WrittenIfOk ==
  ASSUME TypeOK, ServBody
  PROVE  \E ok \in BOOLEAN : Answer(ok) /\ (ok => Len(file') = Len(file) + 1)
  <1>1. Head(c2s).data \in Content
    BY FirstMessage, Fields DEF ServBody
  <1>2. \A w \in Writes(Head(c2s).data) : w.check >= 0 => Len(w.file) = Len(file) + 1
    <2>1. /\ Len(Append(file, Head(c2s).data)) = Len(file) + 1
          /\ Len(Append(file, Cut)) = Len(file) + 1
      BY <1>1, Sent DEF TypeOK
    <2> QED
      BY <2>1 DEF Writes
  <1>3. CASE Accepts(key, Head(c2s).data, Head(c2s).sign)
    <2>1. PICK w \in Writes(Head(c2s).data) : file' = w.file /\ Answer(w.check >= 0)
      BY <1>3 DEF ServBody
    <2>2. CASE w.check >= 0
      <3>1. Answer(TRUE)
        BY <2>1, <2>2 DEF Answer
      <3> QED
        BY <1>2, <2>1, <2>2, <3>1
    <2>3. CASE ~(w.check >= 0)
      <3>1. Answer(FALSE)
        BY <2>1, <2>3 DEF Answer
      <3> QED
        BY <3>1
    <2> QED
      BY <2>2, <2>3
  <1>4. CASE ~Accepts(key, Head(c2s).data, Head(c2s).sign)
    BY <1>4 DEF ServBody
  <1> QED
    BY <1>3, <1>4

\* Every step keeps the countdown.
LEMMA CompleteStep ==
  ASSUME Trusted, TypeOK, StopAndWait, GenuineInvariant, GenuineInvariant', CompleteInvariant,
         Paired, Paired', [UploadNext]_vars
  PROVE  CompleteInvariant'
  <2>1. ASSUME NEW f \in Files, NEW test \in BOOLEAN, PutStart(f, test) PROVE CompleteInvariant'
    <3>a. c2s' = Append(c2s, Cmd("put")) /\ c2s = <<>> /\ s2c = <<>>
      BY <2>1 DEF PutStart, StopAndWait, ClientKnows, ClientSends, Paired
    <3>b. Len(c2s') = 1 /\ c2s'[1].kind = "cmd"
      BY <3>a, Sent, Messages, EmptySeq DEF Cmd
    <3>1. Countdown'
      BY <2>1, <3>a, <3>b DEF CompleteInvariant, Countdown, DiskKnows, StopAndWait, ClientKnows, PutStart, putServer, ClientSends, Paired
    <3>2. Together'
      BY <2>1, <3>a, <3>b DEF Together, PutStart, Acked, ClientSends, Paired
    <3>3. DiskKnows'
      BY <2>1, <3>a, <3>b DEF CompleteInvariant, DiskKnows, PutStart, putServer, Has, ClientSends, Paired
    <3> QED
      BY <3>1, <3>2, <3>3 DEF CompleteInvariant
  <2>2. CASE PutSize
    <3>a. /\ Len(c2s) \in Nat /\ Len(c2s') = Len(c2s) + 1 /\ c2s'[Len(c2s) + 1] = Num(Len(src))
          /\ \A i \in 1 .. Len(c2s) : c2s'[i] = c2s[i]
      BY <2>2, SizeSent
    <3>1. Countdown'
      <4>1. UNCHANGED <<cUp, spc, left, src, file, success, filelen, saved, exists>>
        BY <2>2 DEF PutSize, putClient, putServer, ClientSends, Paired
      <4>2. \A i \in 1 .. Len(c2s') : c2s'[i].kind = "num" => c2s'[i].num = Len(src)
        BY <3>a DEF CompleteInvariant, Countdown, Num
      <4> QED
        BY <4>1, <4>2 DEF CompleteInvariant, Countdown, Keeps
    <3>2. Together'
      BY <2>2, <3>a DEF Together, StopAndWait, ClientKnows, PutSize, putClient, Has, Acked, ClientSends, Paired
    <3>3. DiskKnows'
      BY <2>2, <3>a DEF CompleteInvariant, DiskKnows, PutSize, putServer, Has, Num, ClientSends, Paired
    <3> QED
      BY <3>1, <3>2, <3>3 DEF CompleteInvariant
  <2>3. CASE PutFragment
    <3>a. /\ Len(c2s) \in Nat /\ Len(c2s') = Len(c2s) + 2
          /\ c2s'[Len(c2s) + 1].kind = "info"
          /\ c2s'[Len(c2s) + 2].kind = "body"
          /\ \A i \in 1 .. Len(c2s) : c2s'[i] = c2s[i]
      BY <2>3, FragmentSent
    <3>1. Countdown'
      <4>1. UNCHANGED <<cUp, spc, left, src, file, success, filelen, saved, exists>>
        BY <2>3 DEF PutFragment, putServer, ClientSends, Paired
      <4>2. \A i \in 1 .. Len(c2s') : c2s'[i].kind = "num" => c2s'[i].num = Len(src)
        BY <3>a DEF CompleteInvariant, Countdown
      <4> QED
        BY <4>1, <4>2 DEF CompleteInvariant, Countdown, Keeps
    <3>2. Together'
      BY <2>3 DEF Together, StopAndWait, ClientKnows, Acked, PutFragment, ClientSends, Paired
    <3>3. DiskKnows'
      <4>1. /\ c2s'[1].kind = IF c2s = <<>> THEN "info" ELSE c2s[1].kind
            /\ ~Has("rest") /\ ~Has("body")
            /\ (c2s # <<>> => c2s[1].kind \notin {"rest", "body"})
        BY <2>3, <3>a DEF PutFragment, StopAndWait, ClientKnows, Has, ClientSends, Paired
      <4>2. Has("cmd")' => Has("cmd")
        BY <3>a DEF Has
      <4>3. spc # "end"
        BY <2>3 DEF PutFragment, CompleteInvariant, Together, StopAndWait, StreamInOrder, Placed, Has, ClientSends, Paired
      <4> QED
        BY <2>3, <4>1, <4>2, <4>3 DEF PutFragment, putServer, CompleteInvariant, DiskKnows, ClientSends, Paired
    <3> QED
      BY <3>1, <3>2, <3>3 DEF CompleteInvariant
  <2>4. CASE PutNoMemory
    <3>a. /\ Len(c2s) \in Nat /\ Len(c2s') = Len(c2s) + 1
          /\ c2s'[Len(c2s) + 1].kind = "info"
          /\ \A i \in 1 .. Len(c2s) : c2s'[i] = c2s[i]
      BY <2>4, InfoSent
    <3>1. Countdown'
      <4>1. UNCHANGED <<cUp, spc, left, src, file, success, filelen, saved, exists>>
        BY <2>4 DEF PutNoMemory, putServer, ClientSends, Paired
      <4>2. \A i \in 1 .. Len(c2s') : c2s'[i].kind = "num" => c2s'[i].num = Len(src)
        BY <3>a DEF CompleteInvariant, Countdown
      <4> QED
        BY <4>1, <4>2 DEF CompleteInvariant, Countdown, Keeps
    <3>2. Together'
      BY <2>4, <3>a DEF CompleteInvariant, Together, PutNoMemory, putServer, Acked, ClientSends, Paired
    <3>3. DiskKnows'
      BY <2>4, <3>a DEF CompleteInvariant, DiskKnows, PutNoMemory, putServer, Has, ClientSends, Paired
    <3> QED
      BY <3>1, <3>2, <3>3 DEF CompleteInvariant
  <2>5. CASE PutStatus
    <3>a. /\ Len(s2c) = 1 /\ s2c' = <<>> /\ c2s = <<>> /\ Head(s2c) = s2c[1]
      BY <2>5, Received DEF PutStatus, TypeOK, StopAndWait, InStep, ClientAtEof, Paired
    <3>1. Countdown'
      BY <2>5, <3>a DEF CompleteInvariant, Countdown, PutStatus, putServer, Keeps, ClientAtEof, Paired
    <3>2. Together'
      BY <2>5, <3>a DEF CompleteInvariant, Countdown, Together, StopAndWait, InStep, PutStatus, putServer, Acked, Keeps, ClientAtEof, Paired
    <3>3. DiskKnows'
      BY <2>5, <3>a DEF CompleteInvariant, DiskKnows, PutStatus, putServer, Has, ClientAtEof, Paired
    <3> QED
      BY <3>1, <3>2, <3>3 DEF CompleteInvariant
  <2>6. CASE PutEnd
    <3>1. Countdown'
      BY <2>6 DEF CompleteInvariant, Countdown, PutEnd, putServer, Keeps
    <3>2. Together'
      BY <2>6 DEF CompleteInvariant, Together, PutEnd, putServer, Acked
    <3>3. DiskKnows'
      BY <2>6 DEF CompleteInvariant, DiskKnows, PutEnd, putServer, Has
    <3> QED
      BY <3>1, <3>2, <3>3 DEF CompleteInvariant
  <2>7. CASE ServPut
    <3>a. c2s # <<>> /\ c2s[1].kind = "cmd" /\ c2s' = Tail(c2s)
      BY <2>7, FirstMessage DEF ServPut, Cmd
    <3>b. /\ Len(c2s) \in Nat /\ Len(c2s') = Len(c2s) - 1
          /\ \A i \in 1 .. Len(c2s') : i + 1 \in 1 .. Len(c2s) /\ c2s'[i] = c2s[i + 1]
          /\ \A k : Has(k)' => Has(k)
      BY <3>a, Consumed
    <3>c. 1 \in 1 .. Len(c2s) /\ Has("cmd")
      BY <3>a, FirstMessage DEF Has
    <3>d. saved # "ok"
      BY <3>c DEF CompleteInvariant, Countdown, DiskKnows
    <3>e. ~Has("cmd")'
      BY <3>b DEF StopAndWait, StreamInOrder, Placed, Has
    <3>1. Countdown'
      BY <2>7, <3>b, <3>d DEF CompleteInvariant, Countdown, ServPut, Enter, putClient
    <3>2. Together'
      BY <2>7 DEF Together, ServPut, Enter
    <3>3. DiskKnows'
      <4>1. ~(cpc = "prompt" /\ verdict = "none")
        BY <3>a DEF StopAndWait, ClientKnows
      <4> QED
        BY <2>7, <3>e, <4>1 DEF DiskKnows, ServPut, Enter, putClient
    <3> QED
      BY <3>1, <3>2, <3>3 DEF CompleteInvariant
  <2>8. CASE ServLeftover
    BY <2>8 DEF ServLeftover, Paired
  <2>9. CASE ServSize
    <3>a. c2s # <<>> /\ c2s[1].kind = "num" /\ c2s' = Tail(c2s) /\ left' = c2s[1].num
      BY <2>9, FirstMessage DEF ServSize, ServerAtEof, Countdown, CompleteInvariant
    <3>b. /\ Len(c2s) \in Nat /\ Len(c2s') = Len(c2s) - 1
          /\ \A i \in 1 .. Len(c2s') : i + 1 \in 1 .. Len(c2s) /\ c2s'[i] = c2s[i + 1]
          /\ \A k : Has(k)' => Has(k)
      BY <3>a, Consumed
    <3>c. 1 \in 1 .. Len(c2s) /\ spc = "size"
      <4>1. spc = "size"
        BY <2>9 DEF ServSize
      <4>2. Len(c2s) \in Nat /\ Len(c2s) >= 1
        BY <3>a, FirstMessage
      <4> QED
        BY <4>1, <4>2
    <3>d. left' = Len(src)
      BY <3>a, <3>c DEF CompleteInvariant, Countdown
    <3>e. file = <<>> /\ s2c = <<>> /\ ~Acked /\ saved # "ok" /\ exists
      BY <3>a, <3>c DEF StopAndWait, ServerKnows, InStep, InLoop, CompleteInvariant, Countdown
    <3>g. /\ spc' = IF Len(src) > 0 THEN "info" ELSE "end"
          /\ UNCHANGED <<cpc, s2c, cUp, rst, putClient, key, info, filelen, success, exists, file, saved>>
      BY <2>9, <3>d DEF ServSize, LoopHead
    <3>h. Len(src) = 0 => src = <<>> /\ sent = 0
      BY DEF GenuineInvariant, SignedInOrder, TypeOK
    <3>1. Countdown'
      <4>1. \A i \in 1 .. Len(c2s') : c2s'[i].kind = "num" => c2s'[i].num = Len(src)
        BY <3>b DEF CompleteInvariant, Countdown
      <4>2. spc' = "info" => left' = Len(src) - Len(file) /\ left' > 0
        BY <3>d, <3>e, <3>g DEF TypeOK
      <4>3. spc' = "end" => file = src
        BY <3>e, <3>g, <3>h DEF TypeOK
      <4>4. spc' # "body" /\ cUp' = TRUE /\ UNCHANGED <<src, file, saved>>
        BY <3>g DEF CompleteInvariant, Countdown, putClient
      <4> QED
        BY <3>e, <4>1, <4>2, <4>3, <4>4 DEF Countdown
    <3>2. Together'
      BY <3>b, <3>e, <3>g, <3>h DEF CompleteInvariant, Together, Acked, TypeOK, putClient
    <3>3. DiskKnows'
      <4>1. (Has("body")' => Has("body")) /\ (Has("rest")' => Has("rest")) /\ (Has("cmd")' => Has("cmd"))
        BY <3>b
      <4>2. Has("body") => sent >= 1
        BY DEF StopAndWait, StreamInOrder, Placed, Has
      <4>3. ~Has("rest")
        BY <3>a, <3>c DEF StopAndWait, StreamInOrder, Placed, Has
      <4> QED
        BY <3>e, <3>g, <3>h, <4>1, <4>2, <4>3 DEF CompleteInvariant, DiskKnows, TypeOK, putClient
    <3> QED
      BY <3>1, <3>2, <3>3 DEF CompleteInvariant
  <2>10. CASE ServInfo
    <3>a. c2s # <<>> /\ c2s[1].kind = "info" /\ c2s' = Tail(c2s)
      BY <2>10, FirstMessage DEF ServInfo, ServerAtEof, Countdown, CompleteInvariant
    <3>b. /\ Len(c2s) \in Nat /\ Len(c2s') = Len(c2s) - 1
          /\ \A i \in 1 .. Len(c2s') : i + 1 \in 1 .. Len(c2s) /\ c2s'[i] = c2s[i + 1]
          /\ \A k : Has(k)' => Has(k)
      BY <3>a, Consumed
    <3>c. Has("info")
      BY <3>a, FirstMessage DEF Has
    <3>d. cpc # "read"
      BY <3>c DEF StopAndWait, ClientKnows
    <3>1. Countdown'
      BY <2>10, <3>b DEF CompleteInvariant, Countdown, ServInfo, putClient
    <3>2. Together'
      BY <2>10, <3>d DEF Together, ServInfo
    <3>3. DiskKnows'
      BY <2>10, <3>b DEF CompleteInvariant, DiskKnows, ServInfo, putClient
    <3> QED
      BY <3>1, <3>2, <3>3 DEF CompleteInvariant
  <2>11. CASE ServNoMemory
    <3>1. Countdown'
      BY <2>11 DEF CompleteInvariant, Countdown, ServNoMemory, Abandon, putClient, Keeps
    <3>2. Together'
      BY <2>11 DEF CompleteInvariant, Together, ServNoMemory, Abandon
    <3>3. DiskKnows'
      BY <2>11 DEF CompleteInvariant, DiskKnows, ServNoMemory, Abandon, putClient, Has
    <3> QED
      BY <3>1, <3>2, <3>3 DEF CompleteInvariant
  <2>12. CASE ServShortBody
    <3>a. /\ Len(c2s') = 1 /\ c2s'[1].kind = "rest" /\ s2c = <<>> /\ ~Acked
      <4>1. c2s # <<>> /\ Head(c2s).kind = "body" /\ c2s' = <<Rest>> \o Tail(c2s)
        BY <2>12 DEF ServShortBody, ServerAtEof, CompleteInvariant, Countdown
      <4>2. Tail(c2s) = <<>> /\ s2c = <<>> /\ ~Acked
        BY <4>1, BodyIsLast
      <4>3. <<Rest>> \in Seq(Message)
        BY Messages
      <4>4. c2s' = <<Rest>>
        BY <4>1, <4>2, <4>3, ConcatEmptySeq
      <4> QED
        BY <4>2, <4>4 DEF Rest
    <3>1. Countdown'
      BY <2>12, <3>a DEF CompleteInvariant, Countdown, ServShortBody, Abandon, Keeps
    <3>2. Together'
      BY <2>12, <3>a DEF CompleteInvariant, Together, ServShortBody, Abandon
    <3>3. DiskKnows'
      BY <2>12, <3>a DEF CompleteInvariant, DiskKnows, ServShortBody, Abandon, putClient, Has
    <3> QED
      BY <3>1, <3>2, <3>3 DEF CompleteInvariant
  <2>13. CASE ServBody
    <3>a. /\ c2s # <<>> /\ c2s[1].kind = "body" /\ c2s' = <<>> /\ Len(c2s') = 0 /\ s2c = <<>>
          /\ cpc = "wait" /\ Len(file) + 1 = sent /\ exists /\ success = 1 /\ info.file = 1
          /\ spc = "body" /\ UNCHANGED <<cpc, cUp, src, sent, verdict, info, filelen, exists, saved>>
      <4>1. /\ c2s # <<>> /\ Len(c2s) = 1 /\ c2s[1].kind = "body" /\ c2s' = <<>> /\ s2c = <<>>
            /\ spc = "body" /\ UNCHANGED <<cpc, cUp, src, sent, verdict, info, filelen, exists, saved>>
        BY <2>13, BodyIsLast DEF ServBody, putClient
      <4>2. Has("body") /\ InLoop
        BY <4>1 DEF Has, InLoop
      <4>3. Len(c2s') = 0
        BY <4>1
      <4> QED
        BY <4>1, <4>2, <4>3 DEF StopAndWait, ClientKnows, InStep, ServerKnows, CompleteInvariant, Countdown
    <3>b. PICK ok \in BOOLEAN : Answer(ok) /\ (ok => Len(file') = Len(file) + 1)
      BY <2>13, WrittenIfOk DEF StopAndWait
    <3>c. /\ success' = (IF ok THEN 1 ELSE 0) /\ left' = left - 1
          /\ spc' = (IF ok THEN LoopHead(left') ELSE "end")
      BY <3>a, <3>b DEF Answer, ServerSend, CompleteInvariant, Countdown
    <3>d. left = Len(src) - Len(file) /\ left > 0
      BY <3>a DEF CompleteInvariant, Countdown
    <3>e. ok /\ spc' = "end" => file' = src
      <4> SUFFICES ASSUME ok, spc' = "end" PROVE file' = src
        OBVIOUS
      <4>1. Len(file') = Len(src)
        BY <3>b, <3>c, <3>d DEF LoopHead, TypeOK
      <4>2. \A i \in 1 .. Len(file') : file'[i] = src[i]
        BY <3>a DEF GenuineInvariant, GenuinePrefix, Begins
      <4>3. file' \in Seq(Content \cup {Cut}) /\ src \in Seq(Content \cup {Cut})
        BY <2>13, TypeStep DEF TypeOK, UploadNext, ServerStep
      <4> QED
        BY <4>1, <4>2, <4>3, SeqEqual
    <3>1. Countdown'
      <4>1. spc' = "end" /\ Keeps' => file' = src'
        BY <3>a, <3>c, <3>e DEF Keeps
      <4>2. spc' \in {"info", "body"} => left' = Len(src') - Len(file') /\ left' > 0
        <5>1. Len(src) \in Nat /\ Len(file) \in Nat /\ left \in Int
          BY DEF TypeOK
        <5>2. spc' \in {"info", "body"} => ok /\ left' > 0
          BY <3>c DEF LoopHead
        <5>3. UNCHANGED src /\ (ok => Len(file') = Len(file) + 1) /\ left' = left - 1
          BY <3>a, <3>b, <3>c
        <5> QED
          BY <3>d, <5>1, <5>2, <5>3
      <4>3. saved # "ok" /\ cUp' = TRUE
        BY <3>a DEF CompleteInvariant, Countdown
      <4> QED
        BY <3>a, <4>1, <4>2, <4>3 DEF Countdown
    <3>2. Together'
      BY <3>a, <3>c DEF Together, LoopHead, Acked
    <3>3. DiskKnows'
      BY <3>a, <3>c DEF DiskKnows, Has, LoopHead
    <3> QED
      BY <3>1, <3>2, <3>3 DEF CompleteInvariant
  <2>14. CASE ServEmptyBody
    BY <2>14 DEF ServEmptyBody, StopAndWait, ServerKnows, CompleteInvariant, Countdown
  <2>15. CASE ServEnd
    <3>a. /\ Keeps => exists' = TRUE /\ saved' = "ok" /\ file' = file
          /\ ~Keeps => exists' = FALSE /\ saved' = "failed" /\ file' = <<>>
      BY <2>15 DEF ServEnd
    <3>b. spc = "end" /\ spc' = "cmd" /\ UNCHANGED <<cpc, c2s, s2c, verdict, sent, src>>
      BY <2>15 DEF ServEnd, putClient
    <3>1. Countdown'
      BY <2>15 DEF CompleteInvariant, Countdown, ServEnd, putClient
    <3>2. Together'
      BY <2>15 DEF CompleteInvariant, Together, StopAndWait, InStep, ServEnd, putClient, Has, Acked, Keeps
    <3>3. DiskKnows'
      <4>1. c2s # <<>> /\ c2s[1].kind \in {"rest", "body"} => ~Keeps
        <5>1. c2s # <<>> => 1 \in 1 .. Len(c2s)
          BY FirstMessage
        <5> QED
          BY <3>b, <5>1 DEF CompleteInvariant, DiskKnows, Has, Keeps
      <4>2. ~Has("cmd")
        BY <3>b DEF StopAndWait, StreamInOrder, Placed, Has
      <4>3. ~(cpc = "prompt" /\ verdict = "none")
        BY <3>b DEF StopAndWait, ClientKnows
      <4>4. ~Has("cmd")'
        BY <3>b, <4>2 DEF Has
      <4> QED
        BY <3>a, <3>b, <4>1, <4>3, <4>4 DEF DiskKnows
    <3> QED
      BY <3>1, <3>2, <3>3 DEF CompleteInvariant
  <2>16. CASE ServerHangup /\ UNCHANGED <<putClient, putServer>>
    BY <2>16 DEF ServerHangup, ServerAtEof, CompleteInvariant, Countdown
  <2>17. CASE ClientQuit /\ UNCHANGED <<putClient, putServer>>
    BY <2>17 DEF ClientQuit, Trusted
  <2>18. CASE UNCHANGED vars
    <3>1. Countdown'
      BY <2>18 DEF CompleteInvariant, Countdown, vars, connVars, putClient, putServer, Keeps
    <3>2. Together'
      BY <2>18 DEF CompleteInvariant, Together, vars, connVars, putClient, putServer, Has, Acked
    <3>3. DiskKnows'
      BY <2>18 DEF CompleteInvariant, DiskKnows, vars, connVars, putClient, putServer, Has
    <3> QED
      BY <3>1, <3>2, <3>3 DEF CompleteInvariant
  <2>19. CASE PutBroken \/ ServAstray
    BY <2>19 DEF PutBroken, ServAstray, Paired
  <2>20. CASE Environment
    BY <2>20 DEF Environment, ServerDies, ProcessEnds, Paired
  <2> QED
    BY <2>1, <2>2, <2>3, <2>4, <2>5, <2>6, <2>7, <2>8, <2>9, <2>10, <2>11, <2>12, <2>13,
       <2>14, <2>15, <2>16, <2>17, <2>18, <2>19, <2>20
    DEF UploadNext, ClientStep, ServerStep, User, Finished

\* When the two ends are not in step, or fall out of it, nothing happens to the disk:
\* the client may still choose the file to send, when it has not begun.
LEMMA OutOfStep ==
  ASSUME Trusted, TypeOK, Paired => StopAndWait /\ Countdown, ~(Paired /\ Paired'),
         [UploadNext]_vars
  PROVE  /\ UNCHANGED <<file, exists, saved>>
         /\ \/ src' = src
            \/ cpc = "prompt" /\ verdict = "none" /\ src' \in Files
<1>1. ASSUME NEW f \in Files, NEW test \in BOOLEAN, PutStart(f, test)
      PROVE  /\ UNCHANGED <<file, exists, saved>> /\ src' \in Files
             /\ cpc = "prompt" /\ verdict = "none"
  BY <1>1 DEF PutStart, putServer
<1>2. CASE ClientStep
  BY <1>2 DEF ClientStep, PutSize, PutFragment, PutBroken, PutNoMemory, PutStatus, PutEnd,
              putClient, putServer
<1>3. CASE ServLeftover \/ ServAstray \/ UNCHANGED <<putClient, putServer>>
  BY <1>3 DEF ServLeftover, ServAstray, putClient, putServer
<1>4. CASE ServPut \/ ServSize \/ ServInfo \/ ServNoMemory \/ ServShortBody \/ ServEnd
  BY <1>4 DEF ServPut, Enter, ServSize, LoopHead, ServInfo, ServNoMemory, ServShortBody, Abandon,
              ServEnd, Paired
<1>5. CASE ServBody
  <2>1. spc = "body" /\ cUp
    BY <1>5 DEF ServBody, Paired, Countdown
  <2>2. \E ok \in BOOLEAN : Answer(ok)
    BY <1>5, WrittenIfOk
  <2>3. Paired /\ Paired'
    BY <2>1, <2>2 DEF Answer, ServerSend, LoopHead, Paired
  <2> QED
    BY <2>3
<1>6. CASE ServEmptyBody
  BY <1>6 DEF ServEmptyBody, Paired, Countdown, StopAndWait, ServerKnows
<1>7. CASE UNCHANGED vars
  BY <1>7 DEF vars, putClient, putServer
<1> QED
  BY <1>1, <1>2, <1>3, <1>4, <1>5, <1>6, <1>7
  DEF UploadNext, ServerStep, User, Environment, Finished

\* Until the upload begins nobody touches the disk.
LEMMA UntouchedStep ==
  ASSUME Trusted, TypeOK, Paired => StopAndWait /\ Countdown, Untouched, [UploadNext]_vars
  PROVE  Untouched'
<1> SUFFICES ASSUME cpc' = "prompt", verdict' = "none"
             PROVE  UNCHANGED <<cpc, verdict, file, exists, saved>>
  BY DEF Untouched
<1>1. ASSUME NEW f \in Files, NEW test \in BOOLEAN, PutStart(f, test) PROVE FALSE
  BY <1>1 DEF PutStart, ClientSends
<1>2. CASE ClientStep
  BY <1>2 DEF ClientStep, PutSize, PutFragment, PutBroken, PutNoMemory, PutStatus, PutEnd, ClientSends
<1>3. CASE ClientQuit
  BY <1>3 DEF ClientQuit
<1>4. CASE ServerStep \/ Environment \/ UNCHANGED vars
  <2>1. UNCHANGED <<cpc, verdict>>
    BY <1>4 DEF ServerStep, ServPut, ServLeftover, ServAstray, ServSize, ServInfo, ServNoMemory,
                ServShortBody, Abandon, ServBody, ServEmptyBody, ServEnd, ServerHangup, Environment,
                ServerDies, ProcessEnds, putClient, vars, connVars
  <2>2. CASE ~(Paired /\ Paired')
    BY <2>1, <2>2, OutOfStep
  <2>3. CASE Paired /\ Paired'
    <3>1. c2s = <<>> /\ spc = "cmd" /\ cUp
      BY <2>1, <2>3 DEF StopAndWait, ClientKnows, Countdown
    <3>2. ~ServerStep
      BY <3>1 DEF ServerStep, ServPut, ServLeftover, ServAstray, ServSize, ServInfo, ServNoMemory,
                  ServShortBody, ServBody, ServEmptyBody, ServEnd, ServerHangup, ServerAtEof
    <3> QED
      BY <1>4, <2>1, <3>2 DEF Environment, putServer, vars
  <2> QED
    BY <2>2, <2>3
<1> QED
  BY <1>1, <1>2, <1>3, <1>4 DEF UploadNext, User, Finished

\* Every step leaves on the disk what may be there.
LEMMA DiskStaysStep ==
  ASSUME Trusted, TypeOK, Paired => StopAndWait /\ Countdown, DiskStays,
         Paired' => (Paired /\ GenuineInvariant' /\ CompleteInvariant'),
         [UploadNext]_vars
  PROVE  DiskStays'
<1>1. Untouched'
  BY UntouchedStep DEF DiskStays
<1>2. CASE Paired /\ Paired'
  BY <1>1, <1>2 DEF DiskStays, GenuineInvariant, CompleteInvariant, Countdown, KeptIsWhole
<1>3. CASE ~(Paired /\ Paired')
  <2>1. UNCHANGED <<file, exists, saved>>
    BY <1>3, OutOfStep
  <2>2. CASE src' = src
    BY <1>1, <2>1, <2>2 DEF DiskStays, GenuinePrefix, Begins, KeptIsWhole
  <2>3. CASE cpc = "prompt" /\ verdict = "none" /\ src' \in Files
    <3>1. file' = <<>> /\ saved' = "none"
      BY <2>1, <2>3 DEF DiskStays, Untouched
    <3>2. src' \in Seq(Content)
      BY <2>3, ConnectionAssumption
    <3>3. Begins(file, src)'
      BY <3>1, <3>2 DEF Begins
    <3> QED
      BY <1>1, <3>1, <3>3 DEF DiskStays, GenuinePrefix, KeptIsWhole
  <2> QED
    BY <1>3, <2>2, <2>3, OutOfStep
<1> QED
  BY <1>2, <1>3

\* What holds throughout in a trusted environment.
LEMMA TrustedInvariant ==
  ASSUME Trusted
  PROVE  UploadSpec => [](/\ TypeOK
                          /\ Paired => StopAndWait /\ GenuineInvariant /\ CompleteInvariant
                          /\ DiskStays)
<1> DEFINE Inv == /\ Paired => StopAndWait /\ GenuineInvariant /\ CompleteInvariant
                  /\ DiskStays
<1>1. UploadInit => GenuineInvariant
  BY GenuineInit
<1>2. UploadInit => CompleteInvariant
  <2> SUFFICES ASSUME UploadInit PROVE CompleteInvariant
    OBVIOUS
  <2>1. /\ cpc = "prompt" /\ spc = "cmd" /\ c2s = <<>> /\ s2c = <<>> /\ cUp = TRUE
        /\ saved = "none" /\ exists = FALSE /\ file = <<>> /\ Len(c2s) = 0
    BY DEF UploadInit, ConnectionInit
  <2>2. \A kind : ~Has(kind)
    BY <2>1 DEF Has
  <2>3. Countdown /\ Together
    BY <2>1 DEF Countdown, Together, Acked
  <2>4. DiskKnows
    BY <2>1, <2>2 DEF DiskKnows
  <2> QED
    BY <2>3, <2>4 DEF CompleteInvariant
<1>3. UploadInit => DiskStays
  <2> SUFFICES ASSUME UploadInit PROVE DiskStays
    OBVIOUS
  <2>1. GenuinePrefix
    BY GenuineInit DEF GenuineInvariant
  <2> QED
    BY <2>1 DEF UploadInit, DiskStays, Untouched, KeptIsWhole
<1>4. /\ TypeOK /\ (Paired => StopAndWait) /\ Inv /\ [UploadNext]_vars
      /\ (Paired => StopAndWait)'
      => Inv'
  <2> SUFFICES ASSUME TypeOK, Inv, [UploadNext]_vars, (Paired => StopAndWait)'
               PROVE  Inv'
    OBVIOUS
  <2>1. ASSUME Paired' PROVE Paired /\ GenuineInvariant' /\ CompleteInvariant'
    <3>1. Paired
      BY <2>1, NeverPairedAgain
    <3>2. GenuineInvariant'
      BY <2>1, <3>1, GenuineStep DEF CompleteInvariant
    <3>3. CompleteInvariant'
      BY <2>1, <3>1, <3>2, CompleteStep
    <3> QED
      BY <3>1, <3>2, <3>3
  <2>2. DiskStays'
    BY <2>1, DiskStaysStep DEF CompleteInvariant
  <2> QED
    BY <2>1, <2>2
<1> QED
  BY <1>1, <1>2, <1>3, <1>4, StopAndWaitInvariant, PTL DEF UploadSpec

\* In a trusted environment the file on the server's disk is, at every moment, the
\* beginning of the file the client signed: also when put_file_test sends other data,
\* memory or disk fail, the server's process ends, or a fragment is cut short and its
\* rest is read as commands.
THEOREM Genuine ==
  ASSUME Trusted
  PROVE  UploadSpec => []GenuinePrefix
<1>1. DiskStays => GenuinePrefix
  BY DEF DiskStays
<1> QED
  BY <1>1, TrustedInvariant, PTL

\* In a trusted environment "save success" at the server means that the whole file,
\* as signed, is on its disk, and it stays there whatever the thread does out of step.
THEOREM Complete ==
  ASSUME Trusted
  PROVE  UploadSpec => []KeptIsWhole
<1>1. DiskStays => KeptIsWhole
  BY DEF DiskStays
<1> QED
  BY <1>1, TrustedInvariant, PTL

----------------------------------------------------------------------------

\* Every step of the upload is one of the abstract transfer, or changes nothing there.
LEMMA TransferStep ==
  ASSUME Trusted, TypeOK, StopAndWait, GenuineInvariant, GenuineInvariant', CompleteInvariant,
         Paired, Paired', [UploadNext]_vars
  PROVE  [Transfer!FTNext]_(Transfer!ftVars)
  <2> DEFINE Quiet == UNCHANGED <<src, exists, file, saved>>
  <2>a. Quiet => UNCHANGED Transfer!ftVars
    BY DEF Transfer!ftVars, Outcome
  <2>b. saved' = saved => Outcome' = Outcome
    BY DEF Outcome
  <2>1. ASSUME NEW f \in Files, NEW test \in BOOLEAN, PutStart(f, test) PROVE Transfer!Choose
    <3>1. saved = "none" /\ ~exists
      BY <2>1 DEF PutStart, CompleteInvariant, DiskKnows, ClientSends, Paired
    <3> QED
      BY <2>1, <2>b, <3>1 DEF PutStart, putServer, Transfer!Choose, Outcome, ClientSends, Paired
  <2>2. CASE PutSize \/ PutFragment \/ PutNoMemory \/ PutStatus \/ PutEnd
    BY <2>2, <2>a DEF PutSize, PutFragment, PutNoMemory, PutStatus, PutEnd, putClient, putServer, ClientSends, Paired, ClientAtEof
  <2>3. ASSUME spc = "cmd", ~exists, Enter, UNCHANGED <<src, saved>> PROVE Transfer!Create
    BY <2>3, <2>b DEF Enter, Transfer!Create, CompleteInvariant, DiskKnows
  <2>4. CASE ServPut
    <3>1. c2s # <<>> /\ c2s[1].kind = "cmd" /\ spc = "cmd"
      BY <2>4, FirstMessage DEF ServPut, Cmd
    <3>2. Has("cmd")
      BY <3>1, FirstMessage DEF Has
    <3>3. Transfer!Create
      BY <2>3, <2>4, <3>1, <3>2 DEF ServPut, putClient, CompleteInvariant, DiskKnows
    <3> QED
      BY <3>3 DEF Transfer!FTNext
  <2>5. CASE PutBroken \/ ServLeftover \/ ServAstray
    BY <2>5, <2>a DEF PutBroken, ServLeftover, ServAstray, putClient, putServer
  <2>6. CASE ServSize \/ ServInfo \/ ServNoMemory \/ ServShortBody
    BY <2>6, <2>a DEF ServSize, ServInfo, ServNoMemory, ServShortBody, Abandon, putClient
  <2>11. CASE ServEmptyBody
    BY <2>11 DEF ServEmptyBody, StopAndWait, ServerKnows, CompleteInvariant, Countdown
  <2>7. CASE ServBody
    <3>1. /\ c2s # <<>> /\ Len(c2s) = 1 /\ c2s[1] = Head(c2s) /\ c2s[1].kind = "body"
          /\ spc = "body"
      BY <2>7, BodyIsLast, FirstMessage DEF ServBody
    <3>2. Len(file) + 1 = sent /\ exists
      <4>1. Has("body") /\ InLoop
        BY <3>1 DEF Has, InLoop
      <4> QED
        BY <4>1 DEF StopAndWait, InStep, ServerKnows
    <3>3. key = TRUE /\ Head(c2s).sign = <<src[sent]>> /\ sent <= Len(src)
      BY <3>1 DEF GenuineInvariant, SignedInOrder
    <3>4. saved # "ok"
      BY <3>1 DEF CompleteInvariant, Countdown
    <3>5. file' = Append(file, src[sent]) \/ file' = file
      <4>1. CASE Accepts(key, Head(c2s).data, Head(c2s).sign)
        <5>1. Head(c2s).data = src[sent]
          BY <3>3, <4>1, AcceptsSigned
        <5>2. PICK w \in Writes(Head(c2s).data) : file' = w.file
          BY <2>7, <4>1 DEF ServBody
        <5> QED
          BY <5>1, <5>2 DEF Writes, Trusted
      <4>2. CASE ~Accepts(key, Head(c2s).data, Head(c2s).sign)
        BY <2>7, <4>2 DEF ServBody
      <4> QED
        BY <4>1, <4>2
    <3>6. UNCHANGED <<src, exists, saved>>
      BY <2>7 DEF ServBody, putClient
    <3>7. CASE file' = Append(file, src[sent])
      <4>1. file' = Append(file, src[Len(file) + 1]) /\ Len(file) < Len(src)
        BY <3>2, <3>3, <3>7 DEF TypeOK
      <4>2. Outcome # "kept"
        BY <3>4 DEF Outcome, TypeOK
      <4>3. Transfer!Extend
        BY <2>b, <3>2, <3>6, <4>1, <4>2 DEF Transfer!Extend
      <4> QED
        BY <4>3 DEF Transfer!FTNext
    <3>8. CASE file' = file
      BY <2>a, <3>6, <3>8
    <3> QED
      BY <3>5, <3>7, <3>8
  <2>8. CASE ServEnd
    <3>1. exists /\ saved # "ok" /\ spc = "end"
      BY <2>8 DEF ServEnd, StopAndWait, ServerKnows, CompleteInvariant, Countdown
    <3>2. CASE Keeps
      <4>1. file = src
        BY <3>1, <3>2 DEF CompleteInvariant, Countdown
      <4>2. exists' = TRUE /\ file' = file /\ saved' = "ok" /\ src' = src
        BY <2>8, <3>2 DEF ServEnd, putClient
      <4>3. exists = TRUE
        BY <3>1 DEF TypeOK
      <4>4. Transfer!Keep
        BY <4>1, <4>2, <4>3 DEF Transfer!Keep, Outcome
      <4> QED
        BY <4>4 DEF Transfer!FTNext
    <3>3. CASE ~Keeps
      <4>1. exists' = FALSE /\ file' = <<>> /\ saved' = "failed" /\ src' = src
        BY <2>8, <3>3 DEF ServEnd, putClient
      <4>2. Outcome # "kept" /\ Outcome' = "dropped"
        BY <3>1, <4>1 DEF Outcome, TypeOK
      <4>3. Transfer!Drop
        BY <3>1, <4>1, <4>2 DEF Transfer!Drop
      <4> QED
        BY <4>3 DEF Transfer!FTNext
    <3> QED
      BY <3>2, <3>3
  <2>9. CASE (ServerHangup \/ ClientQuit \/ ServerDies) /\ UNCHANGED <<putClient, putServer>>
    BY <2>9, <2>a DEF putClient, putServer
  <2>10. CASE UNCHANGED vars
    BY <2>10, <2>a DEF vars, putClient, putServer
  <2> QED
    BY <2>1, <2>2, <2>4, <2>5, <2>6, <2>7, <2>8, <2>9, <2>10, <2>11
    DEF UploadNext, ClientStep, ServerStep, User, Environment, Finished, Transfer!FTNext

\* In step or not, a step of the upload is one of the abstract transfer.
LEMMA AnyStep ==
  ASSUME Trusted, TypeOK, Paired => StopAndWait /\ GenuineInvariant /\ CompleteInvariant,
         (Paired => GenuineInvariant)', DiskStays, [UploadNext]_vars
  PROVE  [Transfer!FTNext]_(Transfer!ftVars)
<1>1. CASE Paired /\ Paired'
  BY <1>1, TransferStep
<1>2. CASE ~(Paired /\ Paired')
  <2>1. UNCHANGED <<file, exists, saved>>
    BY <1>2, OutOfStep DEF CompleteInvariant
  <2>2. Outcome' = Outcome
    BY <2>1 DEF Outcome
  <2>3. CASE src' = src
    BY <2>1, <2>2, <2>3 DEF Transfer!ftVars
  <2>4. CASE cpc = "prompt" /\ verdict = "none" /\ src' \in Files
    <3>1. ~exists
      BY <2>4 DEF DiskStays, Untouched
    <3> QED
      BY <2>1, <2>2, <2>4, <3>1 DEF Transfer!FTNext, Transfer!Choose
  <2> QED
    BY <1>2, <2>3, <2>4, OutOfStep DEF CompleteInvariant
<1> QED
  BY <1>1, <1>2

\* In a trusted environment the upload implements the abstract transfer: the file on
\* the server is created, extended by genuine fragments in order, and then kept whole
\* or removed.
THEOREM Implements ==
  ASSUME Trusted
  PROVE  UploadSpec => ImplementsTransfer
<1>1. UploadInit => Transfer!FTInit
  BY DEF UploadInit, Transfer!FTInit, Outcome
<1> DEFINE Inv == /\ TypeOK
                  /\ Paired => StopAndWait /\ GenuineInvariant /\ CompleteInvariant
                  /\ DiskStays
<1>2. Inv /\ Inv' /\ [UploadNext]_vars => [Transfer!FTNext]_(Transfer!ftVars)
  BY AnyStep
<1> QED
  BY <1>1, <1>2, TrustedInvariant, PTL DEF UploadSpec, ImplementsTransfer, Transfer!FTSpec
----------------------------------------------------------------------------
(* The verdict. *)

\* Nothing is in an empty stream.
LEMMA NothingSent ==
  ASSUME c2s = <<>>
  PROVE  Len(c2s) = 0 /\ \A kind : ~Has(kind)
  BY DEF Has

\* The client sends its command: nothing has been said about any file yet.
LEMMA VerdictStart ==
  ASSUME TypeOK, StopAndWait, Paired, VerdictInvariant, NEW f \in Files, NEW test \in BOOLEAN,
         PutStart(f, test)
  PROVE  VerdictInvariant'
<1>1. /\ c2s' = Append(c2s, Cmd("put")) /\ c2s = <<>> /\ s2c = <<>> /\ cpc = "prompt"
      /\ verdict = "none" /\ spc = "cmd" /\ sent' = 0 /\ cpc' = "size" /\ src' = f
      /\ UNCHANGED <<spc, s2c, cUp, verdict, left, file, success, saved>>
  BY DEF PutStart, putServer, StopAndWait, ClientKnows, ClientSends, Paired
<1>2. Len(c2s') = 1 /\ c2s'[1].kind = "cmd" /\ c2s' # <<>>
  BY <1>1, Sent, Messages, EmptySeq DEF Cmd
<1>3. saved = "none" /\ f \in Seq(Content)
  BY <1>1, ConnectionAssumption DEF VerdictInvariant, KeptAtEnd
<1>4. Counted'
  BY <1>1, <1>2, <1>3 DEF VerdictInvariant, Counted
<1>5. KeptAtEnd'
  BY <1>1, <1>2, <1>3 DEF KeptAtEnd
<1>6. Passed'
  BY <1>1 DEF Passed, Acked
<1>7. Failed'
  BY <1>1 DEF Failed
<1> QED
  BY <1>4, <1>5, <1>6, <1>7 DEF VerdictInvariant

\* The client sends the size.
LEMMA VerdictSize ==
  ASSUME TypeOK, StopAndWait, Paired, VerdictInvariant, PutSize
  PROVE  VerdictInvariant'
<1>1. /\ Len(c2s) \in Nat /\ Len(c2s') = Len(c2s) + 1 /\ c2s'[Len(c2s) + 1] = Num(Len(src))
      /\ \A i \in 1 .. Len(c2s) : c2s'[i] = c2s[i]
  BY SizeSent
<1>2. /\ cpc = "size" /\ cpc' = "read" /\ sent = 0 /\ s2c = <<>>
      /\ (c2s = <<>> /\ spc = "size") \/ (spc = "cmd" /\ Has("cmd"))
      /\ UNCHANGED <<spc, s2c, cUp, src, sent, status, verdict, left, file, success, saved>>
  <2>1. Len(c2s) = 1 /\ c2s[1].kind = "cmd" => Has("cmd")
    BY DEF Has
  <2> QED
    BY <2>1 DEF PutSize, putClient, putServer, StopAndWait, ClientKnows, ClientSends, Paired
<1>3. \A kind : Has(kind)' <=> (Has(kind) \/ kind = "num")
  BY <1>1 DEF Has, Num
<1>4. Counted'
  BY <1>1, <1>2 DEF VerdictInvariant, Counted, Num
<1>5. KeptAtEnd'
  BY <1>2, <1>3 DEF VerdictInvariant, KeptAtEnd, Reported, StopAndWait, ClientKnows
<1>6. Passed'
  BY <1>2, <1>3 DEF VerdictInvariant, Passed, Acked
<1>7. Failed'
  BY <1>2 DEF VerdictInvariant, Failed, Passed
<1> QED
  BY <1>4, <1>5, <1>6, <1>7 DEF VerdictInvariant

\* A client that reads on while the file has more is one the server waits for, or
\* will when it has taken what is in the stream.
LEMMA Awaited ==
  ASSUME TypeOK, StopAndWait, Paired, VerdictInvariant, cpc = "read", sent < Len(src)
  PROVE  /\ spc \in {"size", "info"} \/ (spc = "cmd" /\ Has("cmd"))
         /\ saved # "ok" /\ verdict = "none" /\ cUp /\ s2c = <<>> /\ src # <<>>
<1>1. s2c = <<>> /\ cUp
  BY DEF StopAndWait, ClientKnows
<1>2. verdict = "none" /\ src # <<>>
  BY DEF VerdictInvariant, Passed, TypeOK
<1>3. spc \notin {"gone", "killed", "astray", "body"}
  BY <1>1 DEF VerdictInvariant, Counted, Passed, Paired
<1>4. CASE sent > 0
  <2>1. Acked
    BY <1>4 DEF Acked
  <2>2. spc = "info"
    BY <2>1 DEF VerdictInvariant, Passed, StopAndWait, InStep, TypeOK
  <2> QED
    BY <1>1, <1>2, <2>2 DEF VerdictInvariant, KeptAtEnd, Reported
<1>5. CASE sent = 0
  <2>1. spc \in {"size", "info"} \/ (spc \in {"end", "cmd"} /\ Has("cmd"))
    BY <1>2, <1>3, <1>5 DEF VerdictInvariant, Passed, TypeOK
  <2>2. Has("cmd") => spc = "cmd"
    BY DEF StopAndWait, StreamInOrder, Placed, Has
  <2> QED
    BY <1>1, <1>2, <2>1, <2>2 DEF VerdictInvariant, KeptAtEnd, Reported
<1> QED
  BY <1>4, <1>5 DEF TypeOK

\* The client sends a fragment.
LEMMA VerdictFragment ==
  ASSUME TypeOK, StopAndWait, Paired, VerdictInvariant, PutFragment
  PROVE  VerdictInvariant'
<1>1. /\ Len(c2s) \in Nat /\ Len(c2s') = Len(c2s) + 2
      /\ c2s'[Len(c2s) + 1].kind = "info" /\ c2s'[Len(c2s) + 2].kind = "body"
      /\ \A i \in 1 .. Len(c2s) : c2s'[i] = c2s[i]
  BY FragmentSent
<1>2. /\ cpc = "read" /\ cpc' = "wait" /\ sent' = sent + 1 /\ sent < Len(src)
      /\ UNCHANGED <<spc, s2c, cUp, src, verdict, left, file, success, saved>>
  BY DEF PutFragment, putServer, ClientSends, Paired
<1>3. \A kind : Has(kind)' <=> (Has(kind) \/ kind \in {"info", "body"})
  BY <1>1 DEF Has
<1>4. /\ spc \in {"size", "info"} \/ (spc = "cmd" /\ Has("cmd"))
      /\ saved # "ok" /\ verdict = "none" /\ cUp /\ s2c = <<>> /\ src # <<>>
  BY <1>2, Awaited
<1>5. Counted'
  <2>1. sent' <= Len(src')
    BY <1>2 DEF TypeOK
  <2>2. \A i \in 1 .. Len(c2s') : c2s'[i].kind = "num" => c2s'[i].num = Len(src)
    BY <1>1 DEF VerdictInvariant, Counted
  <2> QED
    BY <1>2, <2>1, <2>2 DEF VerdictInvariant, Counted
<1>6. KeptAtEnd'
  BY <1>2, <1>3, <1>4 DEF VerdictInvariant, KeptAtEnd, Reported
<1>7. Passed'
  BY <1>2, <1>4 DEF Passed, Acked
<1>8. Failed'
  BY <1>2, <1>4 DEF Failed
<1> QED
  BY <1>5, <1>6, <1>7, <1>8 DEF VerdictInvariant

\* The client gives up after the Length_Info.
LEMMA VerdictNoMemory ==
  ASSUME TypeOK, StopAndWait, Paired, VerdictInvariant, PutNoMemory
  PROVE  VerdictInvariant'
<1>1. /\ Len(c2s) \in Nat /\ Len(c2s') = Len(c2s) + 1
      /\ c2s'[Len(c2s) + 1].kind = "info"
      /\ \A i \in 1 .. Len(c2s) : c2s'[i] = c2s[i]
  BY InfoSent
<1>2. /\ cpc = "read" /\ cpc' = "end" /\ sent < Len(src) /\ status' = 0
      /\ UNCHANGED <<spc, s2c, cUp, src, sent, verdict, left, file, success, saved>>
  BY DEF PutNoMemory, putServer, ClientSends, Paired
<1>3. \A kind : Has(kind)' <=> (Has(kind) \/ kind = "info")
  BY <1>1 DEF Has
<1>4. /\ spc \in {"size", "info"} \/ (spc = "cmd" /\ Has("cmd"))
      /\ saved # "ok" /\ verdict = "none" /\ cUp /\ s2c = <<>> /\ src # <<>>
  BY <1>2, Awaited
<1>5. Counted'
  BY <1>1, <1>2 DEF VerdictInvariant, Counted
<1>6. KeptAtEnd'
  BY <1>2, <1>3, <1>4 DEF VerdictInvariant, KeptAtEnd, Reported
<1>7. Passed'
  BY <1>2, <1>4 DEF Passed, Acked
<1>8. Failed'
  BY <1>2, <1>3, <1>4 DEF Failed, StopAndWait, ClientKnows
<1> QED
  BY <1>5, <1>6, <1>7, <1>8 DEF VerdictInvariant

\* The client receives a verdict.
LEMMA VerdictStatus ==
  ASSUME TypeOK, StopAndWait, Paired, VerdictInvariant, PutStatus
  PROVE  VerdictInvariant'
<1>1. /\ s2c # <<>> /\ Len(s2c) = 1 /\ s2c' = <<>> /\ c2s = <<>> /\ Head(s2c) = s2c[1]
      /\ cpc = "wait"
  BY Received DEF PutStatus, TypeOK, StopAndWait, InStep, ClientAtEof, Paired
<1>2. /\ status' = s2c[1].num /\ cpc' = IF status' = 0 THEN "end" ELSE "read"
      /\ UNCHANGED <<spc, c2s, cUp, src, sent, verdict, putServer>>
  BY <1>1 DEF PutStatus, ClientAtEof, Paired
<1>3. /\ \A kind : ~Has(kind)
      /\ UNCHANGED <<key, left, info, filelen, success, exists, file, saved>>
  BY <1>1, <1>2, NothingSent DEF putServer
<1>4. Acked' => Acked
  BY <1>1, <1>2 DEF Acked
<1>5. sent > 0 /\ (Acked => spc \in {"info", "end", "cmd"})
  BY <1>1 DEF StopAndWait, ClientKnows, InStep
<1>6. Counted'
  BY <1>2, <1>3 DEF VerdictInvariant, Counted
<1>7. KeptAtEnd'
  BY <1>1, <1>2, <1>3 DEF VerdictInvariant, KeptAtEnd, Reported, Has
<1>8. Passed'
  BY <1>1, <1>2, <1>3, <1>4, <1>5 DEF VerdictInvariant, Passed, Acked
<1>9. Failed'
  <2>1. verdict = "none"
    BY <1>1 DEF VerdictInvariant, Passed, TypeOK
  <2>2. s2c[1].num = 0 =>
          /\ spc \in {"end", "cmd"}
          /\ spc = "end" => ~Keeps
          /\ spc = "cmd" => saved # "ok"
    BY <1>1 DEF VerdictInvariant, Failed, Keeps
  <2>3. \A kind : ~Has(kind)'
    BY <1>2, <1>3 DEF Has
  <2>4. cpc' = "end" => status' = 0 /\ s2c[1].num = 0 /\ (saved # "ok" \/ src = <<>>)
    BY <1>1, <1>2, <2>2 DEF VerdictInvariant, KeptAtEnd, Reported, StopAndWait, ClientKnows
  <2>5. Keeps' = Keeps
    BY <1>3 DEF Keeps
  <2> QED
    BY <1>1, <1>2, <1>3, <2>1, <2>2, <2>3, <2>4, <2>5 DEF Failed
<1> QED
  BY <1>6, <1>7, <1>8, <1>9 DEF VerdictInvariant

\* The client tells its user: "ok" only when every fragment is acknowledged.
LEMMA VerdictEnd ==
  ASSUME TypeOK, StopAndWait, VerdictInvariant, PutEnd
  PROVE  VerdictInvariant'
<1>1. /\ cpc' = "prompt" /\ verdict' = (IF status # 0 THEN "ok" ELSE "failed")
      /\ cpc = "end" \/ (cpc = "read" /\ sent = Len(src))
      /\ UNCHANGED <<spc, c2s, s2c, cUp, src, sent, status, putServer>>
  BY DEF PutEnd
<1>2. s2c = <<>> /\ cUp /\ UNCHANGED <<key, left, info, filelen, success, exists, file, saved>>
  BY <1>1 DEF StopAndWait, ClientKnows, putServer
<1>3. \A kind : Has(kind)' <=> Has(kind)
  BY <1>1 DEF Has
<1>4. src # <<>> /\ cpc = "read" => sent > 0 /\ Acked /\ status # 0
  BY <1>1 DEF Acked, TypeOK, VerdictInvariant, Passed
<1>5. src # <<>> /\ cpc = "end" => status = 0
  BY DEF VerdictInvariant, Failed
<1>6. Counted'
  BY <1>1, <1>2 DEF VerdictInvariant, Counted
<1>7. KeptAtEnd'
  BY <1>1, <1>2, <1>3 DEF VerdictInvariant, KeptAtEnd, Reported
<1>8. Passed'
  <2>1. ASSUME verdict' = "ok", src # <<>>
        PROVE  /\ c2s = <<>> /\ spc \in {"end", "cmd"}
               /\ spc = "end" => Keeps
               /\ spc = "cmd" => saved = "ok"
    <3>1. Acked /\ sent = Len(src)
      BY <1>1, <1>4, <1>5, <2>1
    <3>2. /\ Len(file) = sent /\ c2s = <<>> /\ spc \in {"info", "end", "cmd"}
          /\ success = 1 /\ filelen = 1
      BY <3>1 DEF StopAndWait, InStep
    <3>3. spc # "info"
      BY <1>2, <3>1, <3>2 DEF VerdictInvariant, Counted, TypeOK
    <3> QED
      BY <3>1, <3>2, <3>3 DEF VerdictInvariant, Passed, Keeps
  <2> QED
    BY <1>1, <1>2, <2>1 DEF Passed, Acked, Keeps
<1>9. Failed'
  BY <1>1, <1>2, <1>3, <1>4 DEF VerdictInvariant, Failed, Keeps
<1> QED
  BY <1>6, <1>7, <1>8, <1>9 DEF VerdictInvariant

\* Where the server reads, and the client has not gone without a report, there is a
\* file to receive and a Length_Info that says how much.
LEMMA Receiving ==
  ASSUME TypeOK, StopAndWait, VerdictInvariant, Reported
  PROVE  /\ spc = "body" => info.total >= 1
         /\ spc \in {"size", "info"} /\ c2s = <<>> => cUp
         /\ saved = "ok" => spc \in {"cmd", "gone"}
<1>1. CASE cUp
  BY <1>1 DEF StopAndWait, ServerKnows, VerdictInvariant, KeptAtEnd
<1>2. CASE ~cUp
  <2>1. verdict \in {"ok", "failed"} /\ src # <<>>
    BY <1>2 DEF Reported, TypeOK
  <2>2. CASE verdict = "ok"
    BY <2>1, <2>2 DEF VerdictInvariant, Passed, KeptAtEnd
  <2>3. CASE verdict = "failed"
    <3>1. c2s = <<>> => ~Has("info")
      BY NothingSent
    <3> QED
      BY <2>1, <2>3, <3>1 DEF VerdictInvariant, Failed, KeptAtEnd
  <2> QED
    BY <2>1, <2>2, <2>3
<1> QED
  BY <1>1, <1>2

\* The server takes the command.
LEMMA VerdictPut ==
  ASSUME TypeOK, StopAndWait, VerdictInvariant, ServPut
  PROVE  VerdictInvariant'
<1>1. c2s # <<>> /\ c2s[1].kind = "cmd" /\ c2s' = Tail(c2s) /\ spc = "cmd" /\ spc' = "size"
  BY FirstMessage DEF ServPut, Enter, Cmd
<1>2. UNCHANGED <<cpc, s2c, cUp, src, sent, status, verdict, saved>>
  BY DEF ServPut, putClient
<1>3. /\ Len(c2s) \in Nat /\ Len(c2s') = Len(c2s) - 1
      /\ \A i \in 1 .. Len(c2s') : i + 1 \in 1 .. Len(c2s) /\ c2s'[i] = c2s[i + 1]
      /\ \A kind : Has(kind)' => Has(kind)
  BY <1>1, Consumed
<1>4. Has("cmd") /\ ~Has("cmd")'
  <2>1. 1 \in 1 .. Len(c2s)
    BY <1>1, FirstMessage
  <2>2. Has("cmd")
    BY <1>1, <2>1 DEF Has
  <2>3. ~Has("cmd")'
    BY <1>3 DEF StopAndWait, StreamInOrder, Placed, Has
  <2> QED
    BY <2>2, <2>3
<1>5. saved = "none"
  BY <1>4 DEF VerdictInvariant, KeptAtEnd
<1>6. Has("info") => Has("info")'
  <2> SUFFICES ASSUME NEW i \in 1 .. Len(c2s), c2s[i].kind = "info" PROVE Has("info")'
    BY DEF Has
  <2>1. i - 1 \in 1 .. Len(c2s') /\ c2s'[i - 1] = c2s[i]
    BY <1>1, <1>3
  <2> QED
    BY <2>1 DEF Has
<1>7. Counted'
  BY <1>1, <1>2, <1>3 DEF VerdictInvariant, Counted
<1>8. KeptAtEnd'
  BY <1>1, <1>2, <1>5 DEF KeptAtEnd
<1>9. Passed'
  BY <1>1, <1>2 DEF VerdictInvariant, Passed
<1>10. Failed'
  <2>1. s2c = <<>>
    BY <1>1 DEF StopAndWait, InStep
  <2> QED
    BY <1>1, <1>2, <1>3, <1>4, <1>5, <1>6, <2>1 DEF VerdictInvariant, Failed
<1> QED
  BY <1>7, <1>8, <1>9, <1>10 DEF VerdictInvariant

\* The server takes the size, or finds the end of the stream.
LEMMA VerdictServSize ==
  ASSUME TypeOK, StopAndWait, VerdictInvariant, ServSize
  PROVE  VerdictInvariant'
<1>1. /\ spc = "size" /\ spc' = LoopHead(left')
      /\ UNCHANGED <<cpc, s2c, cUp, src, sent, status, verdict, success, file, saved, filelen>>
  BY DEF ServSize, putClient
<1>2. file = <<>> /\ s2c = <<>> /\ ~Acked
  <2>1. s2c = <<>>
    BY <1>1 DEF StopAndWait, InStep, Acked, VerdictInvariant, Failed
  <2> QED
    BY <1>1, <2>1 DEF StopAndWait, ServerKnows, InStep, Acked
<1>3. CASE c2s # <<>> /\ Head(c2s).kind = "num" /\ left' = Head(c2s).num /\ c2s' = Tail(c2s)
  <2>1. /\ Head(c2s) = c2s[1] /\ Len(c2s) \in Nat /\ Len(c2s') = Len(c2s) - 1
        /\ \A i \in 1 .. Len(c2s') : i + 1 \in 1 .. Len(c2s) /\ c2s'[i] = c2s[i + 1]
        /\ \A kind : Has(kind)' => Has(kind)
    BY <1>3, Consumed
  <2>2. 1 \in 1 .. Len(c2s)
    BY <1>3, FirstMessage
  <2>3. left' = Len(src)
    BY <1>3, <2>1, <2>2 DEF VerdictInvariant, Counted
  <2>4. Len(src) \in Nat /\ (src # <<>> => Len(src) > 0) /\ Len(file) = 0
    BY <1>2 DEF TypeOK
  <2>5. src # <<>> => spc' = "info"
    BY <1>1, <2>3, <2>4 DEF LoopHead
  <2>6. spc' \in {"info", "end"}
    BY <1>1 DEF LoopHead
  <2>7. Has("info") => Has("info")'
    <3> SUFFICES ASSUME NEW i \in 1 .. Len(c2s), c2s[i].kind = "info" PROVE Has("info")'
      BY DEF Has
    <3>1. i - 1 \in 1 .. Len(c2s') /\ c2s'[i - 1] = c2s[i]
      BY <1>3, <2>1
    <3> QED
      BY <3>1 DEF Has
  <2>8. ~Has("cmd")
    BY <1>1 DEF StopAndWait, StreamInOrder, Placed, Has
  <2>9. Counted'
    BY <1>1, <2>1, <2>3, <2>4, <2>6 DEF VerdictInvariant, Counted, LoopHead
  <2>10. KeptAtEnd'
    BY <1>1, <2>1, <2>5, <2>8 DEF VerdictInvariant, KeptAtEnd, Reported
  <2>11. Passed'
    BY <1>1, <1>2, <2>5, <2>6 DEF VerdictInvariant, Passed, Acked
  <2>12. Failed'
    BY <1>1, <1>2, <2>1, <2>5, <2>7 DEF VerdictInvariant, Failed
  <2> QED
    BY <2>9, <2>10, <2>11, <2>12 DEF VerdictInvariant
<1>4. CASE ServerAtEof /\ UNCHANGED <<left, c2s>>
  <2>1. c2s = <<>> /\ c2s' = <<>> /\ ~cUp /\ ~Reported
    BY <1>1, <1>4, Receiving DEF ServerAtEof
  <2>2. src = <<>> \/ verdict = "none"
    BY <2>1 DEF Reported
  <2>3. cpc = "gone"
    BY <2>1 DEF StopAndWait, ClientKnows, TypeOK
  <2>4. \A kind : ~Has(kind)'
    BY <2>1 DEF Has
  <2>5. Counted'
    BY <1>1, <1>4, <2>1 DEF VerdictInvariant, Counted
  <2>6. KeptAtEnd'
    BY <1>1, <2>1, <2>2, <2>3, <2>4 DEF KeptAtEnd, Reported
  <2>7. Passed'
    BY <1>1, <1>2, <2>2, <2>3 DEF VerdictInvariant, Passed, Acked
  <2>8. Failed'
    BY <1>1, <1>2, <2>2, <2>3 DEF Failed
  <2> QED
    BY <2>5, <2>6, <2>7, <2>8 DEF VerdictInvariant
<1> QED
  BY <1>3, <1>4 DEF ServSize

\* The server takes a Length_Info, or finds the end of the stream.
LEMMA VerdictInfo ==
  ASSUME TypeOK, StopAndWait, VerdictInvariant, ServInfo
  PROVE  VerdictInvariant'
<1>1. /\ spc = "info" /\ spc' = "body"
      /\ UNCHANGED <<cpc, s2c, cUp, src, sent, status, verdict, left, success, file, saved>>
  BY DEF ServInfo, putClient
<1>2. CASE c2s # <<>> /\ Head(c2s).kind = "info" /\ info' = Head(c2s).len /\ c2s' = Tail(c2s)
  <2>1. /\ Head(c2s) = c2s[1] /\ Len(c2s) \in Nat /\ Len(c2s') = Len(c2s) - 1
        /\ \A i \in 1 .. Len(c2s') : i + 1 \in 1 .. Len(c2s) /\ c2s'[i] = c2s[i + 1]
        /\ \A kind : Has(kind)' => Has(kind)
    BY <1>2, Consumed
  <2>2. 1 \in 1 .. Len(c2s)
    BY <1>2, FirstMessage
  <2>3. info'.total >= 1 /\ Has("info")
    BY <1>2, <2>1, <2>2 DEF StopAndWait, StreamInOrder, Placed, Has
  <2>4. cpc # "read" /\ ~Acked
    <3>1. cpc # "read"
      BY <2>3 DEF StopAndWait, ClientKnows
    <3>2. s2c = <<>>
      BY <1>2 DEF StopAndWait, InStep
    <3> QED
      BY <3>1, <3>2 DEF Acked
  <2>5. ~Has("body") /\ ~Has("rest") => c2s' = <<>>
    <3> SUFFICES ASSUME ~Has("body"), ~Has("rest"), Len(c2s') # 0 PROVE FALSE
      <4>1. c2s' \in Seq(Message)
        BY <1>2, FirstMessage
      <4> QED
        BY <4>1, EmptySeq
    <3>1. 2 \in 1 .. Len(c2s) /\ 2 - 1 = 1
      BY <2>1, <2>2
    <3>2. c2s[2] \in Message
      BY <3>1, ElementOfSeq DEF TypeOK
    <3>3. c2s[2].kind \in {"cmd", "num", "info"}
      BY <3>1, <3>2, Fields DEF Has
    <3>4. c2s[1].kind = "info" /\ Placed(2)
      BY <1>2, <2>1, <3>1 DEF StopAndWait, StreamInOrder
    <3> QED
      BY <3>1, <3>3, <3>4 DEF Placed
  <2>6. ~Has("cmd")
    BY <1>1 DEF StopAndWait, StreamInOrder, Placed, Has
  <2>7. Counted'
    <3>1. \A i \in 1 .. Len(c2s') : c2s'[i].kind = "num" => c2s'[i].num = Len(src)
      BY <2>1 DEF VerdictInvariant, Counted
    <3> QED
      BY <1>1, <3>1 DEF VerdictInvariant, Counted
  <2>8. KeptAtEnd'
    BY <1>1, <2>1, <2>6 DEF VerdictInvariant, KeptAtEnd, Reported
  <2>9. Passed'
    BY <1>1, <2>4 DEF VerdictInvariant, Passed, Acked
  <2>10. Failed'
    BY <1>1, <2>1, <2>3, <2>5, <2>6 DEF VerdictInvariant, Failed
  <2> QED
    BY <2>7, <2>8, <2>9, <2>10 DEF VerdictInvariant
<1>3. CASE ServerAtEof /\ UNCHANGED <<info, c2s>>
  <2>1. c2s = <<>> /\ c2s' = <<>> /\ ~cUp /\ ~Reported
    BY <1>1, <1>3, Receiving DEF ServerAtEof
  <2>2. src = <<>> \/ verdict = "none"
    BY <2>1 DEF Reported
  <2>3. cpc = "gone" /\ s2c = <<>>
    BY <2>1 DEF StopAndWait, ClientKnows, TypeOK
  <2>4. \A kind : ~Has(kind)'
    BY <2>1 DEF Has
  <2>5. Counted'
    BY <1>1, <1>3, <2>1 DEF VerdictInvariant, Counted
  <2>6. KeptAtEnd'
    BY <1>1, <2>1, <2>2, <2>3, <2>4 DEF KeptAtEnd, Reported
  <2>7. Passed'
    BY <1>1, <2>2, <2>3 DEF VerdictInvariant, Passed, Acked
  <2>8. Failed'
    BY <1>1, <2>2, <2>3 DEF Failed
  <2> QED
    BY <2>5, <2>6, <2>7, <2>8 DEF VerdictInvariant
<1> QED
  BY <1>2, <1>3 DEF ServInfo

\* The server abandons the transfer: no verdict is on its way, and none goes out.
LEMMA VerdictAbandon ==
  ASSUME TypeOK, StopAndWait, VerdictInvariant, spc = "body", Abandon,
         ~Has("cmd")', \A i \in 1 .. Len(c2s') : c2s'[i].kind # "num",
         c2s' = c2s \/ Has("body")
  PROVE  VerdictInvariant'
<1>1. /\ spc' = "end" /\ success' = 0
      /\ UNCHANGED <<cpc, s2c, cUp, src, sent, status, verdict, saved>>
  BY DEF Abandon, putClient
<1>2. cpc # "read" /\ ~Acked /\ s2c = <<>>
  <2>1. cpc # "read"
    BY DEF VerdictInvariant, Passed
  <2>2. s2c[1].num = 0 \/ s2c = <<>>
    BY <2>1 DEF StopAndWait, InStep, Acked
  <2>3. s2c = <<>>
    BY <2>2 DEF VerdictInvariant, Failed
  <2> QED
    BY <2>1, <2>3 DEF Acked
<1>3. verdict # "ok" \/ src = <<>>
  BY DEF VerdictInvariant, Passed
<1>4. Counted'
  BY <1>1 DEF VerdictInvariant, Counted
<1>5. KeptAtEnd'
  BY <1>1 DEF VerdictInvariant, KeptAtEnd, Reported
<1>6. Passed'
  BY <1>1, <1>2, <1>3 DEF VerdictInvariant, Passed, Acked
<1>7. Failed'
  <2> SUFFICES ASSUME src # <<>>, cpc = "end" \/ verdict = "failed"
               PROVE  /\ cpc = "end" => status = 0
                      /\ saved # "ok" /\ c2s' = <<>>
    <3>1. c2s' = <<>> => \A kind : ~Has(kind)'
      BY DEF Has
    <3> QED
      BY <1>1, <1>2, <3>1 DEF Failed, Keeps
  <2>1. ~Has("body")
    BY DEF VerdictInvariant, Failed
  <2> QED
    BY <2>1 DEF VerdictInvariant, Failed
<1> QED
  BY <1>4, <1>5, <1>6, <1>7 DEF VerdictInvariant

\* While the server waits for a body, neither a command nor a size is in the stream.
LEMMA NoCommand ==
  ASSUME TypeOK, StopAndWait, spc = "body"
  PROVE  ~Has("cmd") /\ ~Has("num")
<1>1. \A i \in 1 .. Len(c2s) : c2s[i].kind # "cmd"
  BY DEF StopAndWait, StreamInOrder, Placed
<1>2. ASSUME NEW i \in 1 .. Len(c2s), c2s[i].kind = "num" PROVE FALSE
  <2>1. i = 2 /\ c2s[1].kind = "cmd"
    BY <1>2 DEF StopAndWait, StreamInOrder, Placed
  <2>2. 1 \in 1 .. Len(c2s)
    BY <2>1 DEF TypeOK
  <2> QED
    BY <1>1, <2>1, <2>2
<1> QED
  BY <1>1, <1>2 DEF Has

\* malloc fails at the server.
LEMMA VerdictServNoMemory ==
  ASSUME TypeOK, StopAndWait, VerdictInvariant, ServNoMemory
  PROVE  VerdictInvariant'
  BY NoCommand, VerdictAbandon DEF ServNoMemory, Has

\* Part of a body came, or nothing any more.
LEMMA VerdictShortBody ==
  ASSUME TypeOK, StopAndWait, VerdictInvariant, ServShortBody
  PROVE  VerdictInvariant'
<1>1. CASE c2s # <<>> /\ Head(c2s).kind = "body" /\ c2s' = <<Rest>> \o Tail(c2s)
  <2>1. Tail(c2s) = <<>> /\ Len(c2s) = 1 /\ c2s[1].kind = "body"
    BY <1>1, BodyIsLast
  <2>2. <<Rest>> \in Seq(Message)
    BY Messages
  <2>3. c2s' = <<Rest>>
    BY <1>1, <2>1, <2>2, ConcatEmptySeq
  <2>4. Len(c2s') = 1 /\ c2s'[1].kind = "rest"
    BY <2>3 DEF Rest
  <2>5. Has("body")
    BY <2>1 DEF Has
  <2> QED
    BY <2>4, <2>5, VerdictAbandon DEF ServShortBody, Has
<1>2. CASE UNCHANGED c2s
  BY <1>2, NoCommand, VerdictAbandon DEF ServShortBody, Has
<1> QED
  BY <1>1, <1>2 DEF ServShortBody

\* What an answer to the body does: the verdict says whether the fragment is stored.
LEMMA VerdictAnswer ==
  ASSUME TypeOK, StopAndWait, VerdictInvariant, spc = "body", cUp, Has("body"), c2s' = <<>>,
         NEW ok \in BOOLEAN, Answer(ok), ok => Len(file') = Len(file) + 1,
         UNCHANGED <<cpc, cUp, src, sent, status, verdict, info, filelen, exists, saved>>
  PROVE  VerdictInvariant'
<1>1. cpc = "wait" /\ s2c = <<>> /\ Len(file) + 1 = sent /\ success = 1 /\ info.file = 1
  BY DEF StopAndWait, ClientKnows, InStep, InLoop, ServerKnows
<1>2. left = Len(src) - Len(file) /\ left > 0 /\ sent <= Len(src)
  BY DEF VerdictInvariant, Counted
<1>3. /\ success' = (IF ok THEN 1 ELSE 0) /\ left' = left - 1
      /\ s2c' = Append(s2c, Num(success')) /\ spc' = (IF ok THEN LoopHead(left') ELSE "end")
  BY <1>1 DEF Answer, ServerSend
<1>4. s2c' # <<>> /\ s2c'[1].num = success'
  <2>1. s2c' = <<Num(success')>>
    BY <1>1, <1>3
  <2> QED
    BY <2>1 DEF Num
<1>5. \A kind : ~Has(kind)'
  BY DEF Has
<1>6. src # <<>> /\ saved # "ok" /\ verdict = "none"
  <2>1. src # <<>>
    BY <1>2 DEF TypeOK
  <2>2. verdict = "none"
    BY <1>1 DEF VerdictInvariant, Passed
  <2> QED
    BY <2>1, <2>2 DEF VerdictInvariant, KeptAtEnd, Reported
<1>7. Counted'
  <2>a. Len(src) \in Nat /\ Len(file) \in Nat /\ left \in Int
    BY DEF TypeOK
  <2>b. spc' = "info" => ok /\ left' > 0
    BY <1>3 DEF LoopHead
  <2>1. spc' \in {"info", "body"} => left' = Len(src) - Len(file') /\ left' > 0
    <3>1. spc' # "body"
      BY <1>3 DEF LoopHead
    <3> QED
      BY <1>2, <1>3, <2>a, <2>b, <3>1
  <2>2. spc' \in {"info", "end"} /\ Len(c2s') = 0
    BY <1>3 DEF LoopHead
  <2> QED
    BY <1>2, <2>1, <2>2 DEF Counted
<1>8. KeptAtEnd'
  BY <1>1, <1>5, <1>6 DEF KeptAtEnd
<1>9. Passed'
  <2>1. ok /\ spc' = "end" => sent = Len(src)
    BY <1>1, <1>2, <1>3 DEF LoopHead, TypeOK
  <2>2. spc' # "cmd" /\ (Acked' => ok)
    BY <1>1, <1>3, <1>4 DEF LoopHead, Acked
  <2> QED
    BY <1>1, <1>6, <2>1, <2>2 DEF Passed
<1>10. Failed'
  BY <1>1, <1>3, <1>4, <1>6 DEF Failed
<1> QED
  BY <1>7, <1>8, <1>9, <1>10 DEF VerdictInvariant

\* The server answers when the client can hear it no more, and has not reported.
LEMMA VerdictUnheard ==
  ASSUME TypeOK, StopAndWait, VerdictInvariant, ~cUp, ~Reported, c2s' = c2s \/ c2s' = <<>>,
         spc = "body", spc' \in {"info", "end", "killed"},
         UNCHANGED <<cpc, s2c, cUp, src, sent, status, verdict, saved>>
  PROVE  VerdictInvariant'
<1>1. cpc = "gone" /\ s2c = <<>>
  BY DEF StopAndWait, ClientKnows, TypeOK
<1>2. src = <<>> \/ verdict = "none"
  BY DEF Reported
<1>3. ~Has("cmd")' /\ ~Has("num")'
  BY NoCommand DEF Has
<1>4. Counted'
  BY <1>3 DEF VerdictInvariant, Counted, Has
<1>5. KeptAtEnd'
  BY <1>1, <1>2, <1>3 DEF KeptAtEnd, Reported
<1>6. Passed'
  BY <1>1, <1>2 DEF VerdictInvariant, Passed, Acked
<1>7. Failed'
  BY <1>1, <1>2 DEF Failed
<1> QED
  BY <1>4, <1>5, <1>6, <1>7 DEF VerdictInvariant

\* Answering, when the client has gone, leads on or ends the server.
LEMMA Unheard ==
  ASSUME ~cUp, NEW ok, Answer(ok)
  PROVE  spc' \in {"info", "end", "killed"} /\ UNCHANGED s2c
  BY DEF Answer, ServerSend, LoopHead

\* The server verifies, writes and answers.
LEMMA VerdictBody ==
  ASSUME TypeOK, StopAndWait, VerdictInvariant, ServBody
  PROVE  VerdictInvariant'
<1>1. /\ c2s[1].kind = "body" /\ Len(c2s) = 1 /\ c2s' = <<>> /\ spc = "body"
      /\ UNCHANGED <<cpc, cUp, src, sent, status, verdict, info, filelen, exists, saved>>
  BY BodyIsLast DEF ServBody, putClient
<1>2. PICK ok \in BOOLEAN : Answer(ok) /\ (ok => Len(file') = Len(file) + 1)
  BY WrittenIfOk
<1>3. Has("body")
  BY <1>1 DEF Has
<1>4. CASE cUp
  BY <1>1, <1>2, <1>3, <1>4, VerdictAnswer
<1>5. CASE ~cUp
  <2>1. ~(src # <<>> /\ verdict = "failed") /\ ~(src # <<>> /\ verdict = "ok")
    BY <1>1, <1>3 DEF VerdictInvariant, Failed, Passed
  <2>2. ~Reported
    BY <1>5, <2>1 DEF Reported, TypeOK
  <2> QED
    BY <1>1, <1>2, <1>5, <2>2, Unheard, VerdictUnheard
<1> QED
  BY <1>4, <1>5

\* The server answers to an empty body: nobody is there who could have sent it.
LEMMA VerdictEmptyBody ==
  ASSUME TypeOK, StopAndWait, Paired', VerdictInvariant, ServEmptyBody
  PROVE  VerdictInvariant'
<1>1. /\ spc = "body" /\ info.total = 0
      /\ UNCHANGED <<src, sent, status, verdict, saved>>
  BY DEF ServEmptyBody, putClient
<1>2. ~cUp /\ ~Reported
  BY <1>1, Receiving DEF StopAndWait, ServerKnows
<1>3. \E ok \in BOOLEAN : Answer(ok) /\ UNCHANGED <<cpc, c2s, cUp>>
  <2>1. ~ProcessEnds
    BY DEF ProcessEnds, Paired
  <2>2. \A w : (w.check >= 0) \in BOOLEAN
    OBVIOUS
  <2> QED
    BY <2>1, <2>2, Zenon DEF ServEmptyBody
<1> QED
  BY <1>1, <1>2, <1>3, Unheard, VerdictUnheard

\* The server keeps the file or removes it.
LEMMA VerdictServEnd ==
  ASSUME TypeOK, StopAndWait, VerdictInvariant, ServEnd
  PROVE  VerdictInvariant'
<1>1. /\ spc = "end" /\ spc' = "cmd" /\ saved' = (IF Keeps THEN "ok" ELSE "failed")
      /\ UNCHANGED <<cpc, c2s, s2c, cUp, src, sent, status, verdict, left, success>>
  BY DEF ServEnd, putClient
<1>2. ~Has("cmd") /\ ~(cpc = "prompt" /\ verdict = "none")
  BY <1>1 DEF StopAndWait, StreamInOrder, ClientKnows, Placed, Has
<1>3. \A kind : Has(kind)' <=> Has(kind)
  BY <1>1 DEF Has
<1>4. Counted'
  BY <1>1 DEF VerdictInvariant, Counted
<1>5. KeptAtEnd'
  BY <1>1, <1>2, <1>3 DEF VerdictInvariant, KeptAtEnd, Reported, Keeps
<1>6. Passed'
  <2>1. Acked' <=> Acked
    BY <1>1 DEF Acked
  <2>2. Acked => Keeps
    BY <1>1 DEF StopAndWait, InStep, Keeps
  <2> QED
    BY <1>1, <1>3, <2>1, <2>2 DEF VerdictInvariant, Passed
<1>7. Failed'
  BY <1>1, <1>3 DEF VerdictInvariant, Failed, Keeps
<1> QED
  BY <1>4, <1>5, <1>6, <1>7 DEF VerdictInvariant

\* Steps outside the transfer: the server thread ends, the client is killed.
LEMMA VerdictApart ==
  ASSUME TypeOK, StopAndWait, VerdictInvariant,
         UNCHANGED <<c2s, putClient, putServer>>,
         \/ UNCHANGED <<cpc, spc, s2c, cUp>>
         \/ ServerHangup
         \/ ClientQuit
  PROVE  VerdictInvariant'
<1>1. UNCHANGED <<src, sent, status, verdict, left, info, filelen, success, file, saved>>
  BY DEF putClient, putServer
<1>2. \A kind : Has(kind)' <=> Has(kind)
  BY DEF Has
<1>3. Keeps' = Keeps
  BY <1>1 DEF Keeps
<1>4. CASE UNCHANGED <<cpc, spc, s2c, cUp>>
  <2>1. Acked' <=> Acked
    BY <1>1, <1>4 DEF Acked
  <2>2. Counted' /\ KeptAtEnd'
    BY <1>1, <1>2, <1>4 DEF VerdictInvariant, Counted, KeptAtEnd, Reported
  <2>3. Passed' /\ Failed'
    BY <1>1, <1>2, <1>3, <1>4, <2>1 DEF VerdictInvariant, Passed, Failed
  <2> QED
    BY <2>2, <2>3 DEF VerdictInvariant
<1>5. CASE ServerHangup
  <2>1. /\ spc = "cmd" /\ spc' = "gone" /\ c2s = <<>> /\ ~cUp
        /\ UNCHANGED <<cpc, s2c, cUp>>
    BY <1>5 DEF ServerHangup, ServerAtEof
  <2>2. cpc = "gone" /\ s2c = <<>> /\ \A kind : ~Has(kind)
    BY <2>1, NothingSent DEF StopAndWait, ClientKnows, TypeOK
  <2>3. Counted' /\ KeptAtEnd'
    BY <1>1, <1>2, <2>1 DEF VerdictInvariant, Counted, KeptAtEnd, Reported
  <2>4. Passed'
    BY <1>1, <2>1, <2>2 DEF VerdictInvariant, Passed, Acked
  <2>5. Failed'
    BY <1>1, <1>2, <2>1, <2>2 DEF VerdictInvariant, Failed
  <2> QED
    BY <2>3, <2>4, <2>5 DEF VerdictInvariant
<1>6. CASE ClientQuit
  <2>1. cpc' = "gone" /\ ~cUp' /\ s2c' = <<>> /\ cUp /\ spc' = spc
    BY <1>6 DEF ClientQuit
  <2>2. Reported' => Reported
    BY <1>1, <2>1 DEF Reported
  <2>3. Counted' /\ KeptAtEnd'
    BY <1>1, <1>2, <2>1, <2>2 DEF VerdictInvariant, Counted, KeptAtEnd
  <2>4. Passed'
    BY <1>1, <1>3, <2>1 DEF VerdictInvariant, Passed, Acked
  <2>5. Failed'
    BY <1>1, <1>2, <1>3, <2>1 DEF VerdictInvariant, Failed
  <2> QED
    BY <2>3, <2>4, <2>5 DEF VerdictInvariant
<1> QED
  BY <1>4, <1>5, <1>6

\* Every step keeps the two reports together.
LEMMA VerdictStep ==
  ASSUME TypeOK, StopAndWait, Paired, Paired', VerdictInvariant, [UploadNext]_vars
  PROVE  VerdictInvariant'
<1>1. CASE \E f \in Files, test \in BOOLEAN : PutStart(f, test)
  BY <1>1, VerdictStart
<1>2. CASE PutSize \/ PutFragment \/ PutNoMemory \/ PutStatus \/ PutEnd
  BY <1>2, VerdictSize, VerdictFragment, VerdictNoMemory, VerdictStatus, VerdictEnd
<1>3. CASE ServPut \/ ServSize \/ ServInfo
  BY <1>3, VerdictPut, VerdictServSize, VerdictInfo
<1>4. CASE ServNoMemory \/ ServShortBody \/ ServBody \/ ServEmptyBody \/ ServEnd
  BY <1>4, VerdictServNoMemory, VerdictShortBody, VerdictBody, VerdictEmptyBody, VerdictServEnd
<1>5. CASE (ServerHangup \/ ClientQuit) /\ UNCHANGED <<putClient, putServer>>
  BY <1>5, VerdictApart DEF ServerHangup, ClientQuit
<1>6. CASE UNCHANGED vars
  BY <1>6, VerdictApart DEF vars, connVars
<1>7. CASE PutBroken \/ ServLeftover \/ ServAstray \/ Environment
  BY <1>7 DEF PutBroken, ServLeftover, ServAstray, Environment, ServerDies, ProcessEnds, Paired
<1> QED
  BY <1>1, <1>2, <1>3, <1>4, <1>5, <1>6, <1>7
  DEF UploadNext, ClientStep, ServerStep, User, Finished

\* Whatever goes wrong - missing keys, memory, disk, cut fragments, a killed client -,
\* once put_file has told its user and clnt_put has printed, the user was told "ok"
\* exactly when the server reports that it saved the file, unless the thread has read
\* the rest of a fragment as commands or its process has ended.
THEOREM Agree == UploadSpec => []VerdictAgrees
<1>1. UploadInit => VerdictInvariant
  <2> SUFFICES ASSUME UploadInit PROVE VerdictInvariant
    OBVIOUS
  <2>1. /\ cpc = "prompt" /\ spc = "cmd" /\ c2s = <<>> /\ s2c = <<>> /\ src = <<>>
        /\ sent = 0 /\ saved = "none" /\ verdict = "none" /\ Len(c2s) = 0 /\ Len(src) = 0
    BY DEF UploadInit, ConnectionInit
  <2>2. ~Acked /\ \A kind : ~Has(kind)
    BY <2>1 DEF Acked, Has
  <2> QED
    BY <2>1, <2>2 DEF VerdictInvariant, Counted, KeptAtEnd, Passed, Failed
<1>2. /\ TypeOK /\ (Paired => StopAndWait) /\ (Paired => VerdictInvariant) /\ [UploadNext]_vars
      => (Paired => VerdictInvariant)'
  BY VerdictStep, NeverPairedAgain
<1>3. TypeOK /\ (Paired => VerdictInvariant) => VerdictAgrees
  BY DEF Paired, VerdictInvariant, Passed, Failed, VerdictAgrees, TypeOK
<1> QED
  BY <1>1, <1>2, <1>3, StopAndWaitInvariant, PTL DEF UploadSpec
=============================================================================
