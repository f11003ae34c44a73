--------------------------- MODULE RootCAProofs ---------------------------
(* Theorems about RootCA. *)
EXTENDS RootCAInvariant, SequenceTheorems, TLAPS

\* The messages of both directions, and the certificates, have their types.
LEMMA MessageTypes ==
  /\ \A k \in {"request_cert", "exit", "len", "blank", "nul", "rest"} : Said(k) \in SaidType
  /\ \A n \in Nat : Csr(n) \in SaidType
  /\ CACert \in ReplyType /\ NoCert \in ReplyType /\ Garbage \in ReplyType
  /\ \A n, s \in Nat : Pem(n, s) \in ReplyType
  /\ \A m \in SaidType : m.nth \in Nat
  /\ \A m \in IssuedType : m.serial \in Nat
  BY DEF SaidType, ReplyType, IssuedType, Said, Csr, CACert, NoCert, Garbage, Pem

LEMMA CertificateType ==
  ASSUME TypeOK
  PROVE  Certificate \in IssuedType /\ Certificate.serial = serial
  BY DEF TypeOK, Certificate, IssuedType

\* What recv leaves of a stream is a stream.
LEMMA StreamLeft ==
  ASSUME NEW S, NEW s \in Seq(S), NEW k \in 0 .. Len(s)
  PROVE  SubSeq(s, k + 1, Len(s)) \in Seq(S)
  <1>1. \A i \in (k + 1) .. Len(s) : s[i] \in S
    BY ElementOfSeq
  <1> QED
    BY <1>1, SubSeqProperties

LEMMA DropsType ==
  ASSUME TypeOK, NEW k \in 0 .. Len(Stream), Drops(k)
  PROVE  toCA' \in [Clients -> Seq(SaidType)]
  <1>1. toCA[cur] \in Seq(SaidType)
    BY DEF TypeOK
  <1>2. SubSeq(toCA[cur], k + 1, Len(toCA[cur])) \in Seq(SaidType)
    BY <1>1, StreamLeft DEF Stream
  <1> QED
    BY <1>2 DEF TypeOK, Drops

LEMMA RestType ==
  ASSUME TypeOK, Stream # <<>>, NEW k \in {"blank", "nul", "rest"},
         toCA' = [toCA EXCEPT ![cur] = <<Said(k)>> \o Tail(@)]
  PROVE  toCA' \in [Clients -> Seq(SaidType)]
  <1>1. toCA[cur] \in Seq(SaidType) /\ toCA[cur] # <<>>
    BY DEF TypeOK, Stream
  <1>2. <<Said(k)>> \o Tail(toCA[cur]) \in Seq(SaidType)
    BY <1>1, MessageTypes
  <1> QED
    BY <1>2 DEF TypeOK

LEMMA SayType ==
  ASSUME TypeOK, NEW c \in Clients, NEW ms \in Seq(SaidType), Say(c, ms)
  PROVE  toCA' \in [Clients -> Seq(SaidType)]
  <1>1. toCA[c] \o ms \in Seq(SaidType) /\ <<>> \in Seq(SaidType)
    BY DEF TypeOK
  <1> QED
    BY <1>1 DEF TypeOK, Say

LEMMA SendsType ==
  ASSUME TypeOK, NEW c \in Clients, NEW m \in ReplyType, Sends(c, m)
  PROVE  toClient' \in [Clients -> Seq(ReplyType)] /\ pc' = "cmd"
  <1>1. toClient \in [Clients -> Seq(ReplyType)] /\ Append(toClient[c], m) \in Seq(ReplyType)
    BY DEF TypeOK
  <1> QED
    BY <1>1 DEF Sends

LEMMA DieType ==
  ASSUME TypeOK, Die
  PROVE  TypeOK'
  BY DEF TypeOK, Die, clientVars

LEMMA ReadType ==
  ASSUME TypeOK, NEW c \in Clients, toClient[c] # <<>>,
         toClient' = [toClient EXCEPT ![c] = Tail(@)]
  PROVE  /\ toClient' \in [Clients -> Seq(ReplyType)]
         /\ Head(toClient[c]) \in ReplyType
  BY DEF TypeOK

LEMMA ClientTypeStep ==
  ASSUME TypeOK, NEW c \in Clients, User(c) \/ ClientReads(c)
  PROVE  TypeOK'
  <1> USE DEF TypeOK, caVars
  <1>1. CASE Connect(c)
    BY <1>1 DEF Connect, Goto
  <1>2. CASE Request(c)
    <2>1. <<Said("request_cert")>> \in Seq(SaidType)
      BY MessageTypes
    <2>2. toCA' \in [Clients -> Seq(SaidType)]
      BY <1>2, <2>1, SayType DEF Request
    <2>3. nreq[c] + 1 \in Nat /\ nreq' = [nreq EXCEPT ![c] = @ + 1]
      BY <1>2 DEF Request
    <2>4. nreq' \in [Clients -> Nat]
      BY <2>3
    <2>5. /\ UNCHANGED <<caVars, conn, toClient, trusts, saved>>
          /\ cpc' = [cpc EXCEPT ![c] = "subject"]
      BY <1>2 DEF Request, Goto
    <2> QED
      BY <2>2, <2>4, <2>5
  <1>3. CASE SendCsr(c)
    <2>1. <<Said("len"), Csr(nreq[c])>> \in Seq(SaidType) /\ <<Said("len"), Csr(0)>> \in Seq(SaidType)
      BY MessageTypes
    <2>2. toCA' \in [Clients -> Seq(SaidType)]
      <3>1. CASE Say(c, <<Said("len"), Csr(nreq[c])>>)
        BY <2>1, <3>1, SayType
      <3>2. CASE Say(c, <<Said("len"), Csr(0)>>)
        BY <2>1, <3>2, SayType
      <3>3. CASE UNCHANGED toCA
        BY <3>3
      <3> QED
        BY <1>3, <3>1, <3>2, <3>3 DEF SendCsr
    <2>3. /\ UNCHANGED <<caVars, conn, toClient, nreq, trusts, saved>>
          /\ cpc' = [cpc EXCEPT ![c] = "wait"]
      BY <1>3 DEF SendCsr, Goto
    <2> QED
      BY <2>2, <2>3
  <1>4. CASE Exit(c)
    <2>1. <<Said("exit")>> \in Seq(SaidType)
      BY MessageTypes
    <2>2. toCA' \in [Clients -> Seq(SaidType)]
      BY <1>4, <2>1, SayType DEF Exit
    <2> QED
      BY <1>4, <2>2 DEF Exit, Goto
  <1>5. CASE Drop(c) \/ Lost(c)
    BY <1>5 DEF Drop, Lost, Goto
  <1>6. CASE Hello(c)
    BY <1>6, ReadType DEF Hello, Goto
  <1>7. CASE Receive(c)
    <2>1. toClient' \in [Clients -> Seq(ReplyType)] /\ Head(toClient[c]) \in ReplyType
      BY <1>7, ReadType DEF Receive
    <2>2. PICK left \in {Head(toClient[c]), Garbage}, at \in {"prompt", "away"} :
            /\ UNCHANGED saved \/ saved' = [saved EXCEPT ![c] = left]
            /\ cpc' = [cpc EXCEPT ![c] = at]
      BY <1>7 DEF Receive, Goto
    <2>3. saved' \in [Clients -> ReplyType] /\ cpc' \in [Clients -> {"away", "hello", "prompt", "subject", "wait"}]
      <3>1. left \in ReplyType
        BY <2>1, <2>2, MessageTypes
      <3>2. CASE UNCHANGED saved
        BY <2>2, <3>2
      <3>3. CASE saved' = [saved EXCEPT ![c] = left]
        BY <2>2, <3>1, <3>3
      <3> QED
        BY <2>2, <3>2, <3>3
    <2> QED
      BY <1>7, <2>1, <2>3 DEF Receive
  <1> QED
    BY <1>1, <1>2, <1>3, <1>4, <1>5, <1>6, <1>7 DEF User, ClientReads

LEMMA CATypeStep ==
  ASSUME TypeOK, CAStep \/ Crash \/ Restart
  PROVE  TypeOK'
  <1> USE DEF TypeOK, clientVars
  <1>1. ASSUME NEW c \in Clients, Accept(c) PROVE TypeOK'
    <2>1. toClient' \in [Clients -> Seq(ReplyType)] /\ pc' = "cmd"
      BY <1>1, MessageTypes, SendsType DEF Accept
    <2> QED
      BY <1>1, <2>1 DEF Accept
  <1>2. CASE AcceptFails \/ BrokenPipe \/ Crash
    BY <1>2, DieType DEF AcceptFails, BrokenPipe, Crash
  <1>3. CASE RecvCommand
    <2>1. PICK k \in 1 .. Len(Stream) :
            \/ command' = "exit" /\ pc' = "accept" /\ conn' = [conn EXCEPT ![cur] = "none"]
               /\ toCA' = [toCA EXCEPT ![cur] = <<>>]
            \/ command' = "request_cert" /\ pc' = "len" /\ Drops(k) /\ UNCHANGED conn
            \/ command' = "other" /\ pc' = "cmd" /\ Drops(k) /\ UNCHANGED conn
      <3>1. Stream \in Seq(SaidType) /\ Stream # <<>>
        BY <1>3 DEF RecvCommand, Stream
      <3>2. 1 .. (IF "coalesce" \in Faults THEN Len(Stream) ELSE 1) \subseteq 1 .. Len(Stream)
        BY <3>1
      <3> QED
        BY <1>3, <3>2 DEF RecvCommand
    <2>2. toCA' \in [Clients -> Seq(SaidType)]
      <3>1. Len(Stream) \in Nat /\ k \in 0 .. Len(Stream)
        BY DEF Stream
      <3>2. CASE Drops(k)
        BY <3>1, <3>2, DropsType
      <3>3. CASE toCA' = [toCA EXCEPT ![cur] = <<>>]
        BY <3>3
      <3> QED
        BY <2>1, <3>2, <3>3
    <2> QED
      BY <1>3, <2>1, <2>2 DEF RecvCommand
  <1>4. CASE RecvEnd
    BY <1>4 DEF RecvEnd
  <1>5. CASE RecvLen
    <2>1. pc' \in {"csr", "junk"} /\ UNCHANGED <<cur, command, wanted, serial, disk, issued, leaked, conn, toClient, clientVars>>
      BY <1>5 DEF RecvLen
    <2>2. toCA' \in [Clients -> Seq(SaidType)]
      <3>1. CASE Stream # <<>> /\ Drops(1)
        <4>1. 1 \in 0 .. Len(Stream)
          BY <3>1 DEF Stream
        <4> QED
          BY <3>1, <4>1, DropsType
      <3>2. CASE Stream # <<>> /\ \E k \in {"nul", "rest"} :
                   toCA' = [toCA EXCEPT ![cur] = <<Said(k)>> \o Tail(@)]
        BY <3>2, RestType
      <3>3. CASE UNCHANGED toCA
        BY <3>3
      <3> QED
        BY <1>5, <3>1, <3>2, <3>3 DEF RecvLen
    <2> QED
      BY <2>1, <2>2
  <1>6. CASE RecvCsr
    <2>1. Head(Stream) \in SaidType /\ Stream # <<>>
      BY <1>6 DEF RecvCsr, Stream
    <2>2. wanted' \in Nat
      BY <1>6, <2>1, MessageTypes DEF RecvCsr
    <2>3. toCA' \in [Clients -> Seq(SaidType)]
      <3>1. CASE Drops(1)
        <4>1. 1 \in 0 .. Len(Stream)
          BY <2>1 DEF Stream
        <4> QED
          BY <3>1, <4>1, DropsType
      <3>2. CASE \E k \in {"blank", "rest"} : toCA' = [toCA EXCEPT ![cur] = <<Said(k)>> \o Tail(@)]
        BY <2>1, <3>2, RestType
      <3> QED
        BY <1>6, <3>1, <3>2 DEF RecvCsr
    <2> QED
      BY <1>6, <2>2, <2>3 DEF RecvCsr
  <1>7. CASE RecvJunk
    <2>1. toCA' \in [Clients -> Seq(SaidType)]
      BY <1>7, DropsType DEF RecvJunk
    <2> QED
      BY <1>7, <2>1 DEF RecvJunk
  <1>8. CASE ReadSerial \/ WriteSerial
    BY <1>8 DEF ReadSerial, WriteSerial
  <1>9. CASE SignCert
    BY <1>9, CertificateType DEF SignCert
  <1>10. CASE Reply
    <2>1. NoCert \in ReplyType /\ Pem(wanted, serial) \in ReplyType
      BY MessageTypes
    <2>2. toClient' \in [Clients -> Seq(ReplyType)] /\ pc' = "cmd"
      BY <1>10, <2>1, SendsType DEF Reply
    <2> QED
      BY <1>10, <2>2 DEF Reply
  <1>11. CASE Restart
    BY <1>11 DEF Restart
  <1> QED
    BY <1>1, <1>2, <1>3, <1>4, <1>5, <1>6, <1>7, <1>8, <1>9, <1>10, <1>11 DEF CAStep

\* The CA's and the clients' variables keep their types.
THEOREM TypeCorrect == Spec => []TypeOK
<1>1. Init => TypeOK
  BY RootCAAssumption, MessageTypes DEF Init, TypeOK
<1>2. TypeOK /\ [Next]_vars => TypeOK'
  <2> SUFFICES ASSUME TypeOK, [Next]_vars PROVE TypeOK'
    OBVIOUS
  <2>1. CASE UNCHANGED vars
    BY <2>1 DEF vars, caVars, clientVars, TypeOK
  <2> QED
    BY <2>1, CATypeStep, ClientTypeStep DEF Next
<1> QED
  BY <1>1, <1>2, PTL DEF Spec

----------------------------------------------------------------------------

\* serial.txt is never lost: the process does not end while it rewrites the file,
\* and there is room to write it.
SafeDisk == Faults \cap {"crash", "nospace"} = {}

SerialInvariant == NextIsFresh /\ UniqueSerials

\* A step that leaves the file, the number in hand and the certificates alone.
LEMMA Untouched ==
  ASSUME SerialInvariant, UNCHANGED <<serial, disk, issued>>,
         (pc \in {"serial", "store", "sign"} \/ pc' \in {"store", "sign"}) => pc' = pc
  PROVE  SerialInvariant'
  BY DEF SerialInvariant, NextIsFresh, NextSerial, Fresh, UniqueSerials

LEMMA SerialStep ==
  ASSUME SafeDisk, TypeOK, SerialInvariant, [Next]_vars
  PROVE  SerialInvariant'
  <1>1. CASE ReadSerial
    <2>1. /\ serial' = NextSerial /\ pc' = "store" /\ UNCHANGED issued
          /\ pc = "serial"
      BY <1>1 DEF ReadSerial, SafeDisk, NextSerial
    <2>2. NextSerial > 0 /\ Fresh(NextSerial)
      BY <2>1 DEF SerialInvariant, NextIsFresh, NextSerial, TypeOK
    <2> QED
      BY <2>1, <2>2 DEF SerialInvariant, NextIsFresh, Fresh, UniqueSerials
  <1>2. CASE WriteSerial
    BY <1>2 DEF WriteSerial, SafeDisk, SerialInvariant, NextIsFresh, Fresh, UniqueSerials
  <1>3. CASE SignCert
    <2>1. /\ disk = serial + 1 /\ serial > 0 /\ Fresh(serial) /\ UniqueSerials
          /\ pc' = "reply" /\ disk' = disk /\ serial' = serial
          /\ issued' = Append(issued, Certificate)
      BY <1>3 DEF SignCert, SerialInvariant, NextIsFresh
    <2>2. /\ Len(issued') = Len(issued) + 1 /\ Len(issued) \in Nat
          /\ issued'[Len(issued) + 1].serial = serial
          /\ \A i \in 1 .. Len(issued) : issued'[i] = issued[i] /\ issued[i].serial \in Nat
      BY <2>1, CertificateType, MessageTypes DEF TypeOK
    <2>3. \A i \in 1 .. Len(issued) : issued'[i].serial < serial
      BY <2>1, <2>2 DEF Fresh
    <2>4. UniqueSerials'
      <3> SUFFICES ASSUME NEW i \in 1 .. Len(issued'), NEW j \in 1 .. Len(issued'),
                          issued'[i].serial = issued'[j].serial
                   PROVE  i = j
        BY DEF UniqueSerials
      <3>1. CASE i \in 1 .. Len(issued) /\ j \in 1 .. Len(issued)
        BY <2>1, <2>2, <3>1 DEF UniqueSerials
      <3>2. CASE i = Len(issued) + 1 /\ j \in 1 .. Len(issued)
        <4>1. issued'[j].serial < serial /\ issued'[i].serial = serial
          BY <2>2, <2>3, <3>2
        <4> QED
          BY <2>2, <3>2, <4>1 DEF TypeOK
      <3>3. CASE j = Len(issued) + 1 /\ i \in 1 .. Len(issued)
        <4>1. issued'[i].serial < serial /\ issued'[j].serial = serial
          BY <2>2, <2>3, <3>3
        <4> QED
          BY <2>2, <3>3, <4>1 DEF TypeOK
      <3> QED
        BY <2>2, <3>1, <3>2, <3>3
    <2>5. NextIsFresh'
      BY <2>1, <2>2, <2>3 DEF NextIsFresh, NextSerial, Fresh, TypeOK
    <2> QED
      BY <2>4, <2>5 DEF SerialInvariant
  <1>4. ASSUME NEW c \in Clients, User(c) \/ ClientReads(c) PROVE SerialInvariant'
    <2>1. UNCHANGED <<pc, serial, disk, issued>>
      BY <1>4 DEF User, ClientReads, Connect, Hello, Request, SendCsr, Receive, Exit, Drop, Lost, caVars
    <2> QED
      BY <2>1, Untouched
  <1>5. ASSUME NEW c \in Clients, Accept(c) PROVE SerialInvariant'
    BY <1>5, Untouched DEF Accept, Sends
  <1>6. CASE AcceptFails \/ BrokenPipe \/ Crash
    BY <1>6, Untouched DEF AcceptFails, BrokenPipe, Crash, Die, SafeDisk
  <1>7. CASE RecvCommand \/ RecvEnd \/ RecvLen \/ RecvCsr \/ RecvJunk
    BY <1>7, Untouched DEF RecvCommand, RecvEnd, RecvLen, RecvCsr, RecvJunk
  <1>8. CASE Reply \/ Restart
    BY <1>8, Untouched DEF Reply, Restart, Sends
  <1>9. CASE UNCHANGED vars
    BY <1>9, Untouched DEF vars, caVars
  <1> QED
    BY <1>1, <1>2, <1>3, <1>4, <1>5, <1>6, <1>7, <1>8, <1>9 DEF Next, CAStep

\* As long as no crash and no full disk meets write_serial, no serial number is
\* given twice: for any number of clients and requests, through every way the
\* streams can be misread, and through deaths by SIGPIPE and restarts.
THEOREM SerialsUnique ==
  ASSUME SafeDisk
  PROVE  Spec => []UniqueSerials
<1>1. Init => SerialInvariant
  BY RootCAAssumption DEF Init, SerialInvariant, NextIsFresh, Fresh, UniqueSerials
<1>2. TypeOK /\ SerialInvariant /\ [Next]_vars => SerialInvariant'
  BY SerialStep
<1>3. SerialInvariant => UniqueSerials
  BY DEF SerialInvariant
<1> QED
  BY <1>1, <1>2, <1>3, TypeCorrect, PTL DEF Spec

----------------------------------------------------------------------------
(* One certificate for a request, and the answer to it. *)

\* Of what is in stream t and names a request, all has been in stream s, in order.
Kept(s, t) ==
  \E k \in Nat : \A i \in 1 .. Len(t) :
    t[i].nth # 0 => i + k \in 1 .. Len(s) /\ t[i] = s[i + k]

\* What the two ends do to a stream with messages that name no request keeps it so.
LEMMA KeptStreams ==
  ASSUME NEW S, NEW s \in Seq(S), NEW m \in S, m.nth = 0
  PROVE  /\ Kept(s, s) /\ Kept(s, <<>>) /\ Kept(s, Append(s, m)) /\ Kept(s, s \o <<m>>)
         /\ s # <<>> => Kept(s, Tail(s)) /\ Kept(s, <<m>> \o Tail(s))
         /\ \A k \in 0 .. Len(s) : Kept(s, SubSeq(s, k + 1, Len(s)))
<1>1. Kept(s, s)
  <2>1. \A i \in 1 .. Len(s) : i + 0 \in 1 .. Len(s) /\ s[i] = s[i + 0]
    OBVIOUS
  <2> QED
    BY <2>1 DEF Kept
<1>2. Kept(s, <<>>)
  BY DEF Kept
<1>3. Kept(s, Append(s, m)) /\ Kept(s, s \o <<m>>)
  <2>1. \A i \in 1 .. Len(Append(s, m)) :
          Append(s, m)[i].nth # 0 => i + 0 \in 1 .. Len(s) /\ Append(s, m)[i] = s[i + 0]
    OBVIOUS
  <2>2. s \o <<m>> = Append(s, m)
    OBVIOUS
  <2>3. Kept(s, Append(s, m))
    BY <2>1 DEF Kept
  <2> QED
    BY <2>2, <2>3
<1>4. ASSUME s # <<>> PROVE Kept(s, Tail(s)) /\ Kept(s, <<m>> \o Tail(s))
  <2>1. \A i \in 1 .. Len(Tail(s)) : i + 1 \in 1 .. Len(s) /\ Tail(s)[i] = s[i + 1]
    BY <1>4
  <2>2. \A i \in 1 .. Len(<<m>> \o Tail(s)) :
          (<<m>> \o Tail(s))[i].nth # 0 => i + 0 \in 1 .. Len(s) /\ (<<m>> \o Tail(s))[i] = s[i + 0]
    BY <1>4
  <2>3. Kept(s, Tail(s))
    <3> SUFFICES \E k \in Nat : \A i \in 1 .. Len(Tail(s)) :
                   Tail(s)[i].nth # 0 => i + k \in 1 .. Len(s) /\ Tail(s)[i] = s[i + k]
      BY DEF Kept
    <3> WITNESS 1 \in Nat
    <3> QED
      BY <2>1
  <2>4. Kept(s, <<m>> \o Tail(s))
    <3> SUFFICES \E k \in Nat : \A i \in 1 .. Len(<<m>> \o Tail(s)) :
                   (<<m>> \o Tail(s))[i].nth # 0
                     => i + k \in 1 .. Len(s) /\ (<<m>> \o Tail(s))[i] = s[i + k]
      BY DEF Kept
    <3> WITNESS 0 \in Nat
    <3> QED
      BY <2>2
  <2> QED
    BY <2>3, <2>4
<1>5. ASSUME NEW k \in 0 .. Len(s) PROVE Kept(s, SubSeq(s, k + 1, Len(s)))
  <2>1. \A i \in 1 .. Len(SubSeq(s, k + 1, Len(s))) :
          i + k \in 1 .. Len(s) /\ SubSeq(s, k + 1, Len(s))[i] = s[i + k]
    BY SubSeqProperties
  <2> SUFFICES \E n \in Nat : \A i \in 1 .. Len(SubSeq(s, k + 1, Len(s))) :
                 SubSeq(s, k + 1, Len(s))[i].nth # 0
                   => i + n \in 1 .. Len(s) /\ SubSeq(s, k + 1, Len(s))[i] = s[i + n]
    BY DEF Kept
  <2> WITNESS k \in Nat
  <2> QED
    BY <2>1
<1> QED
  BY <1>1, <1>2, <1>3, <1>4, <1>5

\* A step on which no request gets further: nothing that names one is sent or
\* signed, and no client comes to wait or ceases to, unless it goes away.
LEMMA Idle ==
  ASSUME TypeOK, RequestInvariant, Serving', UNCHANGED <<issued, nreq>>,
         \A c \in Clients : Kept(toCA[c], toCA'[c]) /\ (conn'[c] = "none" => toCA'[c] = <<>>),
         \A c \in Clients : Live(c)' => /\ Live(c) /\ Kept(toClient[c], toClient'[c])
                                        /\ cpc[c] = "wait" <=> cpc'[c] = "wait"
                                        /\ cpc'[c] = "subject" => cpc[c] = "subject",
         InHand' => /\ InHand /\ UNCHANGED <<cur, wanted>> /\ (pc' = "reply" <=> pc = "reply")
                    /\ pc' = "reply" => serial' = serial
  PROVE  RequestInvariant'
<1> USE DEF RequestInvariant
<1>1. Streams'
  <2> SUFFICES ASSUME NEW c \in Clients, NEW i \in 1 .. Len(toCA'[c]), toCA'[c][i].nth # 0
               PROVE  CsrInStream(c, i)'
    BY DEF Streams, CsrInStream
  <2>1. PICK k \in Nat : \A j \in 1 .. Len(toCA'[c]) :
          toCA'[c][j].nth # 0 => j + k \in 1 .. Len(toCA[c]) /\ toCA'[c][j] = toCA[c][j + k]
    BY DEF Kept
  <2>2. CsrInStream(c, i + k) /\ toCA'[c][i] = toCA[c][i + k]
    BY <2>1 DEF Streams
  <2>3. \A j \in 1 .. Len(toCA'[c]) : toCA'[c][j].nth = toCA'[c][i].nth => j = i
    <3> SUFFICES ASSUME NEW j \in 1 .. Len(toCA'[c]), toCA'[c][j].nth = toCA'[c][i].nth
                 PROVE  j = i
      OBVIOUS
    <3>1. j + k \in 1 .. Len(toCA[c]) /\ toCA[c][j + k].nth = toCA[c][i + k].nth
      BY <2>1, <2>2
    <3>2. j + k = i + k
      BY <2>2, <3>1 DEF CsrInStream
    <3> QED
      BY <3>2
  <2>4. toCA'[c][i].nth <= nreq'[c] /\ ~Issued(c, toCA'[c][i].nth)
    BY <2>2 DEF CsrInStream
  <2>5. Live(c)' => toCA'[c][i].nth = nreq'[c] /\ cpc'[c] = "wait"
    BY <2>2 DEF CsrInStream
  <2> QED
    BY <2>3, <2>4, <2>5 DEF CsrInStream, Issued
<1>2. Handled'
  <2> SUFFICES ASSUME InHand' PROVE Handled'
    BY DEF Handled
  <2>1. /\ InHand /\ UNCHANGED <<cur, wanted>> /\ (pc' = "reply" <=> pc = "reply")
        /\ pc' = "reply" => serial' = serial
    OBVIOUS
  <2>2. cur \in Clients
    BY DEF TypeOK
  <2>3. \A i \in 1 .. Len(toCA'[cur]) : toCA'[cur][i].nth # wanted
    BY <2>1, <2>2 DEF Handled, Kept
  <2>4. pc' # "reply" => ~Issued(cur, wanted)
    BY <2>1 DEF Handled
  <2>5. pc' = "reply" => \E k \in 1 .. Len(issued') : issued'[k] = Certificate'
    BY <2>1 DEF Handled, Certificate
  <2>6. wanted' # 0 /\ wanted' <= nreq'[cur']
    BY <2>1 DEF Handled
  <2>7. Live(cur)' => /\ wanted' = nreq'[cur] /\ cpc'[cur] = "wait"
                      /\ \A i \in 1 .. Len(toClient'[cur]) : toClient'[cur][i].nth = 0
    BY <2>1, <2>2 DEF Handled, Kept
  <2> QED
    BY <2>1, <2>2, <2>3, <2>4, <2>5, <2>6, <2>7 DEF Handled, Live, Issued
<1>3. Requested'
  <2> SUFFICES ASSUME NEW k \in 1 .. Len(issued), NEW c, c = issued[k].to
               PROVE  issued[k].nth <= nreq[c] /\ (cpc'[c] = "subject" => issued[k].nth < nreq[c])
    BY DEF Requested
  <2>1. c \in Clients
    <3>1. issued[k] \in IssuedType
      BY DEF TypeOK
    <3> QED
      BY <3>1 DEF IssuedType
  <2> QED
    BY <2>1 DEF Requested, Live
<1>4. OneAnswer' /\ AnswersItsRequest'
  <2> SUFFICES ASSUME NEW c \in Clients, NEW i \in 1 .. Len(toClient'[c]),
                      Live(c)', toClient'[c][i].nth # 0
               PROVE  /\ cpc'[c] = "wait"
                      /\ \A j \in 1 .. Len(toClient'[c]) : toClient'[c][j].nth # 0 => j = i
                      /\ toClient'[c][i].nth = nreq[c]
                      /\ \E n \in 1 .. Len(issued) :
                           issued[n] = [to |-> c, nth |-> nreq[c], serial |-> toClient'[c][i].serial]
    BY DEF OneAnswer, AnswersItsRequest, Live
  <2>1. PICK k \in Nat : \A j \in 1 .. Len(toClient'[c]) :
          toClient'[c][j].nth # 0 => j + k \in 1 .. Len(toClient[c]) /\ toClient'[c][j] = toClient[c][j + k]
    BY DEF Kept
  <2>2. Live(c) /\ i + k \in 1 .. Len(toClient[c]) /\ toClient'[c][i] = toClient[c][i + k]
    BY <2>1
  <2>3. /\ cpc[c] = "wait"
        /\ \A j \in 1 .. Len(toClient[c]) : toClient[c][j].nth # 0 => j = i + k
    BY <2>2 DEF OneAnswer
  <2>4. \A j \in 1 .. Len(toClient'[c]) : toClient'[c][j].nth # 0 => j = i
    <3>1. \A j \in 1 .. Len(toClient'[c]) : toClient'[c][j].nth # 0 => j + k = i + k
      BY <2>1, <2>3
    <3> QED
      BY <3>1
  <2>5. /\ toClient[c][i + k].nth = nreq[c]
        /\ \E n \in 1 .. Len(issued) :
             issued[n] = [to |-> c, nth |-> nreq[c], serial |-> toClient[c][i + k].serial]
    BY <2>2 DEF AnswersItsRequest, Live
  <2> QED
    BY <2>2, <2>3, <2>4, <2>5
<1>5. OncePerRequest'
  BY DEF OncePerRequest
<1> QED
  BY <1>1, <1>2, <1>3, <1>4, <1>5

\* Both streams of a client, as KeptStreams needs them.
LEMMA BothStreams ==
  ASSUME TypeOK, NEW c \in Clients
  PROVE  /\ toCA[c] \in Seq(SaidType) /\ toClient[c] \in Seq(ReplyType)
         /\ Kept(toCA[c], toCA[c]) /\ Kept(toClient[c], toClient[c]) /\ Kept(toCA[c], <<>>)
         /\ \A k \in {"request_cert", "exit", "len", "blank", "nul", "rest"} : Said(k).nth = 0
<1>1. toCA[c] \in Seq(SaidType) /\ toClient[c] \in Seq(ReplyType)
  BY DEF TypeOK
<1>2. /\ Said("rest") \in SaidType /\ NoCert \in ReplyType
      /\ Said("rest").nth = 0 /\ NoCert.nth = 0
  BY MessageTypes DEF Said, NoCert
<1>3. \A k \in {"request_cert", "exit", "len", "blank", "nul", "rest"} : Said(k).nth = 0
  BY DEF Said
<1> QED
  BY <1>1, <1>2, <1>3, KeptStreams

\* A client that only takes what names no request, or goes away.
LEMMA IdleClient ==
  ASSUME TypeOK, RequestInvariant, NEW c \in Clients,
         \/ Hello(c) \/ Exit(c) \/ Drop(c) \/ Lost(c)
         \/ Receive(c) /\ Head(toClient[c]).nth = 0
  PROVE  RequestInvariant'
<1>1. UNCHANGED <<caVars, conn, nreq>>
  BY DEF Hello, Exit, Drop, Lost, Receive
<1>2. cpc' = [cpc EXCEPT ![c] = "away"] \/ (Hello(c) /\ cpc' = [cpc EXCEPT ![c] = "prompt"])
  BY DEF Hello, Exit, Drop, Lost, Receive, Goto
<1>3. \A d \in Clients : Live(d)' => /\ Live(d)
                                     /\ cpc[d] = "wait" <=> cpc'[d] = "wait"
                                     /\ cpc'[d] = "subject" => cpc[d] = "subject"
  BY <1>2 DEF Live, Hello, TypeOK
<1>4. ASSUME NEW d \in Clients PROVE Kept(toCA[d], toCA'[d]) /\ (conn'[d] = "none" => toCA'[d] = <<>>)
  <2>1. conn[d] = "none" => toCA[d] = <<>>
    BY DEF RequestInvariant, Streams
  <2>2. CASE toCA' = toCA
    BY <1>1, <2>1, <2>2, BothStreams
  <2>3. CASE Exit(c)
    <3>1. toCA' = [toCA EXCEPT ![c] = IF conn[c] = "none" THEN <<>> ELSE @ \o <<Said("exit")>>]
      BY <2>3 DEF Exit, Say
    <3>2. toCA'[d] = toCA[d] \/ (conn[d] = "none" /\ toCA'[d] = <<>>)
            \/ (conn[d] # "none" /\ toCA'[d] = toCA[d] \o <<Said("exit")>>)
      BY <3>1 DEF TypeOK
    <3>3. Said("exit") \in SaidType /\ Said("exit").nth = 0
      BY MessageTypes DEF Said
    <3>4. Kept(toCA[d], toCA[d] \o <<Said("exit")>>)
      BY <3>3, BothStreams, KeptStreams
    <3> QED
      BY <1>1, <2>1, <3>2, <3>4, BothStreams
  <2> QED
    BY <2>2, <2>3 DEF Hello, Drop, Lost, Receive
<1>5. ASSUME NEW d \in Clients, Live(d)' PROVE Kept(toClient[d], toClient'[d])
  <2>1. CASE Hello(c)
    <3>1. toClient[c] # <<>> /\ toClient' = [toClient EXCEPT ![c] = Tail(@)]
      BY <2>1 DEF Hello
    <3>2. toClient'[d] = toClient[d] \/ (toClient[d] # <<>> /\ toClient'[d] = Tail(toClient[d]))
      BY <3>1 DEF TypeOK
    <3>3. NoCert \in ReplyType /\ NoCert.nth = 0
      BY MessageTypes DEF NoCert
    <3> QED
      BY <3>2, <3>3, BothStreams, KeptStreams
  <2>2. CASE ~Hello(c)
    <3>1. d # c
      BY <1>2, <1>5, <2>2 DEF Live, TypeOK
    <3>2. toClient'[d] = toClient[d]
      BY <2>2, <3>1 DEF Exit, Drop, Lost, Receive, TypeOK
    <3> QED
      BY <3>2, BothStreams
  <2> QED
    BY <2>1, <2>2
<1>6. Serving'
  BY <1>1 DEF RequestInvariant, Serving, caVars
<1> QED
  BY <1>1, <1>3, <1>4, <1>5, <1>6, Idle DEF caVars, InHand

\* The CA's steps that certify nothing and answer with no certificate.
LEMMA IdleCA ==
  ASSUME TypeOK, RequestInvariant, UNCHANGED <<issued, clientVars>>, Serving',
         \A c \in Clients : \/ toCA'[c] = toCA[c] /\ (conn'[c] = "none" => conn[c] = "none")
                            \/ toCA'[c] = <<>>
                            \/ /\ Kept(toCA[c], toCA'[c]) /\ conn'[c] = "open",
         \A c \in Clients : \/ toClient'[c] = toClient[c]
                            \/ \E m \in ReplyType : m.nth = 0 /\ toClient'[c] = Append(toClient[c], m),
         InHand' => /\ InHand /\ UNCHANGED <<cur, wanted>> /\ (pc' = "reply" <=> pc = "reply")
                    /\ pc' = "reply" => serial' = serial
  PROVE  RequestInvariant'
<1>1. ASSUME NEW c \in Clients PROVE Kept(toCA[c], toCA'[c]) /\ (conn'[c] = "none" => toCA'[c] = <<>>)
  <2>1. conn[c] = "none" => toCA[c] = <<>>
    BY DEF RequestInvariant, Streams
  <2> QED
    BY <2>1, BothStreams
<1>2. ASSUME NEW c \in Clients PROVE Kept(toClient[c], toClient'[c])
  BY BothStreams, KeptStreams
<1>3. \A c \in Clients : Live(c)' => /\ Live(c)
                                     /\ cpc[c] = "wait" <=> cpc'[c] = "wait"
                                     /\ cpc'[c] = "subject" => cpc[c] = "subject"
  BY DEF Live, clientVars
<1> QED
  BY <1>1, <1>2, <1>3, Idle DEF clientVars

LEMMA IdleCASteps ==
  ASSUME TypeOK, RequestInvariant,
         \/ (\E c \in Clients : Accept(c)) \/ AcceptFails \/ BrokenPipe \/ Crash \/ Restart
         \/ RecvCommand \/ RecvEnd \/ RecvLen \/ RecvJunk \/ ReadSerial \/ WriteSerial
         \/ RecvCsr /\ wanted' = 0
         \/ Reply /\ wanted = 0
  PROVE  RequestInvariant'
<1>0. /\ cur \in Clients /\ Stream = toCA[cur] /\ Stream \in Seq(SaidType)
      /\ pc \notin {"down", "accept"} => conn[cur] = "open"
      /\ conn \in [Clients -> {"none", "backlog", "open"}]
      /\ toCA \in [Clients -> Seq(SaidType)] /\ toClient \in [Clients -> Seq(ReplyType)]
  BY DEF TypeOK, Stream, RequestInvariant, Serving
<1>a. ASSUME NEW k \in {"blank", "nul", "rest"}, Stream # <<>>
      PROVE  Kept(Stream, <<Said(k)>> \o Tail(Stream))
  <2>1. Said(k) \in SaidType /\ Said(k).nth = 0
    BY MessageTypes DEF Said
  <2> QED
    BY <1>0, <1>a, <2>1, KeptStreams
<1>b. ASSUME NEW k \in 0 .. Len(Stream), Drops(k)
      PROVE  toCA' = [toCA EXCEPT ![cur] = SubSeq(Stream, k + 1, Len(Stream))] /\ Kept(Stream, toCA'[cur])
  <2>1. Said("rest") \in SaidType /\ Said("rest").nth = 0
    BY MessageTypes DEF Said
  <2>2. Kept(Stream, SubSeq(Stream, k + 1, Len(Stream)))
    BY <1>0, <2>1, KeptStreams
  <2>3. toCA' = [toCA EXCEPT ![cur] = SubSeq(Stream, k + 1, Len(Stream))]
    BY <1>b DEF Drops, Stream
  <2> QED
    BY <1>0, <2>2, <2>3
<1>1. ASSUME NEW c \in Clients, Accept(c) PROVE RequestInvariant'
  <2>1. /\ UNCHANGED <<issued, toCA, clientVars>> /\ pc' = "cmd" /\ cur' = c
        /\ conn' = [conn EXCEPT ![c] = "open"]
        /\ toClient' = toClient \/ toClient' = [toClient EXCEPT ![c] = Append(@, CACert)]
    BY <1>1 DEF Accept, Sends
  <2>2. CACert \in ReplyType /\ CACert.nth = 0
    BY MessageTypes DEF CACert
  <2>3. \A d \in Clients : \/ toClient'[d] = toClient[d]
                           \/ \E m \in ReplyType : m.nth = 0 /\ toClient'[d] = Append(toClient[d], m)
    BY <1>0, <2>1, <2>2
  <2> QED
    BY <1>0, <2>1, <2>3, IdleCA DEF Serving, InHand
<1>2. CASE AcceptFails \/ BrokenPipe \/ Crash
  BY <1>2, IdleCA DEF AcceptFails, BrokenPipe, Crash, Die, Serving, InHand
<1>3. CASE Restart
  BY <1>3, IdleCA DEF Restart, Serving, InHand
<1>4. CASE RecvCommand
  <2>1. PICK k \in 1 .. Len(Stream) :
          \/ pc' = "accept" /\ conn' = [conn EXCEPT ![cur] = "none"]
             /\ toCA' = [toCA EXCEPT ![cur] = <<>>]
          \/ pc' \in {"len", "cmd"} /\ Drops(k) /\ UNCHANGED conn
    <3>1. 1 .. (IF "coalesce" \in Faults THEN Len(Stream) ELSE 1) \subseteq 1 .. Len(Stream)
      BY <1>0, <1>4 DEF RecvCommand
    <3> QED
      BY <1>4, <3>1 DEF RecvCommand
  <2>2. k \in 0 .. Len(Stream)
    BY <1>0
  <2>3. pc = "cmd" /\ UNCHANGED <<cur, issued, toClient, clientVars>>
    BY <1>4 DEF RecvCommand
  <2>4. CASE Drops(k) /\ UNCHANGED conn /\ pc' \in {"len", "cmd"}
    BY <1>0, <1>b, <2>2, <2>3, <2>4, IdleCA DEF Serving, InHand
  <2>5. CASE /\ pc' = "accept" /\ conn' = [conn EXCEPT ![cur] = "none"]
             /\ toCA' = [toCA EXCEPT ![cur] = <<>>]
    BY <1>0, <2>3, <2>5, IdleCA DEF Serving, InHand
  <2> QED
    BY <2>1, <2>4, <2>5
<1>5. CASE RecvEnd
  <2>1. /\ pc' = "accept" /\ Stream = <<>> /\ UNCHANGED <<issued, toCA, toClient, clientVars>>
        /\ conn' = [conn EXCEPT ![cur] = "none"]
    BY <1>5 DEF RecvEnd
  <2> QED
    BY <1>0, <2>1, IdleCA DEF Serving, InHand
<1>6. CASE RecvLen
  <2>1. /\ pc = "len" /\ pc' \in {"csr", "junk"} /\ UNCHANGED <<cur, issued, conn, toClient, clientVars>>
    BY <1>6 DEF RecvLen
  <2>2. \/ Drops(1) /\ Stream # <<>>
        \/ \E k \in {"nul", "rest"} :
             Stream # <<>> /\ toCA' = [toCA EXCEPT ![cur] = <<Said(k)>> \o Tail(Stream)]
        \/ UNCHANGED toCA
    BY <1>6 DEF RecvLen, Stream
  <2>3. \A c \in Clients : toCA'[c] = toCA[c] \/ (c = cur /\ Kept(toCA[c], toCA'[c]))
    <3>1. CASE Drops(1) /\ Stream # <<>>
      <4>1. 1 \in 0 .. Len(Stream)
        BY <1>0, <3>1
      <4> QED
        BY <1>0, <1>b, <3>1, <4>1
    <3>2. CASE \E k \in {"nul", "rest"} :
                 Stream # <<>> /\ toCA' = [toCA EXCEPT ![cur] = <<Said(k)>> \o Tail(Stream)]
      BY <1>0, <1>a, <3>2
    <3> QED
      BY <2>2, <3>1, <3>2
  <2> QED
    BY <1>0, <2>1, <2>3, IdleCA DEF Serving, InHand
<1>7. CASE RecvJunk
  <2>1. PICK k \in 0 .. Len(Stream) : Drops(k)
    BY <1>7 DEF RecvJunk
  <2>2. /\ pc = "junk" /\ pc' = "reply" /\ wanted' = 0
        /\ UNCHANGED <<cur, issued, conn, toClient, clientVars>>
    BY <1>7 DEF RecvJunk
  <2> QED
    BY <1>0, <1>b, <2>1, <2>2, IdleCA DEF Serving, InHand
<1>8. CASE ReadSerial \/ WriteSerial
  <2>1. /\ pc \in {"serial", "store"} /\ pc' \in {"store", "sign"}
        /\ UNCHANGED <<cur, wanted, issued, conn, toCA, toClient, clientVars>>
    BY <1>8 DEF ReadSerial, WriteSerial
  <2> QED
    BY <1>0, <2>1, IdleCA DEF Serving, InHand
<1>9. CASE RecvCsr /\ wanted' = 0
  <2>1. /\ pc = "csr" /\ pc' = "reply" /\ wanted' = 0 /\ Stream # <<>>
        /\ UNCHANGED <<cur, issued, conn, toClient, clientVars>>
    BY <1>9 DEF RecvCsr
  <2>2. \/ Drops(1)
        \/ \E k \in {"blank", "rest"} : toCA' = [toCA EXCEPT ![cur] = <<Said(k)>> \o Tail(Stream)]
    BY <1>9 DEF RecvCsr, Stream
  <2>3. \A c \in Clients : toCA'[c] = toCA[c] \/ (c = cur /\ Kept(toCA[c], toCA'[c]))
    <3>1. CASE Drops(1)
      <4>1. 1 \in 0 .. Len(Stream)
        BY <1>0, <2>1
      <4> QED
        BY <1>0, <1>b, <3>1, <4>1
    <3>2. CASE \E k \in {"blank", "rest"} : toCA' = [toCA EXCEPT ![cur] = <<Said(k)>> \o Tail(Stream)]
      BY <1>0, <1>a, <2>1, <3>2
    <3> QED
      BY <2>2, <3>1, <3>2
  <2> QED
    BY <1>0, <2>1, <2>3, IdleCA DEF Serving, InHand
<1>10. CASE Reply /\ wanted = 0
  <2>1. /\ pc = "reply" /\ pc' = "cmd" /\ UNCHANGED <<cur, issued, conn, toCA, clientVars>>
        /\ toClient' = toClient \/ toClient' = [toClient EXCEPT ![cur] = Append(@, NoCert)]
    BY <1>10 DEF Reply, Sends
  <2>2. NoCert \in ReplyType /\ NoCert.nth = 0
    BY MessageTypes DEF NoCert
  <2>3. \A d \in Clients : \/ toClient'[d] = toClient[d]
                           \/ \E m \in ReplyType : m.nth = 0 /\ toClient'[d] = Append(toClient[d], m)
    BY <1>0, <2>1, <2>2
  <2> QED
    BY <1>0, <2>1, <2>3, IdleCA DEF Serving, InHand
<1> QED
  BY <1>1, <1>2, <1>3, <1>4, <1>5, <1>6, <1>7, <1>8, <1>9, <1>10

LEMMA IssuedTypes ==
  ASSUME TypeOK
  PROVE  \A k \in 1 .. Len(issued) : issued[k].to \in Clients /\ issued[k].nth \in Nat
<1>1. \A k \in 1 .. Len(issued) : issued[k] \in IssuedType
  BY DEF TypeOK
<1>2. \A m \in IssuedType : m.to \in Clients /\ m.nth \in Nat
  BY DEF IssuedType
<1> QED
  BY <1>1, <1>2

\* A new connection: nothing is in its stream and the CA does not serve it.
LEMMA ConnectStep ==
  ASSUME TypeOK, RequestInvariant, NEW c \in Clients, Connect(c)
  PROVE  RequestInvariant'
<1> USE DEF RequestInvariant
<1>1. /\ ~Live(c) /\ conn[c] = "none" /\ toCA[c] = <<>> /\ pc # "down"
      /\ UNCHANGED <<pc, cur, wanted, serial, issued, toCA, nreq>>
      /\ cpc' = [cpc EXCEPT ![c] = "hello"] /\ conn' = [conn EXCEPT ![c] = "backlog"]
      /\ toClient' = [toClient EXCEPT ![c] = <<>>]
  BY DEF Connect, Goto, Live, caVars, Streams
<1>2. InHand => cur # c
  BY <1>1 DEF InHand, Serving
<1>3. \A d \in Clients : d # c => cpc'[d] = cpc[d] /\ conn'[d] = conn[d] /\ toClient'[d] = toClient[d]
  BY <1>1 DEF TypeOK
<1>4. cpc'[c] = "hello" /\ conn'[c] = "backlog" /\ toClient'[c] = <<>> /\ Len(toCA[c]) = 0
      /\ Len(toClient'[c]) = 0
  BY <1>1 DEF TypeOK
<1>5. Streams'
  BY <1>1, <1>3, <1>4 DEF Streams, CsrInStream, Issued, Live
<1>6. Serving'
  BY <1>1, <1>3 DEF Serving, TypeOK
<1>7. Handled'
  BY <1>1, <1>2, <1>3 DEF Handled, InHand, Issued, Live, Certificate, TypeOK
<1>8. Requested'
  <2>1. \A k \in 1 .. Len(issued) : issued[k].to \in Clients
    BY IssuedTypes
  <2> QED
    BY <1>1, <1>3, <1>4, <2>1 DEF Requested
<1>9. OneAnswer' /\ AnswersItsRequest'
  BY <1>1, <1>3, <1>4 DEF OneAnswer, AnswersItsRequest, Live
<1>10. OncePerRequest'
  BY <1>1 DEF OncePerRequest
<1> QED
  BY <1>5, <1>6, <1>7, <1>8, <1>9, <1>10

\* A new request: a client at its prompt has none under way.
LEMMA RequestStep ==
  ASSUME TypeOK, RequestInvariant, NEW c \in Clients, Request(c)
  PROVE  RequestInvariant'
<1> USE DEF RequestInvariant
<1>1. /\ cpc[c] = "prompt" /\ Live(c)
      /\ UNCHANGED <<pc, cur, wanted, serial, issued, conn, toClient>>
      /\ cpc' = [cpc EXCEPT ![c] = "subject"] /\ nreq' = [nreq EXCEPT ![c] = @ + 1]
      /\ toCA' = [toCA EXCEPT ![c] = IF conn[c] = "none" THEN <<>> ELSE @ \o <<Said("request_cert")>>]
  BY DEF Request, Goto, Say, Live, caVars
<1>2. InHand => cur # c
  BY <1>1 DEF Handled
<1>3. \A d \in Clients : d # c => cpc'[d] = cpc[d] /\ nreq'[d] = nreq[d] /\ toCA'[d] = toCA[d]
  BY <1>1 DEF TypeOK
<1>4. cpc'[c] = "subject" /\ nreq[c] \in Nat /\ nreq'[c] = nreq[c] + 1
  BY <1>1 DEF TypeOK
<1>5. \A i \in 1 .. Len(toCA'[c]) : toCA'[c][i].nth = 0
  <2>1. toCA[c] \in Seq(SaidType) /\ Said("request_cert") \in SaidType /\ Said("request_cert").nth = 0
    BY MessageTypes DEF TypeOK, Said
  <2>2. \A i \in 1 .. Len(toCA[c]) : toCA[c][i].nth = 0
    BY <1>1 DEF Streams, CsrInStream
  <2>3. toCA'[c] = <<>> \/ toCA'[c] = toCA[c] \o <<Said("request_cert")>>
    BY <1>1 DEF TypeOK
  <2> QED
    BY <2>1, <2>2, <2>3
<1>6. conn[c] = "none" => toCA'[c] = <<>>
  BY <1>1 DEF TypeOK
<1>7. Streams'
  BY <1>1, <1>3, <1>5, <1>6 DEF Streams, CsrInStream, Issued, Live
<1>8. Handled'
  BY <1>1, <1>2, <1>3 DEF Handled, InHand, Issued, Live, Certificate, TypeOK
<1>9. Requested'
  <2>1. \A k \in 1 .. Len(issued) : issued[k].to \in Clients /\ issued[k].nth \in Nat
    BY IssuedTypes
  <2> QED
    BY <1>1, <1>3, <1>4, <2>1 DEF Requested
<1>10. OneAnswer' /\ AnswersItsRequest'
  <2>1. \A i \in 1 .. Len(toClient[c]) : toClient[c][i].nth = 0
    BY <1>1 DEF OneAnswer
  <2> QED
    BY <1>1, <1>3, <2>1 DEF OneAnswer, AnswersItsRequest, Live
<1>11. Serving' /\ OncePerRequest'
  BY <1>1 DEF Serving, OncePerRequest
<1> QED
  BY <1>7, <1>8, <1>9, <1>10, <1>11

\* The CSR goes out: it is the only one in the stream and has no certificate.
LEMMA SendCsrStep ==
  ASSUME TypeOK, RequestInvariant, NEW c \in Clients, SendCsr(c)
  PROVE  RequestInvariant'
<1> USE DEF RequestInvariant
<1>1. /\ cpc[c] = "subject" /\ Live(c)
      /\ UNCHANGED <<pc, cur, wanted, serial, issued, conn, toClient, nreq>>
      /\ cpc' = [cpc EXCEPT ![c] = "wait"]
  BY DEF SendCsr, Goto, Live, caVars
<1>2. InHand => cur # c
  BY <1>1 DEF Handled
<1>3. PICK n \in {0, nreq[c]} :
        \/ UNCHANGED toCA
        \/ toCA' = [toCA EXCEPT ![c] = IF conn[c] = "none" THEN <<>> ELSE @ \o <<Said("len"), Csr(n)>>]
  BY DEF SendCsr, Say
<1>4. \A d \in Clients : d # c => cpc'[d] = cpc[d] /\ toCA'[d] = toCA[d]
  BY <1>1, <1>3 DEF TypeOK
<1>5. cpc'[c] = "wait" /\ nreq[c] \in Nat
  BY <1>1 DEF TypeOK
<1>6. ~Issued(c, nreq[c])
  BY <1>1, <1>5 DEF Requested, Issued
<1>7. \A i \in 1 .. Len(toCA[c]) : toCA[c][i].nth = 0
  BY <1>1 DEF Streams, CsrInStream
<1>8. /\ \A i \in 1 .. Len(toCA'[c]) : toCA'[c][i].nth # 0 => toCA'[c][i].nth = nreq[c] /\ i = Len(toCA'[c])
      /\ conn[c] = "none" => toCA'[c] = <<>>
  <2>1. toCA[c] \in Seq(SaidType)
    BY DEF TypeOK
  <2>2. /\ Said("len") \in SaidType /\ Said("len").nth = 0
        /\ Csr(n) \in SaidType /\ Csr(n).nth = n
    BY <1>5, MessageTypes DEF Said, Csr
  <2>3. CASE UNCHANGED toCA
    BY <1>7, <2>3 DEF Streams
  <2>4. CASE conn[c] = "none" /\ ~UNCHANGED toCA
    <3>1. toCA'[c] = <<>>
      BY <1>3, <2>4 DEF TypeOK
    <3> QED
      BY <3>1
  <2>5. CASE conn[c] # "none" /\ ~UNCHANGED toCA
    <3>1. toCA'[c] = toCA[c] \o <<Said("len"), Csr(n)>>
      BY <1>3, <2>5 DEF TypeOK
    <3>2. /\ Len(toCA'[c]) = Len(toCA[c]) + 2
          /\ \A i \in 1 .. Len(toCA[c]) : toCA'[c][i] = toCA[c][i]
          /\ toCA'[c][Len(toCA[c]) + 1] = Said("len") /\ toCA'[c][Len(toCA[c]) + 2] = Csr(n)
      BY <2>1, <2>2, <3>1
    <3>3. \A i \in 1 .. Len(toCA'[c]) :
            i \in 1 .. Len(toCA[c]) \/ i = Len(toCA[c]) + 1 \/ i = Len(toCA[c]) + 2
      BY <2>1, <3>2
    <3> QED
      BY <1>7, <2>2, <2>5, <3>2, <3>3
  <2> QED
    BY <2>3, <2>4, <2>5
<1>9. Streams'
  <2>1. ASSUME NEW i \in 1 .. Len(toCA'[c]) PROVE CsrInStream(c, i)'
    BY <1>1, <1>5, <1>6, <1>8 DEF CsrInStream, Issued
  <2>2. ASSUME NEW d \in Clients, d # c, NEW i \in 1 .. Len(toCA'[d]) PROVE CsrInStream(d, i)'
    BY <1>1, <1>4, <2>2 DEF Streams, CsrInStream, Issued, Live
  <2> QED
    BY <1>1, <1>4, <1>8, <2>1, <2>2 DEF Streams
<1>10. Handled'
  BY <1>1, <1>2, <1>4 DEF Handled, InHand, Issued, Live, Certificate, TypeOK
<1>11. Requested'
  <2>1. \A k \in 1 .. Len(issued) : issued[k].to \in Clients
    BY IssuedTypes
  <2> QED
    BY <1>1, <1>4, <1>5, <2>1 DEF Requested
<1>12. OneAnswer' /\ AnswersItsRequest'
  <2>1. \A i \in 1 .. Len(toClient[c]) : toClient[c][i].nth = 0
    BY <1>1 DEF OneAnswer
  <2> QED
    BY <1>1, <1>4, <2>1 DEF OneAnswer, AnswersItsRequest, Live
<1>13. Serving' /\ OncePerRequest'
  BY <1>1 DEF Serving, OncePerRequest
<1> QED
  BY <1>9, <1>10, <1>11, <1>12, <1>13

\* The certificate arrives: the request is over, in both streams and at the CA.
LEMMA ReceiveStep ==
  ASSUME TypeOK, RequestInvariant, NEW c \in Clients, Receive(c), Head(toClient[c]).nth # 0
  PROVE  RequestInvariant'
<1> USE DEF RequestInvariant
<1>1. /\ cpc[c] = "wait" /\ Live(c) /\ toClient[c] # <<>>
      /\ UNCHANGED <<pc, cur, wanted, serial, issued, conn, toCA, nreq>>
      /\ toClient' = [toClient EXCEPT ![c] = Tail(@)]
      /\ \E at \in {"prompt", "away"} : cpc' = [cpc EXCEPT ![c] = at]
  BY DEF Receive, Goto, Live, caVars
<1>2. /\ 1 \in 1 .. Len(toClient[c]) /\ toClient[c][1].nth # 0
      /\ Len(Tail(toClient[c])) = Len(toClient[c]) - 1
      /\ \A i \in 1 .. Len(Tail(toClient[c])) : i + 1 \in 1 .. Len(toClient[c])
                                              /\ Tail(toClient[c])[i] = toClient[c][i + 1]
  <2>1. toClient[c] \in Seq(ReplyType)
    BY DEF TypeOK
  <2> QED
    BY <1>1, <2>1
<1>3. \A i \in 1 .. Len(Tail(toClient[c])) : Tail(toClient[c])[i].nth = 0
  <2>1. \A j \in 1 .. Len(toClient[c]) : toClient[c][j].nth # 0 => j = 1
    BY <1>1, <1>2 DEF OneAnswer
  <2> QED
    BY <1>2, <2>1
<1>4. Issued(c, nreq[c])
  <2>1. PICK n \in 1 .. Len(issued) :
          issued[n] = [to |-> c, nth |-> nreq[c], serial |-> toClient[c][1].serial]
    BY <1>1, <1>2 DEF AnswersItsRequest, Live
  <2>2. issued[n].to = c /\ issued[n].nth = nreq[c]
    BY <2>1
  <2> QED
    BY <2>2 DEF Issued
<1>5. InHand => cur # c
  BY <1>1, <1>2, <1>4 DEF Handled
<1>6. \A i \in 1 .. Len(toCA[c]) : toCA[c][i].nth = 0
  BY <1>1, <1>4 DEF Streams, CsrInStream
<1>7. /\ \A d \in Clients : d # c => cpc'[d] = cpc[d] /\ toClient'[d] = toClient[d]
      /\ cpc'[c] \in {"prompt", "away"} /\ toClient'[c] = Tail(toClient[c])
  BY <1>1 DEF TypeOK
<1>8. Streams'
  <2>1. ASSUME NEW d \in Clients, NEW i \in 1 .. Len(toCA[d]) PROVE CsrInStream(d, i)'
    BY <1>1, <1>6, <1>7, <2>1 DEF Streams, CsrInStream, Issued, Live
  <2> QED
    BY <1>1, <2>1 DEF Streams
<1>9. Handled'
  BY <1>1, <1>5, <1>7 DEF Handled, InHand, Issued, Live, Certificate, TypeOK
<1>10. Requested'
  <2>1. \A k \in 1 .. Len(issued) : issued[k].to \in Clients
    BY IssuedTypes
  <2> QED
    BY <1>1, <1>7, <2>1 DEF Requested
<1>11. OneAnswer' /\ AnswersItsRequest'
  <2>1. ASSUME NEW d \in Clients, NEW i \in 1 .. Len(toClient'[d]), toClient'[d][i].nth # 0
        PROVE  d # c /\ cpc'[d] = cpc[d] /\ toClient'[d] = toClient[d]
    BY <1>3, <1>7, <2>1
  <2>2. OneAnswer'
    BY <2>1 DEF OneAnswer, Live
  <2>3. AnswersItsRequest'
    BY <1>1, <2>1 DEF AnswersItsRequest
  <2> QED
    BY <2>2, <2>3
<1>12. Serving' /\ OncePerRequest'
  BY <1>1 DEF Serving, OncePerRequest
<1> QED
  BY <1>8, <1>9, <1>10, <1>11, <1>12

\* sign_cert takes a CSR: it is the only one of its request, and no certificate for
\* it is given or on its way.
LEMMA RecvCsrStep ==
  ASSUME TypeOK, RequestInvariant, RecvCsr, wanted' # 0
  PROVE  RequestInvariant'
<1> USE DEF RequestInvariant
<1>1. /\ pc = "csr" /\ pc' = "serial" /\ Stream # <<>> /\ wanted' = Head(Stream).nth
      /\ UNCHANGED <<cur, serial, issued, conn, toClient, cpc, nreq>>
  BY DEF RecvCsr, clientVars
<1>2. /\ cur \in Clients /\ Stream = toCA[cur] /\ toCA[cur] \in Seq(SaidType) /\ conn[cur] = "open"
  BY <1>1 DEF TypeOK, Stream, Serving
<1>3. 1 \in 1 .. Len(toCA[cur]) /\ toCA[cur][1].nth = wanted' /\ CsrInStream(cur, 1)
  BY <1>1, <1>2 DEF Streams
<1>4. \A j \in 1 .. Len(toCA[cur]) : toCA[cur][j].nth = wanted' => j = 1
  BY <1>3 DEF CsrInStream
<1>5. /\ \A d \in Clients : d # cur => toCA'[d] = toCA[d]
      /\ toCA'[cur] = SubSeq(toCA[cur], 2, Len(toCA[cur]))
           \/ toCA'[cur] = <<Said("blank")>> \o Tail(toCA[cur])
  <2>1. \/ toCA' = [toCA EXCEPT ![cur] = SubSeq(@, 1 + 1, Len(@))]
        \/ toCA' = [toCA EXCEPT ![cur] = <<Said("blank")>> \o Tail(@)]
    BY DEF RecvCsr, Drops
  <2> QED
    BY <2>1 DEF TypeOK
<1>6. PICK k \in {0, 1} : \A j \in 1 .. Len(toCA'[cur]) :
        toCA'[cur][j].nth # 0 => j + k \in 2 .. Len(toCA[cur]) /\ toCA'[cur][j] = toCA[cur][j + k]
  <2>1. CASE toCA'[cur] = SubSeq(toCA[cur], 2, Len(toCA[cur]))
    <3>1. \A j \in 1 .. Len(toCA'[cur]) :
            j + 1 \in 2 .. Len(toCA[cur]) /\ toCA'[cur][j] = toCA[cur][j + 1]
      BY <1>2, <1>3, <2>1, SubSeqProperties
    <3> QED
      BY <3>1
  <2>2. CASE toCA'[cur] = <<Said("blank")>> \o Tail(toCA[cur])
    <3>1. Said("blank") \in SaidType /\ Said("blank").nth = 0
      BY MessageTypes DEF Said
    <3>2. /\ Len(toCA'[cur]) = Len(toCA[cur]) /\ toCA'[cur][1] = Said("blank")
          /\ \A j \in 2 .. Len(toCA[cur]) : toCA'[cur][j] = toCA[cur][j]
      BY <1>2, <1>3, <2>2, <3>1
    <3>3. \A j \in 1 .. Len(toCA'[cur]) :
            toCA'[cur][j].nth # 0 => j + 0 \in 2 .. Len(toCA[cur]) /\ toCA'[cur][j] = toCA[cur][j + 0]
      BY <1>2, <3>1, <3>2
    <3> QED
      BY <3>3
  <2> QED
    BY <1>5, <2>1, <2>2
<1>7. Streams'
  <2>1. ASSUME NEW i \in 1 .. Len(toCA'[cur]), toCA'[cur][i].nth # 0 PROVE CsrInStream(cur, i)'
    <3>1. i + k \in 1 .. Len(toCA[cur]) /\ toCA'[cur][i] = toCA[cur][i + k]
      BY <1>6, <2>1
    <3>2. CsrInStream(cur, i + k)
      BY <1>2, <3>1 DEF Streams
    <3>3. \A j \in 1 .. Len(toCA'[cur]) : toCA'[cur][j].nth = toCA'[cur][i].nth => j = i
      <4> SUFFICES ASSUME NEW j \in 1 .. Len(toCA'[cur]), toCA'[cur][j].nth = toCA'[cur][i].nth
                   PROVE  j = i
        OBVIOUS
      <4>1. j + k \in 1 .. Len(toCA[cur]) /\ toCA[cur][j + k].nth = toCA[cur][i + k].nth
        BY <1>6, <2>1, <3>1
      <4>2. j + k = i + k
        BY <2>1, <3>1, <3>2, <4>1 DEF CsrInStream
      <4> QED
        BY <4>2
    <3>4. /\ toCA'[cur][i].nth <= nreq[cur] /\ ~Issued(cur, toCA'[cur][i].nth)
          /\ Live(cur) => toCA'[cur][i].nth = nreq[cur] /\ cpc[cur] = "wait"
      BY <2>1, <3>1, <3>2 DEF CsrInStream
    <3> QED
      BY <1>1, <3>3, <3>4 DEF CsrInStream, Issued, Live
  <2>2. ASSUME NEW i \in 1 .. Len(toCA'[cur]) PROVE CsrInStream(cur, i)'
    <3>1. CASE toCA'[cur][i].nth = 0
      BY <1>1, <3>1 DEF CsrInStream
    <3> QED
      BY <2>1, <3>1
  <2>3. ASSUME NEW d \in Clients, d # cur, NEW i \in 1 .. Len(toCA'[d]) PROVE CsrInStream(d, i)'
    BY <1>1, <1>5, <2>3 DEF Streams, CsrInStream, Issued, Live
  <2>4. \A d \in Clients : conn'[d] = "none" => toCA'[d] = <<>>
    BY <1>1, <1>2, <1>5 DEF Streams
  <2> QED
    BY <1>1, <2>2, <2>3, <2>4 DEF Streams
<1>8. Handled'
  <2>1. wanted' <= nreq[cur] /\ ~Issued(cur, wanted')
    BY <1>3 DEF CsrInStream
  <2>2. \A i \in 1 .. Len(toCA'[cur]) : toCA'[cur][i].nth # wanted'
    <3> SUFFICES ASSUME NEW i \in 1 .. Len(toCA'[cur]), toCA'[cur][i].nth = wanted' PROVE FALSE
      OBVIOUS
    <3>1. i + k \in 2 .. Len(toCA[cur]) /\ toCA[cur][i + k].nth = wanted'
      BY <1>6
    <3> QED
      BY <1>4, <3>1
  <2>3. Live(cur) => wanted' = nreq[cur] /\ cpc[cur] = "wait"
    BY <1>3 DEF CsrInStream
  <2>4. ASSUME Live(cur), NEW i \in 1 .. Len(toClient[cur]), toClient[cur][i].nth # 0 PROVE FALSE
    <3>1. PICK n \in 1 .. Len(issued) :
            issued[n] = [to |-> cur, nth |-> nreq[cur], serial |-> toClient[cur][i].serial]
      BY <1>2, <2>4 DEF AnswersItsRequest, Live
    <3>2. issued[n].to = cur /\ issued[n].nth = wanted'
      BY <2>3, <2>4, <3>1
    <3> QED
      BY <2>1, <3>2 DEF Issued
  <2> QED
    BY <1>1, <2>1, <2>2, <2>3, <2>4 DEF Handled, Issued, Live
<1>9. Requested' /\ OneAnswer' /\ AnswersItsRequest' /\ OncePerRequest'
  BY <1>1 DEF Requested, OneAnswer, AnswersItsRequest, OncePerRequest, Live
<1>10. Serving'
  BY <1>1, <1>2 DEF Serving
<1> QED
  BY <1>7, <1>8, <1>9, <1>10

\* X509_sign: the first certificate of the request.
LEMMA SignCertStep ==
  ASSUME TypeOK, RequestInvariant, SignCert
  PROVE  RequestInvariant'
<1> USE DEF RequestInvariant
<1>1. /\ pc = "sign" /\ pc' = "reply" /\ issued' = Append(issued, Certificate)
      /\ UNCHANGED <<cur, wanted, serial, conn, toCA, toClient, cpc, nreq>>
  BY DEF SignCert, clientVars
<1>2. /\ wanted # 0 /\ wanted <= nreq[cur] /\ ~Issued(cur, wanted) /\ cur \in Clients
      /\ \A i \in 1 .. Len(toCA[cur]) : toCA[cur][i].nth # wanted
      /\ Live(cur) => /\ wanted = nreq[cur] /\ cpc[cur] = "wait"
                      /\ \A i \in 1 .. Len(toClient[cur]) : toClient[cur][i].nth = 0
  BY <1>1 DEF Handled, InHand, TypeOK
<1>3. /\ Len(issued) \in Nat /\ Len(issued') = Len(issued) + 1
      /\ issued'[Len(issued) + 1] = Certificate
      /\ \A k \in 1 .. Len(issued) : issued'[k] = issued[k]
  BY <1>1, CertificateType DEF TypeOK
<1>4. Certificate.to = cur /\ Certificate.nth = wanted
  BY DEF Certificate
<1>5. \A c, n : Issued(c, n)' => Issued(c, n) \/ (c = cur /\ n = wanted)
  BY <1>3, <1>4 DEF Issued
<1>6. Streams'
  <2>1. ASSUME NEW d \in Clients, NEW i \in 1 .. Len(toCA[d]) PROVE CsrInStream(d, i)'
    <3>1. CsrInStream(d, i)
      BY DEF Streams
    <3>2. toCA[d][i].nth # 0 => ~Issued(d, toCA[d][i].nth) /\ (d = cur => toCA[d][i].nth # wanted)
      BY <1>2, <3>1 DEF CsrInStream
    <3>3. ASSUME toCA[d][i].nth # 0, NEW j \in 1 .. Len(issued'), issued'[j].to = d
          PROVE  issued'[j].nth # toCA[d][i].nth
      BY <1>3, <1>4, <3>2, <3>3 DEF Issued
    <3> QED
      BY <1>1, <3>1, <3>3 DEF CsrInStream, Issued, Live
  <2> QED
    BY <1>1, <2>1 DEF Streams
<1>7. Handled'
  <2>1. Certificate' = Certificate /\ Len(issued) + 1 \in 1 .. Len(issued')
    BY <1>1, <1>3 DEF Certificate
  <2>2. \E k \in 1 .. Len(issued') : issued'[k] = Certificate'
    BY <1>3, <2>1
  <2> QED
    BY <1>1, <1>2, <2>2 DEF Handled, Live
<1>8. Requested'
  <2> SUFFICES ASSUME NEW k \in 1 .. Len(issued'), NEW c, c = issued'[k].to
               PROVE  issued'[k].nth <= nreq[c] /\ (cpc[c] = "subject" => issued'[k].nth < nreq[c])
    BY <1>1 DEF Requested
  <2>1. CASE k \in 1 .. Len(issued)
    BY <1>3, <2>1 DEF Requested
  <2>2. CASE k = Len(issued) + 1
    BY <1>2, <1>3, <1>4, <2>2 DEF Live
  <2> QED
    BY <1>3, <2>1, <2>2
<1>9. OneAnswer'
  BY <1>1 DEF OneAnswer, Live
<1>10. AnswersItsRequest'
  <2> SUFFICES ASSUME NEW c \in Clients, NEW i \in 1 .. Len(toClient[c]), toClient[c][i].nth # 0, Live(c)
               PROVE  /\ toClient[c][i].nth = nreq[c]
                      /\ \E n \in 1 .. Len(issued') :
                           issued'[n] = [to |-> c, nth |-> nreq[c], serial |-> toClient[c][i].serial]
    BY <1>1 DEF AnswersItsRequest, Live
  <2>1. PICK n \in 1 .. Len(issued) :
          issued[n] = [to |-> c, nth |-> nreq[c], serial |-> toClient[c][i].serial]
    BY DEF AnswersItsRequest, Live
  <2>2. n \in 1 .. Len(issued') /\ issued'[n] = issued[n]
    BY <1>3
  <2>3. toClient[c][i].nth = nreq[c]
    BY DEF AnswersItsRequest, Live
  <2> QED
    BY <2>1, <2>2, <2>3
<1>11. OncePerRequest'
  <2> SUFFICES ASSUME NEW i \in 1 .. Len(issued'), NEW j \in 1 .. Len(issued'),
                      issued'[i].to = issued'[j].to, issued'[i].nth = issued'[j].nth
               PROVE  i = j
    BY DEF OncePerRequest
  <2>1. \A k \in 1 .. Len(issued) : issued[k].to = cur => issued[k].nth # wanted
    BY <1>2 DEF Issued
  <2>2. CASE i \in 1 .. Len(issued) /\ j \in 1 .. Len(issued)
    BY <1>3, <2>2 DEF OncePerRequest
  <2>3. CASE i \in 1 .. Len(issued) /\ j = Len(issued) + 1
    BY <1>3, <1>4, <2>1, <2>3
  <2>4. CASE j \in 1 .. Len(issued) /\ i = Len(issued) + 1
    BY <1>3, <1>4, <2>1, <2>4
  <2> QED
    BY <1>3, <2>2, <2>3, <2>4
<1>12. Serving'
  BY <1>1 DEF Serving
<1> QED
  BY <1>6, <1>7, <1>8, <1>9, <1>10, <1>11, <1>12

\* The certificate goes out, to a client that waits for it and has no other coming.
LEMMA ReplyStep ==
  ASSUME TypeOK, RequestInvariant, Reply, wanted # 0
  PROVE  RequestInvariant'
<1> USE DEF RequestInvariant
<1>1. /\ pc = "reply" /\ pc' = "cmd"
      /\ \/ Live(cur) /\ toClient' = [toClient EXCEPT ![cur] = Append(@, Pem(wanted, serial))]
         \/ ~Live(cur) /\ UNCHANGED toClient
      /\ UNCHANGED <<cur, wanted, serial, issued, conn, toCA, cpc, nreq>>
  BY DEF Reply, Sends, Live, clientVars
<1>2. /\ cur \in Clients
      /\ \E k \in 1 .. Len(issued) : issued[k] = Certificate
      /\ Live(cur) => /\ wanted = nreq[cur] /\ cpc[cur] = "wait"
                      /\ \A i \in 1 .. Len(toClient[cur]) : toClient[cur][i].nth = 0
  BY <1>1 DEF Handled, InHand, TypeOK
<1>3. Streams' /\ Requested' /\ OncePerRequest'
  BY <1>1 DEF Streams, CsrInStream, Requested, OncePerRequest, Issued, Live
<1>4. Serving' /\ Handled'
  BY <1>1 DEF Serving, Handled, InHand
<1>5. \A d \in Clients : d # cur => toClient'[d] = toClient[d]
  BY <1>1 DEF TypeOK
<1>6. ASSUME Live(cur), NEW i \in 1 .. Len(toClient'[cur]), toClient'[cur][i].nth # 0
      PROVE  i = Len(toClient'[cur]) /\ toClient'[cur][i] = Pem(wanted, serial)
  <2>1. toClient[cur] \in Seq(ReplyType) /\ Pem(wanted, serial) \in ReplyType
    BY <1>2, MessageTypes DEF TypeOK
  <2>2. toClient'[cur] = Append(toClient[cur], Pem(wanted, serial))
    BY <1>1, <1>2, <1>6 DEF TypeOK
  <2>3. /\ Len(toClient'[cur]) = Len(toClient[cur]) + 1 /\ Len(toClient[cur]) \in Nat
        /\ toClient'[cur][Len(toClient[cur]) + 1] = Pem(wanted, serial)
        /\ \A j \in 1 .. Len(toClient[cur]) : toClient'[cur][j] = toClient[cur][j]
    BY <2>1, <2>2
  <2> QED
    BY <1>2, <1>6, <2>3
<1>7. OneAnswer'
  <2> SUFFICES ASSUME NEW c \in Clients, NEW i \in 1 .. Len(toClient'[c]),
                      Live(c), toClient'[c][i].nth # 0
               PROVE  /\ cpc[c] = "wait"
                      /\ \A j \in 1 .. Len(toClient'[c]) : toClient'[c][j].nth # 0 => j = i
    BY <1>1 DEF OneAnswer, Live
  <2>1. CASE c = cur
    BY <1>2, <1>6, <2>1
  <2>2. CASE c # cur
    BY <1>5, <2>2 DEF OneAnswer
  <2> QED
    BY <2>1, <2>2
<1>8. AnswersItsRequest'
  <2> SUFFICES ASSUME NEW c \in Clients, NEW i \in 1 .. Len(toClient'[c]),
                      Live(c), toClient'[c][i].nth # 0
               PROVE  /\ toClient'[c][i].nth = nreq[c]
                      /\ \E n \in 1 .. Len(issued) :
                           issued[n] = [to |-> c, nth |-> nreq[c], serial |-> toClient'[c][i].serial]
    BY <1>1 DEF AnswersItsRequest, Live
  <2>1. CASE c = cur
    <3>1. toClient'[c][i] = Pem(wanted, serial) /\ wanted = nreq[c]
      BY <1>2, <1>6, <2>1
    <3>2. Pem(wanted, serial).nth = wanted /\ Pem(wanted, serial).serial = serial
      BY DEF Pem
    <3>3. Certificate = [to |-> c, nth |-> nreq[c], serial |-> serial]
      BY <2>1, <3>1 DEF Certificate
    <3> QED
      BY <1>2, <3>1, <3>2, <3>3
  <2>2. CASE c # cur
    BY <1>5, <2>2 DEF AnswersItsRequest, Live
  <2> QED
    BY <2>1, <2>2
<1> QED
  BY <1>3, <1>4, <1>7, <1>8

\* Every step keeps a request's CSR and its certificate together.
LEMMA RequestInvariantStep ==
  ASSUME TypeOK, RequestInvariant, [Next]_vars
  PROVE  RequestInvariant'
<1>1. ASSUME NEW c \in Clients, User(c) \/ ClientReads(c) PROVE RequestInvariant'
  <2>1. CASE Hello(c) \/ Exit(c) \/ Drop(c) \/ Lost(c) \/ (Receive(c) /\ Head(toClient[c]).nth = 0)
    BY <2>1, IdleClient
  <2> QED
    BY <1>1, <2>1, ConnectStep, RequestStep, SendCsrStep, ReceiveStep DEF User, ClientReads
<1>2. CASE CAStep \/ Crash \/ Restart
  BY <1>2, IdleCASteps, RecvCsrStep, SignCertStep, ReplyStep DEF CAStep
<1>3. CASE UNCHANGED vars
  <2>1. UNCHANGED <<pc, cur, wanted, serial, issued, conn, toCA, toClient, cpc, nreq>>
    BY <1>3 DEF vars, caVars, clientVars
  <2>2. Streams' /\ Serving' /\ Handled'
    BY <2>1 DEF RequestInvariant, Streams, CsrInStream, Serving, Handled, InHand, Issued, Live,
                Certificate
  <2>3. Requested' /\ OneAnswer' /\ OncePerRequest' /\ AnswersItsRequest'
    BY <2>1 DEF RequestInvariant, Requested, OneAnswer, OncePerRequest, AnswersItsRequest, Live
  <2> QED
    BY <2>2, <2>3 DEF RequestInvariant
<1> QED
  BY <1>1, <1>2, <1>3 DEF Next

LEMMA RequestInvariantHolds == Spec => []RequestInvariant
<1>1. Init => RequestInvariant
  <2> SUFFICES ASSUME Init PROVE RequestInvariant
    OBVIOUS
  <2>1. /\ Len(issued) = 0 /\ pc = "accept"
        /\ \A c \in Clients : toCA[c] = <<>> /\ Len(toCA[c]) = 0 /\ Len(toClient[c]) = 0
    BY DEF Init
  <2> QED
    BY <2>1 DEF RequestInvariant, Streams, Serving, Handled, InHand, Requested, OneAnswer,
                OncePerRequest, AnswersItsRequest
<1>2. TypeOK /\ RequestInvariant /\ [Next]_vars => RequestInvariant'
  BY RequestInvariantStep
<1> QED
  BY <1>1, <1>2, TypeCorrect, PTL DEF Spec

\* No request is certified twice: for any number of clients and requests, however
\* the stream is cut, whatever is read again as a command, and through every death
\* and restart of the CA.
THEOREM CertifiedOnce == Spec => []OncePerRequest
<1>1. RequestInvariant => OncePerRequest
  BY DEF RequestInvariant
<1> QED
  BY <1>1, RequestInvariantHolds, PTL

\* And a certificate that is on its way to a client was signed for the request that
\* the client made last: what save_cert stores is never another request's.
THEOREM AnswerIsRequests == Spec => []AnswersItsRequest
<1>1. RequestInvariant => AnswersItsRequest
  BY DEF RequestInvariant
<1> QED
  BY <1>1, RequestInvariantHolds, PTL
=============================================================================
