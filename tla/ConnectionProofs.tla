-------------------------- MODULE ConnectionProofs --------------------------
(***************************************************************************)
(* Lemmas about what passes on a connection: the streams, the messages and *)
(* the signatures.  The proofs about upload and download rest on them.     *)
(***************************************************************************)
EXTENDS Connection, Signature, TLAPS, SequenceTheorems

\* What receiving takes from a stream: its first message.
LEMMA Received ==
  ASSUME NEW S, NEW s \in Seq(S), s # <<>>
  PROVE  /\ Len(s) \in Nat /\ Len(s) >= 1
         /\ Head(s) = s[1] /\ s[1] \in S
         /\ Tail(s) \in Seq(S) /\ Len(Tail(s)) = Len(s) - 1
         /\ \A i \in 1 .. Len(s) - 1 : Tail(s)[i] = s[i + 1]
  BY SMT

\* After its only message a stream is empty.
LEMMA LastReceived ==
  ASSUME NEW S, NEW s \in Seq(S), Len(s) = 1
  PROVE  Tail(s) = <<>>
  <1>1. s # <<>>
    OBVIOUS
  <1>2. Tail(s) = SubSeq(s, 2, 1)
    BY <1>1, TailIsSubSeq
  <1> QED
    BY <1>2, SubSeqEmpty

\* What sending adds to a stream: one message at its end.
LEMMA Sent ==
  ASSUME NEW S, NEW s \in Seq(S), NEW m \in S
  PROVE  /\ Append(s, m) \in Seq(S) /\ Len(s) \in Nat /\ Len(Append(s, m)) = Len(s) + 1
         /\ \A i \in 1 .. Len(s) : Append(s, m)[i] = s[i]
         /\ Append(s, m)[Len(s) + 1] = m
  BY SMT

\* Two messages at its end.
LEMMA SentTwo ==
  ASSUME NEW S, NEW s \in Seq(S), NEW m \in S, NEW n \in S
  PROVE  /\ s \o <<m, n>> \in Seq(S) /\ Len(s) \in Nat /\ Len(s \o <<m, n>>) = Len(s) + 2
         /\ \A i \in 1 .. Len(s) : (s \o <<m, n>>)[i] = s[i]
         /\ (s \o <<m, n>>)[Len(s) + 1] = m
         /\ (s \o <<m, n>>)[Len(s) + 2] = n
  BY SMT

\* A message built from well-typed parts is one of the protocol's.
LEMMA Messages ==
  /\ Cmd("put") \in Message /\ Cmd("get") \in Message /\ Cmd("pwd") \in Message
  /\ Rest \in Message
  /\ \A n \in Int : Num(n) \in Message /\ Num(n) \in [kind : {"num"}, num : Int]
  /\ \A n \in {0, 1} : Info(1, n) \in Message
  /\ \A c \in Content, sign \in Signs : Body(c, sign) \in Message
<1>1. ASSUME NEW name \in Commands PROVE Cmd(name) \in Message
  <2>1. Cmd(name) \in [kind : {"cmd"}, name : Commands]
    BY DEF Cmd
  <2> QED
    BY <2>1 DEF Message
<1>2. \A n \in Int : Num(n) \in Message /\ Num(n) \in [kind : {"num"}, num : Int]
  BY DEF Num, Message
<1>3. ASSUME NEW n \in {0, 1} PROVE Info(1, n) \in Message
  <2>1. LengthInfo(1, n) \in Lengths
    BY DEF LengthInfo, Lengths
  <2> QED
    BY <2>1 DEF Info, Message
<1>4. \A c \in Content, sign \in Signs : Body(c, sign) \in Message
  BY DEF Body, Message
<1>5. Rest \in Message
  BY DEF Message
<1> QED
  BY <1>1, <1>2, <1>3, <1>4, <1>5 DEF Commands

\* The fields of a message are of the types its kind says.
LEMMA Fields ==
  ASSUME NEW m \in Message
  PROVE  /\ m.kind \in {"cmd", "num", "info", "body", "rest"}
         /\ m.kind = "num" => m.num \in Int
         /\ m.kind = "info" => m.len \in Lengths
         /\ m.kind = "body" => m.data \in Content /\ m.sign \in Signs
<1>1. CASE m \in [kind : {"cmd"}, name : Commands]
  BY <1>1
<1>2. CASE m \in [kind : {"num"}, num : Int]
  BY <1>2
<1>3. CASE m \in [kind : {"info"}, len : Lengths]
  BY <1>3
<1>4. CASE m \in [kind : {"body"}, data : Content, sign : Signs]
  BY <1>4
<1>5. CASE m = Rest
  BY <1>5 DEF Rest
<1> QED
  BY <1>1, <1>2, <1>3, <1>4, <1>5 DEF Message

\* ecdsa_sign yields no signature or one over the contents it was given.
LEMMA SignatureType ==
  ASSUME NEW c \in Content, NEW unreadable \in BOOLEAN, NEW sign \in Sign(c, unreadable)
  PROVE  /\ sign \in Signs /\ Len(sign) \in {0, 1}
         /\ ~unreadable => sign = <<c>>
  BY SMT DEF Sign, NoSignature, Signs

\* A length nobody has written is still a length.
LEMMA JunkType == Junk \subseteq Int /\ JunkInfo \subseteq Lengths
  BY ConnectionAssumption DEF JunkInfo, Lengths

\* With both keys and a signature over it, exactly the contents signed are accepted.
LEMMA AcceptsSigned ==
  ASSUME NEW c, NEW data, Accepts(TRUE, data, <<c>>)
  PROVE  data = c
  BY DEF Accepts, Verify, NoSignature
=============================================================================
