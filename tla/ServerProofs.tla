--------------------------- MODULE ServerProofs ---------------------------
(* Theorems about Server. *)
EXTENDS Server, FiniteSetTheorems, TLAPS

\* What the three kinds of entry in the descriptor table are.
LEMMA Entries ==
  /\ \A c : Free # Socket(c) /\ Free # FileOf(c) /\ Socket(c).kind = "socket" /\ FileOf(c).kind = "file"
  /\ \A c, d : Socket(c) # FileOf(d)
  /\ \A c, d : (Socket(c) = Socket(d) => c = d) /\ (FileOf(c) = FileOf(d) => c = d)
  /\ \A c : Socket(c).of = c
  BY DEF Free, Socket, FileOf

LEMMA SendType ==
  ASSUME TypeOK, NEW c \in Clients, Send(c)
  PROVE  alive' \in BOOLEAN /\ reset' \in [Clients -> BOOLEAN]
  <1>1. CASE UNCHANGED <<alive, reset>>
    BY <1>1 DEF TypeOK
  <1>2. CASE alive' = FALSE /\ UNCHANGED reset
    BY <1>2 DEF TypeOK
  <1>3. CASE UNCHANGED alive /\ \E r \in BOOLEAN : reset' = [reset EXCEPT ![Peer(c)] = r]
    BY <1>3 DEF TypeOK
  <1> QED
    BY <1>1, <1>2, <1>3, Zenon DEF Send

LEMMA TypeStep ==
  ASSUME TypeOK, [ServerNext]_vars
  PROVE  TypeOK'
  <1> USE DEF TypeOK
  <1>1. ASSUME NEW c \in Clients, Connect(c) PROVE TypeOK'
    BY <1>1 DEF Connect, mainVars, countVars, threadVars
  <1>2. ASSUME NEW c \in Clients, Get(c) PROVE TypeOK'
    BY <1>2 DEF Get, mainVars, countVars, threadVars
  <1>3. ASSUME NEW c \in Clients, Exit(c) PROVE TypeOK'
    BY <1>3 DEF Exit, mainVars, countVars, threadVars
  <1>4. ASSUME NEW c \in Clients, Drop(c) PROVE TypeOK'
    BY <1>4 DEF Drop, mainVars, countVars, threadVars
  <1>5. ASSUME NEW c \in Clients, Accept(c) PROVE TypeOK'
    BY <1>5 DEF Accept, countVars
  <1>6. CASE MainLock
    BY <1>6 DEF MainLock, threadVars, clientVars
  <1>7. CASE MainCount
    BY <1>7 DEF MainCount, threadVars, clientVars
  <1>8. CASE MainCreate
    BY <1>8 DEF MainCreate, countVars, clientVars
  <1>9. ASSUME NEW c \in Clients, Hello(c) PROVE TypeOK'
    BY <1>9, SendType DEF Hello, Taken, Goto, mainVars, countVars
  <1>10. ASSUME NEW c \in Clients, RecvGet(c) PROVE TypeOK'
    <2>1. CASE OpenFile(c) /\ Goto(c, "status") /\ UNCHANGED <<alive, reset>>
      <3>1. PICK f \in Fds : open' = [open EXCEPT ![f] = FileOf(c)] /\ ffd' = [ffd EXCEPT ![c] = f]
        BY <2>1 DEF OpenFile
      <3>2. open' \in [Fds -> {Free} \cup {Socket(d) : d \in Clients} \cup {FileOf(d) : d \in Clients}]
        BY <3>1
      <3>3. ffd' \in [Clients -> Fds \cup {0}]
        BY <3>1
      <3>4. tpc' = [tpc EXCEPT ![c] = "status"] /\ sends' = [sends EXCEPT ![Peer(c)] = "nothing"]
        BY <1>10, <2>1 DEF RecvGet, Taken, Goto
      <3>5. UNCHANGED <<alive, mpc, cur, mutx, cnt, seen, sock, peer, left, reset>>
        BY <1>10, <2>1 DEF RecvGet, mainVars, countVars
      <3> QED
        BY <3>2, <3>3, <3>4, <3>5
    <2>2. CASE Send(c) /\ UNCHANGED <<open, ffd, tpc>>
      BY <1>10, <2>2, SendType DEF RecvGet, Taken, mainVars, countVars
    <2> QED
      BY <1>10, <2>1, <2>2 DEF RecvGet
  <1>11. ASSUME NEW c \in Clients, SendStatus(c) PROVE TypeOK'
    BY <1>11, SendType DEF SendStatus, Goto, mainVars, countVars
  <1>12. ASSUME NEW c \in Clients, SendData(c) PROVE TypeOK'
    BY <1>12, SendType DEF SendData, Close, Goto, mainVars, countVars
  <1>13. ASSUME NEW c \in Clients, RecvExit(c) PROVE TypeOK'
    BY <1>13 DEF RecvExit, Taken, Close, Goto, mainVars, countVars
  <1>14. ASSUME NEW c \in Clients, RecvEnd(c) PROVE TypeOK'
    BY <1>14 DEF RecvEnd, Goto, mainVars, countVars, clientVars
  <1>15. ASSUME NEW c \in Clients, CloseSocket(c) PROVE TypeOK'
    BY <1>15 DEF CloseSocket, Close, Goto, mainVars, countVars, clientVars
  <1>16. ASSUME NEW c \in Clients, ThreadLock(c) PROVE TypeOK'
    BY <1>16 DEF ThreadLock, Goto, mainVars, clientVars
  <1>17. ASSUME NEW c \in Clients, ThreadCount(c) PROVE TypeOK'
    BY <1>17 DEF ThreadCount, Goto, mainVars, clientVars
  <1>18. CASE UNCHANGED vars
    BY <1>18 DEF vars, mainVars, countVars, threadVars, clientVars
  <1> QED
    BY <1>1, <1>2, <1>3, <1>4, <1>5, <1>6, <1>7, <1>8, <1>9, <1>10, <1>11, <1>12, <1>13,
       <1>14, <1>15, <1>16, <1>17, <1>18
    DEF ServerNext, Client, Main, Thread

\* The process's tables and the threads' locals keep their types.
THEOREM TypeCorrect == ServerSpec => []TypeOK
<1>1. ServerInit => TypeOK
  BY DEF ServerInit, TypeOK
<1>2. TypeOK /\ [ServerNext]_vars => TypeOK'
  BY TypeStep
<1> QED
  BY <1>1, <1>2, PTL DEF ServerSpec

----------------------------------------------------------------------------

\* The sets Counted and Running are finite, and what a step adds or takes out.
LEMMA CountedFinite == Counted \in SUBSET Clients /\ IsFiniteSet(Counted)
  BY ServerAssumption, FS_Subset DEF Counted, Running

LEMMA CountStep ==
  ASSUME TypeOK, CountInvariant, [ServerNext]_vars
  PROVE  CountInvariant'
  <1> USE DEF CountInvariant
  <1>a. ASSUME Counted' = Counted, cnt' = cnt PROVE CountExact'
    BY <1>a DEF CountExact
  <1>1. ASSUME NEW c \in Clients, Client(c) PROVE CountInvariant'
    <2>1. UNCHANGED <<mainVars, countVars, tpc>> /\ (peer' = peer \/ (peer[c] = "away" /\ peer' = [peer EXCEPT ![c] = "pending"]))
      BY <1>1 DEF Client, Connect, Get, Exit, Drop, threadVars
    <2>2. MutexHeld'
      BY <2>1 DEF MutexHeld, mainVars, countVars
    <2>3. ThreadsStart'
      BY <2>1 DEF ThreadsStart, mainVars, TypeOK
    <2>4. Counted' = Counted /\ cnt' = cnt
      BY <2>1 DEF Counted, Running, mainVars, countVars
    <2> QED
      BY <1>a, <2>2, <2>3, <2>4
  <1>2. ASSUME NEW c \in Clients, Accept(c) PROVE CountInvariant'
    <2>1. /\ mpc = "accept" /\ mpc' = "lock" /\ cur' = c /\ peer[c] = "pending"
          /\ peer' = [peer EXCEPT ![c] = "up"] /\ UNCHANGED <<countVars, tpc>>
      BY <1>2 DEF Accept
    <2>2. MutexHeld'
      BY <2>1 DEF MutexHeld, countVars
    <2>3. ThreadsStart'
      BY <2>1 DEF ThreadsStart, TypeOK
    <2>4. Counted' = Counted /\ cnt' = cnt
      BY <2>1 DEF Counted, Running, countVars
    <2> QED
      BY <1>a, <2>2, <2>3, <2>4
  <1>3. CASE MainLock
    <2>1. MutexHeld'
      BY <1>3, ServerAssumption DEF MainLock, MutexHeld, threadVars
    <2>2. ThreadsStart'
      BY <1>3 DEF MainLock, ThreadsStart, threadVars, clientVars
    <2>3. Counted' = Counted /\ cnt' = cnt
      BY <1>3 DEF MainLock, Counted, Running, threadVars
    <2> QED
      BY <1>a, <2>1, <2>2, <2>3
  <1>4. CASE MainCount
    <2>1. MutexHeld'
      BY <1>4, ServerAssumption DEF MainCount, MutexHeld, threadVars
    <2>2. ThreadsStart'
      BY <1>4 DEF MainCount, ThreadsStart, threadVars, clientVars
    <2>3. Counted' = Counted \cup {cur} /\ cur \notin Counted
      BY <1>4 DEF MainCount, Counted, Running, ThreadsStart, threadVars
    <2>4. Cardinality(Counted') = Cardinality(Counted) + 1
      BY <2>3, CountedFinite, FS_AddElement
    <2>5. cnt' = cnt + 1
      BY <1>4, ServerAssumption DEF MainCount, MutexHeld
    <2> QED
      BY <2>1, <2>2, <2>4, <2>5 DEF CountExact
  <1>5. CASE MainCreate
    <2>1. \E how \in {"hello", "lost"} : tpc' = [tpc EXCEPT ![cur] = how]
      BY <1>5 DEF MainCreate
    <2>2. MutexHeld'
      BY <1>5, <2>1 DEF MainCreate, MutexHeld, ThreadsStart, countVars, TypeOK
    <2>3. ThreadsStart'
      BY <1>5, <2>1 DEF MainCreate, ThreadsStart, clientVars, TypeOK
    <2>4. Counted' = Counted /\ cnt' = cnt
      BY <1>5, <2>1 DEF MainCreate, Counted, Running, ThreadsStart, countVars, TypeOK
    <2> QED
      BY <1>a, <2>2, <2>3, <2>4
  <1>6. ASSUME NEW c \in Clients,
               Hello(c) \/ RecvGet(c) \/ SendStatus(c) \/ SendData(c)
                 \/ RecvExit(c) \/ RecvEnd(c) \/ CloseSocket(c)
        PROVE  CountInvariant'
    <2>1. /\ UNCHANGED <<mainVars, countVars, peer>>
          /\ tpc[c] \in {"hello", "cmd", "status", "data", "close", "again"}
          /\ \E pc \in {"cmd", "status", "data", "close", "again", "lock"} : tpc' = [tpc EXCEPT ![c] = pc]
      <3>1. CASE RecvGet(c)
        BY <3>1 DEF RecvGet, At, Goto, TypeOK
      <3>2. CASE Hello(c) \/ SendStatus(c) \/ SendData(c) \/ RecvExit(c)
        BY <3>2 DEF Hello, SendStatus, SendData, RecvExit, At, Goto
      <3>3. CASE RecvEnd(c) \/ CloseSocket(c)
        BY <3>3 DEF RecvEnd, CloseSocket, At, Goto, clientVars
      <3> QED
        BY <1>6, <3>1, <3>2, <3>3
    <2>2. MutexHeld'
      BY <2>1 DEF MutexHeld, mainVars, countVars, TypeOK
    <2>3. ThreadsStart'
      BY <2>1 DEF ThreadsStart, mainVars, TypeOK
    <2>4. Counted' = Counted /\ cnt' = cnt
      BY <2>1 DEF Counted, Running, mainVars, countVars, TypeOK
    <2> QED
      BY <1>a, <2>2, <2>3, <2>4
  <1>7. ASSUME NEW c \in Clients, ThreadLock(c) PROVE CountInvariant'
    <2>1. MutexHeld'
      BY <1>7, ServerAssumption DEF ThreadLock, At, Goto, MutexHeld, mainVars, TypeOK
    <2>2. ThreadsStart'
      BY <1>7 DEF ThreadLock, At, Goto, ThreadsStart, mainVars, clientVars
    <2>3. Counted' = Counted /\ cnt' = cnt
      BY <1>7 DEF ThreadLock, At, Goto, Counted, Running, mainVars
    <2> QED
      BY <1>a, <2>1, <2>2, <2>3
  <1>8. ASSUME NEW c \in Clients, ThreadCount(c) PROVE CountInvariant'
    <2>1. MutexHeld'
      BY <1>8, ServerAssumption DEF ThreadCount, At, Goto, MutexHeld, mainVars, TypeOK
    <2>2. ThreadsStart'
      BY <1>8 DEF ThreadCount, At, Goto, ThreadsStart, mainVars, clientVars
    <2>3. Counted' = Counted \ {c} /\ c \in Counted
      BY <1>8 DEF ThreadCount, At, Goto, Counted, Running, ThreadsStart, mainVars, TypeOK
    <2>4. Cardinality(Counted') = Cardinality(Counted) - 1
      BY <2>3, CountedFinite, FS_RemoveElement
    <2>5. cnt' = cnt - 1
      BY <1>8, ServerAssumption DEF ThreadCount, At, MutexHeld
    <2> QED
      BY <2>1, <2>2, <2>4, <2>5 DEF CountExact
  <1>9. CASE UNCHANGED vars
    <2>1. MutexHeld' /\ ThreadsStart'
      BY <1>9 DEF vars, mainVars, countVars, threadVars, clientVars, MutexHeld, ThreadsStart
    <2>2. Counted' = Counted /\ cnt' = cnt
      BY <1>9 DEF vars, mainVars, countVars, threadVars, Counted, Running
    <2> QED
      BY <1>a, <2>1, <2>2
  <1> QED
    BY <1>1, <1>2, <1>3, <1>4, <1>5, <1>6, <1>7, <1>8, <1>9 DEF ServerNext, Main, Thread

LEMMA CountInvariantHolds == ServerSpec => [](TypeOK /\ CountInvariant)
<1>1. ServerInit => CountInvariant
  <2> SUFFICES ASSUME ServerInit PROVE CountInvariant
    OBVIOUS
  <2>1. Counted = {} /\ cnt = 0
    BY DEF ServerInit, Counted, Running
  <2>2. MutexHeld /\ ThreadsStart
    BY ServerAssumption DEF ServerInit, MutexHeld, ThreadsStart
  <2> QED
    BY <2>1, <2>2, FS_EmptySet DEF CountInvariant, CountExact
<1>2. TypeOK /\ CountInvariant /\ [ServerNext]_vars => CountInvariant'
  BY CountStep
<1> QED
  BY <1>1, <1>2, TypeCorrect, PTL DEF ServerSpec

\* For any number of clients and descriptors, and however they leave, clnt_cnt is
\* the number of clients between their ++ and their --.
THEOREM CountIsExact == ServerSpec => []CountExact
<1>1. CountInvariant => CountExact
  BY DEF CountInvariant
<1> QED
  BY <1>1, CountInvariantHolds, PTL

----------------------------------------------------------------------------

LEMMA InHandStep ==
  ASSUME TypeOK, ThreadsStart, InHand, [ServerNext]_vars
  PROVE  InHand'
  <1> USE ServerAssumption DEF InHand, TypeOK
  <1>1. ASSUME NEW c \in Clients, Client(c) PROVE InHand'
    BY <1>1 DEF Client, Connect, Get, Exit, Drop, mainVars, threadVars
  <1>2. ASSUME NEW c \in Clients, Accept(c) PROVE InHand'
    BY <1>2 DEF Accept
  <1>3. CASE MainLock \/ MainCount
    BY <1>3 DEF MainLock, MainCount, threadVars
  <1>4. CASE MainCreate
    BY <1>4 DEF MainCreate, ThreadsStart
  <1>5. ASSUME NEW c \in Clients, RecvGet(c) PROVE InHand'
    BY <1>5 DEF RecvGet, OpenFile, At, Goto, mainVars
  <1>6. ASSUME NEW c \in Clients, Hello(c) \/ SendStatus(c) \/ SendData(c) \/ RecvExit(c)
        PROVE  InHand'
    BY <1>6 DEF Hello, SendStatus, SendData, RecvExit, At, Goto, mainVars
  <1>7. ASSUME NEW c \in Clients, RecvEnd(c) \/ CloseSocket(c) \/ ThreadLock(c) \/ ThreadCount(c)
        PROVE  InHand'
    BY <1>7 DEF RecvEnd, CloseSocket, ThreadLock, ThreadCount, At, Goto, mainVars
  <1>8. CASE UNCHANGED vars
    BY <1>8 DEF vars, mainVars, threadVars
  <1> QED
    BY <1>1, <1>2, <1>3, <1>4, <1>5, <1>6, <1>7, <1>8 DEF ServerNext, Main, Thread

\* A thread that closes a descriptor it owns takes it from no other thread.
LEMMA ClosesItsOwn ==
  ASSUME TypeOK, InHand, NEW d \in Clients, NEW c \in Clients, c # d, Owns(c), NEW f \in Fds,
         open[f] \in {Socket(d), FileOf(d)}, Close(f), UNCHANGED <<cur, sock, ffd>>, tpc'[c] = tpc[c]
  PROVE  Owns(c)'
  BY Entries DEF TypeOK, InHand, Owns, Close

LEMMA LossStep ==
  ASSUME TypeOK, ThreadsStart, InHand, [ServerNext]_vars, NEW c \in Clients, Owns(c), ~Owns(c)'
  PROVE  \E d \in Clients : tpc'[d] # tpc[d] /\ (At(d, "again") \/ ~Owns(d))
  <1> USE Entries, ServerAssumption DEF TypeOK
  <1>1. ASSUME NEW d \in Clients, Client(d) PROVE FALSE
    BY <1>1 DEF Client, Connect, Get, Exit, Drop, mainVars, threadVars, Owns
  <1>2. ASSUME NEW d \in Clients, Accept(d) PROVE FALSE
    BY <1>2 DEF Accept, Lowest, FreeFds, ThreadsStart, InHand, Owns
  <1>3. CASE MainLock \/ MainCount
    BY <1>3 DEF MainLock, MainCount, threadVars, Owns
  <1>4. CASE MainCreate
    BY <1>4 DEF MainCreate, ThreadsStart, Owns
  <1>5. ASSUME NEW d \in Clients, RecvGet(d) PROVE FALSE
    <2>1. CASE OpenFile(d) /\ Goto(d, "status") /\ UNCHANGED <<alive, reset>>
      <3>1. PICK f \in Fds : /\ open[f] = Free /\ open' = [open EXCEPT ![f] = FileOf(d)]
                             /\ ffd' = [ffd EXCEPT ![d] = f]
        BY <2>1 DEF OpenFile, Lowest, FreeFds
      <3>2. /\ tpc[d] = "cmd" /\ tpc' = [tpc EXCEPT ![d] = "status"]
            /\ UNCHANGED <<sock, cur>>
        BY <1>5, <2>1 DEF RecvGet, At, Goto, mainVars
      <3> QED
        BY <3>1, <3>2 DEF InHand, Owns
    <2>2. CASE Send(d) /\ UNCHANGED <<open, ffd, tpc>>
      BY <1>5, <2>2 DEF RecvGet, mainVars, Owns
    <2> QED
      BY <1>5, <2>1, <2>2 DEF RecvGet
  <1>6. ASSUME NEW d \in Clients, Hello(d) \/ SendStatus(d) PROVE FALSE
    BY <1>6 DEF Hello, SendStatus, At, Goto, mainVars, Owns
  <1>7. ASSUME NEW d \in Clients, SendData(d), Owns(d) PROVE FALSE
    <2>1. /\ tpc[d] = "data" /\ tpc' = [tpc EXCEPT ![d] = "cmd"] /\ Close(ffd[d])
          /\ ffd[d] \in Fds /\ open[ffd[d]] = FileOf(d) /\ UNCHANGED <<cur, sock, ffd>>
      BY <1>7 DEF SendData, At, Goto, InHand, Owns, mainVars
    <2>2. CASE c # d
      BY <2>1, <2>2, ClosesItsOwn
    <2>3. CASE c = d
      BY <2>1, <2>3 DEF Close, InHand, Owns
    <2> QED
      BY <2>2, <2>3
  <1>8. ASSUME NEW d \in Clients, RecvExit(d) \/ (CloseSocket(d) /\ At(d, "close")), Owns(d) PROVE FALSE
    <2>1. /\ tpc[d] \in {"cmd", "close"} /\ Close(sock[d]) /\ UNCHANGED <<cur, sock, ffd>>
          /\ \E pc \in {"again", "lock"} : tpc' = [tpc EXCEPT ![d] = pc]
          /\ sock[d] \in Fds /\ open[sock[d]] = Socket(d)
      BY <1>8 DEF RecvExit, CloseSocket, At, Goto, InHand, Owns, mainVars
    <2>2. CASE c # d
      BY <2>1, <2>2, ClosesItsOwn
    <2>3. CASE c = d
      BY <2>1, <2>3 DEF ThreadsStart, InHand, Owns
    <2> QED
      BY <2>2, <2>3
  <1>9. ASSUME NEW d \in Clients, SendData(d) \/ RecvExit(d) \/ CloseSocket(d)
        PROVE  \E e \in Clients : tpc'[e] # tpc[e] /\ (At(e, "again") \/ ~Owns(e))
    <2>1. tpc'[d] # tpc[d] /\ (CloseSocket(d) => At(d, "close") \/ At(d, "again"))
      BY <1>9 DEF SendData, RecvExit, CloseSocket, At, Goto
    <2> QED
      BY <1>7, <1>8, <1>9, <2>1
  <1>10. ASSUME NEW d \in Clients, RecvEnd(d) \/ ThreadLock(d) \/ ThreadCount(d) PROVE FALSE
    BY <1>10 DEF RecvEnd, ThreadLock, ThreadCount, At, Goto, mainVars, Owns
  <1>11. CASE UNCHANGED vars
    BY <1>11 DEF vars, mainVars, threadVars, Owns
  <1> QED
    BY <1>1, <1>2, <1>3, <1>4, <1>5, <1>6, <1>9, <1>10, <1>11 DEF ServerNext, Main, Thread

\* For any number of clients and descriptors, and however they leave: a connection
\* or an open file is taken from the thread that holds it only by exit's second
\* close(clnt_sock), or by a thread that has itself lost its descriptor in that way.
THEOREM OnlyExitTakes == ServerSpec => LostOnlyToExit
<1>1. ServerInit => InHand
  BY ServerAssumption DEF ServerInit, InHand
<1>2. CountInvariant => ThreadsStart
  BY DEF CountInvariant
<1>3. TypeOK /\ ThreadsStart /\ InHand /\ [ServerNext]_vars => InHand'
  BY InHandStep
<1>4. TypeOK /\ ThreadsStart /\ InHand /\ [ServerNext]_vars =>
        [\A c \in Clients : Owns(c) /\ ~Owns(c)' =>
           \E d \in Clients : tpc'[d] # tpc[d] /\ (At(d, "again") \/ ~Owns(d))]_vars
  BY LossStep
<1> QED
  BY <1>1, <1>2, <1>3, <1>4, CountInvariantHolds, PTL DEF ServerSpec, LostOnlyToExit

----------------------------------------------------------------------------

LEMMA TracedStep ==
  ASSUME TypeOK, ThreadsStart, Traced, [ServerNext]_vars
  PROVE  Traced'
  <1> USE Entries, ServerAssumption DEF Traced, TypeOK
  <1>1. ASSUME NEW c \in Clients, Client(c) PROVE Traced'
    BY <1>1 DEF Client, Connect, Get, Exit, Drop, threadVars
  <1>2. ASSUME NEW c \in Clients, Accept(c) PROVE Traced'
    <2>1. PICK f \in Fds : /\ open' = [open EXCEPT ![f] = Socket(c)]
                           /\ sock' = [sock EXCEPT ![c] = f]
      BY <1>2 DEF Accept
    <2>2. /\ peer[c] = "pending" /\ tpc[c] = "none" /\ peer' = [peer EXCEPT ![c] = "up"]
          /\ UNCHANGED <<tpc, ffd>>
      BY <1>2 DEF Accept, ThreadsStart
    <2>3. \A g \in Fds : open[g] # Socket(c)
      BY <2>2
    <2> QED
      BY <2>1, <2>2, <2>3
  <1>3. CASE MainLock \/ MainCount
    BY <1>3 DEF MainLock, MainCount, threadVars, clientVars
  <1>4. CASE MainCreate
    BY <1>4 DEF MainCreate, clientVars, ThreadsStart
  <1>5. ASSUME NEW c \in Clients, Hello(c) PROVE Traced'
    BY <1>5 DEF Hello, At, Goto
  <1>6. ASSUME NEW c \in Clients, RecvGet(c) PROVE Traced'
    <2>1. CASE OpenFile(c) /\ Goto(c, "status") /\ UNCHANGED <<alive, reset>>
      <3>1. PICK f \in Fds : /\ open' = [open EXCEPT ![f] = FileOf(c)]
                             /\ ffd' = [ffd EXCEPT ![c] = f]
        BY <2>1 DEF OpenFile
      <3>2. /\ tpc[c] = "cmd" /\ tpc' = [tpc EXCEPT ![c] = "status"]
            /\ UNCHANGED <<sock, peer>>
        BY <1>6, <2>1 DEF RecvGet, At, Goto
      <3>3. \A g \in Fds : open[g] # FileOf(c)
        BY <3>2
      <3> QED
        BY <3>1, <3>2, <3>3
    <2>2. CASE Send(c) /\ UNCHANGED <<open, ffd, tpc>>
      BY <1>6, <2>2 DEF RecvGet
    <2> QED
      BY <1>6, <2>1, <2>2 DEF RecvGet
  <1>7. ASSUME NEW c \in Clients, SendStatus(c) PROVE Traced'
    BY <1>7 DEF SendStatus, At, Goto
  <1>8. ASSUME NEW c \in Clients, SendData(c) PROVE Traced'
    BY <1>8 DEF SendData, At, Goto, Close
  <1>9. ASSUME NEW c \in Clients, RecvExit(c) PROVE Traced'
    BY <1>9 DEF RecvExit, At, Goto, Close
  <1>10. ASSUME NEW c \in Clients, RecvEnd(c) PROVE Traced'
    BY <1>10 DEF RecvEnd, At, Goto, clientVars
  <1>11. ASSUME NEW c \in Clients, CloseSocket(c) PROVE Traced'
    BY <1>11 DEF CloseSocket, At, Goto, Close, clientVars
  <1>12. ASSUME NEW c \in Clients, ThreadLock(c) \/ ThreadCount(c) PROVE Traced'
    BY <1>12 DEF ThreadLock, ThreadCount, At, Goto, clientVars
  <1>13. CASE UNCHANGED vars
    BY <1>13 DEF vars, threadVars, clientVars
  <1> QED
    BY <1>1, <1>2, <1>3, <1>4, <1>5, <1>6, <1>7, <1>8, <1>9, <1>10, <1>11, <1>12, <1>13
    DEF ServerNext, Main, Thread

\* A thread that ends takes its socket and its file with it, however its client has
\* left and whatever exit's second close has hit: the process loses no descriptor
\* to a client it has served.
THEOREM NoDescriptorLost == ServerSpec => []NothingLeft
<1>1. ServerInit => Traced
  BY Entries DEF ServerInit, Traced
<1>2. CountInvariant => ThreadsStart
  BY DEF CountInvariant
<1>3. TypeOK /\ ThreadsStart /\ Traced /\ [ServerNext]_vars => Traced'
  BY TracedStep
<1>4. Traced => NothingLeft
  BY DEF Traced, NothingLeft
<1> QED
  BY <1>1, <1>2, <1>3, <1>4, CountInvariantHolds, PTL DEF ServerSpec
=============================================================================
