------------------------------ MODULE Server ------------------------------
(***************************************************************************)
(* The server process: main accepts connections and starts a detached      *)
(* thread for each, handle_clnt serves one client until it leaves.  The    *)
(* threads and main share the process's descriptor table, the counter of   *)
(* clients under its mutex, and the process itself: a SIGPIPE in one       *)
(* thread ends them all.  Of the commands only a get is modelled, as far   *)
(* as it uses descriptors: it opens a file and sends twice.                *)
(***************************************************************************)
EXTENDS Integers, FiniteSets

CONSTANTS
  Clients,    \* the clients that connect, each of them once
  Fds,        \* the descriptors the process may have
  Leaves,     \* how a client may leave: "exit" (the command), "drop" (its process ends)
  Faults      \* {"nothread"} when pthread_create may fail, else {}

ASSUME ServerAssumption ==
  /\ IsFiniteSet(Clients) /\ "main" \notin Clients /\ "free" \notin Clients
  /\ Fds \subseteq Nat /\ IsFiniteSet(Fds)
  /\ Leaves \subseteq {"exit", "drop"}
  /\ Faults \subseteq {"nothread"}

VARIABLES
  alive,    \* the process runs
  open,     \* the descriptor table: what each descriptor stands for
  mpc, cur, \* main: where it is, the client it is about to serve
  mutx,     \* who holds the mutex: "free", "main" or a client (its thread)
  cnt,      \* clnt_cnt
  seen,     \* the value of clnt_cnt that the mutex's holder has loaded
  tpc,      \* where each client's thread is
  sock,     \* its clnt_sock
  ffd,      \* its fd in clnt_get
  peer,     \* each client: "away", "pending" (in the backlog), "up"
  sends,    \* what it has sent that is not yet received
  left,     \* it has closed its end
  reset     \* its kernel has answered a send with a reset

mainVars   == <<mpc, cur>>
countVars  == <<mutx, cnt, seen>>
threadVars == <<tpc, sock, ffd>>
clientVars == <<peer, sends, left, reset>>
vars == <<alive, open, mainVars, countVars, threadVars, clientVars>>

Free        == [kind |-> "free"]
Socket(c)   == [kind |-> "socket", of |-> c]
FileOf(c)   == [kind |-> "file", of |-> c]
FreeFds     == {f \in Fds : open[f] = Free}
\* open() and accept() return the lowest free descriptor.
Lowest(f)   == f \in FreeFds /\ \A g \in FreeFds : f <= g

ServerInit ==
  /\ alive = TRUE /\ open = [f \in Fds |-> Free]
  /\ mpc = "accept" /\ cur = "main"
  /\ mutx = "free" /\ cnt = 0 /\ seen = 0
  /\ tpc = [c \in Clients |-> "none"]
  /\ sock = [c \in Clients |-> 0] /\ ffd = [c \in Clients |-> 0]
  /\ peer = [c \in Clients |-> "away"] /\ sends = [c \in Clients |-> "nothing"]
  /\ left = [c \in Clients |-> FALSE] /\ reset = [c \in Clients |-> FALSE]

----------------------------------------------------------------------------
(* The clients. *)

\* connect(), and the client's certificate.
Connect(c) ==
  /\ peer[c] = "away"
  /\ peer' = [peer EXCEPT ![c] = "pending"]
  /\ sends' = [sends EXCEPT ![c] = "cert"]
  /\ UNCHANGED <<alive, open, mainVars, countVars, threadVars, left, reset>>

Get(c) ==
  /\ peer[c] # "away" /\ sends[c] = "nothing" /\ ~left[c]
  /\ sends' = [sends EXCEPT ![c] = "get"]
  /\ UNCHANGED <<alive, open, mainVars, countVars, threadVars, peer, left, reset>>

Exit(c) ==
  /\ "exit" \in Leaves
  /\ peer[c] # "away" /\ sends[c] = "nothing" /\ ~left[c]
  /\ sends' = [sends EXCEPT ![c] = "exit"]
  /\ left' = [left EXCEPT ![c] = TRUE]
  /\ UNCHANGED <<alive, open, mainVars, countVars, threadVars, peer, reset>>

Drop(c) ==
  /\ "drop" \in Leaves
  /\ peer[c] # "away" /\ ~left[c]
  /\ left' = [left EXCEPT ![c] = TRUE]
  /\ UNCHANGED <<alive, open, mainVars, countVars, threadVars, peer, sends, reset>>

----------------------------------------------------------------------------
(* main. *)

\* accept, the client_t and its sock.  With no descriptor left accept fails and
\* the loop goes round: nothing changes.
Accept(c) ==
  /\ mpc = "accept" /\ peer[c] = "pending"
  /\ \E f \in Fds : /\ Lowest(f)
                    /\ open' = [open EXCEPT ![f] = Socket(c)]
                    /\ sock' = [sock EXCEPT ![c] = f]
  /\ peer' = [peer EXCEPT ![c] = "up"]
  /\ mpc' = "lock" /\ cur' = c
  /\ UNCHANGED <<alive, countVars, tpc, ffd, sends, left, reset>>

\* pthread_mutex_lock, and the load of clnt_cnt++.
MainLock ==
  /\ mpc = "lock" /\ mutx = "free"
  /\ mutx' = "main" /\ seen' = cnt
  /\ mpc' = "count"
  /\ UNCHANGED <<alive, open, cur, cnt, threadVars, clientVars>>

\* The store, and pthread_mutex_unlock.
MainCount ==
  /\ mpc = "count"
  /\ cnt' = seen + 1
  /\ mutx' = "free"
  /\ mpc' = "create"
  /\ UNCHANGED <<alive, open, cur, seen, threadVars, clientVars>>

\* pthread_create, whose result nobody looks at.
MainCreate ==
  /\ mpc = "create"
  /\ \E how \in {"hello"} \cup (IF "nothread" \in Faults THEN {"lost"} ELSE {}) :
       tpc' = [tpc EXCEPT ![cur] = how]
  /\ mpc' = "accept" /\ cur' = "main"
  /\ UNCHANGED <<alive, open, countVars, sock, ffd, clientVars>>

----------------------------------------------------------------------------
(* The threads. *)

At(c, pc) == tpc[c] = pc
Goto(c, pc) == tpc' = [tpc EXCEPT ![c] = pc]

\* Whose connection clnt_sock of c's thread stands for now: c's, if nobody has
\* closed it.
OnSocket(c) == open[sock[c]].kind = "socket"
Peer(c) == open[sock[c]].of

\* close(f); on a descriptor already closed it fails and changes nothing.
Close(f) == open' = [open EXCEPT ![f] = Free]

\* send() with no flags: to a client that has left it may draw a reset, and after
\* the reset it raises SIGPIPE; to no socket at all it fails.
Send(c) ==
  IF OnSocket(c) /\ left[Peer(c)]
  THEN IF reset[Peer(c)]
       THEN alive' = FALSE /\ UNCHANGED reset
       ELSE UNCHANGED alive /\ \E r \in BOOLEAN : reset' = [reset EXCEPT ![Peer(c)] = r]
  ELSE UNCHANGED <<alive, reset>>

\* recv returns what the peer sent, or <= 0: closed by the peer, or no socket.
Receives(c, m) == OnSocket(c) /\ sends[Peer(c)] = m
RecvFails(c) == OnSocket(c) => left[Peer(c)] /\ sends[Peer(c)] = "nothing"
Taken(c) == sends' = [sends EXCEPT ![Peer(c)] = "nothing"]

\* cert_get_pubkey, whose result nobody looks at, and send_cert.
Hello(c) ==
  /\ At(c, "hello")
  /\ \/ Receives(c, "cert") /\ Taken(c)
     \/ RecvFails(c) /\ UNCHANGED sends
  /\ Send(c)
  /\ Goto(c, "cmd")
  /\ UNCHANGED <<open, mainVars, countVars, sock, ffd, peer, left>>

\* open() of the file to get.
OpenFile(c) ==
  \E f \in Fds : /\ Lowest(f)
                /\ open' = [open EXCEPT ![f] = FileOf(c)]
                /\ ffd' = [ffd EXCEPT ![c] = f]

\* Mutant of RecvGet: a failed open is not noticed.
RecvGetUnchecked(c) ==
  /\ At(c, "cmd") /\ Receives(c, "get") /\ Taken(c)
  /\ OpenFile(c) \/ (ffd' = [ffd EXCEPT ![c] = -1] /\ UNCHANGED open)
  /\ Goto(c, "status")
  /\ UNCHANGED <<alive, mainVars, countVars, sock, peer, left, reset>>

\* get: open the file, and answer at once when that fails.
RecvGet(c) ==
  /\ At(c, "cmd") /\ Receives(c, "get") /\ Taken(c)
  /\ \/ OpenFile(c) /\ Goto(c, "status") /\ UNCHANGED <<alive, reset>>
     \/ Send(c) /\ UNCHANGED <<open, ffd, tpc>>
  /\ UNCHANGED <<mainVars, countVars, sock, peer, left>>

\* The status and the size; then the fragments, and close(fd).
SendStatus(c) ==
  /\ At(c, "status")
  /\ Send(c)
  /\ Goto(c, "data")
  /\ UNCHANGED <<open, mainVars, countVars, sock, ffd, peer, sends, left>>

SendData(c) ==
  /\ At(c, "data")
  /\ Send(c)
  /\ Close(ffd[c])
  /\ Goto(c, "cmd")
  /\ UNCHANGED <<mainVars, countVars, sock, ffd, peer, sends, left>>

\* exit: the socket is closed here, and again after the loop.
RecvExit(c) ==
  /\ At(c, "cmd") /\ Receives(c, "exit") /\ Taken(c)
  /\ Close(sock[c])
  /\ Goto(c, "again")
  /\ UNCHANGED <<alive, mainVars, countVars, sock, ffd, peer, left, reset>>

\* Mutant of RecvEnd: the socket is closed here, as exit does, and after the loop too.
RecvEndCloses(c) ==
  /\ At(c, "cmd") /\ RecvFails(c)
  /\ Close(sock[c])
  /\ Goto(c, "close")
  /\ UNCHANGED <<alive, mainVars, countVars, sock, ffd, clientVars>>

\* recv <= 0: out of the loop.
RecvEnd(c) ==
  /\ At(c, "cmd") /\ RecvFails(c)
  /\ Goto(c, "close")
  /\ UNCHANGED <<alive, open, mainVars, countVars, sock, ffd, clientVars>>

\* Mutant of CloseSocket: it is left to exit.
CloseSocketNever(c) ==
  /\ At(c, "close") \/ At(c, "again")
  /\ Goto(c, "lock")
  /\ UNCHANGED <<alive, open, mainVars, countVars, sock, ffd, clientVars>>

\* close(clnt_sock) after the loop: the first of it, or exit's second ("again"), of
\* whatever the number has become meanwhile.
CloseSocket(c) ==
  /\ At(c, "close") \/ At(c, "again")
  /\ Close(sock[c])
  /\ Goto(c, "lock")
  /\ UNCHANGED <<alive, mainVars, countVars, sock, ffd, clientVars>>

\* Mutant of ThreadLock: clnt_cnt-- without the mutex.
ThreadLockNone(c) ==
  /\ At(c, "lock")
  /\ mutx' = c /\ seen' = cnt
  /\ Goto(c, "count")
  /\ UNCHANGED <<alive, open, mainVars, cnt, sock, ffd, clientVars>>

\* pthread_mutex_lock, and the load of clnt_cnt--.
ThreadLock(c) ==
  /\ At(c, "lock") /\ mutx = "free"
  /\ mutx' = c /\ seen' = cnt
  /\ Goto(c, "count")
  /\ UNCHANGED <<alive, open, mainVars, cnt, sock, ffd, clientVars>>

\* Mutant of ThreadCount: the mutex is not released.
ThreadCountKeeps(c) ==
  /\ At(c, "count")
  /\ cnt' = seen - 1
  /\ Goto(c, "done")
  /\ UNCHANGED <<alive, open, mainVars, mutx, seen, sock, ffd, clientVars>>

\* The store, pthread_mutex_unlock, and the thread's end.
ThreadCount(c) ==
  /\ At(c, "count")
  /\ cnt' = seen - 1
  /\ mutx' = "free"
  /\ Goto(c, "done")
  /\ UNCHANGED <<alive, open, mainVars, seen, sock, ffd, clientVars>>

----------------------------------------------------------------------------

Client(c) == Connect(c) \/ Get(c) \/ Exit(c) \/ Drop(c)

Main == (\E c \in Clients : Accept(c)) \/ MainLock \/ MainCount \/ MainCreate

Thread(c) ==
  \/ Hello(c) \/ RecvGet(c) \/ SendStatus(c) \/ SendData(c)
  \/ RecvExit(c) \/ RecvEnd(c) \/ CloseSocket(c) \/ ThreadLock(c) \/ ThreadCount(c)

\* The process's threads take steps only while it runs.
ServerNext ==
  \/ \E c \in Clients : Client(c)
  \/ alive /\ (Main \/ \E c \in Clients : Thread(c))

ServerSpec == ServerInit /\ [][ServerNext]_vars

\* The kernel schedules every thread, and gives the mutex to everyone who waits.
ServerFairSpec ==
  /\ ServerSpec
  /\ WF_vars(alive /\ Main)
  /\ \A c \in Clients : /\ WF_vars(alive /\ Thread(c))
                        /\ SF_vars(alive /\ ThreadLock(c))
  /\ SF_vars(alive /\ MainLock)

----------------------------------------------------------------------------
(* What the server promises. *)

Running == {c \in Clients : tpc[c] \notin {"none", "done"}}

\* The clients between clnt_cnt++ and clnt_cnt--.
Counted == Running \cup {c \in Clients : mpc = "create" /\ cur = c}

TypeOK ==
  /\ alive \in BOOLEAN
  /\ open \in [Fds -> {Free} \cup {Socket(c) : c \in Clients} \cup {FileOf(c) : c \in Clients}]
  /\ mpc \in {"accept", "lock", "count", "create"} /\ cur \in Clients \cup {"main"}
  /\ mutx \in Clients \cup {"free", "main"} /\ cnt \in Int /\ seen \in Int
  /\ tpc \in [Clients -> {"none", "lost", "hello", "cmd", "status", "data", "close", "again",
                          "lock", "count", "done"}]
  /\ sock \in [Clients -> Fds \cup {0}] /\ ffd \in [Clients -> Fds \cup {0}]
  /\ peer \in [Clients -> {"away", "pending", "up"}]
  /\ sends \in [Clients -> {"nothing", "cert", "get", "exit"}]
  /\ left \in [Clients -> BOOLEAN] /\ reset \in [Clients -> BOOLEAN]

\* clnt_cnt is the number of clients between their ++ and their --, whatever the
\* order in which main and the threads come to the counter.
CountExact == cnt = Cardinality(Counted)

\* The descriptor that c's thread, or main for it, holds as clnt_sock is c's own
\* connection, and the one it reads is the file it has opened itself.
Owns(c) ==
  /\ tpc[c] \in {"hello", "cmd", "status", "data", "close"} \/ cur = c => open[sock[c]] = Socket(c)
  /\ tpc[c] \in {"status", "data"} => open[ffd[c]] = FileOf(c)

\* A connection or a file is taken from the thread that holds it only by exit's
\* second close, or by a thread whose own descriptor has been taken before.
LostOnlyToExit ==
  [][\A c \in Clients : Owns(c) /\ ~Owns(c)' =>
       \E d \in Clients : tpc'[d] # tpc[d] /\ (At(d, "again") \/ ~Owns(d))]_vars

\* A thread that has ended leaves no descriptor behind.
NothingLeft == \A f \in Fds, c \in Clients : tpc[c] = "done" => open[f] \notin {Socket(c), FileOf(c)}

\* A client that leaves is counted out, unless the process dies first or exit's second
\* close has taken the connection from its thread, which then serves another's or none.
LeaversEnd ==
  \A c \in Clients : left[c] /\ tpc[c] = "cmd" ~> tpc[c] = "done" \/ ~Owns(c) \/ ~alive

----------------------------------------------------------------------------
(* The inductive invariants behind the theorems. *)

\* The mutex is held exactly by whoever is between its load and its store of
\* clnt_cnt, and that one has loaded the present value.
MutexHeld ==
  /\ mutx = "main" <=> mpc = "count"
  /\ \A c \in Clients : mutx = c <=> tpc[c] = "count"
  /\ mutx # "free" => seen = cnt

\* A client has no thread before main has accepted it and created one.
ThreadsStart ==
  /\ \A c \in Clients : peer[c] # "up" => tpc[c] = "none"
  /\ mpc # "accept" => cur \in Clients /\ tpc[cur] = "none" /\ peer[cur] = "up"

CountInvariant == MutexHeld /\ ThreadsStart /\ CountExact

\* What a thread, or main for it, holds as a descriptor is a number of the table,
\* and main holds none while it waits in accept.
InHand ==
  /\ \A c \in Clients :
       /\ tpc[c] \in {"hello", "cmd", "status", "data", "close", "again"} \/ cur = c => sock[c] \in Fds
       /\ tpc[c] \in {"status", "data"} => ffd[c] \in Fds
  /\ mpc = "accept" => cur = "main"

\* An entry of the descriptor table is a socket or a file that some thread, or main
\* for it, still has in hand: exit's second close, of whatever the descriptor has
\* become, takes entries out but leaves none without an owner.
Traced ==
  \A f \in Fds, c \in Clients :
    /\ open[f] = Socket(c) => /\ f = sock[c] /\ peer[c] = "up"
                              /\ tpc[c] \notin {"lock", "count", "done"}
    /\ open[f] = FileOf(c) => f = ffd[c] /\ tpc[c] \in {"status", "data"}
=============================================================================
