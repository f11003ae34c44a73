------------------------------- MODULE Stream -------------------------------
(***************************************************************************)
(* One TCP connection between a client process and the server thread that  *)
(* runs handle_clnt for it.  Each direction is a sequence of the messages  *)
(* the two ends send(), in order and without loss.  What the messages are  *)
(* is for the modules that use them to say.                                *)
(***************************************************************************)
EXTENDS Integers, Sequences

CONSTANT Faults    \* what may go wrong in the environment

VARIABLES
  cpc, spc,  \* where the client and the server thread are
  c2s, s2c,  \* bytes sent and not yet received, as messages
  cUp,       \* the client's end of the connection is open
  rst        \* the server's kernel has seen the client's reset

connVars == <<cpc, spc, c2s, s2c, cUp, rst>>

Cmd(name) == [kind |-> "cmd", name |-> name]
Num(n)    == [kind |-> "num", num |-> n]

\* recv at the server would return 0: the client has gone and all it sent is read.
ServerAtEof == c2s = <<>> /\ ~cUp

\* send(client_fd, m) at the server, which then goes on at pc.  Once the client
\* is gone the bytes are lost and a reset may come back; a send after the reset
\* raises SIGPIPE, which nothing in the server handles.
ServerSend(m, pc) ==
  \/ cUp /\ s2c' = Append(s2c, m) /\ spc' = pc /\ UNCHANGED rst
  \/ ~cUp /\ ~rst /\ rst' \in BOOLEAN /\ spc' = pc /\ UNCHANGED s2c
  \/ ~cUp /\ rst /\ spc' = "killed" /\ UNCHANGED <<s2c, rst>>

\* handle_clnt: recv <= 0 ends the thread.
ServerHangup ==
  /\ spc = "cmd" /\ ServerAtEof
  /\ spc' = "gone"
  /\ UNCHANGED <<cpc, c2s, s2c, cUp, rst>>

\* The user kills the client; unread replies make its kernel reset the connection.
ClientQuit ==
  /\ "quit" \in Faults /\ cUp
  /\ cpc' = "gone" /\ cUp' = FALSE
  /\ s2c' = <<>>
  /\ rst' \in BOOLEAN /\ (rst' => s2c # <<>>)
  /\ UNCHANGED <<spc, c2s>>
=============================================================================
