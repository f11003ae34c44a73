-------------------------- MODULE RootCAInvariant --------------------------
(***************************************************************************)
(* The inductive invariant behind the theorems about RootCA's answers:     *)
(* what a request is at every stage, from the CSR in the stream to the     *)
(* certificate on its way back.                                            *)
(***************************************************************************)
EXTENDS RootCA

Live(c) == cpc[c] # "away"

\* Request n of c has a certificate.
Issued(c, n) == \E k \in 1 .. Len(issued) : issued[k].to = c /\ issued[k].nth = n

\* A CSR in a stream was sent once and has no certificate yet; the client, if it
\* is still there, waits for it.
CsrInStream(c, i) ==
  LET n == toCA[c][i].nth IN
  n # 0 => /\ n <= nreq[c] /\ ~Issued(c, n)
           /\ Live(c) => n = nreq[c] /\ cpc[c] = "wait"
           /\ \A j \in 1 .. Len(toCA[c]) : toCA[c][j].nth = n => j = i

Streams == \A c \in Clients : /\ \A i \in 1 .. Len(toCA[c]) : CsrInStream(c, i)
                              /\ conn[c] = "none" => toCA[c] = <<>>

\* The CA serves a connection that is open.
Serving == pc \notin {"down", "accept"} => conn[cur] = "open"

\* The CA has taken a CSR and not yet answered.
InHand == pc \in {"serial", "store", "sign"} \/ (pc = "reply" /\ wanted # 0)

\* That CSR is no longer in the stream, has its certificate when the answer is due
\* and not before, and nothing answers it already.
Handled ==
  InHand =>
    /\ wanted # 0 /\ wanted <= nreq[cur]
    /\ \A i \in 1 .. Len(toCA[cur]) : toCA[cur][i].nth # wanted
    /\ pc # "reply" => ~Issued(cur, wanted)
    /\ pc = "reply" => \E k \in 1 .. Len(issued) : issued[k] = Certificate
    /\ Live(cur) => /\ wanted = nreq[cur] /\ cpc[cur] = "wait"
                    /\ \A i \in 1 .. Len(toClient[cur]) : toClient[cur][i].nth = 0

\* No certificate is given for a request whose CSR is still to be sent.
Requested ==
  \A k \in 1 .. Len(issued) :
    LET c == issued[k].to IN
    issued[k].nth <= nreq[c] /\ (cpc[c] = "subject" => issued[k].nth < nreq[c])

\* A client finds at most one certificate in its stream, while it waits for it.
OneAnswer ==
  \A c \in Clients : \A i \in 1 .. Len(toClient[c]) :
    Live(c) /\ toClient[c][i].nth # 0 =>
      /\ cpc[c] = "wait"
      /\ \A j \in 1 .. Len(toClient[c]) : toClient[c][j].nth # 0 => j = i

RequestInvariant ==
  /\ Streams /\ Serving /\ Handled /\ Requested /\ OneAnswer
  /\ OncePerRequest /\ AnswersItsRequest
=============================================================================
