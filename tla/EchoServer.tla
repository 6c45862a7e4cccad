----------------------------- MODULE EchoServer -----------------------------
(***************************************************************************)
(* 12-02-22-ESS/server.c: an echo server that serves ONE connection at a    *)
(* time.  main polls the listening socket, handle_echo accepts a pending    *)
(* connection and answers it until it reads an empty buffer, "exit", or the *)
(* end of the stream.  handle_echo never closes the accepted descriptor, so *)
(* a connection it has left stays open and is never answered again.         *)
(*                                                                         *)
(* A connection is an element of Conns; req[k] is what was written to it    *)
(* and not yet read by the server, rep[k] the echoes not yet read by a      *)
(* client.  Every write and read is of 128 bytes, so a message is a unit.   *)
(* What is written to a connection the server has left is never read, and   *)
(* is not kept.                                                            *)
(***************************************************************************)
EXTENDS Naturals, Sequences

CONSTANTS Clients,   \* the client processes
          Conns,     \* the TCP connections that can be alive together (a bound)
          MaxUnread, \* the messages a connection buffers before write blocks
          None       \* no connection, no client, no queue: -1 in the code

ASSUME ServerAssumption == None \notin Conns /\ MaxUnread \in Nat \ {0}

VARIABLES listening, backlog, serving, req, rep

serverVars == <<listening, backlog, serving, req, rep>>

\* What a user's line is to the server: a text, nothing at all, or "exit".
Lines == {"text", "empty", "exit"}

Message == [from : Clients, line : Lines]

ServerTypeOK ==
    /\ listening \in BOOLEAN
    /\ backlog \in Seq(Conns)
    /\ serving \in Conns \cup {None}
    /\ req \in [Conns -> Seq(Message)]
    /\ rep \in [Conns -> Seq(Message)]

ServerInit ==
    /\ listening = FALSE
    /\ backlog = <<>>
    /\ serving = None
    /\ req = [k \in Conns |-> <<>>]
    /\ rep = [k \in Conns |-> <<>>]

-----------------------------------------------------------------------------

\* bindAndListenTcp: from here on a connect succeeds.
StartServer ==
    /\ ~listening
    /\ listening' = TRUE
    /\ UNCHANGED <<backlog, serving, req, rep>>

\* poll reports the listening socket, handle_echo accepts the oldest connection.
AcceptConn ==
    /\ listening
    /\ serving = None
    /\ backlog # <<>>
    /\ serving' = Head(backlog)
    /\ backlog' = Tail(backlog)
    /\ UNCHANGED <<listening, req, rep>>

\* A slip: the server reads a message and leaves without answering it.
EchoTurnOnce ==
    /\ serving # None
    /\ req[serving] # <<>>
    /\ req' = [req EXCEPT ![serving] = <<>>]
    /\ serving' = None
    /\ UNCHANGED <<listening, backlog, rep>>

\* One turn of handle_echo's loop: an empty message or "exit" leaves the
\* connection for good, any other text is written back.
EchoTurn ==
    /\ serving # None
    /\ req[serving] # <<>>
    /\ \/ /\ Head(req[serving]).line = "text"
          /\ req' = [req EXCEPT ![serving] = Tail(@)]
          /\ rep' = [rep EXCEPT ![serving] = Append(@, Head(req[serving]))]
          /\ UNCHANGED serving
       \/ /\ Head(req[serving]).line \in {"empty", "exit"}
          /\ req' = [req EXCEPT ![serving] = <<>>]
          /\ serving' = None
          /\ UNCHANGED rep
    /\ UNCHANGED <<listening, backlog>>

\* read returns 0 (and strlen(buff) == 0) when no process has the other end
\* open any more; open is the set of connections some process still has open.
HangUp(open) ==
    /\ serving # None
    /\ req[serving] = <<>>
    /\ serving \notin open
    /\ serving' = None
    /\ UNCHANGED <<listening, backlog, req, rep>>

-----------------------------------------------------------------------------

\* The two ends a client uses: connect() puts a fresh connection in the
\* backlog, write() appends to the stream.
Dial(k) ==
    /\ listening
    /\ backlog' = Append(backlog, k)
    /\ req' = [req EXCEPT ![k] = <<>>]
    /\ rep' = [rep EXCEPT ![k] = <<>>]
    /\ UNCHANGED <<listening, serving>>

\* k's server side is still going to be read.
Served(k) == serving = k \/ \E i \in DOMAIN backlog : backlog[i] = k

WriteLine(k, m) ==
    /\ Len(req[k]) < MaxUnread
    /\ req' = IF Served(k) THEN [req EXCEPT ![k] = Append(@, m)] ELSE req
    /\ UNCHANGED <<listening, backlog, serving, rep>>
=============================================================================
