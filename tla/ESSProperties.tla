---------------------------- MODULE ESSProperties ----------------------------
(***************************************************************************)
(* What the connection-sharing protocol of 12-02-22-ESS should guarantee:   *)
(* the safety properties that hold, the refinement of ExclusiveHolder, the  *)
(* liveness properties, and the statements of its README that do not hold.  *)
(***************************************************************************)
EXTENDS ESS

\* c has the right to the connection, or it was sent to c, or c's giver is
\* gone: then c finds the end of the stream and goes on without a descriptor.
Token(c) == pc[c] \in OwnPC \/ link[c] \in {"failed", "sent", "closed"}

\* Two clients never own the conversation with the server at the same time,
\* not even while the descriptor travels, and whoever is killed (main, 396-494).
OneOwner == \A c, d \in Clients : Token(c) /\ Token(d) => c = d

\* While a client owns the conversation the queue exists, so a newcomer's
\* getMQId sends it to wait instead of letting it connect (getMQId, 90-102).
QueueGuardsOwner == (\E c \in Clients : Token(c)) => mqId # None

\* The owner's mQId still names the queue newcomers post to: otherwise its
\* msgrcv fails silently and it never sees them.  Needs distinct paths.
OwnerReadsTheQueue == \A c \in Clients : pc[c] \in OwnPC => QueueOpen(c)

\* A giver never connects to a socket another giver is using: the waiting
\* client accepts once, a second descriptor would be lost with the backlog.
OneGiverPerWaiter ==
    \A c \in Clients :
       pc[c] \in {"connect", "xconnect"} /\ bound[nextMessage[c]] # None =>
          link[bound[nextMessage[c]]] = "none"

\* The echo a client reads answers its own line, and a client never passes on
\* a connection on which the echo of its own last line is still to come.
EchoBelongsToReader ==
    \A c \in Clients : sFD[c] # None =>
       /\ pc[c] = "reply" =>
            \A i \in DOMAIN rep[sFD[c]] : rep[sFD[c]][i].from = c
       /\ pc[c] \in OwnPC \ {"tcp", "reply"} => rep[sFD[c]] = <<>>

-----------------------------------------------------------------------------
(* Why OneOwner holds: an inductive invariant *)

\* A request a client means to answer is the path of some client.
PendingOK ==
    \A c \in Clients :
       /\ clientPresent[c] =>
             pc[c] \in {"talk", "reply", "check", "ask",
                        "xrcv", "xconnect", "xsend", "rmid", "leave"}
       /\ pc[c] = "ask" => clientPresent[c]
       /\ clientPresent[c] /\ pc[c] \in {"talk", "reply", "check", "ask"} =>
             nextMessage[c] \in Paths
       /\ pc[c] \in {"connect", "xconnect"} => nextMessage[c] \in Paths

\* Only waiting clients can be reached, each on its own path only.
SocketsOK ==
    /\ \A p \in Paths : bound[p] # None =>
          pc[bound[p]] \in WaitPC /\ PathOf[bound[p]] = p
    /\ \A c \in Clients : link[c] # "none" => pc[c] \in WaitPC

\* A unix connection on which nothing happened yet has its giver in send_fd.
LinksOK ==
    /\ \A c \in Clients : link[c] = "open" =>
          giver[c] \in Clients /\ pc[giver[c]] \in {"send", "xsend"}
    /\ \A c, d \in Clients : link[c] = "open" /\ link[d] = "open" => c = d

OwnerInv == PendingOK /\ SocketsOK /\ LinksOK /\ OneOwner /\ QueueGuardsOwner

-----------------------------------------------------------------------------
(* Why OwnerReadsTheQueue holds *)

\* No two clients were started with the same socket path: the user's part of
\* the protocol (the client-no of README 3).
DistinctPaths == \A c, d \in Clients : PathOf[c] = PathOf[d] => c = d

\* The path of a request that is in the queue, or that the owner took from it
\* and has not yet answered.
Requested(p) ==
    \/ \E i \in DOMAIN mq : mq[i] = p
    \/ \E g \in Clients :
          /\ nextMessage[g] = p
          /\ \/ clientPresent[g] /\ pc[g] \in {"talk", "reply", "check", "ask"}
             \/ pc[g] \in {"connect", "xconnect"}

\* Who is known to an owner got its queue identifier when it posted, and the
\* queue has not been removed since.
QueueInv ==
    /\ mqId = None => mq = <<>>
    /\ \A c \in Clients :
          Requested(PathOf[c]) /\ pc[c] \in {"bind"} \cup WaitPC => QueueOpen(c)
    /\ \A c \in Clients : link[c] # "none" => QueueOpen(c)
    /\ OwnerReadsTheQueue

-----------------------------------------------------------------------------
(* Why EchoBelongsToReader holds *)

\* The client that has k as its descriptor, or that it was sent to.
Has(c, k) == sFD[c] = k \/ gift[c] = k

NoText(s) == \A i \in DOMAIN s : s[i].line # "text"

\* One descriptor has one user: what else is in fds is open and not used.
DescriptorsOK ==
    /\ \A c \in Clients : sFD[c] # None =>
          sFD[c] \in fds[c] /\ pc[c] \in (OwnPC \ {"tcp"}) \cup {"leave"}
    /\ \A c \in Clients : gift[c] # None => link[c] = "sent"
    /\ \A k \in Conns : \A c, d \in Clients : Has(c, k) /\ Has(d, k) => c = d

\* Before it reads, the owner's last line is on the way to the server and
\* behind everything that was on the connection, or its echo is on the way
\* back; otherwise there is nothing that will be or has been echoed.
EchoInv ==
    \A c \in Clients : \A k \in Conns : Has(c, k) /\ pc[c] # "leave" =>
       \/ rep[k] = <<>> /\ NoText(req[k])
       \/ /\ pc[c] = "reply"
          /\ \/ /\ rep[k] = <<>>
                /\ \A i \in DOMAIN req[k] : req[k][i].line = "text" =>
                      i = Len(req[k]) /\ req[k][i].from = c
             \/ /\ Len(rep[k]) = 1 /\ rep[k][1].from = c
                /\ NoText(req[k])

-----------------------------------------------------------------------------

\* The protocol implements ExclusiveHolder: the right is taken only when
\* nobody has it, and passes only to a client that waits.
Holder ==
    IF \E c \in Clients : Token(c) THEN CHOOSE c \in Clients : Token(c) ELSE None

Abs == INSTANCE ExclusiveHolder
         WITH holder <- Holder, asking <- {c \in Clients : pc[c] \in WaitPC}

ImplementsHolder == Abs!Spec

-----------------------------------------------------------------------------

\* When the server was started before the clients, and the users type, answer y
\* and never leave, a client that waits in accept gets the connection.
WaiterIsServed ==
    [](\A c \in Clients : pc[c] # "off" => listening) =>
       \A c \in Clients : pc[c] = "accept" ~> pc[c] = "talk"

\* A client whose text is on the connection that is being served gets past
\* its read, whatever the other clients do (handle_echo, 62-76).
EchoArrives ==
    \A c \in Clients :
       pc[c] = "reply" /\ sFD[c] # None /\ serving = sFD[c]
         /\ (\E i \in DOMAIN req[serving] : req[serving][i].line = "text")
         ~> pc[c] # "reply"

-----------------------------------------------------------------------------
(* Statements of the README the code does not keep *)

\* README 11 and 13: a client that posts waits, and the talking client
\* notices; so the queue is never removed with requests in it.
NoRequestRemoved ==
    [][mqId # None /\ mqId' = None => mq = <<>>]_vars

\* README 11: a client that finds a queue posts its path in the queue, and
\* waits: it does not wait without having posted.
WaitsOnlyAfterPosting ==
    [][\A c \in Clients : pc[c] = "post" /\ pc'[c] = "accept" => mq' # mq]_vars

\* README 13: "From now on client3 talks with the server": the connection a
\* client received is one the server still serves.
ReceivedIsServed ==
    \A c \in Clients :
       pc[c] = "talk" /\ sFD[c] # None => Served(sFD[c])
=============================================================================
