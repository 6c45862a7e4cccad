-------------------------------- MODULE ESS --------------------------------
(***************************************************************************)
(* 12-02-22-ESS: clients share one connection to the echo server.  The      *)
(* client that creates the System V queue "ess-mq" connects to the server;  *)
(* a client that finds the queue binds a unix socket, posts the socket's    *)
(* path in the queue and waits in accept.  After each echo the client with  *)
(* the connection looks into the queue and may pass the TCP descriptor to   *)
(* the client it finds there (SCM_RIGHTS over the unix socket).             *)
(*                                                                         *)
(* One action is one system call of client.c that another process can see.  *)
(* pc[c] names the call c makes next; "off" is a client that is not running.*)
(***************************************************************************)
EXTENDS EchoServer, FiniteSets

CONSTANTS QIds,      \* identifiers msgget can return (a bound)
          QueueCap,  \* requests the queue holds before msgsnd blocks
          Paths,     \* unix socket paths
          PathOf,    \* usdPath of each client: derived from argv, need not be unique
          UserLines, \* the kinds of line users type to the server
          Answers,   \* what they answer to "send the connection to other client"
          Prompts,   \* what they enter after handing over: "again" or "exit"
          Killable   \* the clients that may be killed (^C) at any time

ASSUME ClientAssumption ==
    /\ None \notin Clients
    /\ None \notin QIds
    /\ None \notin Paths
    /\ PathOf \in [Clients -> Paths]
    /\ QueueCap \in Nat \ {0}
    /\ UserLines \subseteq Lines
    /\ Answers \subseteq {"y", "n"}
    /\ Prompts \subseteq {"again", "exit"}
    /\ Killable \subseteq Clients

VARIABLES
    pc,
    mQId,          \* queue identifier each client obtained from getMQId
    sFD,           \* descriptor each client talks on; None is -1
    fds,           \* every TCP descriptor a process has open: givers never close theirs
    clientPresent, \* a request was received and not yet answered with y
    nextMessage,   \* the usdPath of the last request received
    mqId, mq,      \* the queue the key names (None: no queue) and its requests
    bound,         \* the client whose listening socket a path leads to
    link,          \* the unix connection in a waiting client's socket
    giver,         \* who made it
    gift           \* the descriptor in transit on it

clientVars == <<pc, mQId, sFD, fds, clientPresent, nextMessage, mqId, mq,
                bound, link, giver, gift>>
vars == <<serverVars, clientVars>>

\* A client in these states has a listening socket and waits for a descriptor.
WaitPC == {"post", "accept", "recv"}

\* A client in these states has the queue, and the connection if there is one.
OwnPC == {"tcp", "talk", "reply", "check", "ask", "connect", "send",
          "xrcv", "xconnect", "xsend", "rmid"}

PC == {"off", "getmq", "getmq2", "bind", "prompt", "leave"} \cup WaitPC \cup OwnPC

Links == {"none", "open", "failed", "sent", "closed"}

ClientTypeOK ==
    /\ pc \in [Clients -> PC]
    /\ mQId \in [Clients -> QIds \cup {None}]
    /\ sFD \in [Clients -> Conns \cup {None}]
    /\ fds \in [Clients -> SUBSET Conns]
    /\ clientPresent \in [Clients -> BOOLEAN]
    /\ nextMessage \in [Clients -> Paths \cup {None}]
    /\ mqId \in QIds \cup {None}
    /\ mq \in Seq(Paths)
    /\ bound \in [Paths -> Clients \cup {None}]
    /\ link \in [Clients -> Links]
    /\ giver \in [Clients -> Clients \cup {None}]
    /\ gift \in [Clients -> Conns \cup {None}]

TypeOK == ServerTypeOK /\ ClientTypeOK

Init ==
    /\ ServerInit
    /\ pc = [c \in Clients |-> "off"]
    /\ mQId = [c \in Clients |-> None]
    /\ sFD = [c \in Clients |-> None]
    /\ fds = [c \in Clients |-> {}]
    /\ clientPresent = [c \in Clients |-> FALSE]
    /\ nextMessage = [c \in Clients |-> None]
    /\ mqId = None
    /\ mq = <<>>
    /\ bound = [p \in Paths |-> None]
    /\ link = [c \in Clients |-> "none"]
    /\ giver = [c \in Clients |-> None]
    /\ gift = [c \in Clients |-> None]

-----------------------------------------------------------------------------
(* Helpers *)

\* The connections some process, or a descriptor in transit, keeps open.
OpenConns == (UNION {fds[c] : c \in Clients}) \cup {gift[c] : c \in Clients}

FreeConns == {k \in Conns : k \notin OpenConns /\ ~Served(k)}

\* Identifiers no process still remembers: the kernel does not reuse them soon.
FreshQIds == {q \in QIds : q # mqId /\ \A c \in Clients : q # mQId[c]}

QueueOpen(c) == mQId[c] # None /\ mQId[c] = mqId

CanReceive(c) == QueueOpen(c) /\ mq # <<>>

Goto(c, l) == pc' = [pc EXCEPT ![c] = l]

\* The process ends: the kernel closes its descriptors and sockets.  A peer
\* that waits on a unix connection nothing was sent on reads end-of-file.
Gone(c) ==
    /\ Goto(c, "off")
    /\ mQId' = [mQId EXCEPT ![c] = None]
    /\ sFD' = [sFD EXCEPT ![c] = None]
    /\ fds' = [fds EXCEPT ![c] = {}]
    /\ clientPresent' = [clientPresent EXCEPT ![c] = FALSE]
    /\ nextMessage' = [nextMessage EXCEPT ![c] = None]
    /\ bound' = [p \in Paths |-> IF bound[p] = c THEN None ELSE bound[p]]
    /\ link' = [d \in Clients |->
                  IF d = c THEN "none"
                  ELSE IF giver[d] = c /\ link[d] \in {"open", "failed"}
                       THEN "closed" ELSE link[d]]
    /\ giver' = [giver EXCEPT ![c] = None]
    /\ gift' = [gift EXCEPT ![c] = None]

-----------------------------------------------------------------------------
(* Slips one could make in the actions below; the runs reject each of them *)

\* msgget without IPC_EXCL: an existing queue passes for a new one.
CreateQueueNoExcl(c) ==
    /\ pc[c] = "getmq"
    /\ \E q \in IF mqId = None THEN FreshQIds ELSE {mqId} :
          /\ mqId' = q
          /\ mQId' = [mQId EXCEPT ![c] = q]
    /\ mq' = <<>>
    /\ Goto(c, "tcp")
    /\ UNCHANGED <<serverVars, sFD, fds, clientPresent, nextMessage,
                   bound, link, giver, gift>>

\* The request is not sent.
PostRequestNothing(c) ==
    /\ pc[c] = "post"
    /\ Goto(c, "accept")
    /\ UNCHANGED <<serverVars, mQId, sFD, fds, clientPresent, nextMessage,
                   mqId, mq, bound, link, giver, gift>>

\* A read that does not wait for the echo.
ReadReplyNoWait(c) ==
    /\ pc[c] = "reply"
    /\ Goto(c, "check")
    /\ UNCHANGED <<serverVars, mQId, sFD, fds, clientPresent, nextMessage,
                   mqId, mq, bound, link, giver, gift>>

\* The giver connects to the waiting client once more.
ConnectPeerTwice(c) ==
    /\ pc[c] \in {"connect", "xconnect"}
    /\ bound[nextMessage[c]] # None
    /\ link' = [link EXCEPT ![bound[nextMessage[c]]] = "open"]
    /\ giver' = [giver EXCEPT ![bound[nextMessage[c]]] = c]
    /\ \/ pc' = pc
       \/ Goto(c, IF pc[c] = "connect" THEN "send" ELSE "xsend")
    /\ UNCHANGED <<serverVars, mQId, sFD, fds, clientPresent, nextMessage,
                   mqId, mq, bound, gift>>

\* The queue is removed although a waiting client was found.
ExitReceiveRemoves(c) ==
    /\ pc[c] = "xrcv"
    /\ IF CanReceive(c)
       THEN /\ nextMessage' = [nextMessage EXCEPT ![c] = Head(mq)]
            /\ mqId' = None
            /\ Goto(c, "xconnect")
       ELSE /\ Goto(c, "rmid")
            /\ UNCHANGED <<nextMessage, mqId>>
    /\ mq' = IF CanReceive(c) THEN <<>> ELSE mq
    /\ UNCHANGED <<serverVars, mQId, sFD, fds, clientPresent, bound, link, giver, gift>>

-----------------------------------------------------------------------------
(* Asking for the connection: main, getMQId *)

\* main starts; everything before getMQId is local to the process.
Launch(c) ==
    /\ pc[c] = "off"
    /\ Goto(c, "getmq")
    /\ UNCHANGED <<serverVars, mQId, sFD, fds, clientPresent, nextMessage,
                   mqId, mq, bound, link, giver, gift>>

\* msgget(IPC_CREAT | IPC_EXCL) creates the queue: this client will connect.
CreateQueue(c) ==
    /\ pc[c] = "getmq"
    /\ mqId = None
    /\ \E q \in FreshQIds :
          /\ mqId' = q
          /\ mQId' = [mQId EXCEPT ![c] = q]
    /\ mq' = <<>>
    /\ Goto(c, "tcp")
    /\ UNCHANGED <<serverVars, sFD, fds, clientPresent, nextMessage,
                   bound, link, giver, gift>>

\* ... or fails because the queue exists.
QueueExists(c) ==
    /\ pc[c] = "getmq"
    /\ mqId # None
    /\ Goto(c, "getmq2")
    /\ UNCHANGED <<serverVars, mQId, sFD, fds, clientPresent, nextMessage,
                   mqId, mq, bound, link, giver, gift>>

\* The second msgget: by now the queue may be gone, and then mQId is -1;
\* getMQId still answers that the queue was present.
OpenQueue(c) ==
    /\ pc[c] = "getmq2"
    /\ mQId' = [mQId EXCEPT ![c] = mqId]
    /\ Goto(c, "bind")
    /\ UNCHANGED <<serverVars, sFD, fds, clientPresent, nextMessage,
                   mqId, mq, bound, link, giver, gift>>

ConnectTcp(c) ==
    /\ pc[c] = "tcp"
    /\ \E k \in FreeConns :
          /\ Dial(k)
          /\ sFD' = [sFD EXCEPT ![c] = k]
          /\ fds' = [fds EXCEPT ![c] = @ \cup {k}]
    /\ Goto(c, "talk")
    /\ UNCHANGED <<mQId, clientPresent, nextMessage, mqId, mq,
                   bound, link, giver, gift>>

\* connect is refused: exit(1), and the queue this client created stays.
ConnectTcpFails(c) ==
    /\ pc[c] = "tcp"
    /\ ~listening
    /\ Gone(c)
    /\ UNCHANGED <<serverVars, mqId, mq>>

\* unlink, bind and listen: the path now leads to c, whoever had it before.
BindUS(c) ==
    /\ pc[c] = "bind"
    /\ bound' = [bound EXCEPT ![PathOf[c]] = c]
    /\ Goto(c, "post")
    /\ UNCHANGED <<serverVars, mQId, sFD, fds, clientPresent, nextMessage,
                   mqId, mq, link, giver, gift>>

\* sendMsg: when the queue is gone msgsnd fails, the failure is only printed,
\* and the client waits in accept all the same.  On a full queue msgsnd blocks.
PostRequest(c) ==
    /\ pc[c] = "post"
    /\ QueueOpen(c) => Len(mq) < QueueCap
    /\ mq' = IF QueueOpen(c) THEN Append(mq, PathOf[c]) ELSE mq
    /\ Goto(c, "accept")
    /\ UNCHANGED <<serverVars, mQId, sFD, fds, clientPresent, nextMessage,
                   mqId, bound, link, giver, gift>>

AcceptUS(c) ==
    /\ pc[c] = "accept"
    /\ link[c] # "none"
    /\ Goto(c, "recv")
    /\ UNCHANGED <<serverVars, mQId, sFD, fds, clientPresent, nextMessage,
                   mqId, mq, bound, link, giver, gift>>

\* recv_fd, close(usfd), unlink(usdPath).  recv_fd answers -1 when the giver
\* closed its end without sending; the client goes on with sFD = -1.
RecvFd(c) ==
    /\ pc[c] = "recv"
    /\ link[c] \in {"sent", "closed"}
    /\ sFD' = [sFD EXCEPT ![c] = gift[c]]
    /\ fds' = [fds EXCEPT ![c] = @ \cup ({gift[c]} \ {None})]
    /\ link' = [link EXCEPT ![c] = "none"]
    /\ giver' = [giver EXCEPT ![c] = None]
    /\ gift' = [gift EXCEPT ![c] = None]
    /\ bound' = [bound EXCEPT ![PathOf[c]] = None]
    /\ Goto(c, "talk")
    /\ UNCHANGED <<serverVars, mQId, clientPresent, nextMessage, mqId, mq>>

-----------------------------------------------------------------------------
(* Talking with the server: dealWithServ *)

\* fgets and write; on -1 the write fails unnoticed.
Talk(c, line) ==
    /\ pc[c] = "talk"
    /\ \/ sFD[c] # None /\ WriteLine(sFD[c], [from |-> c, line |-> line])
       \/ sFD[c] = None /\ UNCHANGED serverVars
    /\ Goto(c, IF line = "exit" THEN "xrcv" ELSE "reply")
    /\ UNCHANGED <<mQId, sFD, fds, clientPresent, nextMessage,
                   mqId, mq, bound, link, giver, gift>>

\* read blocks until an echo arrives; on -1 it fails at once.
ReadReply(c) ==
    /\ pc[c] = "reply"
    /\ \/ sFD[c] = None /\ UNCHANGED rep
       \/ /\ sFD[c] # None
          /\ rep[sFD[c]] # <<>>
          /\ rep' = [rep EXCEPT ![sFD[c]] = Tail(@)]
    /\ Goto(c, "check")
    /\ UNCHANGED <<listening, backlog, serving, req, mQId, sFD, fds,
                   clientPresent, nextMessage, mqId, mq, bound, link, giver, gift>>

-----------------------------------------------------------------------------
(* Handing the connection over: the loop of main *)

\* clientPresent || msgrcv(IPC_NOWAIT) >= 0
Check(c) ==
    /\ pc[c] = "check"
    /\ \/ /\ clientPresent[c]
          /\ Goto(c, "ask")
          /\ UNCHANGED <<clientPresent, nextMessage, mq>>
       \/ /\ ~clientPresent[c]
          /\ CanReceive(c)
          /\ nextMessage' = [nextMessage EXCEPT ![c] = Head(mq)]
          /\ mq' = Tail(mq)
          /\ clientPresent' = [clientPresent EXCEPT ![c] = TRUE]
          /\ Goto(c, "ask")
       \/ /\ ~clientPresent[c]
          /\ ~CanReceive(c)
          /\ Goto(c, "talk")
          /\ UNCHANGED <<clientPresent, nextMessage, mq>>
    /\ UNCHANGED <<serverVars, mQId, sFD, fds, mqId, bound, link, giver, gift>>

Answer(c, a) ==
    /\ pc[c] = "ask"
    /\ \/ /\ a = "n"
          /\ Goto(c, "talk")
          /\ UNCHANGED clientPresent
       \/ /\ a = "y"
          /\ clientPresent' = [clientPresent EXCEPT ![c] = FALSE]
          /\ Goto(c, "connect")
    /\ UNCHANGED <<serverVars, mQId, sFD, fds, nextMessage,
                   mqId, mq, bound, link, giver, gift>>

\* connectConctOrntdUSClient on the path of the request, which is not looked
\* at again: the next msgrcv overwrites it.
ConnectPeer(c) ==
    /\ pc[c] \in {"connect", "xconnect"}
    /\ bound[nextMessage[c]] # None
    /\ LET d == bound[nextMessage[c]]
       IN  /\ link' = [link EXCEPT ![d] = "open"]
           /\ giver' = [giver EXCEPT ![d] = c]
    /\ nextMessage' = [nextMessage EXCEPT ![c] = None]
    /\ Goto(c, IF pc[c] = "connect" THEN "send" ELSE "xsend")
    /\ UNCHANGED <<serverVars, mQId, sFD, fds, clientPresent,
                   mqId, mq, bound, gift>>

\* ... nobody listens on it any more: exit(0), with the connection.
ConnectPeerFails(c) ==
    /\ pc[c] \in {"connect", "xconnect"}
    /\ bound[nextMessage[c]] = None
    /\ Gone(c)
    /\ UNCHANGED <<serverVars, mqId, mq>>

\* send_fd; the giver keeps its own copy open (fds) without using it again,
\* and never closes usfd either.  Sending -1 fails and the peer stays in recv_fd.
SendFd(c, d) ==
    /\ pc[c] \in {"send", "xsend"}
    /\ link[d] = "open"
    /\ giver[d] = c
    /\ link' = [link EXCEPT ![d] = IF sFD[c] = None THEN "failed" ELSE "sent"]
    /\ gift' = [gift EXCEPT ![d] = sFD[c]]
    /\ sFD' = [sFD EXCEPT ![c] = None]
    /\ Goto(c, IF pc[c] = "send" THEN "prompt" ELSE "leave")
    /\ UNCHANGED <<serverVars, mQId, fds, clientPresent, nextMessage,
                   mqId, mq, bound, giver>>

\* The peer died after the connect: sendmsg raises SIGPIPE, or fails on -1.
SendFdFails(c) ==
    /\ pc[c] \in {"send", "xsend"}
    /\ \A d \in Clients : ~(link[d] = "open" /\ giver[d] = c)
    /\ \/ sFD[c] # None /\ Gone(c)
       \/ /\ sFD[c] = None
          /\ Goto(c, IF pc[c] = "send" THEN "prompt" ELSE "leave")
          /\ UNCHANGED <<mQId, sFD, fds, clientPresent, nextMessage,
                         bound, link, giver, gift>>
    /\ UNCHANGED <<serverVars, mqId, mq>>

\* "Enter a something to post a request to get the connection"
Prompt(c, p) ==
    /\ pc[c] = "prompt"
    /\ \/ p = "exit" /\ Gone(c)
       \/ /\ p = "again"
          /\ Goto(c, "getmq")
          /\ UNCHANGED <<mQId, sFD, fds, clientPresent, nextMessage,
                         bound, link, giver, gift>>
    /\ UNCHANGED <<serverVars, mqId, mq>>

-----------------------------------------------------------------------------
(* Leaving: the end of main *)

\* The last msgrcv overwrites nextMessage, whether or not one was pending.
ExitReceive(c) ==
    /\ pc[c] = "xrcv"
    /\ \/ /\ CanReceive(c)
          /\ nextMessage' = [nextMessage EXCEPT ![c] = Head(mq)]
          /\ mq' = Tail(mq)
          /\ Goto(c, "xconnect")
       \/ /\ ~CanReceive(c)
          /\ Goto(c, "rmid")
          /\ UNCHANGED <<nextMessage, mq>>
    /\ UNCHANGED <<serverVars, mQId, sFD, fds, clientPresent,
                   mqId, bound, link, giver, gift>>

\* msgctl(IPC_RMID) removes the queue with whatever it holds by now; when it
\* fails the process ends with exit(1).
RemoveQueue(c) ==
    /\ pc[c] = "rmid"
    /\ \/ /\ QueueOpen(c)
          /\ mqId' = None
          /\ mq' = <<>>
          /\ Goto(c, "leave")
          /\ UNCHANGED <<mQId, sFD, fds, clientPresent, nextMessage,
                         bound, link, giver, gift>>
       \/ /\ ~QueueOpen(c)
          /\ Gone(c)
          /\ UNCHANGED <<mqId, mq>>
    /\ UNCHANGED serverVars

\* close(sFD) and the end of the process.
Leave(c) ==
    /\ pc[c] = "leave"
    /\ Gone(c)
    /\ UNCHANGED <<serverVars, mqId, mq>>

Kill(c) ==
    /\ c \in Killable
    /\ pc[c] # "off"
    /\ Gone(c)
    /\ UNCHANGED <<serverVars, mqId, mq>>

\* ./delete_queue ess-mq, run "before running the first client".
DeleteQueue ==
    /\ \A c \in Clients : pc[c] = "off"
    /\ mqId # None
    /\ mqId' = None
    /\ mq' = <<>>
    /\ UNCHANGED <<serverVars, pc, mQId, sFD, fds, clientPresent, nextMessage,
                   bound, link, giver, gift>>

-----------------------------------------------------------------------------

Server == (StartServer \/ AcceptConn \/ EchoTurn \/ HangUp(OpenConns))
          /\ UNCHANGED clientVars

\* Steps the program takes by itself, without waiting for its user.
Program(c) ==
    \/ CreateQueue(c) \/ QueueExists(c) \/ OpenQueue(c)
    \/ ConnectTcp(c) \/ ConnectTcpFails(c)
    \/ BindUS(c) \/ PostRequest(c) \/ AcceptUS(c) \/ RecvFd(c)
    \/ ReadReply(c) \/ Check(c)
    \/ ConnectPeer(c) \/ ConnectPeerFails(c)
    \/ \E d \in Clients : SendFd(c, d)
    \/ SendFdFails(c)
    \/ ExitReceive(c) \/ RemoveQueue(c) \/ Leave(c)

\* Lines the user types.
User(c) ==
    \/ \E line \in UserLines : Talk(c, line)
    \/ \E a \in Answers : Answer(c, a)
    \/ \E p \in Prompts : Prompt(c, p)

Next ==
    \/ Server
    \/ \E c \in Clients : Launch(c) \/ Program(c) \/ User(c) \/ Kill(c)
    \/ DeleteQueue

Spec == Init /\ [][Next]_vars

\* The scheduler runs every process that is not blocked; nothing is assumed
\* of the users.
FairSpec == Spec /\ WF_vars(Server) /\ \A c \in Clients : WF_vars(Program(c))

\* Users who keep typing: an assumption on people, not on the code.
DiligentSpec == FairSpec /\ \A c \in Clients : WF_vars(User(c))
=============================================================================
