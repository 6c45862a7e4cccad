------------------------------ MODULE ESSProofs ------------------------------
(***************************************************************************)
(* Proofs about the connection-sharing protocol, for any set of clients,    *)
(* any paths (shared or not), any users and any kills.                      *)
(***************************************************************************)
EXTENDS ESSProperties, TLAPS

LEMMA SeqTypes ==
  ASSUME NEW S, NEW s \in Seq(S)
  PROVE  /\ <<>> \in Seq(S)
         /\ s # <<>> => Head(s) \in S /\ Tail(s) \in Seq(S)
         /\ \A x \in S : Append(s, x) \in Seq(S)
  OBVIOUS

\* Every value of every variable stays in its set.
LEMMA InitType == Init => TypeOK
  <1>1. <<>> \in Seq(Conns) /\ <<>> \in Seq(Message) /\ <<>> \in Seq(Paths)
    OBVIOUS
  <1>2. Init => ServerTypeOK
    BY <1>1 DEF Init, ServerInit, ServerTypeOK
  <1>3. Init => ClientTypeOK
    BY <1>1 DEF Init, ClientTypeOK, PC, Links
  <1>. QED
    BY <1>2, <1>3 DEF TypeOK

LEMMA GoneType ==
  ASSUME ClientTypeOK, NEW c \in Clients, Gone(c), UNCHANGED <<mqId, mq>>
  PROVE  ClientTypeOK'
  BY DEF Gone, Goto, ClientTypeOK, PC, Links

LEMMA ServerType == TypeOK /\ Server => TypeOK'
  <1> SUFFICES ASSUME TypeOK, Server PROVE TypeOK'
    OBVIOUS
  <1>1. ClientTypeOK'
    BY DEF Server, clientVars, TypeOK, ClientTypeOK
  <1>2. CASE StartServer
    BY <1>1, <1>2 DEF StartServer, TypeOK, ServerTypeOK
  <1>3. CASE AcceptConn
    BY <1>1, <1>3 DEF AcceptConn, TypeOK, ServerTypeOK
  <1>4. CASE EchoTurn
    <2>1. serving \in Conns /\ req[serving] \in Seq(Message) /\ rep[serving] \in Seq(Message)
      BY <1>4 DEF EchoTurn, TypeOK, ServerTypeOK
    <2>2. /\ Head(req[serving]) \in Message
          /\ Tail(req[serving]) \in Seq(Message)
          /\ <<>> \in Seq(Message)
      BY <1>4, <2>1, SeqTypes DEF EchoTurn
    <2>3. Append(rep[serving], Head(req[serving])) \in Seq(Message)
      BY <2>1, <2>2, SeqTypes
    <2>. QED
      BY <1>1, <1>4, <2>1, <2>2, <2>3 DEF EchoTurn, TypeOK, ServerTypeOK
  <1>5. CASE HangUp(OpenConns)
    BY <1>1, <1>5 DEF HangUp, TypeOK, ServerTypeOK
  <1>. QED
    BY <1>2, <1>3, <1>4, <1>5 DEF Server

LEMMA ProgramType ==
  ASSUME TypeOK, NEW c \in Clients, Launch(c) \/ Program(c) \/ User(c) \/ Kill(c)
  PROVE  TypeOK'
  <1> USE DEF TypeOK
  <1>s. ASSUME UNCHANGED serverVars PROVE ServerTypeOK'
    BY <1>s DEF serverVars, ServerTypeOK
  <1>1. CASE Launch(c)
    BY <1>1, <1>s DEF Launch, Goto, ClientTypeOK, PC
  <1>2. CASE CreateQueue(c)
    BY <1>2, <1>s DEF CreateQueue, FreshQIds, Goto, ClientTypeOK, PC, OwnPC
  <1>3. CASE QueueExists(c)
    BY <1>3, <1>s DEF QueueExists, Goto, ClientTypeOK, PC
  <1>4. CASE OpenQueue(c)
    BY <1>4, <1>s DEF OpenQueue, Goto, ClientTypeOK, PC
  <1>5. CASE ConnectTcp(c)
    <2>1. PICK k \in Conns : /\ Dial(k)
                             /\ sFD' = [sFD EXCEPT ![c] = k]
                             /\ fds' = [fds EXCEPT ![c] = @ \cup {k}]
      BY <1>5 DEF ConnectTcp, FreeConns
    <2>2. ServerTypeOK'
      <3>1. Append(backlog, k) \in Seq(Conns) /\ <<>> \in Seq(Message)
        BY SeqTypes DEF ServerTypeOK
      <3>. QED
        BY <2>1, <3>1 DEF Dial, ServerTypeOK
    <2>3. fds' \in [Clients -> SUBSET Conns]
      BY <2>1 DEF ClientTypeOK
    <2>. QED
      BY <1>5, <2>1, <2>2, <2>3 DEF ConnectTcp, Goto, ClientTypeOK, PC, OwnPC
  <1>6. CASE ConnectTcpFails(c)
    BY <1>6, <1>s, GoneType DEF ConnectTcpFails
  <1>7. CASE BindUS(c)
    BY <1>7, <1>s DEF BindUS, Goto, ClientTypeOK, PC, WaitPC
  <1>8. CASE PostRequest(c)
    <2>1. PathOf[c] \in Paths
      BY ClientAssumption
    <2>2. mq' \in Seq(Paths)
      BY <1>8, <2>1, SeqTypes DEF PostRequest, ClientTypeOK
    <2>. QED
      BY <1>8, <1>s, <2>2 DEF PostRequest, Goto, ClientTypeOK, PC, WaitPC
  <1>9. CASE AcceptUS(c)
    BY <1>9, <1>s DEF AcceptUS, Goto, ClientTypeOK, PC, WaitPC
  <1>10. CASE RecvFd(c)
    <2>1. fds' \in [Clients -> SUBSET Conns]
      BY <1>10 DEF RecvFd, ClientTypeOK
    <2>. QED
      BY <1>10, <1>s, <2>1 DEF RecvFd, Goto, ClientTypeOK, PC, OwnPC, Links
  <1>11. CASE ReadReply(c)
    <2>1. ServerTypeOK'
      <3>1. CASE sFD[c] = None
        BY <1>11, <3>1 DEF ReadReply, ServerTypeOK
      <3>2. CASE sFD[c] # None
        <4>1. sFD[c] \in Conns /\ rep[sFD[c]] \in Seq(Message) /\ rep[sFD[c]] # <<>>
          BY <1>11, <3>2 DEF ReadReply, ServerTypeOK, ClientTypeOK
        <4>2. Tail(rep[sFD[c]]) \in Seq(Message)
          BY <4>1, SeqTypes
        <4>. QED
          BY <1>11, <3>2, <4>1, <4>2 DEF ReadReply, ServerTypeOK
      <3>. QED
        BY <3>1, <3>2
    <2>. QED
      BY <1>11, <2>1 DEF ReadReply, Goto, ClientTypeOK, PC, OwnPC
  <1>12. CASE Check(c)
    <2>0. mq # <<>> => Head(mq) \in Paths /\ Tail(mq) \in Seq(Paths)
      BY SeqTypes DEF ClientTypeOK
    <2>1. mq' \in Seq(Paths) /\ nextMessage' \in [Clients -> Paths \cup {None}]
      BY <1>12, <2>0 DEF Check, CanReceive, ClientTypeOK
    <2>. QED
      BY <1>12, <1>s, <2>1 DEF Check, Goto, ClientTypeOK, PC, OwnPC
  <1>13. CASE ConnectPeer(c)
    BY <1>13, <1>s DEF ConnectPeer, Goto, ClientTypeOK, PC, OwnPC, Links
  <1>14. CASE ConnectPeerFails(c)
    BY <1>14, <1>s, GoneType DEF ConnectPeerFails
  <1>15. ASSUME NEW d \in Clients, SendFd(c, d) PROVE TypeOK'
    BY <1>15, <1>s DEF SendFd, Goto, ClientTypeOK, PC, Links
  <1>16. CASE SendFdFails(c)
    BY <1>16, <1>s, GoneType DEF SendFdFails, Goto, ClientTypeOK, PC
  <1>17. CASE ExitReceive(c)
    <2>0. mq # <<>> => Head(mq) \in Paths /\ Tail(mq) \in Seq(Paths)
      BY SeqTypes DEF ClientTypeOK
    <2>1. mq' \in Seq(Paths) /\ nextMessage' \in [Clients -> Paths \cup {None}]
      BY <1>17, <2>0 DEF ExitReceive, CanReceive, ClientTypeOK
    <2>. QED
      BY <1>17, <1>s, <2>1 DEF ExitReceive, Goto, ClientTypeOK, PC, OwnPC
  <1>18. CASE RemoveQueue(c)
    BY <1>18, <1>s, GoneType, SeqTypes DEF RemoveQueue, Goto, ClientTypeOK, PC
  <1>19. CASE Leave(c)
    BY <1>19, <1>s, GoneType DEF Leave
  <1>20. ASSUME NEW line \in Lines, Talk(c, line) PROVE TypeOK'
    <2>1. [from |-> c, line |-> line] \in Message
      BY <1>20 DEF Message
    <2>2. ServerTypeOK'
      <3>1. ASSUME sFD[c] # None
            PROVE  Append(req[sFD[c]], [from |-> c, line |-> line]) \in Seq(Message)
        BY <2>1, <3>1, SeqTypes DEF ServerTypeOK, ClientTypeOK
      <3>. QED
        BY <1>20, <3>1, <1>s DEF Talk, WriteLine, ServerTypeOK, ClientTypeOK
    <2>. QED
      BY <1>20, <2>2 DEF Talk, Goto, ClientTypeOK, PC, OwnPC
  <1>21. ASSUME NEW a, Answer(c, a) PROVE TypeOK'
    BY <1>21, <1>s DEF Answer, Goto, ClientTypeOK, PC, OwnPC
  <1>22. ASSUME NEW p, Prompt(c, p) PROVE TypeOK'
    BY <1>22, <1>s, GoneType DEF Prompt, Goto, ClientTypeOK, PC
  <1>23. CASE Kill(c)
    BY <1>23, <1>s, GoneType DEF Kill
  <1>. QED
    BY <1>1, <1>2, <1>3, <1>4, <1>5, <1>6, <1>7, <1>8, <1>9, <1>10, <1>11, <1>12,
       <1>13, <1>14, <1>15, <1>16, <1>17, <1>18, <1>19, <1>20, <1>21, <1>22, <1>23,
       ClientAssumption
       DEF Program, User

\* The model is type correct.
THEOREM TypeCorrect == Spec => []TypeOK
  <1>1. Init => TypeOK
    BY InitType
  <1>2. TypeOK /\ [Next]_vars => TypeOK'
    <2> SUFFICES ASSUME TypeOK, [Next]_vars PROVE TypeOK'
      OBVIOUS
    <2>1. CASE DeleteQueue
      BY <2>1 DEF DeleteQueue, TypeOK, ServerTypeOK, ClientTypeOK, serverVars
    <2>2. CASE UNCHANGED vars
      BY <2>2 DEF vars, serverVars, clientVars, TypeOK, ServerTypeOK, ClientTypeOK
    <2>. QED
      BY <2>1, <2>2, ServerType, ProgramType DEF Next
  <1>. QED
    BY <1>1, <1>2, PTL DEF Spec

-----------------------------------------------------------------------------
(* The right to the connection *)

\* When a process ends, the right it may have had is lost or falls to the
\* client it was connected to.
LEMMA GoneOwner ==
  ASSUME TypeOK, OwnerInv, NEW c \in Clients, Gone(c), UNCHANGED mqId
  PROVE  OwnerInv'
  <1> USE DEF TypeOK, ClientTypeOK, Gone, Goto
  <1>1. PendingOK'
    BY DEF OwnerInv, PendingOK
  <1>2. SocketsOK'
    BY ClientAssumption DEF OwnerInv, SocketsOK, WaitPC
  <1>3. LinksOK'
    BY ClientAssumption DEF OwnerInv, LinksOK
  <1>4. \A d \in Clients : Token(d)' =>
           \/ Token(d)
           \/ link[d] = "open" /\ giver[d] = c /\ Token(c)
    BY DEF OwnerInv, LinksOK, Token, OwnPC
  <1>5. OneOwner'
    BY <1>4 DEF OwnerInv, OneOwner, LinksOK, Token, OwnPC
  <1>6. QueueGuardsOwner'
    BY <1>4 DEF OwnerInv, QueueGuardsOwner
  <1>. QED
    BY <1>1, <1>2, <1>3, <1>5, <1>6 DEF OwnerInv

\* A giver reaches a client nobody else is giving to.
LEMMA PeerIsFree ==
  ASSUME TypeOK, OwnerInv, NEW c \in Clients,
         pc[c] \in {"connect", "xconnect"}, bound[nextMessage[c]] # None
  PROVE  /\ bound[nextMessage[c]] \in Clients \ {c}
         /\ pc[bound[nextMessage[c]]] \in WaitPC
         /\ link[bound[nextMessage[c]]] = "none"
         /\ \A e \in Clients : link[e] # "open"
  <1>1. nextMessage[c] \in Paths
    BY DEF OwnerInv, PendingOK
  <1>2. bound[nextMessage[c]] \in Clients /\ pc[bound[nextMessage[c]]] \in WaitPC
    BY <1>1 DEF TypeOK, ClientTypeOK, OwnerInv, SocketsOK
  <1>3. bound[nextMessage[c]] # c
    BY <1>2 DEF WaitPC
  <1>4. \A e \in Clients : link[e] # "open"
    BY DEF OwnerInv, LinksOK, OneOwner, Token, OwnPC
  <1>5. link[bound[nextMessage[c]]] = "none"
    BY <1>2, <1>3, <1>4 DEF TypeOK, ClientTypeOK, Links, OwnerInv, OneOwner, Token, OwnPC
  <1>. QED
    BY <1>2, <1>3, <1>4, <1>5

\* A step that gives nobody the right keeps the two properties about it.
LEMMA TokensKept ==
  ASSUME OneOwner, QueueGuardsOwner, UNCHANGED mqId,
         \A d \in Clients : Token(d)' => Token(d)
  PROVE  OneOwner' /\ QueueGuardsOwner'
  BY DEF OneOwner, QueueGuardsOwner

LEMMA StepOwner ==
  ASSUME TypeOK, OwnerInv, NEW c \in Clients,
         Launch(c) \/ Program(c) \/ User(c) \/ Kill(c)
  PROVE  OwnerInv'
  <1> USE DEF TypeOK, ClientTypeOK, OwnerInv, Goto, WaitPC
  <1>1. CASE Launch(c)
    <2>a. PendingOK'
      BY <1>1 DEF Launch, PendingOK, OwnPC
    <2>b. SocketsOK'
      BY <1>1 DEF Launch, SocketsOK
    <2>c. LinksOK'
      BY <1>1 DEF Launch, LinksOK, SocketsOK
    <2>d. UNCHANGED mqId /\ \A d \in Clients : Token(d)' => Token(d)
      BY <1>1 DEF Launch, Token, OwnPC
    <2>. QED
      BY <2>a, <2>b, <2>c, <2>d, TokensKept
  <1>2. CASE CreateQueue(c)
    <2>1. mqId' # None
      BY <1>2, ClientAssumption DEF CreateQueue, FreshQIds
    <2>2. \A d \in Clients : Token(d)' => d = c
      BY <1>2 DEF CreateQueue, QueueGuardsOwner, Token
    <2>. QED
      BY <1>2, <2>1, <2>2
         DEF CreateQueue, PendingOK, SocketsOK, LinksOK, OneOwner, QueueGuardsOwner
  <1>3. CASE QueueExists(c)
    <2>a. PendingOK'
      BY <1>3 DEF QueueExists, PendingOK, OwnPC
    <2>b. SocketsOK'
      BY <1>3 DEF QueueExists, SocketsOK
    <2>c. LinksOK'
      BY <1>3 DEF QueueExists, LinksOK, SocketsOK
    <2>d. UNCHANGED mqId /\ \A d \in Clients : Token(d)' => Token(d)
      BY <1>3 DEF QueueExists, Token, OwnPC
    <2>. QED
      BY <2>a, <2>b, <2>c, <2>d, TokensKept
  <1>4. CASE OpenQueue(c)
    <2>a. PendingOK'
      BY <1>4 DEF OpenQueue, PendingOK, OwnPC
    <2>b. SocketsOK'
      BY <1>4 DEF OpenQueue, SocketsOK
    <2>c. LinksOK'
      BY <1>4 DEF OpenQueue, LinksOK, SocketsOK
    <2>d. UNCHANGED mqId /\ \A d \in Clients : Token(d)' => Token(d)
      BY <1>4 DEF OpenQueue, Token, OwnPC
    <2>. QED
      BY <2>a, <2>b, <2>c, <2>d, TokensKept
  <1>5. CASE ConnectTcp(c)
    <2>a. PendingOK'
      BY <1>5 DEF ConnectTcp, PendingOK, OwnPC
    <2>b. SocketsOK'
      BY <1>5 DEF ConnectTcp, SocketsOK
    <2>c. LinksOK'
      BY <1>5 DEF ConnectTcp, LinksOK, SocketsOK
    <2>d. UNCHANGED mqId /\ \A d \in Clients : Token(d)' => Token(d)
      BY <1>5 DEF ConnectTcp, Token, OwnPC
    <2>. QED
      BY <2>a, <2>b, <2>c, <2>d, TokensKept
  <1>6. CASE ConnectTcpFails(c)
    BY <1>6, GoneOwner DEF ConnectTcpFails
  <1>7. CASE BindUS(c)
    <2>a. PendingOK'
      BY <1>7, ClientAssumption DEF BindUS, PendingOK, OwnPC
    <2>b. SocketsOK'
      BY <1>7, ClientAssumption DEF BindUS, SocketsOK
    <2>c. LinksOK'
      BY <1>7, ClientAssumption DEF BindUS, LinksOK, SocketsOK
    <2>d. UNCHANGED mqId /\ \A d \in Clients : Token(d)' => Token(d)
      BY <1>7 DEF BindUS, Token, OwnPC
    <2>. QED
      BY <2>a, <2>b, <2>c, <2>d, TokensKept
  <1>8. CASE PostRequest(c)
    <2>a. PendingOK'
      BY <1>8 DEF PostRequest, PendingOK, OwnPC
    <2>b. SocketsOK'
      BY <1>8 DEF PostRequest, SocketsOK
    <2>c. LinksOK'
      BY <1>8 DEF PostRequest, LinksOK, SocketsOK
    <2>d. UNCHANGED mqId /\ \A d \in Clients : Token(d)' => Token(d)
      BY <1>8 DEF PostRequest, Token, OwnPC
    <2>. QED
      BY <2>a, <2>b, <2>c, <2>d, TokensKept
  <1>9. CASE AcceptUS(c)
    <2>a. PendingOK'
      BY <1>9 DEF AcceptUS, PendingOK, OwnPC
    <2>b. SocketsOK'
      BY <1>9 DEF AcceptUS, SocketsOK
    <2>c. LinksOK'
      BY <1>9 DEF AcceptUS, LinksOK, SocketsOK
    <2>d. UNCHANGED mqId /\ \A d \in Clients : Token(d)' => Token(d)
      BY <1>9 DEF AcceptUS, Token, OwnPC
    <2>. QED
      BY <2>a, <2>b, <2>c, <2>d, TokensKept
  <1>10. CASE RecvFd(c)
    BY <1>10, ClientAssumption
       DEF RecvFd, PendingOK, SocketsOK, LinksOK, OneOwner, QueueGuardsOwner, Token, OwnPC
  <1>11. CASE ReadReply(c)
    <2>a. PendingOK'
      BY <1>11 DEF ReadReply, PendingOK, OwnPC
    <2>b. SocketsOK'
      BY <1>11 DEF ReadReply, SocketsOK
    <2>c. LinksOK'
      BY <1>11 DEF ReadReply, LinksOK, SocketsOK
    <2>d. UNCHANGED mqId /\ \A d \in Clients : Token(d)' => Token(d)
      BY <1>11 DEF ReadReply, Token, OwnPC
    <2>. QED
      BY <2>a, <2>b, <2>c, <2>d, TokensKept
  <1>12. CASE Check(c)
    <2>1. CanReceive(c) => Head(mq) \in Paths
      BY SeqTypes DEF CanReceive
    <2>a. PendingOK'
      BY <1>12, <2>1 DEF Check, PendingOK, OwnPC
    <2>b. SocketsOK'
      BY <1>12, <2>1 DEF Check, SocketsOK
    <2>c. LinksOK'
      BY <1>12, <2>1 DEF Check, LinksOK, SocketsOK
    <2>d. UNCHANGED mqId /\ \A d \in Clients : Token(d)' => Token(d)
      BY <1>12 DEF Check, Token, OwnPC
    <2>. QED
      BY <2>a, <2>b, <2>c, <2>d, TokensKept
  <1>13. CASE ConnectPeer(c)
    <2>a. PendingOK'
      BY <1>13, PeerIsFree DEF ConnectPeer, PendingOK, OwnPC
    <2>b. SocketsOK'
      BY <1>13, PeerIsFree DEF ConnectPeer, SocketsOK
    <2>c. LinksOK'
      BY <1>13, PeerIsFree DEF ConnectPeer, LinksOK, SocketsOK
    <2>d. UNCHANGED mqId /\ \A d \in Clients : Token(d)' => Token(d)
      BY <1>13 DEF ConnectPeer, Token, OwnPC
    <2>. QED
      BY <2>a, <2>b, <2>c, <2>d, TokensKept
  <1>14. CASE ConnectPeerFails(c)
    BY <1>14, GoneOwner DEF ConnectPeerFails
  <1>15. ASSUME NEW d \in Clients, SendFd(c, d) PROVE OwnerInv'
    BY <1>15 DEF SendFd, PendingOK, SocketsOK, LinksOK, OneOwner, QueueGuardsOwner, Token, OwnPC
  <1>16. CASE SendFdFails(c)
    <2>1. CASE Gone(c)
      BY <1>16, <2>1, GoneOwner DEF SendFdFails
    <2>2. CASE ~Gone(c)
      <3>1. PendingOK' /\ SocketsOK'
        BY <1>16, <2>2 DEF SendFdFails, PendingOK, SocketsOK
      <3>2. LinksOK'
        BY <1>16, <2>2 DEF SendFdFails, LinksOK
      <3>3. \A d \in Clients : Token(d)' => Token(d)
        BY <1>16, <2>2 DEF SendFdFails, Token, OwnPC
      <3>. QED
        BY <1>16, <3>1, <3>2, <3>3 DEF SendFdFails, OneOwner, QueueGuardsOwner
    <2>. QED
      BY <2>1, <2>2
  <1>17. CASE ExitReceive(c)
    <2>1. CanReceive(c) => Head(mq) \in Paths
      BY SeqTypes DEF CanReceive
    <2>2. PendingOK'
      BY <1>17, <2>1 DEF ExitReceive, PendingOK
    <2>3. SocketsOK' /\ LinksOK'
      BY <1>17 DEF ExitReceive, SocketsOK, LinksOK
    <2>4. \A d \in Clients : Token(d)' => Token(d)
      BY <1>17 DEF ExitReceive, Token, OwnPC
    <2>5. UNCHANGED mqId
      BY <1>17 DEF ExitReceive
    <2>. QED
      BY <2>2, <2>3, <2>4, <2>5 DEF OneOwner, QueueGuardsOwner
  <1>18. CASE RemoveQueue(c)
    <2>1. CASE ~QueueOpen(c)
      BY <1>18, <2>1, GoneOwner DEF RemoveQueue
    <2>2. CASE QueueOpen(c)
      BY <1>18, <2>2
         DEF RemoveQueue, PendingOK, SocketsOK, LinksOK, OneOwner, QueueGuardsOwner, Token, OwnPC
    <2>. QED
      BY <2>1, <2>2
  <1>19. CASE Leave(c)
    BY <1>19, GoneOwner DEF Leave
  <1>20. ASSUME NEW line, Talk(c, line) PROVE OwnerInv'
    <2>a. PendingOK'
      BY <1>20 DEF Talk, PendingOK, OwnPC
    <2>b. SocketsOK'
      BY <1>20 DEF Talk, SocketsOK
    <2>c. LinksOK'
      BY <1>20 DEF Talk, LinksOK, SocketsOK
    <2>d. UNCHANGED mqId /\ \A d \in Clients : Token(d)' => Token(d)
      BY <1>20 DEF Talk, Token, OwnPC
    <2>. QED
      BY <2>a, <2>b, <2>c, <2>d, TokensKept
  <1>21. ASSUME NEW a, Answer(c, a) PROVE OwnerInv'
    <2>a. PendingOK'
      BY <1>21 DEF Answer, PendingOK, OwnPC
    <2>b. SocketsOK'
      <3>1. UNCHANGED <<bound, link>>
        BY <1>21 DEF Answer
      <3>2. \A d \in Clients : pc[d] \in WaitPC => pc'[d] = pc[d]
        <4>1. pc[c] \notin WaitPC
          BY <1>21 DEF Answer, WaitPC
        <4>2. \A d \in Clients : d # c => pc'[d] = pc[d]
          BY <1>21 DEF Answer, Goto
        <4>. QED
          BY <4>1, <4>2
      <3>3. \A p \in Paths : bound[p] # None => bound[p] \in Clients
        BY DEF TypeOK
      <3>. QED
        BY <3>1, <3>2, <3>3 DEF SocketsOK
    <2>c. LinksOK'
      BY <1>21 DEF Answer, LinksOK, SocketsOK
    <2>d. UNCHANGED mqId /\ \A d \in Clients : Token(d)' => Token(d)
      BY <1>21 DEF Answer, Token, OwnPC
    <2>. QED
      BY <2>a, <2>b, <2>c, <2>d, TokensKept
  <1>22. ASSUME NEW p, Prompt(c, p) PROVE OwnerInv'
    <2>1. CASE Gone(c)
      BY <1>22, <2>1, GoneOwner DEF Prompt
    <2>2. CASE ~Gone(c)
      <3>a. PendingOK'
        BY <1>22, <2>2 DEF Prompt, PendingOK, OwnPC
      <3>b. SocketsOK'
        BY <1>22, <2>2 DEF Prompt, SocketsOK
      <3>c. LinksOK'
        BY <1>22, <2>2 DEF Prompt, LinksOK, SocketsOK
      <3>d. UNCHANGED mqId /\ \A d \in Clients : Token(d)' => Token(d)
        BY <1>22, <2>2 DEF Prompt, Token, OwnPC
      <3>. QED
        BY <3>a, <3>b, <3>c, <3>d, TokensKept
    <2>. QED
      BY <2>1, <2>2
  <1>23. CASE Kill(c)
    BY <1>23, GoneOwner DEF Kill
  <1>. QED
    BY <1>1, <1>2, <1>3, <1>4, <1>5, <1>6, <1>7, <1>8, <1>9, <1>10, <1>11, <1>12,
       <1>13, <1>14, <1>15, <1>16, <1>17, <1>18, <1>19, <1>20, <1>21, <1>22, <1>23
       DEF Program, User

\* The invariant that carries the safety of the protocol.
THEOREM OwnerInvariant == Spec => [](TypeOK /\ OwnerInv)
  <1>1. Init => OwnerInv
    BY ClientAssumption
       DEF Init, OwnerInv, PendingOK, SocketsOK, LinksOK, OneOwner, QueueGuardsOwner,
           Token, OwnPC
  <1>2. TypeOK /\ OwnerInv /\ [Next]_vars => OwnerInv'
    <2> SUFFICES ASSUME TypeOK, OwnerInv, [Next]_vars PROVE OwnerInv'
      OBVIOUS
    <2>1. CASE Server
      BY <2>1 DEF Server, clientVars, OwnerInv, PendingOK, SocketsOK, LinksOK,
                  OneOwner, QueueGuardsOwner, Token
    <2>2. CASE DeleteQueue
      BY <2>2 DEF DeleteQueue, OwnerInv, PendingOK, SocketsOK, LinksOK, OneOwner,
                  QueueGuardsOwner, Token, OwnPC, WaitPC
    <2>3. CASE UNCHANGED vars
      BY <2>3 DEF vars, clientVars, OwnerInv, PendingOK, SocketsOK, LinksOK,
                  OneOwner, QueueGuardsOwner, Token
    <2>. QED
      BY <2>1, <2>2, <2>3, StepOwner DEF Next
  <1>. QED
    BY <1>1, <1>2, TypeCorrect, PTL DEF Spec

\* At most one client owns the conversation, with the connection, with the
\* descriptor on its way, or after its giver died, for any clients and kills.
THEOREM OneOwnerAlways == Spec => []OneOwner
  BY OwnerInvariant, PTL DEF OwnerInv

\* Whenever a client owns the conversation the queue exists.
THEOREM QueueGuardsOwnerAlways == Spec => []QueueGuardsOwner
  BY OwnerInvariant, PTL DEF OwnerInv

\* No giver connects to a client another giver is connected to.
THEOREM OneGiverPerWaiterAlways == Spec => []OneGiverPerWaiter
  <1>1. TypeOK /\ OwnerInv => OneGiverPerWaiter
    BY PeerIsFree DEF OneGiverPerWaiter
  <1>. QED
    BY <1>1, OwnerInvariant, PTL

-----------------------------------------------------------------------------
(* The protocol implements ExclusiveHolder *)

Asking == {c \in Clients : pc[c] \in WaitPC}

LEMMA HolderNow ==
  ASSUME OneOwner
  PROVE  /\ \A c \in Clients : Token(c) => Holder = c
         /\ (\A c \in Clients : ~Token(c)) => Holder = None
  BY DEF OneOwner, Holder

LEMMA HolderNext ==
  ASSUME OneOwner'
  PROVE  /\ \A c \in Clients : Token(c)' => Holder' = c
         /\ (\A c \in Clients : ~Token(c)') => Holder' = None
  BY DEF OneOwner, Holder

LEMMA HolderStays ==
  ASSUME OneOwner, OneOwner', \A c \in Clients : Token(c)' <=> Token(c)
  PROVE  Holder' = Holder
  BY HolderNow, HolderNext

\* The abstract steps, as changes of the two mapped variables.
LEMMA AbsSteps ==
  ASSUME NEW c \in Clients, NEW d \in Clients
  PROVE  /\ Holder = None /\ c \notin Asking /\ Holder' = c /\ Asking' = Asking
              => Abs!Next
         /\ c \notin Asking /\ Holder # c /\ Asking' = Asking \cup {c} /\ Holder' = Holder
              => Abs!Next
         /\ Holder = c /\ d \in Asking \ {c} /\ Holder' = d /\ Asking' = Asking
              => Abs!Next
         /\ Holder = c /\ c \in Asking /\ Asking' = Asking \ {c} /\ Holder' = Holder
              => Abs!Next
         /\ Holder = c /\ Holder' = None /\ Asking' = Asking \ {c} => Abs!Next
         /\ c \in Asking /\ Holder # c /\ Asking' = Asking \ {c} /\ Holder' = Holder
              => Abs!Next
  BY DEF Abs!Next, Abs!Acquire, Abs!Ask, Abs!Transfer, Abs!Notice, Abs!Release,
         Abs!GiveUp, Asking

LEMMA GoneImplements ==
  ASSUME TypeOK, OwnerInv, OwnerInv', NEW c \in Clients, Gone(c)
  PROVE  Abs!Next \/ (Holder' = Holder /\ Asking' = Asking)
  <1> USE DEF TypeOK, ClientTypeOK
  <1>1. Asking' = Asking \ {c}
    BY DEF Gone, Goto, Asking, WaitPC
  <1>2. ~Token(c)'
    BY DEF Gone, Goto, Token, OwnPC
  <1>3. \A d \in Clients \ {c} : Token(d) => Token(d)'
    BY DEF Gone, Goto, Token
  <1>4. CASE \E d \in Clients : link[d] = "open" /\ giver[d] = c
    <2>1. PICK d \in Clients : link[d] = "open" /\ giver[d] = c
      BY <1>4
    <2>2. Token(c) /\ c \notin Asking /\ d \in Asking \ {c}
      BY <2>1 DEF OwnerInv, LinksOK, SocketsOK, Token, OwnPC, Asking, WaitPC
    <2>3. Token(d)'
      BY <2>1, <2>2 DEF Gone, Token
    <2>. QED
      BY <1>1, <2>2, <2>3, HolderNow, HolderNext, AbsSteps DEF OwnerInv
  <1>5. CASE ~ \E d \in Clients : link[d] = "open" /\ giver[d] = c
    <2>1. \A d \in Clients \ {c} : Token(d)' => Token(d)
      BY <1>5 DEF Gone, Goto, Token
    <2>2. CASE Token(c)
      <3>1. \A d \in Clients : ~Token(d)'
        BY <1>2, <2>1, <2>2 DEF OwnerInv, OneOwner
      <3>. QED
        BY <1>1, <2>2, <3>1, HolderNow, HolderNext, AbsSteps DEF OwnerInv
    <2>3. CASE ~Token(c)
      <3>1. Holder' = Holder
        BY <1>2, <1>3, <2>1, <2>3, HolderStays DEF OwnerInv
      <3>2. Holder # c
        BY <2>3, HolderNow, ClientAssumption DEF OwnerInv
      <3>3. c \notin Asking => Asking' = Asking
        BY <1>1
      <3>. QED
        BY <1>1, <3>1, <3>2, <3>3, AbsSteps
    <2>. QED
      BY <2>2, <2>3
  <1>. QED
    BY <1>4, <1>5

LEMMA StepImplements ==
  ASSUME TypeOK, OwnerInv, OwnerInv', NEW c \in Clients,
         Launch(c) \/ Program(c) \/ User(c) \/ Kill(c)
  PROVE  Abs!Next \/ (Holder' = Holder /\ Asking' = Asking)
  <1> USE DEF TypeOK, ClientTypeOK, Goto
  <1>0. ASSUME UNCHANGED link,
               pc' = [pc EXCEPT ![c] = pc'[c]],
               pc'[c] \in OwnPC <=> pc[c] \in OwnPC,
               pc'[c] \in WaitPC <=> pc[c] \in WaitPC
        PROVE  Holder' = Holder /\ Asking' = Asking
    <2>1. \A d \in Clients : Token(d)' <=> Token(d)
      BY <1>0 DEF Token
    <2>. QED
      BY <1>0, <2>1, HolderStays DEF OwnerInv, Asking
  <1> USE DEF OwnPC, WaitPC
  <1>1. CASE Launch(c) \/ QueueExists(c) \/ OpenQueue(c) \/ ConnectTcp(c)
    BY <1>0, <1>1 DEF Launch, QueueExists, OpenQueue, ConnectTcp
  <1>2. CASE CreateQueue(c)
    <2>1. Holder = None
      BY <1>2, HolderNow DEF CreateQueue, OwnerInv, QueueGuardsOwner
    <2>2. Token(c)' /\ c \notin Asking /\ Asking' = Asking
      BY <1>2 DEF CreateQueue, Token, Asking
    <2>. QED
      BY <2>1, <2>2, HolderNext, AbsSteps DEF OwnerInv
  <1>3. CASE BindUS(c)
    <2>1. ~Token(c) /\ \A d \in Clients : Token(d)' <=> Token(d)
      BY <1>3 DEF BindUS, Token, OwnerInv, SocketsOK
    <2>2. Holder' = Holder /\ Holder # c
      BY <2>1, HolderStays, HolderNow, ClientAssumption DEF OwnerInv
    <2>3. c \notin Asking /\ Asking' = Asking \cup {c}
      BY <1>3 DEF BindUS, Asking
    <2>. QED
      BY <2>2, <2>3, AbsSteps
  <1>4. CASE PostRequest(c) \/ AcceptUS(c) \/ ReadReply(c)
    BY <1>0, <1>4 DEF PostRequest, AcceptUS, ReadReply
  <1>5. CASE RecvFd(c)
    <2>1. Token(c) /\ Token(c)' /\ c \in Asking /\ Asking' = Asking \ {c}
      BY <1>5 DEF RecvFd, Token, Asking
    <2>. QED
      BY <2>1, HolderNow, HolderNext, AbsSteps DEF OwnerInv
  <1>6. CASE Check(c)
    BY <1>0, <1>6 DEF Check
  <1>7. CASE ConnectPeer(c)
    <2>1. /\ bound[nextMessage[c]] \in Clients
          /\ link[bound[nextMessage[c]]] = "none"
      BY <1>7, PeerIsFree DEF ConnectPeer
    <2>2. \A d \in Clients : Token(d)' <=> Token(d)
      BY <1>7, <2>1 DEF ConnectPeer, Token
    <2>3. Asking' = Asking
      BY <1>7 DEF ConnectPeer, Asking
    <2>. QED
      BY <2>2, <2>3, HolderStays DEF OwnerInv
  <1>8. ASSUME NEW d \in Clients, SendFd(c, d) PROVE Abs!Next
    <2>1. Token(c) /\ Token(d)' /\ d \in Asking \ {c} /\ Asking' = Asking
      BY <1>8 DEF SendFd, Token, Asking, OwnerInv, SocketsOK
    <2>. QED
      BY <2>1, HolderNow, HolderNext, AbsSteps DEF OwnerInv
  <1>9. ASSUME Token(c), \A d \in Clients : Token(d)' => Token(d) /\ d # c,
               Asking' = Asking \ {c}
        PROVE  Abs!Next
    <2>1. \A d \in Clients : ~Token(d)'
      BY <1>9 DEF OwnerInv, OneOwner
    <2>. QED
      BY <1>9, <2>1, HolderNow, HolderNext, AbsSteps DEF OwnerInv
  <1>10. CASE SendFdFails(c) /\ ~Gone(c)
    <2>1. Token(c) /\ \A d \in Clients : Token(d)' => Token(d) /\ d # c
      BY <1>10 DEF SendFdFails, Token, OwnerInv, SocketsOK
    <2>2. Asking' = Asking \ {c}
      BY <1>10 DEF SendFdFails, Asking
    <2>. QED
      BY <1>9, <2>1, <2>2
  <1>11. CASE ExitReceive(c)
    BY <1>0, <1>11 DEF ExitReceive
  <1>12. CASE RemoveQueue(c) /\ ~Gone(c)
    <2>0. pc[c] = "rmid" /\ pc' = [pc EXCEPT ![c] = "leave"] /\ UNCHANGED link
      BY <1>12 DEF RemoveQueue
    <2>1. Token(c) /\ \A d \in Clients : Token(d)' => Token(d) /\ d # c
      BY <2>0 DEF Token, OwnerInv, SocketsOK
    <2>2. Asking' = Asking \ {c}
      BY <1>12 DEF RemoveQueue, Asking
    <2>. QED
      BY <1>9, <2>1, <2>2
  <1>13. ASSUME NEW line, Talk(c, line) PROVE Holder' = Holder /\ Asking' = Asking
    BY <1>0, <1>13 DEF Talk
  <1>14. ASSUME NEW a, Answer(c, a) PROVE Holder' = Holder /\ Asking' = Asking
    BY <1>0, <1>14 DEF Answer
  <1>15. ASSUME NEW p, Prompt(c, p), ~Gone(c) PROVE Holder' = Holder /\ Asking' = Asking
    BY <1>0, <1>15 DEF Prompt
  <1>16. CASE Gone(c)
    BY <1>16, GoneImplements
  <1>. QED
    BY <1>1, <1>2, <1>3, <1>4, <1>5, <1>6, <1>7, <1>8, <1>10, <1>11, <1>12, <1>13,
       <1>14, <1>15, <1>16
       DEF Program, User, Kill, Leave, ConnectTcpFails, ConnectPeerFails

\* The protocol implements ExclusiveHolder: the right to talk is taken only
\* when it is free, and passes only to a client that waits for it.
THEOREM Implementation == Spec => ImplementsHolder
  <1>1. Init => Abs!Init
    <2>1. ASSUME Init PROVE \A c \in Clients : ~Token(c)
      BY <2>1 DEF Init, Token, OwnPC
    <2>2. ASSUME Init PROVE Asking = {}
      BY <2>2 DEF Init, Asking, WaitPC
    <2>. QED
      BY <2>1, <2>2 DEF Abs!Init, Holder, Asking
  <1>2. /\ TypeOK /\ OwnerInv /\ (TypeOK /\ OwnerInv)' /\ [Next]_vars
        => Abs!Next \/ (Holder' = Holder /\ Asking' = Asking)
    <2> SUFFICES ASSUME TypeOK, OwnerInv, OwnerInv', [Next]_vars
                 PROVE  Abs!Next \/ (Holder' = Holder /\ Asking' = Asking)
      OBVIOUS
    <2>1. CASE \E c \in Clients : Launch(c) \/ Program(c) \/ User(c) \/ Kill(c)
      BY <2>1, StepImplements
    <2>2. CASE UNCHANGED <<pc, link>>
      <3>1. \A c \in Clients : Token(c)' <=> Token(c)
        BY <2>2 DEF Token
      <3>. QED
        BY <2>2, <3>1, HolderStays DEF OwnerInv, Asking
    <2>. QED
      BY <2>1, <2>2 DEF Next, Server, DeleteQueue, vars, clientVars
  <1>3. /\ TypeOK /\ OwnerInv /\ (TypeOK /\ OwnerInv)' /\ [Next]_vars
        => [Abs!Next]_<<Holder, {c \in Clients : pc[c] \in WaitPC}>>
    BY <1>2 DEF Asking
  <1>. QED
    BY <1>1, <1>3, OwnerInvariant, PTL DEF Spec, ImplementsHolder, Abs!Spec
-----------------------------------------------------------------------------
(* The owner reads the queue *)

\* What is in a sequence after the operations on a queue.
LEMMA SeqMembers ==
  ASSUME NEW S, NEW s \in Seq(S), NEW p
  PROVE  /\ s # <<>> => \E i \in DOMAIN s : s[i] = Head(s)
         /\ s # <<>> /\ (\E i \in DOMAIN Tail(s) : Tail(s)[i] = p)
               => \E i \in DOMAIN s : s[i] = p
         /\ \A x \in S : (\E i \in DOMAIN Append(s, x) : Append(s, x)[i] = p)
               => p = x \/ \E i \in DOMAIN s : s[i] = p
  <1>1. s # <<>> => 1 \in DOMAIN s /\ s[1] = Head(s)
    OBVIOUS
  <1>2. ASSUME s # <<>>, NEW i \in DOMAIN Tail(s)
        PROVE  i + 1 \in DOMAIN s /\ Tail(s)[i] = s[i + 1]
    BY <1>2
  <1>3. ASSUME NEW x \in S, NEW i \in DOMAIN Append(s, x)
        PROVE  Append(s, x)[i] = x \/ (i \in DOMAIN s /\ Append(s, x)[i] = s[i])
    BY <1>3
  <1>. QED
    BY <1>1, <1>2, <1>3

\* A step that leaves the queue, asks for nothing new on behalf of a client
\* that waits already, and gives nobody the right, keeps QueueInv; so does one
\* that concerns a client that has the queue.
LEMMA QueueKept ==
  ASSUME QueueInv, UNCHANGED mqId, mqId = None => mq' = <<>>,
         \A d \in Clients :
            \/ QueueOpen(d)'
            \/ /\ mQId'[d] = mQId[d]
               /\ pc'[d] \in {"bind"} \cup WaitPC => pc[d] \in {"bind"} \cup WaitPC
               /\ Requested(PathOf[d])' => Requested(PathOf[d])
               /\ link'[d] # "none" => link[d] # "none"
               /\ pc'[d] \in OwnPC => pc[d] \in OwnPC
  PROVE  QueueInv'
  <1>1. \A d \in Clients : mQId'[d] = mQId[d] /\ QueueOpen(d) => QueueOpen(d)'
    BY DEF QueueOpen
  <1>. QED
    BY <1>1 DEF QueueInv, OwnerReadsTheQueue

LEMMA GoneQueue ==
  ASSUME TypeOK, QueueInv, NEW c \in Clients, Gone(c), UNCHANGED <<mqId, mq>>
  PROVE  QueueInv'
  <1> USE DEF TypeOK, ClientTypeOK, Gone, Goto
  <1>1. \A d \in Clients : Requested(PathOf[d])' => Requested(PathOf[d])
    BY DEF Requested
  <1>2. mqId = None => mq' = <<>>
    BY DEF QueueInv
  <1>3. \A d \in Clients \ {c} :
           /\ mQId'[d] = mQId[d] /\ pc'[d] = pc[d]
           /\ link'[d] # "none" => link[d] # "none"
    OBVIOUS
  <1>4. pc'[c] = "off" /\ link'[c] = "none"
    OBVIOUS
  <1>. HIDE DEF TypeOK, ClientTypeOK, Gone, Goto
  <1>5. \A d \in Clients : QueueOpen(d) /\ d # c => QueueOpen(d)'
    BY <1>3 DEF QueueOpen
  <1>. QED
    BY <1>1, <1>2, <1>3, <1>4, <1>5 DEF QueueInv, OwnerReadsTheQueue, WaitPC, OwnPC

LEMMA StepQueue ==
  ASSUME DistinctPaths, TypeOK, OwnerInv, QueueInv, NEW c \in Clients,
         Launch(c) \/ Program(c) \/ User(c) \/ Kill(c)
  PROVE  QueueInv'
  <1> USE DEF TypeOK, ClientTypeOK, Goto
  <1>0. /\ mqId = None => mq = <<>>
        /\ pc[c] \in OwnPC => QueueOpen(c)
    BY DEF QueueInv, OwnerReadsTheQueue
  <1>1. CASE Launch(c) \/ QueueExists(c) \/ AcceptUS(c)
    <2>1. \A d \in Clients : Requested(PathOf[d])' => Requested(PathOf[d])
      BY <1>1 DEF Launch, QueueExists, AcceptUS, Requested
    <2>. QED
      BY <1>0, <1>1, <2>1, QueueKept DEF Launch, QueueExists, AcceptUS, WaitPC, OwnPC
  <1>2. CASE CreateQueue(c)
    <2>1. mqId = None /\ mqId' # None /\ mQId' = [mQId EXCEPT ![c] = mqId'] /\ mq' = <<>>
      BY <1>2, ClientAssumption DEF CreateQueue, FreshQIds
    <2>2. \A d \in Clients : ~Token(d)
      BY <1>2 DEF CreateQueue, OwnerInv, QueueGuardsOwner
    <2>3. QueueOpen(c)'
      BY <2>1 DEF QueueOpen
    <2>4. \A d \in Clients : d # c => pc'[d] = pc[d]
      BY <1>2 DEF CreateQueue
    <2>5. pc'[c] = "tcp"
      BY <1>2 DEF CreateQueue
    <2>6. \A d \in Clients : ~Requested(PathOf[d])'
      BY <2>1, <2>2, <2>4, <2>5 DEF Requested, Token, OwnPC
    <2>7. \A d \in Clients : link'[d] = "none"
      BY <1>2, <2>2 DEF CreateQueue, Token, OwnerInv, LinksOK, Links, OwnPC
    <2>. QED
      BY <2>1, <2>2, <2>3, <2>4, <2>6, <2>7 DEF QueueInv, OwnerReadsTheQueue, Token
  <1>3. CASE OpenQueue(c)
    <2>1. \A p : Requested(p)' <=> Requested(p)
      BY <1>3 DEF OpenQueue, Requested
    <2>2. CASE mqId = None
      <3>0. \A p : ~Requested(p)
        BY <1>0, <2>2 DEF Requested, OwnerInv, QueueGuardsOwner, Token, OwnPC
      <3>1. \A p : ~Requested(p)'
        BY <2>1, <3>0
      <3>2. \A d \in Clients : pc'[d] \notin OwnPC /\ link'[d] = "none"
        BY <1>3, <2>2
           DEF OpenQueue, QueueInv, QueueOpen, OwnerReadsTheQueue, OwnPC
      <3>. QED
        BY <1>0, <1>3, <2>2, <3>1, <3>2 DEF OpenQueue, QueueInv, OwnerReadsTheQueue
    <2>3. CASE mqId # None
      <3>1. QueueOpen(c)'
        BY <1>3, <2>3 DEF OpenQueue, QueueOpen
      <3>. QED
        BY <1>0, <1>3, <2>1, <3>1, QueueKept DEF OpenQueue
    <2>. QED
      BY <2>2, <2>3
  <1>4. CASE ConnectTcp(c) \/ ReadReply(c)
    <2>1. QueueOpen(c) /\ QueueOpen(c)'
      BY <1>0, <1>4 DEF ConnectTcp, ReadReply, OwnPC, QueueOpen
    <2>2. \A d \in Clients : d # c => (Requested(PathOf[c])' => Requested(PathOf[c]))
      BY <1>4 DEF ConnectTcp, ReadReply, Requested, OwnerInv, PendingOK
    <2>3. \A d \in Clients : Requested(PathOf[d])' => Requested(PathOf[d])
      BY <1>4 DEF ConnectTcp, ReadReply, Requested, OwnerInv, PendingOK
    <2>. QED
      BY <1>0, <1>4, <2>1, <2>3, QueueKept DEF ConnectTcp, ReadReply
  <1>5. CASE BindUS(c)
    <2>1. \A d \in Clients : Requested(PathOf[d])' => Requested(PathOf[d])
      BY <1>5 DEF BindUS, Requested
    <2>. QED
      BY <1>0, <1>5, <2>1, QueueKept DEF BindUS, WaitPC, OwnPC
  <1>6. CASE PostRequest(c)
    <2>1. CASE QueueOpen(c)
      <3>1. mq' = Append(mq, PathOf[c]) /\ PathOf[c] \in Paths
        BY <1>6, <2>1, ClientAssumption DEF PostRequest
      <3>2. \A p : (\E i \in DOMAIN mq' : mq'[i] = p)
                     => p = PathOf[c] \/ \E i \in DOMAIN mq : mq[i] = p
        BY <3>1, SeqMembers
      <3>3. \A d \in Clients : d # c => (Requested(PathOf[d])' => Requested(PathOf[d]))
        BY <1>6, <3>2 DEF PostRequest, Requested, DistinctPaths
      <3>4. QueueOpen(c)' /\ mqId # None
        BY <1>6, <2>1 DEF PostRequest, QueueOpen
      <3>. QED
        BY <1>6, <3>3, <3>4, QueueKept DEF PostRequest
    <2>2. CASE ~QueueOpen(c)
      <3>1. \A d \in Clients : Requested(PathOf[d])' => Requested(PathOf[d])
        BY <1>6, <2>2 DEF PostRequest, Requested
      <3>. QED
        BY <1>0, <1>6, <2>2, <3>1, QueueKept DEF PostRequest, WaitPC, OwnPC
    <2>. QED
      BY <2>1, <2>2
  <1>7. CASE RecvFd(c)
    <2>1. QueueOpen(c) /\ QueueOpen(c)'
      BY <1>7 DEF RecvFd, QueueInv, QueueOpen
    <2>2. \A d \in Clients : Requested(PathOf[d])' => Requested(PathOf[d])
      BY <1>7 DEF RecvFd, Requested, OwnerInv, PendingOK
    <2>. QED
      BY <1>0, <1>7, <2>1, <2>2, QueueKept DEF RecvFd
  <1>8. CASE Check(c)
    <2>1. QueueOpen(c)' /\ mqId # None
      BY <1>0, <1>8 DEF Check, OwnPC, QueueOpen
    <2>a. mq' = mq \/ (mq # <<>> /\ mq' = Tail(mq) /\ nextMessage'[c] = Head(mq))
      BY <1>8 DEF Check, CanReceive
    <2>2. ASSUME NEW p, \E i \in DOMAIN mq' : mq'[i] = p PROVE \E i \in DOMAIN mq : mq[i] = p
      <3>1. mq \in Seq(Paths)
        OBVIOUS
      <3>. HIDE DEF TypeOK, ClientTypeOK
      <3>. QED
        BY <2>a, <2>2, <3>1, SeqMembers
    <2>3. \/ nextMessage'[c] = nextMessage[c] /\ clientPresent'[c] = clientPresent[c]
          \/ \E i \in DOMAIN mq : mq[i] = nextMessage'[c]
      BY <1>8, SeqMembers DEF Check, CanReceive
    <2>4. ASSUME NEW p, Requested(p)' PROVE Requested(p)
      <3>1. CASE \E i \in DOMAIN mq' : mq'[i] = p
        BY <2>2, <3>1 DEF Requested
      <3>2. CASE nextMessage'[c] = p /\ clientPresent'[c]
        BY <1>8, <2>3, <3>2 DEF Check, Requested
      <3>3. CASE \E g \in Clients \ {c} :
                    /\ nextMessage'[g] = p
                    /\ \/ clientPresent'[g] /\ pc'[g] \in {"talk", "reply", "check", "ask"}
                       \/ pc'[g] \in {"connect", "xconnect"}
        BY <1>8, <3>3 DEF Check, Requested
      <3>. QED
        BY <1>8, <2>4, <3>1, <3>2, <3>3 DEF Check, Requested
    <2>. QED
      BY <1>8, <2>1, <2>4, QueueKept DEF Check
  <1>9. CASE ConnectPeer(c)
    <2>1. PICK d \in Clients : /\ bound[nextMessage[c]] = d
                               /\ pc[d] \in WaitPC
                               /\ d # c
      BY <1>9, PeerIsFree DEF ConnectPeer
    <2>2. PathOf[d] = nextMessage[c]
      BY <1>9, <2>1, ClientAssumption DEF ConnectPeer, OwnerInv, PendingOK, SocketsOK
    <2>3. QueueOpen(d)
      BY <1>9, <2>1, <2>2 DEF ConnectPeer, Requested, QueueInv
    <2>4. QueueOpen(c)
      BY <1>0, <1>9 DEF ConnectPeer, OwnPC
    <2>5. QueueOpen(c)' /\ QueueOpen(d)'
      BY <1>9, <2>3, <2>4 DEF ConnectPeer, QueueOpen
    <2>6. link' = [link EXCEPT ![d] = "open"]
      BY <1>9, <2>1 DEF ConnectPeer
    <2>7. \A e \in Clients : Requested(PathOf[e])' => Requested(PathOf[e])
      BY <1>9, ClientAssumption DEF ConnectPeer, Requested
    <2>. QED
      BY <1>0, <1>9, <2>5, <2>6, <2>7, QueueKept DEF ConnectPeer
  <1>10. ASSUME NEW d \in Clients, SendFd(c, d) PROVE QueueInv'
    <2>1. \A e \in Clients : Requested(PathOf[e])' => Requested(PathOf[e])
      BY <1>10 DEF SendFd, Requested
    <2>. QED
      BY <1>0, <1>10, <2>1, QueueKept DEF SendFd, WaitPC, OwnPC
  <1>11. CASE SendFdFails(c) /\ ~Gone(c)
    <2>1. \A e \in Clients : Requested(PathOf[e])' => Requested(PathOf[e])
      BY <1>11 DEF SendFdFails, Requested
    <2>. QED
      BY <1>0, <1>11, <2>1, QueueKept DEF SendFdFails, WaitPC, OwnPC
  <1>12. CASE ExitReceive(c)
    <2>1. QueueOpen(c)' /\ mqId # None
      BY <1>0, <1>12 DEF ExitReceive, OwnPC, QueueOpen
    <2>a. mq' = mq \/ (mq # <<>> /\ mq' = Tail(mq) /\ nextMessage'[c] = Head(mq))
      BY <1>12 DEF ExitReceive, CanReceive
    <2>2. ASSUME NEW p, \E i \in DOMAIN mq' : mq'[i] = p PROVE \E i \in DOMAIN mq : mq[i] = p
      <3>1. mq \in Seq(Paths)
        OBVIOUS
      <3>. HIDE DEF TypeOK, ClientTypeOK
      <3>. QED
        BY <2>a, <2>2, <3>1, SeqMembers
    <2>3. pc'[c] = "rmid" \/ \E i \in DOMAIN mq : mq[i] = nextMessage'[c]
      BY <1>12, SeqMembers DEF ExitReceive, CanReceive
    <2>4. ASSUME NEW p, Requested(p)' PROVE Requested(p)
      <3>1. CASE \E i \in DOMAIN mq' : mq'[i] = p
        BY <2>2, <3>1 DEF Requested
      <3>2. CASE nextMessage'[c] = p /\ pc'[c] # "rmid"
        BY <1>12, <2>3, <3>2 DEF ExitReceive, Requested
      <3>3. CASE \E g \in Clients \ {c} :
                    /\ nextMessage'[g] = p
                    /\ \/ clientPresent'[g] /\ pc'[g] \in {"talk", "reply", "check", "ask"}
                       \/ pc'[g] \in {"connect", "xconnect"}
        BY <1>12, <3>3 DEF ExitReceive, Requested
      <3>. QED
        BY <2>4, <3>1, <3>2, <3>3 DEF Requested
    <2>. QED
      BY <1>12, <2>1, <2>4, QueueKept DEF ExitReceive
  <1>13. CASE RemoveQueue(c) /\ QueueOpen(c)
    <2>1. /\ pc[c] = "rmid" /\ pc' = [pc EXCEPT ![c] = "leave"]
          /\ mqId' = None /\ mq' = <<>>
          /\ UNCHANGED <<mQId, clientPresent, nextMessage, link>>
      BY <1>13 DEF RemoveQueue
    <2>2. \A d \in Clients : Token(d) => d = c
      BY <2>1 DEF OwnerInv, OneOwner, Token, OwnPC
    <2>3. \A d \in Clients : pc'[d] \notin OwnPC
      BY <2>1, <2>2 DEF Token, OwnPC
    <2>4. \A d \in Clients : link'[d] = "none"
      BY <2>1, <2>2 DEF Token, OwnerInv, LinksOK, SocketsOK, Links, OwnPC, WaitPC
    <2>5. \A d \in Clients : ~Requested(PathOf[d])'
      BY <2>1, <2>3 DEF Requested, OwnPC
    <2>. QED
      BY <2>1, <2>3, <2>4, <2>5 DEF QueueInv, OwnerReadsTheQueue
  <1>14. ASSUME NEW line, Talk(c, line) PROVE QueueInv'
    <2>1. QueueOpen(c)'
      BY <1>0, <1>14 DEF Talk, OwnPC, QueueOpen
    <2>2. \A d \in Clients : Requested(PathOf[d])' => Requested(PathOf[d])
      BY <1>14 DEF Talk, Requested
    <2>. QED
      BY <1>0, <1>14, <2>1, <2>2, QueueKept DEF Talk
  <1>15. ASSUME NEW a, Answer(c, a) PROVE QueueInv'
    <2>1. QueueOpen(c)'
      BY <1>0, <1>15 DEF Answer, OwnPC, QueueOpen
    <2>2. \A d \in Clients : Requested(PathOf[d])' => Requested(PathOf[d])
      BY <1>15 DEF Answer, Requested, OwnerInv, PendingOK
    <2>. QED
      BY <1>0, <1>15, <2>1, <2>2, QueueKept DEF Answer
  <1>16. ASSUME NEW p, Prompt(c, p), ~Gone(c) PROVE QueueInv'
    <2>1. \A e \in Clients : Requested(PathOf[e])' => Requested(PathOf[e])
      BY <1>16 DEF Prompt, Requested
    <2>. QED
      BY <1>0, <1>16, <2>1, QueueKept DEF Prompt, WaitPC, OwnPC
  <1>17. CASE Gone(c) /\ UNCHANGED <<mqId, mq>>
    BY <1>17, GoneQueue
  <1> HIDE DEF TypeOK, ClientTypeOK, Goto
  <1>18. CASE ConnectTcpFails(c) \/ ConnectPeerFails(c) \/ Leave(c) \/ Kill(c)
    BY <1>17, <1>18 DEF ConnectTcpFails, ConnectPeerFails, Leave, Kill
  <1>19. CASE SendFdFails(c)
    BY <1>11, <1>17, <1>19 DEF SendFdFails
  <1>20. CASE RemoveQueue(c)
    <2>1. CASE QueueOpen(c)
      BY <1>13, <1>20, <2>1
    <2>2. CASE ~QueueOpen(c)
      BY <1>17, <1>20, <2>2 DEF RemoveQueue
    <2>. QED
      BY <2>1, <2>2
  <1>21. ASSUME NEW p, Prompt(c, p) PROVE QueueInv'
    BY <1>16, <1>17, <1>21 DEF Prompt
  <1>. QED
    BY <1>1, <1>2, <1>3, <1>4, <1>5, <1>6, <1>7, <1>8, <1>9, <1>10, <1>11, <1>12,
       <1>14, <1>15, <1>18, <1>19, <1>20, <1>21
       DEF Program, User

\* If no two clients share a socket path, whoever owns the conversation has the
\* queue that exists open: it sees the requests that newcomers post.
THEOREM OwnerReadsTheQueueAlways ==
  ASSUME DistinctPaths
  PROVE  Spec => []OwnerReadsTheQueue
  <1>1. Init => QueueInv
    BY ClientAssumption
       DEF Init, QueueInv, Requested, OwnerReadsTheQueue, OwnPC, WaitPC
  <1>2. TypeOK /\ OwnerInv /\ QueueInv /\ [Next]_vars => QueueInv'
    <2> SUFFICES ASSUME TypeOK, OwnerInv, QueueInv, [Next]_vars PROVE QueueInv'
      OBVIOUS
    <2>1. CASE Server \/ UNCHANGED vars
      BY <2>1 DEF Server, vars, clientVars, QueueInv, Requested, QueueOpen,
                  OwnerReadsTheQueue
    <2>2. CASE DeleteQueue
      BY <2>2 DEF DeleteQueue, QueueInv, Requested, QueueOpen, OwnerReadsTheQueue,
                  OwnerInv, SocketsOK, OwnPC, WaitPC
    <2>. QED
      BY <2>1, <2>2, StepQueue DEF Next
  <1>3. QueueInv => OwnerReadsTheQueue
    BY DEF QueueInv
  <1>. QED
    BY <1>1, <1>2, <1>3, OwnerInvariant, PTL DEF Spec
-----------------------------------------------------------------------------
(* Echoes *)

\* What a client holds it holds while it may use it: a descriptor in transit
\* to it is nobody's until it is received.
LEMMA HoldersWork ==
  ASSUME TypeOK, OwnerInv, DescriptorsOK, NEW c \in Clients, NEW k \in Conns, Has(c, k)
  PROVE  /\ sFD[c] = k => pc[c] \in (OwnPC \ {"tcp"}) \cup {"leave"} /\ gift[c] = None
         /\ gift[c] = k => pc[c] \in WaitPC /\ link[c] = "sent" /\ sFD[c] = None
  <1>1. k # None
    BY ServerAssumption
  <1>2. gift[c] # None => link[c] = "sent" /\ pc[c] \in WaitPC
    BY DEF DescriptorsOK, OwnerInv, SocketsOK
  <1>3. sFD[c] # None => pc[c] \in (OwnPC \ {"tcp"}) \cup {"leave"}
    BY DEF DescriptorsOK
  <1>. QED
    BY <1>1, <1>2, <1>3 DEF WaitPC, OwnPC

LEMMA GoneDescriptors ==
  ASSUME TypeOK, DescriptorsOK, NEW c \in Clients, Gone(c)
  PROVE  DescriptorsOK' /\ \A d \in Clients : \A k \in Conns : Has(d, k)' => Has(d, k) /\ d # c
  BY ServerAssumption DEF TypeOK, ClientTypeOK, DescriptorsOK, Has, Gone, Goto

LEMMA StepDescriptors ==
  ASSUME TypeOK, OwnerInv, DescriptorsOK, NEW c \in Clients,
         Launch(c) \/ Program(c) \/ User(c) \/ Kill(c)
  PROVE  DescriptorsOK'
  <1> USE DEF TypeOK, ClientTypeOK, Goto, OwnPC
  <1>0. ASSUME UNCHANGED <<sFD, gift, fds>>,
               \A d \in Clients :
                  /\ gift[d] # None => link'[d] = link[d]
                  /\ sFD[d] # None => pc'[d] \in (OwnPC \ {"tcp"}) \cup {"leave"}
        PROVE  DescriptorsOK'
    BY <1>0 DEF DescriptorsOK, Has
  <1>00. \A d \in Clients : sFD[d] # None => pc[d] \in (OwnPC \ {"tcp"}) \cup {"leave"}
    BY DEF DescriptorsOK
  <1>1. CASE Launch(c) \/ QueueExists(c) \/ OpenQueue(c) \/ BindUS(c) \/ PostRequest(c)
             \/ AcceptUS(c)
    BY <1>0, <1>00, <1>1
       DEF Launch, QueueExists, OpenQueue, BindUS, PostRequest, AcceptUS
  <1>2. CASE CreateQueue(c)
    BY <1>0, <1>00, <1>2 DEF CreateQueue
  <1>3. CASE ConnectTcp(c)
    <2>1. PICK k \in FreeConns : /\ sFD' = [sFD EXCEPT ![c] = k]
                                 /\ fds' = [fds EXCEPT ![c] = @ \cup {k}]
      BY <1>3 DEF ConnectTcp
    <2>2. k \in Conns /\ \A d \in Clients : k \notin fds[d] /\ gift[d] # k
      BY <2>1 DEF FreeConns, OpenConns
    <2>3. \A d \in Clients : ~Has(d, k)
      BY <2>2, ServerAssumption DEF Has, DescriptorsOK
    <2>4. gift' = gift /\ link' = link /\ pc' = [pc EXCEPT ![c] = "talk"]
      BY <1>3 DEF ConnectTcp
    <2>5. \A d \in Clients : \A k2 \in Conns : k2 # k => (Has(d, k2)' => Has(d, k2))
      BY <2>1, <2>4 DEF Has
    <2>6. \A d \in Clients : Has(d, k)' => d = c
      BY <2>1, <2>3, <2>4 DEF Has
    <2>7. \A k2 \in Conns : \A d, e \in Clients : Has(d, k2)' /\ Has(e, k2)' => d = e
      BY <2>5, <2>6 DEF DescriptorsOK
    <2>. QED
      BY <2>1, <2>2, <2>4, <2>7 DEF DescriptorsOK
  <1>4. CASE RecvFd(c)
    <2>1. \A d \in Clients : \A k \in Conns : Has(d, k)' => Has(d, k)
      BY <1>4, ServerAssumption DEF RecvFd, Has
    <2>2. \A d \in Clients : d # c => sFD'[d] = sFD[d] /\ gift'[d] = gift[d] /\ link'[d] = link[d]
                                      /\ fds'[d] = fds[d] /\ pc'[d] = pc[d]
      BY <1>4 DEF RecvFd
    <2>3. gift'[c] = None /\ pc'[c] = "talk" /\ (sFD'[c] # None => sFD'[c] \in fds'[c])
      BY <1>4 DEF RecvFd
    <2>. QED
      BY <2>1, <2>2, <2>3 DEF DescriptorsOK
  <1>5. CASE ReadReply(c) \/ Check(c) \/ ExitReceive(c)
    BY <1>0, <1>00, <1>5 DEF ReadReply, Check, ExitReceive
  <1>6. CASE ConnectPeer(c)
    <2>1. \A d \in Clients : gift[d] # None => d # bound[nextMessage[c]]
      BY <1>6, PeerIsFree DEF ConnectPeer, DescriptorsOK
    <2>2. \A d \in Clients : gift[d] # None => link'[d] = link[d]
      BY <1>6, <2>1, PeerIsFree DEF ConnectPeer
    <2>. QED
      BY <1>0, <1>00, <1>6, <2>2 DEF ConnectPeer
  <1>7. ASSUME NEW d \in Clients, SendFd(c, d) PROVE DescriptorsOK'
    <2>1. c # d /\ gift[d] = None
      BY <1>7 DEF SendFd, OwnerInv, SocketsOK, WaitPC, DescriptorsOK
    <2>2. /\ gift' = [gift EXCEPT ![d] = sFD[c]]
          /\ sFD' = [sFD EXCEPT ![c] = None]
          /\ gift'[d] # None => link'[d] = "sent"
          /\ \A e \in Clients : e # d => link'[e] = link[e]
          /\ \A e \in Clients : e # c => pc'[e] = pc[e]
          /\ fds' = fds
      BY <1>7 DEF SendFd
    <2>3. \A k \in Conns : \A e \in Clients :
             Has(e, k)' => IF e = d THEN Has(c, k) \/ Has(d, k)
                           ELSE (Has(e, k) /\ e # c) \/ (e = c /\ gift[c] = k)
      BY <2>1, <2>2, ServerAssumption DEF Has
    <2>4. gift[c] = None
      BY <1>7 DEF SendFd, DescriptorsOK, OwnerInv, SocketsOK, WaitPC
    <2>5. \A k \in Conns : \A e, g \in Clients : Has(e, k)' /\ Has(g, k)' => e = g
      BY <2>1, <2>2, <2>3, <2>4, ServerAssumption DEF DescriptorsOK, Has
    <2>. QED
      BY <2>2, <2>5 DEF DescriptorsOK
  <1>8. CASE SendFdFails(c) /\ ~Gone(c)
    BY <1>0, <1>00, <1>8 DEF SendFdFails
  <1>9. CASE RemoveQueue(c) /\ QueueOpen(c)
    BY <1>0, <1>00, <1>9 DEF RemoveQueue
  <1>10. ASSUME NEW line, Talk(c, line) PROVE DescriptorsOK'
    BY <1>0, <1>00, <1>10 DEF Talk
  <1>11. ASSUME NEW a, Answer(c, a) PROVE DescriptorsOK'
    BY <1>0, <1>00, <1>11 DEF Answer
  <1>12. ASSUME NEW p, Prompt(c, p), ~Gone(c) PROVE DescriptorsOK'
    BY <1>0, <1>00, <1>12 DEF Prompt
  <1> HIDE DEF TypeOK, ClientTypeOK, Goto
  <1>13. CASE Gone(c)
    BY <1>13, GoneDescriptors
  <1>14. CASE ConnectTcpFails(c) \/ ConnectPeerFails(c) \/ Leave(c) \/ Kill(c)
    BY <1>13, <1>14 DEF ConnectTcpFails, ConnectPeerFails, Leave, Kill
  <1>15. CASE SendFdFails(c)
    BY <1>8, <1>13, <1>15
  <1>16. CASE RemoveQueue(c)
    BY <1>9, <1>13, <1>16 DEF RemoveQueue
  <1>17. ASSUME NEW p, Prompt(c, p) PROVE DescriptorsOK'
    BY <1>12, <1>13, <1>17
  <1>. QED
    BY <1>1, <1>2, <1>3, <1>4, <1>5, <1>6, <1>7, <1>10, <1>11, <1>14, <1>15, <1>16, <1>17
       DEF Program, User

\* What EchoInv says of one client and one connection.
EchoOK(c, k) ==
    \/ rep[k] = <<>> /\ NoText(req[k])
    \/ /\ pc[c] = "reply"
       /\ \/ /\ rep[k] = <<>>
             /\ \A i \in DOMAIN req[k] : req[k][i].line = "text" =>
                   i = Len(req[k]) /\ req[k][i].from = c
          \/ /\ Len(rep[k]) = 1 /\ rep[k][1].from = c
             /\ NoText(req[k])

LEMMA EchoInvIs ==
  EchoInv <=> \A c \in Clients : \A k \in Conns : Has(c, k) /\ pc[c] # "leave" => EchoOK(c, k)
  BY DEF EchoInv, EchoOK

\* A line appended to a connection that carries no text.
LEMMA OneMoreLine ==
  ASSUME NEW s \in Seq(Message), NEW m \in Message, NoText(s)
  PROVE  /\ m.line # "text" => NoText(Append(s, m))
         /\ \A i \in DOMAIN Append(s, m) : Append(s, m)[i].line = "text" =>
               i = Len(Append(s, m)) /\ Append(s, m)[i] = m
  <1>1. ASSUME NEW i \in DOMAIN Append(s, m)
        PROVE  \/ i = Len(Append(s, m)) /\ Append(s, m)[i] = m
               \/ i \in DOMAIN s /\ Append(s, m)[i] = s[i]
    BY <1>1
  <1>. QED
    BY <1>1 DEF NoText

LEMMA NoTextInNothing == NoText(<<>>)
  BY DEF NoText

\* The echo of a text that is the last message of its connection.
LEMMA LastLine ==
  ASSUME NEW s \in Seq(Message), s # <<>>
  PROVE  /\ 1 \in DOMAIN s /\ Head(s) = s[1] /\ Head(s) \in Message
         /\ Len(s) = 1 => Tail(s) = <<>>
         /\ NoText(s) => NoText(Tail(s))
         /\ Len(Append(<<>>, Head(s))) = 1 /\ Append(<<>>, Head(s))[1] = Head(s)
  <1>1. \A i \in DOMAIN Tail(s) : i + 1 \in DOMAIN s /\ Tail(s)[i] = s[i + 1]
    OBVIOUS
  <1>2. NoText(s) => NoText(Tail(s))
    BY <1>1 DEF NoText
  <1>3. Tail(s) \in Seq(Message) /\ (Len(s) = 1 => Len(Tail(s)) = 0)
    OBVIOUS
  <1>4. \A t \in Seq(Message) : Len(t) = 0 => t = <<>>
    OBVIOUS
  <1>5. Head(s) = s[1] /\ 1 \in DOMAIN s /\ Head(s) \in Message
    OBVIOUS
  <1>6. Len(Append(<<>>, Head(s))) = 1 /\ Append(<<>>, Head(s))[1] = Head(s)
    OBVIOUS
  <1>7. Len(s) = 1 => Tail(s) = <<>>
    BY <1>3, <1>4
  <1>. QED
    BY <1>2, <1>5, <1>6, <1>7

\* The server's turn: it answers the owner's text, or leaves the connection.
LEMMA ServerEcho ==
  ASSUME TypeOK, EchoInv, Server
  PROVE  EchoInv'
  <1>0. UNCHANGED <<pc, sFD, gift>>
    BY DEF Server, clientVars
  <1>1. CASE UNCHANGED <<req, rep>>
    BY <1>0, <1>1 DEF EchoInv, Has
  <1>2. CASE EchoTurn
    <2>1. /\ serving \in Conns
          /\ req[serving] \in Seq(Message) /\ req[serving] # <<>>
          /\ rep[serving] \in Seq(Message)
      BY <1>2 DEF EchoTurn, TypeOK, ServerTypeOK
    <2> SUFFICES ASSUME NEW c \in Clients, NEW k \in Conns, Has(c, k), pc[c] # "leave"
                 PROVE  EchoOK(c, k)'
      BY <1>0, EchoInvIs DEF EchoInv, EchoOK, Has
    <2>2. EchoOK(c, k)
      BY EchoInvIs
    <2>3. CASE k # serving
      <3>1. req'[k] = req[k] /\ rep'[k] = rep[k]
        BY <1>2, <2>3 DEF EchoTurn, TypeOK, ServerTypeOK
      <3>. QED
        BY <1>0, <2>2, <3>1 DEF EchoOK
    <2>4. CASE k = serving /\ Head(req[serving]).line = "text"
      <3>1. req'[k] = Tail(req[k]) /\ rep'[k] = Append(rep[k], Head(req[k]))
        BY <1>2, <2>4 DEF EchoTurn, TypeOK, ServerTypeOK
      <3>2. 1 \in DOMAIN req[k] /\ req[k][1].line = "text" /\ req[k][1] = Head(req[k])
        BY <2>1, <2>4, LastLine
      <3>3. /\ pc[c] = "reply" /\ rep[k] = <<>>
            /\ Len(req[k]) = 1 /\ Head(req[k]).from = c
        BY <2>2, <3>2 DEF EchoOK, NoText
      <3>4. req'[k] = <<>> /\ Len(rep'[k]) = 1 /\ rep'[k][1].from = c
        BY <2>1, <2>4, <3>1, <3>3, LastLine
      <3>. QED
        BY <1>0, <3>3, <3>4, NoTextInNothing DEF EchoOK
    <2>5. CASE k = serving /\ Head(req[serving]).line # "text"
      <3>1. req'[k] = <<>> /\ rep'[k] = rep[k]
        BY <1>2, <2>5 DEF EchoTurn, TypeOK, ServerTypeOK
      <3>. QED
        BY <1>0, <2>2, <3>1, NoTextInNothing DEF EchoOK
    <2>. QED
      BY <2>3, <2>4, <2>5
  <1>. QED
    BY <1>1, <1>2 DEF Server, StartServer, AcceptConn, HangUp

LEMMA StepEcho ==
  ASSUME TypeOK, OwnerInv, DescriptorsOK, EchoInv, NEW c \in Clients,
         Launch(c) \/ Program(c) \/ User(c) \/ Kill(c)
  PROVE  EchoInv'
  <1> USE DEF TypeOK, ClientTypeOK, Goto
  <1>0. ASSUME UNCHANGED <<req, rep>>,
               \A d \in Clients : \A k \in Conns : Has(d, k)' /\ pc'[d] # "leave" =>
                  /\ Has(d, k) /\ pc[d] # "leave"
                  /\ pc[d] = "reply" => pc'[d] = "reply"
        PROVE  EchoInv'
    BY <1>0 DEF EchoInv
  <1>h. \A d \in Clients : \A k \in Conns : Has(d, k) =>
           pc[d] \in WaitPC \/ pc[d] \in (OwnPC \ {"tcp"}) \cup {"leave"}
    BY HoldersWork DEF Has
  <1>1. CASE Launch(c) \/ QueueExists(c) \/ OpenQueue(c) \/ BindUS(c) \/ PostRequest(c)
             \/ AcceptUS(c)
    BY <1>0, <1>h, <1>1
       DEF Launch, QueueExists, OpenQueue, BindUS, PostRequest, AcceptUS, serverVars, Has,
           WaitPC, OwnPC
  <1>2. CASE CreateQueue(c)
    BY <1>0, <1>h, <1>2 DEF CreateQueue, serverVars, Has, WaitPC, OwnPC
  <1>3. CASE ConnectTcp(c)
    <2>1. PICK k \in FreeConns : /\ Dial(k)
                                 /\ sFD' = [sFD EXCEPT ![c] = k]
      BY <1>3 DEF ConnectTcp
    <2>2. k \in Conns /\ req'[k] = <<>> /\ rep'[k] = <<>>
      BY <2>1 DEF FreeConns, Dial, ServerTypeOK
    <2>3. \A j \in Conns : j # k => req'[j] = req[j] /\ rep'[j] = rep[j]
      BY <2>1 DEF Dial, ServerTypeOK
    <2>4. \A d \in Clients : \A j \in Conns : j # k /\ Has(d, j)' => Has(d, j)
      BY <1>3, <2>1 DEF ConnectTcp, Has
    <2>5. ASSUME NEW d \in Clients, NEW j \in Conns, Has(d, j)', pc'[d] # "leave"
          PROVE  EchoOK(d, j)'
      <3>1. CASE j = k
        BY <2>2, <3>1, NoTextInNothing DEF EchoOK
      <3>2. CASE j # k
        <4>1. d # c
          BY <1>h, <1>3, <2>4, <2>5, <3>2 DEF ConnectTcp, WaitPC, OwnPC
        <4>2. pc'[d] = pc[d]
          BY <1>3, <4>1 DEF ConnectTcp
        <4>. QED
          BY <2>3, <2>4, <2>5, <3>2, <4>2, EchoInvIs DEF EchoOK
      <3>. QED
        BY <3>1, <3>2
    <2>. QED
      BY <2>5 DEF EchoInv, EchoOK
  <1>4. CASE RecvFd(c)
    <2>1. \A d \in Clients : \A k \in Conns : Has(d, k)' => Has(d, k)
      BY <1>4, ServerAssumption DEF RecvFd, Has
    <2>. QED
      BY <1>0, <1>4, <2>1 DEF RecvFd, serverVars
  <1>5. CASE ReadReply(c)
    <2>1. \A d \in Clients : \A k \in Conns : Has(d, k)' <=> Has(d, k)
      BY <1>5 DEF ReadReply, Has
    <2>2. \A k \in Conns : Has(c, k) => sFD[c] = k
      BY <1>5, HoldersWork DEF ReadReply, Has, WaitPC
    <2>3. req' = req /\ (\A k \in Conns : k # sFD[c] => rep'[k] = rep[k])
      BY <1>5 DEF ReadReply, ServerTypeOK
    <2>4. ASSUME NEW d \in Clients, NEW k \in Conns, Has(d, k), pc'[d] # "leave"
          PROVE  EchoOK(d, k)'
      <3>1. CASE d = c
        <4>1. sFD[c] = k /\ k # None
          BY <2>2, <2>4, <3>1, ServerAssumption
        <4>2. rep[k] # <<>> /\ rep'[k] = Tail(rep[k]) /\ rep[k] \in Seq(Message)
          BY <1>5, <4>1 DEF ReadReply, ServerTypeOK
        <4>3. Len(rep[k]) = 1 /\ NoText(req[k])
          BY <1>5, <2>4, <3>1, <4>2, EchoInvIs DEF EchoOK, ReadReply
        <4>. QED
          BY <2>3, <4>2, <4>3, LastLine DEF EchoOK
      <3>2. CASE d # c
        <4>1. k # sFD[c]
          BY <2>4, <3>2 DEF DescriptorsOK, Has
        <4>2. pc'[d] = pc[d]
          BY <1>5, <3>2 DEF ReadReply
        <4>. QED
          BY <2>3, <2>4, <4>1, <4>2, EchoInvIs DEF EchoOK
      <3>. QED
        BY <3>1, <3>2
    <2>. QED
      BY <2>1, <2>4 DEF EchoInv, EchoOK
  <1>6. CASE Check(c) \/ ExitReceive(c) \/ ConnectPeer(c)
    BY <1>0, <1>6 DEF Check, ExitReceive, ConnectPeer, serverVars, Has
  <1>7. ASSUME NEW d \in Clients, SendFd(c, d) PROVE EchoInv'
    <2>1. c # d /\ gift[d] = None /\ gift[c] = None
      BY <1>7 DEF SendFd, OwnerInv, SocketsOK, WaitPC, DescriptorsOK
    <2>2. /\ gift' = [gift EXCEPT ![d] = sFD[c]]
          /\ sFD' = [sFD EXCEPT ![c] = None]
          /\ \A e \in Clients : e # c => pc'[e] = pc[e]
          /\ UNCHANGED <<req, rep>>
      BY <1>7 DEF SendFd, serverVars
    <2>3. ASSUME NEW e \in Clients, NEW k \in Conns, Has(e, k)', pc'[e] # "leave"
          PROVE  EchoOK(e, k)'
      <3>1. e # c
        BY <2>1, <2>2, <2>3, ServerAssumption DEF Has
      <3>2. CASE e = d /\ sFD[c] = k
        <4>1. EchoOK(c, k) /\ pc[c] # "reply"
          BY <1>7, <3>2, EchoInvIs DEF SendFd, Has
        <4>. QED
          BY <2>2, <4>1 DEF EchoOK
      <3>3. CASE ~(e = d /\ sFD[c] = k)
        <4>1. Has(e, k)
          BY <2>2, <2>3, <3>1, <3>3 DEF Has
        <4>. QED
          BY <2>2, <2>3, <3>1, <4>1, EchoInvIs DEF EchoOK
      <3>. QED
        BY <3>2, <3>3
    <2>. QED
      BY <2>3 DEF EchoInv, EchoOK
  <1>8. CASE SendFdFails(c) /\ ~Gone(c)
    BY <1>0, <1>8 DEF SendFdFails, serverVars, Has
  <1>9. CASE RemoveQueue(c) /\ QueueOpen(c)
    BY <1>0, <1>9 DEF RemoveQueue, serverVars, Has
  <1>10. ASSUME NEW line \in Lines, Talk(c, line) PROVE EchoInv'
    <2>1. UNCHANGED <<sFD, gift, rep>> /\ \A d \in Clients : d # c => pc'[d] = pc[d]
      BY <1>10 DEF Talk, WriteLine, serverVars
    <2>2. pc[c] = "talk" /\ pc'[c] = IF line = "exit" THEN "xrcv" ELSE "reply"
      BY <1>10 DEF Talk
    <2>3. \A k \in Conns : Has(c, k) => sFD[c] = k /\ rep[k] = <<>> /\ NoText(req[k])
      BY <2>2, HoldersWork, EchoInvIs DEF EchoOK, Has, WaitPC
    <2>4. \A k \in Conns : k # sFD[c] => req'[k] = req[k]
      BY <1>10 DEF Talk, WriteLine, serverVars, ServerTypeOK
    <2>5. ASSUME NEW d \in Clients, NEW k \in Conns, Has(d, k), pc'[d] # "leave"
          PROVE  EchoOK(d, k)'
      <3>1. CASE d # c
        <4>1. k # sFD[c]
          BY <2>5, <3>1 DEF DescriptorsOK, Has
        <4>2. EchoOK(d, k)
          BY <2>1, <2>5, <3>1, EchoInvIs
        <4>3. req'[k] = req[k] /\ rep'[k] = rep[k] /\ pc'[d] = pc[d]
          BY <2>1, <2>4, <3>1, <4>1
        <4>. QED
          BY <4>2, <4>3 DEF EchoOK
      <3>2. CASE d = c
        <4> DEFINE m == [from |-> c, line |-> line]
        <4>1. m \in Message /\ m.line = line /\ m.from = c /\ req[k] \in Seq(Message)
          BY <1>10 DEF Message, ServerTypeOK
        <4>2. sFD[c] = k /\ k # None /\ rep'[k] = <<>> /\ NoText(req[k])
          BY <2>1, <2>3, <2>5, <3>2, ServerAssumption
        <4>3. req'[k] = req[k] \/ req'[k] = Append(req[k], m)
          BY <1>10, <4>2 DEF Talk, WriteLine, ServerTypeOK
        <4> HIDE DEF m
        <4>4. CASE req'[k] = req[k]
          BY <4>2, <4>4 DEF EchoOK
        <4>5. CASE req'[k] = Append(req[k], m) /\ line # "text"
          BY <4>1, <4>2, <4>5, OneMoreLine DEF EchoOK
        <4>6. CASE req'[k] = Append(req[k], m) /\ line = "text"
          <5>1. pc'[c] = "reply"
            BY <2>2, <4>6
          <5>2. \A i \in DOMAIN req'[k] : req'[k][i].line = "text" =>
                   i = Len(req'[k]) /\ req'[k][i].from = c
            BY <4>1, <4>2, <4>6, OneMoreLine
          <5>. QED
            BY <3>2, <4>2, <5>1, <5>2 DEF EchoOK
        <4>. QED
          BY <4>3, <4>4, <4>5, <4>6
      <3>. QED
        BY <3>1, <3>2
    <2>. QED
      BY <2>1, <2>5 DEF EchoInv, EchoOK, Has
  <1>11. ASSUME NEW a, Answer(c, a) PROVE EchoInv'
    BY <1>0, <1>11 DEF Answer, serverVars, Has
  <1>12. ASSUME NEW p, Prompt(c, p), ~Gone(c) PROVE EchoInv'
    BY <1>0, <1>12 DEF Prompt, serverVars, Has
  <1>13. CASE Gone(c) /\ UNCHANGED serverVars
    <2>1. \A d \in Clients : d # c => pc'[d] = pc[d]
      BY <1>13 DEF Gone
    <2>. QED
      BY <1>0, <1>13, <2>1, GoneDescriptors DEF serverVars
  <1> HIDE DEF TypeOK, ClientTypeOK, Goto
  <1>14. CASE ConnectTcpFails(c) \/ ConnectPeerFails(c) \/ Leave(c) \/ Kill(c)
    BY <1>13, <1>14 DEF ConnectTcpFails, ConnectPeerFails, Leave, Kill
  <1>15. CASE SendFdFails(c)
    BY <1>8, <1>13, <1>15 DEF SendFdFails
  <1>16. CASE RemoveQueue(c)
    BY <1>9, <1>13, <1>16 DEF RemoveQueue
  <1>17. ASSUME NEW p, Prompt(c, p) PROVE EchoInv'
    BY <1>12, <1>13, <1>17 DEF Prompt
  <1>. QED
    BY <1>1, <1>2, <1>3, <1>4, <1>5, <1>6, <1>7, <1>10, <1>11, <1>14, <1>15, <1>16, <1>17,
       ClientAssumption
       DEF Program, User

\* What a client reads as its echo is its own line, and it passes on a
\* connection on which nothing is left to be echoed, for any clients, any
\* number of connections and any kills.
THEOREM EchoBelongsToReaderAlways == Spec => []EchoBelongsToReader
  <1>1. Init => DescriptorsOK /\ EchoInv
    BY ServerAssumption DEF Init, DescriptorsOK, EchoInv, Has
  <1>2. /\ TypeOK /\ OwnerInv /\ DescriptorsOK /\ EchoInv /\ [Next]_vars
        => DescriptorsOK' /\ EchoInv'
    <2> SUFFICES ASSUME TypeOK, OwnerInv, DescriptorsOK, EchoInv, [Next]_vars
                 PROVE  DescriptorsOK' /\ EchoInv'
      OBVIOUS
    <2>1. CASE Server
      <3>1. DescriptorsOK'
        BY <2>1 DEF Server, clientVars, DescriptorsOK, Has
      <3>. QED
        BY <2>1, <3>1, ServerEcho
    <2>2. CASE DeleteQueue \/ UNCHANGED vars
      BY <2>2 DEF DeleteQueue, vars, serverVars, clientVars, DescriptorsOK, EchoInv, Has
    <2>. QED
      BY <2>1, <2>2, StepDescriptors, StepEcho DEF Next
  <1>3. TypeOK /\ OwnerInv /\ DescriptorsOK /\ EchoInv => EchoBelongsToReader
    <2> SUFFICES ASSUME TypeOK, DescriptorsOK, EchoInv, NEW c \in Clients, sFD[c] # None
                 PROVE  /\ pc[c] = "reply" =>
                             \A i \in DOMAIN rep[sFD[c]] : rep[sFD[c]][i].from = c
                        /\ pc[c] \in OwnPC \ {"tcp", "reply"} => rep[sFD[c]] = <<>>
      BY DEF EchoBelongsToReader
    <2>1. sFD[c] \in Conns /\ Has(c, sFD[c]) /\ rep[sFD[c]] \in Seq(Message)
      BY DEF TypeOK, ClientTypeOK, ServerTypeOK, Has
    <2>2. CASE pc[c] \in OwnPC
      <3>1. EchoOK(c, sFD[c])
        BY <2>1, <2>2, EchoInvIs DEF OwnPC
      <3>2. Len(rep[sFD[c]]) = 1 => DOMAIN rep[sFD[c]] = {1}
        BY <2>1
      <3>3. rep[sFD[c]] = <<>> => DOMAIN rep[sFD[c]] = {}
        BY <2>1
      <3>. QED
        BY <3>1, <3>2, <3>3 DEF EchoOK
    <2>. QED
      BY <2>2 DEF OwnPC
  <1>. QED
    BY <1>1, <1>2, <1>3, OwnerInvariant, PTL DEF Spec
=============================================================================
