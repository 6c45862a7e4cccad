----------------------------- MODULE Dispatcher -----------------------------
(***************************************************************************)
(* 18-02-22-Assignment: S0 announces services to F with "(port,path)" over  *)
(* UDP.  F listens on the port, starts the program (S1 to S3) and waits     *)
(* until it connects to F's UNIX socket; from then on F passes the          *)
(* descriptor of every client of that port to that service, which answers   *)
(* it in a thread of its own.  F looks at one descriptor at a time.         *)
(*                                                                         *)
(* A program F starts inherits all descriptors F has, and neither F nor the *)
(* services close a connection.  Services are numbered as they are started. *)
(***************************************************************************)
EXTENDS Integers, Sequences, FiniteSets

CONSTANTS Ports,
          Kinds,        \* paths of S1, S2, S3: what they do to a line
          NoProgram,    \* a path nothing can be executed from
          NoPort,       \* what atoi makes of garbage: 0, which the kernel replaces
          Customers,
          Walkouts,     \* customers whose user may end them without "exit"
          MaxSent,      \* messages typed into S0
          MaxAsked      \* lines each customer types; the code bounds neither

ASSUME DispatcherAssumption ==
    /\ Walkouts \subseteq Customers /\ MaxSent \in Nat /\ MaxAsked \in Nat
    /\ NoProgram \notin Kinds /\ NoPort \notin Ports

VARIABLES
    forwarder,  \* F: "polling", "starting" (in acceptUSD) or "down"
    mailbox,    \* datagrams F has not read
    onStack,    \* what S0's sendUdp left at the front of its buffer
    sent,       \* messages typed into S0
    starting,   \* the announcement F is in acceptUSD for
    listeners,  \* ports F has bound
    allUSDs,    \* the service of a port
    services,   \* a sequence: program and state
    backlog,    \* connections to a port F has not accepted
    passed,     \* descriptors on their way to a service
    servedBy,   \* the service that has a customer's descriptor; 0 for none
    before,     \* how many services F had started when it accepted a customer
    customer,   \* what a customer is doing
    port,       \* where it connected
    question, answer, \* lines on their way
    asked,      \* lines a customer has typed
    finished,   \* its thread has read "exit"
    refused,    \* a customer that is gone has been written to
    got,        \* history: answers a customer has read
    announced,  \* history: what the announcement of a port asked for
    misled      \* history: F acted on an announcement it could not follow

forwarderVars == <<forwarder, starting, listeners, allUSDs, announced, misled>>
customerVars == <<customer, port, asked, got>>
dispatcherVars == <<forwarderVars, customerVars, mailbox, onStack, sent, services, backlog,
                    passed, servedBy, before, question, answer, finished, refused>>

Nothing == [port |-> NoPort, path |-> NoProgram]
Announcement == [port : Ports \cup {NoPort}, path : Kinds \cup {NoProgram}]

DispatcherTypeOK ==
    /\ forwarder \in {"polling", "starting", "down"}
    /\ mailbox \in Seq(Announcement) /\ onStack \in Announcement /\ sent \in 0..MaxSent
    /\ starting \in Announcement /\ listeners \subseteq Ports
    /\ allUSDs \in [Ports -> 0..Len(services)]
    /\ services \in Seq([kind : Kinds, state : {"serving", "spinning", "dead"}])
    /\ backlog \in [Ports -> Seq(Customers)] /\ passed \in [1..MaxSent -> Seq(Customers)]
    /\ servedBy \in [Customers -> 0..Len(services)]
    /\ before \in [Customers -> 0..MaxSent]
    /\ customer \in [Customers -> {"home", "prompt", "waiting", "done", "left", "cut"}]
    /\ port \in [Customers -> Ports \cup {NoPort}]
    /\ question \in [Customers -> Seq(Nat)]
    /\ answer \in [Customers -> Seq([n : Nat, kind : Kinds])]
    /\ got \in [Customers -> Seq([n : Nat, kind : Kinds])]
    /\ asked \in [Customers -> 0..MaxAsked] /\ finished \in [Customers -> BOOLEAN]
    /\ refused \in [Customers -> BOOLEAN]
    /\ announced \in [Ports -> Kinds \cup {NoProgram}] /\ misled \in BOOLEAN

DispatcherInit ==
    /\ forwarder = "polling" /\ mailbox = <<>> /\ onStack = Nothing /\ sent = 0
    /\ starting = Nothing /\ listeners = {} /\ allUSDs = [p \in Ports |-> 0]
    /\ services = <<>> /\ backlog = [p \in Ports |-> <<>>]
    /\ passed = [n \in 1..MaxSent |-> <<>>]
    /\ servedBy = [c \in Customers |-> 0] /\ before = [c \in Customers |-> 0]
    /\ customer = [c \in Customers |-> "home"] /\ port = [c \in Customers |-> NoPort]
    /\ question = [c \in Customers |-> <<>>] /\ answer = [c \in Customers |-> <<>>]
    /\ asked = [c \in Customers |-> 0] /\ finished = [c \in Customers |-> FALSE]
    /\ refused = [c \in Customers |-> FALSE] /\ got = [c \in Customers |-> <<>>]
    /\ announced = [p \in Ports |-> NoProgram] /\ misled = FALSE

Alive(n) == services[n].state # "dead"

-----------------------------------------------------------------------------
(* S0 *)

\* sendUdp appends the message to whatever its buffer holds: nothing, an
\* earlier message, which F then reads first, or garbage, of which F makes port
\* 0 and a path that is a number.  What F reads first stays in front.
S0Sends ==
    /\ sent < MaxSent /\ sent' = sent + 1
    /\ \E a \in [port : Ports, path : Kinds \cup {NoProgram}] :
          \E read \in {a, onStack, Nothing} :
             onStack' = read /\ mailbox' = Append(mailbox, read)
    /\ UNCHANGED <<forwarderVars, customerVars, services, backlog, passed, servedBy, before,
                   question, answer, finished, refused>>

-----------------------------------------------------------------------------
(* F *)

\* createService up to the fork: a port F listens on already cannot be bound
\* again, which ends F.
FReceives ==
    /\ forwarder = "polling" /\ mailbox # <<>>
    /\ LET a == Head(mailbox)
       IN  IF a.port \in listeners
           THEN /\ forwarder' = "down" /\ misled' = TRUE
                /\ UNCHANGED <<starting, listeners, announced>>
           ELSE /\ forwarder' = "starting" /\ starting' = a
                /\ listeners' = listeners \cup ({a.port} \cap Ports)
                /\ announced' = [p \in Ports |-> IF p = a.port THEN a.path ELSE announced[p]]
                /\ misled' = (misled \/ a.path = NoProgram)
    /\ mailbox' = Tail(mailbox)
    /\ UNCHANGED <<allUSDs, customerVars, onStack, sent, services, backlog, passed,
                   servedBy, before, question, answer, finished, refused>>

\* The program connects, acceptUSD returns.  If there is no such program the
\* child exits, and F is in acceptUSD for ever.
FGetsService ==
    /\ forwarder = "starting" /\ starting.path # NoProgram
    /\ forwarder' = "polling" /\ starting' = Nothing
    /\ services' = Append(services, [kind |-> starting.path, state |-> "serving"])
    /\ allUSDs' = [p \in Ports |-> IF p = starting.port THEN Len(services) + 1 ELSE allUSDs[p]]
    /\ UNCHANGED <<listeners, announced, misled, customerVars, mailbox, onStack, sent,
                   backlog, passed, servedBy, before, question, answer, finished, refused>>

\* Mutant: the descriptor goes to the service started last.
FForwardsToLast(p) ==
    /\ forwarder = "polling" /\ p \in listeners /\ backlog[p] # <<>>
    /\ LET c == Head(backlog[p])
           n == Len(services)
       IN  /\ before' = [before EXCEPT ![c] = Len(services)]
           /\ IF Alive(n) THEN passed' = [passed EXCEPT ![n] = Append(@, c)] /\ UNCHANGED forwarder
              ELSE forwarder' = "down" /\ UNCHANGED passed
    /\ backlog' = [backlog EXCEPT ![p] = Tail(@)]
    /\ UNCHANGED <<starting, listeners, allUSDs, announced, misled, customerVars, mailbox,
                   onStack, sent, services, servedBy, question, answer, finished, refused>>

\* Mutant: a client that comes while another is on its way is accepted only.
FForwardsUnlessBusy(p) ==
    /\ forwarder = "polling" /\ p \in listeners /\ backlog[p] # <<>>
    /\ LET c == Head(backlog[p])
           n == allUSDs[p]
       IN  /\ before' = [before EXCEPT ![c] = Len(services)]
           /\ IF Alive(n)
              THEN /\ passed' = [passed EXCEPT ![n] = IF @ = <<>> THEN Append(@, c) ELSE @]
                   /\ UNCHANGED forwarder
              ELSE forwarder' = "down" /\ UNCHANGED passed
    /\ backlog' = [backlog EXCEPT ![p] = Tail(@)]
    /\ UNCHANGED <<starting, listeners, allUSDs, announced, misled, customerVars, mailbox,
                   onStack, sent, services, servedBy, question, answer, finished, refused>>

\* acceptClientAndSendFD; writing to a service that is gone is SIGPIPE.
FForwards(p) ==
    /\ forwarder = "polling" /\ p \in listeners /\ backlog[p] # <<>>
    /\ LET c == Head(backlog[p])
           n == allUSDs[p]
       IN  /\ before' = [before EXCEPT ![c] = Len(services)]
           /\ IF Alive(n) THEN passed' = [passed EXCEPT ![n] = Append(@, c)] /\ UNCHANGED forwarder
              ELSE forwarder' = "down" /\ UNCHANGED passed
    /\ backlog' = [backlog EXCEPT ![p] = Tail(@)]
    /\ UNCHANGED <<starting, listeners, allUSDs, announced, misled, customerVars, mailbox,
                   onStack, sent, services, servedBy, question, answer, finished, refused>>

Forwarder == FReceives \/ FGetsService \/ \E p \in Ports : FForwards(p)

-----------------------------------------------------------------------------
(* S1, S2 and S3 *)

\* recv_fd, and a thread for the descriptor.
ServiceTakes(n) ==
    /\ services[n].state = "serving" /\ passed[n] # <<>>
    /\ servedBy' = [servedBy EXCEPT ![Head(passed[n])] = n]
    /\ passed' = [passed EXCEPT ![n] = Tail(@)]
    /\ UNCHANGED <<forwarderVars, customerVars, mailbox, onStack, sent, services, backlog,
                   before, question, answer, finished, refused>>

\* F is gone, and so is every service that inherited F's end of this service's
\* socket: read returns 0, recv_fd -1, and a thread is started for -1, for ever.
ServiceSpins(n) ==
    /\ services[n].state = "serving" /\ passed[n] = <<>> /\ forwarder = "down"
    /\ \A m \in n + 1..Len(services) : ~Alive(m)
    /\ services' = [services EXCEPT ![n].state = "spinning"]
    /\ UNCHANGED <<forwarderVars, customerVars, mailbox, onStack, sent, backlog, passed,
                   servedBy, before, question, answer, finished, refused>>

\* thread_func: "exit" ends the thread, which closes nothing; every other line
\* is changed and sent back.
ThreadAnswers(c) ==
    LET n == servedBy[c]
    IN  /\ n # 0 /\ Alive(n) /\ ~finished[c] /\ question[c] # <<>>
        /\ IF Head(question[c]) = 0
           THEN finished' = [finished EXCEPT ![c] = TRUE] /\ UNCHANGED <<answer, refused>>
           ELSE /\ answer' = IF customer[c] = "left" THEN answer
                             ELSE [answer EXCEPT ![c] = Append(@, [n |-> Head(question[c]),
                                                                   kind |-> services[n].kind])]
                /\ refused' = [refused EXCEPT ![c] = customer[c] = "left"]
                /\ UNCHANGED finished
        /\ question' = [question EXCEPT ![c] = Tail(@)]
        /\ UNCHANGED <<forwarderVars, customerVars, mailbox, onStack, sent, services, backlog,
                       passed, servedBy, before>>

\* A customer that left without "exit": the thread reads nothing, sends an empty
\* line back, and does it again, which is SIGPIPE and ends the service.
ThreadMeetsEnd(c) ==
    LET n == servedBy[c]
    IN  /\ n # 0 /\ Alive(n) /\ ~finished[c] /\ question[c] = <<>> /\ customer[c] = "left"
        /\ refused' = [refused EXCEPT ![c] = TRUE]
        /\ services' = IF refused[c] THEN [services EXCEPT ![n].state = "dead"] ELSE services
        /\ UNCHANGED <<forwarderVars, customerVars, mailbox, onStack, sent, backlog, passed,
                       servedBy, before, question, answer, finished>>

Service(n) ==
    \/ ServiceTakes(n) \/ ServiceSpins(n)
    \/ \E c \in Customers : servedBy[c] = n /\ (ThreadAnswers(c) \/ ThreadMeetsEnd(c))

-----------------------------------------------------------------------------
(* client.c *)

\* The listener is open as long as F, or a service started for it or later, is.
Open(p) ==
    /\ p \in listeners
    /\ forwarder # "down" \/ \E m \in allUSDs[p]..Len(services) : m # 0 /\ Alive(m)

CustomerConnects(c, p) ==
    /\ customer[c] = "home" /\ Open(p)
    /\ customer' = [customer EXCEPT ![c] = "prompt"] /\ port' = [port EXCEPT ![c] = p]
    /\ backlog' = [backlog EXCEPT ![p] = Append(@, c)]
    /\ UNCHANGED <<forwarderVars, asked, got, mailbox, onStack, sent, services, passed,
                   servedBy, before, question, answer, finished, refused>>

\* Line n of a customer is n, "exit" is 0.
CustomerTypes(c) ==
    /\ customer[c] = "prompt"
    /\ \/ /\ asked[c] < MaxAsked /\ asked' = [asked EXCEPT ![c] = @ + 1]
          /\ question' = [question EXCEPT ![c] = Append(@, asked'[c])]
          /\ customer' = [customer EXCEPT ![c] = "waiting"]
       \/ /\ question' = [question EXCEPT ![c] = Append(@, 0)]
          /\ customer' = [customer EXCEPT ![c] = "done"] /\ UNCHANGED asked
    /\ UNCHANGED <<forwarderVars, port, got, mailbox, onStack, sent, services, backlog,
                   passed, servedBy, before, answer, finished, refused>>

CustomerReads(c) ==
    /\ customer[c] = "waiting" /\ answer[c] # <<>>
    /\ got' = [got EXCEPT ![c] = Append(@, Head(answer[c]))]
    /\ answer' = [answer EXCEPT ![c] = Tail(@)]
    /\ customer' = [customer EXCEPT ![c] = "prompt"]
    /\ UNCHANGED <<forwarderVars, port, asked, mailbox, onStack, sent, services, backlog,
                   passed, servedBy, before, question, finished, refused>>

\* Nobody holds the other end: F, the service that has it or is about to take
\* it, and those that inherited it from F are all gone.
CutOff(c) ==
    /\ forwarder = "down"
    /\ \/ c \notin {backlog[port[c]][k] : k \in 1..Len(backlog[port[c]])}
       \/ ~Open(port[c])
    /\ \A n \in 1..Len(services) :
          Alive(n) => /\ before[c] # 0 => n <= before[c]
                      /\ servedBy[c] # n
                      /\ c \notin {passed[n][k] : k \in 1..Len(passed[n])}

\* What read returns then is printed as an answer; the user can only stop.
CustomerIsCut(c) ==
    /\ customer[c] = "waiting" /\ answer[c] = <<>> /\ CutOff(c)
    /\ customer' = [customer EXCEPT ![c] = "cut"]
    /\ UNCHANGED <<forwarderVars, port, asked, got, mailbox, onStack, sent, services,
                   backlog, passed, servedBy, before, question, answer, finished, refused>>

CustomerWalksOut(c) ==
    /\ c \in Walkouts /\ customer[c] \in {"prompt", "waiting"}
    /\ customer' = [customer EXCEPT ![c] = "left"]
    /\ UNCHANGED <<forwarderVars, port, asked, got, mailbox, onStack, sent, services,
                   backlog, passed, servedBy, before, question, answer, finished, refused>>

Customer(c) ==
    \/ \E p \in Ports : CustomerConnects(c, p)
    \/ CustomerTypes(c) \/ CustomerReads(c) \/ CustomerIsCut(c) \/ CustomerWalksOut(c)

-----------------------------------------------------------------------------
DispatcherNext ==
    \/ S0Sends \/ Forwarder
    \/ \E n \in 1..Len(services) : Service(n)
    \/ \E c \in Customers : Customer(c)

\* F, the main thread of each service and each of its threads go on when they
\* can, and read returns when there is something to read.  F takes one datagram
\* or connection at a time, and there are no more than MaxSent and Customers:
\* none is passed over for ever.
DispatcherFairness ==
    /\ WF_dispatcherVars(Forwarder)
    /\ \A n \in 1..MaxSent : WF_dispatcherVars(n <= Len(services) /\ ServiceTakes(n))
    /\ \A c \in Customers :
          /\ WF_dispatcherVars(ThreadAnswers(c) \/ ThreadMeetsEnd(c))
          /\ WF_dispatcherVars(CustomerReads(c) \/ CustomerIsCut(c))

DispatcherSpec ==
    DispatcherInit /\ [][DispatcherNext]_dispatcherVars /\ DispatcherFairness

-----------------------------------------------------------------------------
(* Properties *)

\* Every answer a customer reads is to its own line, in order, and from the
\* program that was announced for the port it connected to, whichever services
\* were started, failed or inherited the connection meanwhile (handleNewService
\* and handleClientRequest of F.c, thread_func of S1.c to S3.c).
AnswersAreOwn ==
    \A c \in Customers :
        LET all == got[c] \o answer[c]
        IN  \A k \in 1..Len(all) : all[k] = [n |-> k, kind |-> announced[port[c]]]

\* What makes AnswersAreOwn inductive.  No more services are started than
\* messages were typed into S0.
FewServices ==
    Len(services) + Len(mailbox) + (IF forwarder = "starting" THEN 1 ELSE 0) <= sent

\* A port is bound once and belongs to the first service started for it, which
\* is the one that was announced (createService and handleNewService of F.c).
PortOf ==
    /\ \A p \in Ports : allUSDs[p] # 0 =>
          p \in listeners /\ services[allUSDs[p]].kind = announced[p]
    /\ \A p \in listeners : allUSDs[p] = 0 =>
          forwarder = "down" \/ (forwarder = "starting" /\ starting.port = p)
    /\ forwarder = "starting" /\ starting.port \in Ports =>
          /\ starting.port \in listeners /\ allUSDs[starting.port] = 0
          /\ announced[starting.port] = starting.path

\* A descriptor goes where its port does.
Routed(c) ==
    /\ \A p \in Ports : \A k \in 1..Len(backlog[p]) : backlog[p][k] = c =>
          customer[c] # "home" /\ port[c] = p
    /\ \A n \in 1..MaxSent : \A k \in 1..Len(passed[n]) : passed[n][k] = c =>
          customer[c] # "home" /\ port[c] \in Ports /\ allUSDs[port[c]] = n
    /\ servedBy[c] # 0 =>
          customer[c] # "home" /\ port[c] \in Ports /\ allUSDs[port[c]] = servedBy[c]

\* A customer has at most one line under way, the last it typed; once it has
\* left it is sent no answer.
InTurn(c) ==
    /\ customer[c] \in {"home", "prompt", "done"} => answer[c] = <<>>
    /\ customer[c] \in {"home", "prompt"} => question[c] = <<>> /\ Len(got[c]) = asked[c]
    /\ customer[c] = "done" => question[c] = <<>> \/ question[c] = <<0>>
    /\ customer[c] \in {"waiting", "cut"} =>
          /\ Len(got[c]) + 1 = asked[c]
          /\ \/ question[c] = <<asked[c]>> /\ answer[c] = <<>>
             \/ question[c] = <<>> /\ Len(answer[c]) = 1
    /\ servedBy[c] = 0 => got[c] = <<>> /\ answer[c] = <<>>

AnswersInv ==
    /\ DispatcherTypeOK /\ FewServices /\ PortOf
    /\ \A c \in Customers : Routed(c) /\ InTurn(c)
    /\ AnswersAreOwn

\* A line is answered, whatever else is going on, unless F was given an
\* announcement it cannot follow, or some customer left without "exit"
\* (acceptUSD and bindAndListenTcp in F.c, thread_func in S1.c).
EveryLineIsAnswered ==
    \A c \in Customers :
        (customer[c] = "waiting")
            ~> (customer[c] # "waiting" \/ misled
                \/ \E d \in Customers : customer[d] = "left")
=============================================================================
