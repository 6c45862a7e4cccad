------------------------------- MODULE Relay -------------------------------
(***************************************************************************)
(* 29-03-22-Mid-lab: clients (C.c) exchange messages through packages (P.c) *)
(* they find at a name center (NC.c).  A package registers at the center;   *)
(* a client asks the center for a package, the center tells every connected *)
(* package about the client and answers with the package's address.  "live" *)
(* clients then use a TCP connection to the package, "paid" ones datagrams; *)
(* a message is two records, the addressee's number and the text, and the   *)
(* package forwards the text to every client it knows under that number.    *)
(*                                                                         *)
(* A record is 128 bytes and is read whole.  What a process sends in a row, *)
(* after its first message, is one step here: the records of a package; of  *)
(* a client, those that follow the package number.  A process killed before *)
(* the last of them has not sent them.  A process is a member of            *)
(* Packages or Clients and runs once; a program started again is another    *)
(* member with the same number and address.  The center and the packages    *)
(* serve whatever their poll reports: any ready source may be next.  Lines  *)
(* a package's user types (handle STDIN, deal_with_free) only reach screens.*)
(***************************************************************************)
EXTENDS Integers, Sequences, FiniteSets

CONSTANTS Packages, Clients,
          PackNos,   \* package numbers users type
          PackNo,    \* the number each package is started with
          Numbers,   \* client numbers
          NumberOf,  \* client_no of each client
          AddrOf,    \* its UDP address, here just a name
          Kinds,     \* subset of {"live", "paid"}: rand() decides
          Leavers,   \* packages and clients that may be stopped with ^C
          MaxSay,    \* bound: messages each client sends
          None

ASSUME RelayAssumption ==
    /\ PackNo \in [Packages -> PackNos]
    /\ NumberOf \in [Clients -> Numbers]
    /\ Kinds \subseteq {"live", "paid"}
    /\ MaxSay \in Nat
    /\ Packages \cap Clients = {}
    /\ {None, "no"} \cap (Packages \cup Clients) = {}

VARIABLES
    nc,         \* "poll"; in accept_package ("package") or accept_client ("client",
                \* or "tell" in its broadcast) with cur; or "dead"
    cur,
    waitingP, waitingC, \* connections the center has not accepted yet
    introduced, \* packages and clients that sent the center their records
    packs,      \* package_info: packages in the order they registered
    slots,      \* poll_fds from RESERVED on: a package or None (-1)
    pos,        \* in the broadcast, the position of poll_fds that is next, or 0
    registered, \* client_info
    since,      \* history: how many clients were registered when a package was
    pkg,        \* "off", "up" or "left"
    ppc,        \* "poll", or between two records: "udp", "tcp"
    held,       \* the first of the two records
    down,       \* clients the center told a package about, not yet read
    known,      \* the package's client_info
    udpq,       \* datagrams at the package
    backlog,    \* live clients that connected
    conns,      \* live clients the package accepted
    cpc, kind,  \* where a client is; its function
    request,    \* the package number it sent to the center
    answer,     \* the package the center named, "no", or None
    tcpq,       \* records on a live client's connection
    inbox,      \* datagrams at a client
    addressee,  \* the number the user typed last, whose text follows
    said,       \* messages it sent
    open,       \* history: the paid client whose number a package got last, if
                \* the text did not follow yet
    crossed     \* history: packages where something else followed instead

queueVars == <<waitingP, waitingC, introduced>>
centerVars == <<nc, cur, packs, slots, pos, registered, since>>
packageVars == <<pkg, ppc, held, known, conns>>
pairVars == <<open, crossed>>
clientVars == <<cpc, kind, request, addressee, said, pairVars>>
linkVars == <<down, udpq, backlog, answer, tcpq, inbox>>
vars == <<queueVars, centerVars, packageVars, clientVars, linkVars>>

\* What travels between clients: the number a user typed, a text, or the empty
\* string a package passes on when it finds the end of a connection instead.
Record == [part : {"number", "text", "empty"}, from : Clients, to : Numbers]

CPC == {"off", "choose", "introduce", "answer", "talk", "text", "gone"}

TypeOK ==
    /\ waitingP \in Seq(Packages) /\ waitingC \in Seq(Clients)
    /\ introduced \subseteq Packages \cup Clients
    /\ nc \in {"poll", "package", "client", "tell", "dead"}
    /\ cur \in Packages \cup Clients \cup {None} /\ pos \in Nat
    /\ nc = "package" => cur \in Packages
    /\ nc \in {"client", "tell"} => cur \in Clients
    /\ packs \in Seq(Packages) /\ slots \in Seq(Packages \cup {None})
    /\ registered \in Seq(Clients) /\ since \in [Packages -> Nat]
    /\ pkg \in [Packages -> {"off", "up", "left"}]
    /\ ppc \in [Packages -> {"poll", "udp", "tcp"}]
    /\ held \in [Packages -> Record \cup {None}]
    /\ \A p \in Packages : ppc[p] # "poll" => held[p] \in Record
    /\ known \in [Packages -> Seq(Clients)] /\ conns \in [Packages -> SUBSET Clients]
    /\ cpc \in [Clients -> CPC] /\ kind \in [Clients -> {"live", "paid"}]
    /\ request \in [Clients -> PackNos \cup {None}]
    /\ addressee \in [Clients -> Numbers \cup {None}]
    /\ \A c \in Clients : cpc[c] = "text" => addressee[c] \in Numbers
    /\ said \in [Clients -> Nat]
    /\ open \in [Packages -> Clients \cup {None}] /\ crossed \subseteq Packages
    /\ down \in [Packages -> Seq(Clients)] /\ udpq \in [Packages -> Seq(Record)]
    /\ backlog \in [Packages -> Seq(Clients)]
    /\ answer \in [Clients -> Packages \cup {"no", None}]
    /\ tcpq \in [Clients -> Seq(Record)] /\ inbox \in [Clients -> Seq(Record)]

Init ==
    /\ waitingP = <<>> /\ waitingC = <<>> /\ introduced = {}
    /\ nc = "poll" /\ cur = None /\ packs = <<>> /\ slots = <<>> /\ pos = 0
    /\ registered = <<>> /\ since = [p \in Packages |-> 0]
    /\ pkg = [p \in Packages |-> "off"] /\ ppc = [p \in Packages |-> "poll"]
    /\ held = [p \in Packages |-> None] /\ known = [p \in Packages |-> <<>>]
    /\ conns = [p \in Packages |-> {}]
    /\ cpc = [c \in Clients |-> "off"] /\ kind \in [Clients -> Kinds]
    /\ request = [c \in Clients |-> None] /\ addressee = [c \in Clients |-> None]
    /\ said = [c \in Clients |-> 0]
    /\ open = [p \in Packages |-> None] /\ crossed = {}
    /\ down = [p \in Packages |-> <<>>] /\ udpq = [p \in Packages |-> <<>>]
    /\ backlog = [p \in Packages |-> <<>>] /\ answer = [c \in Clients |-> None]
    /\ tcpq = [c \in Clients |-> <<>>] /\ inbox = [c \in Clients |-> <<>>]

Running(c) == cpc[c] \notin {"off", "gone"}

Goto(c, l) == cpc' = [cpc EXCEPT ![c] = l]

-----------------------------------------------------------------------------
(* Name center *)

\* accept_package up to its first tcp_recieve: from here on the center does
\* nothing else until this package has sent its five records.
AcceptPackage ==
    /\ nc = "poll" /\ waitingP # <<>>
    /\ waitingP' = Tail(waitingP)
    /\ nc' = "package" /\ cur' = Head(waitingP)
    /\ UNCHANGED <<waitingC, introduced, packs, slots, pos, registered, since,
                   packageVars, clientVars, linkVars>>

\* The rest of it; the records of a package that has left since can still be
\* read.
ReadPackage ==
    /\ nc = "package" /\ cur \in introduced
    /\ packs' = Append(packs, cur)
    /\ slots' = Append(slots, cur)
    /\ since' = [since EXCEPT ![cur] = Len(registered)]
    /\ nc' = "poll"
    /\ UNCHANGED <<queueVars, cur, pos, registered, packageVars, clientVars, linkVars>>

\* Mutant: the reads do not wait for a package that is still sending.
PackageHungUpEarly ==
    /\ nc = "package" /\ cur \notin introduced
    /\ nc' = "dead"
    /\ UNCHANGED <<queueVars, cur, packs, slots, pos, registered, since,
                   packageVars, clientVars, linkVars>>

\* The end of the connection where one of the five records should be: exit(0).
PackageHungUp ==
    /\ nc = "package" /\ cur \notin introduced /\ pkg[cur] = "left"
    /\ nc' = "dead"
    /\ UNCHANGED <<queueVars, cur, packs, slots, pos, registered, since,
                   packageVars, clientVars, linkVars>>

\* accept_client up to its first tcp_recieve: from here on the center does
\* nothing else until this client's user has typed a package number.
AcceptClient ==
    /\ nc = "poll" /\ waitingC # <<>>
    /\ waitingC' = Tail(waitingC)
    /\ nc' = "client" /\ cur' = Head(waitingC)
    /\ UNCHANGED <<waitingP, introduced, packs, slots, pos, registered, since,
                   packageVars, clientVars, linkVars>>

\* Positions of package_info with the number the client asked for.
Matches == {i \in 1..Len(packs) : PackNo[packs[i]] = request[cur]}

\* The end of the connection where the package number, or one of the records
\* that follow it, should be: exit(0).
ClientHungUp ==
    /\ nc = "client" /\ cpc[cur] = "gone"
    /\ request[cur] = None \/ (Matches # {} /\ cur \notin introduced)
    /\ nc' = "dead"
    /\ UNCHANGED <<queueVars, cur, packs, slots, pos, registered, since,
                   packageVars, clientVars, linkVars>>

\* Mutant: the connection is not closed.
RefuseSilently ==
    /\ nc = "client" /\ request[cur] # None /\ Matches = {}
    /\ nc' = "poll"
    /\ UNCHANGED <<queueVars, cur, packs, slots, pos, registered, since, packageVars,
                   clientVars, linkVars>>

Refuse ==
    /\ nc = "client" /\ request[cur] # None /\ Matches = {}
    /\ nc' = "poll"
    /\ answer' = [answer EXCEPT ![cur] = "no"]
    /\ UNCHANGED <<queueVars, cur, packs, slots, pos, registered, since, packageVars,
                   clientVars, down, udpq, backlog, tcpq, inbox>>

\* Mutant: the client is answered before the packages are told.
ReadClientAnswers ==
    /\ nc = "client" /\ Matches # {} /\ cur \in introduced
    /\ registered' = Append(registered, cur)
    /\ nc' = "tell" /\ pos' = 1
    /\ \E i \in Matches : answer' = [answer EXCEPT ![cur] = packs[i]]
    /\ UNCHANGED <<queueVars, cur, packs, slots, since, packageVars, clientVars,
                   down, udpq, backlog, tcpq, inbox>>

\* The other six records are read into client_info.
ReadClient ==
    /\ nc = "client" /\ Matches # {} /\ cur \in introduced
    /\ registered' = Append(registered, cur)
    /\ nc' = "tell" /\ pos' = 1
    /\ UNCHANGED <<queueVars, cur, packs, slots, since, packageVars, clientVars, linkVars>>

\* The five records of the client are written to the next descriptor.  If its
\* package has left, that may go well as long as the connection is not reset.
TellPackage ==
    /\ nc = "tell" /\ pos <= Len(slots) /\ slots[pos] # None
    /\ down' = [down EXCEPT ![slots[pos]] = Append(@, cur)]
    /\ pos' = pos + 1
    /\ UNCHANGED <<queueVars, nc, cur, packs, slots, registered, since, packageVars,
                   clientVars, udpq, backlog, answer, tcpq, inbox>>

\* Or it fails: always on descriptor -1, and where the package has left as
\* soon as the connection is reset.  The center dies in its broadcast.
BreakOff ==
    /\ nc = "tell" /\ pos <= Len(slots)
    /\ slots[pos] \notin {p \in Packages : pkg[p] = "up"}
    /\ nc' = "dead"
    /\ UNCHANGED <<queueVars, cur, packs, slots, pos, registered, since, packageVars,
                   clientVars, linkVars>>

\* Mutant: the loop stops one descriptor short.
AnswerOneShort ==
    /\ nc = "tell" /\ pos >= Len(slots)
    /\ \E i \in Matches : answer' = [answer EXCEPT ![cur] = packs[i]]
    /\ pos' = 0
    /\ \/ nc' = "poll"
       \/ cpc[cur] = "gone" /\ nc' = "dead"
    /\ UNCHANGED <<queueVars, cur, packs, slots, registered, since, packageVars, clientVars,
                   down, udpq, backlog, tcpq, inbox>>

\* After the loop the client gets an address of the first package that matches.
\* The two writes kill the center if the client is gone and its reset arrives
\* between them.
AnswerClient ==
    /\ nc = "tell" /\ pos > Len(slots)
    /\ \E i \in Matches :
         /\ \A j \in Matches : i <= j
         /\ answer' = [answer EXCEPT ![cur] = packs[i]]
    /\ pos' = 0
    /\ \/ nc' = "poll"
       \/ cpc[cur] = "gone" /\ nc' = "dead"
    /\ UNCHANGED <<queueVars, cur, packs, slots, registered, since, packageVars, clientVars,
                   down, udpq, backlog, tcpq, inbox>>

\* deal_with_free at the end of a package's connection.  If the package left
\* records unread the connection is reset, revents is not exactly POLLIN, and
\* the center never comes here.
NoticeLeft ==
    /\ nc = "poll"
    /\ \E i \in 1..Len(slots) :
         /\ slots[i] # None /\ pkg[slots[i]] = "left" /\ down[slots[i]] = <<>>
         /\ slots' = [slots EXCEPT ![i] = None]
    /\ UNCHANGED <<queueVars, nc, cur, packs, pos, registered, since,
                   packageVars, clientVars, linkVars>>

Center == AcceptPackage \/ ReadPackage \/ PackageHungUp
          \/ AcceptClient \/ ClientHungUp \/ Refuse
          \/ ReadClient \/ TellPackage \/ BreakOff \/ AnswerClient
          \/ NoticeLeft

-----------------------------------------------------------------------------
(* Packages *)

\* main up to the connection to the center.
StartPackage(p) ==
    /\ pkg[p] = "off" /\ nc # "dead"
    /\ pkg' = [pkg EXCEPT ![p] = "up"]
    /\ waitingP' = Append(waitingP, p)
    /\ UNCHANGED <<waitingC, introduced, centerVars, ppc, held, known, conns, clientVars,
                   linkVars>>

\* The five records are sent; then the poll loop begins.
IntroducePackage(p) ==
    /\ pkg[p] = "up" /\ p \notin introduced
    /\ introduced' = introduced \cup {p}
    /\ UNCHANGED <<waitingP, waitingC, centerVars, packageVars, clientVars, linkVars>>

\* ^C, at any point; or, once the center is dead and its last records are read,
\* a write of the five records fails, or every poll stores another empty client
\* until client_info overflows.
LeavePackage(p) ==
    /\ pkg[p] = "up"
    /\ \/ p \in Leavers
       \/ nc = "dead" /\ down[p] = <<>> /\ ppc[p] = "poll"
    /\ pkg' = [pkg EXCEPT ![p] = "left"]
    /\ ppc' = [ppc EXCEPT ![p] = "poll"]
    /\ held' = [held EXCEPT ![p] = None]
    /\ conns' = [conns EXCEPT ![p] = {}]
    /\ udpq' = [udpq EXCEPT ![p] = <<>>]
    /\ backlog' = [backlog EXCEPT ![p] = <<>>]
    /\ UNCHANGED <<queueVars, centerVars, known, clientVars, down, answer, tcpq, inbox>>

Polls(p) == pkg[p] = "up" /\ p \in introduced /\ ppc[p] = "poll"

StoreNewClient(p) ==
    /\ Polls(p) /\ down[p] # <<>>
    /\ known' = [known EXCEPT ![p] = Append(@, Head(down[p]))]
    /\ down' = [down EXCEPT ![p] = Tail(@)]
    /\ UNCHANGED <<queueVars, centerVars, pkg, ppc, held, conns, clientVars,
                   udpq, backlog, answer, tcpq, inbox>>

HandleClientTcp(p) ==
    /\ Polls(p) /\ backlog[p] # <<>>
    /\ conns' = [conns EXCEPT ![p] = @ \cup {Head(backlog[p])}]
    /\ backlog' = [backlog EXCEPT ![p] = Tail(@)]
    /\ UNCHANGED <<queueVars, centerVars, pkg, ppc, held, known, clientVars,
                   down, udpq, answer, tcpq, inbox>>

\* Mutant: the loop misses the client stored last.
CopiesOneShort(p, n, d) ==
    Cardinality({i \in 1..Len(known[p])-1 : /\ NumberOf[known[p][i]] = n
                                            /\ AddrOf[known[p][i]] = AddrOf[d]})

\* How many datagrams package p sends to d for number n: one for every entry
\* of client_info with this number and d's address.
Copies(p, n, d) ==
    Cardinality({i \in DOMAIN known[p] : /\ NumberOf[known[p][i]] = n
                                         /\ AddrOf[known[p][i]] = AddrOf[d]})

\* The loop over client_info; nobody reads an address whose client has exited.
Forward(p, n, r) ==
    inbox' = [d \in Clients |-> IF Running(d)
                                THEN inbox[d] \o [i \in 1..Copies(p, n, d) |-> r]
                                ELSE inbox[d]]

\* handle_client_udp reads two datagrams, from whomever they come.
UdpNumber(p) ==
    /\ Polls(p) /\ udpq[p] # <<>>
    /\ held' = [held EXCEPT ![p] = Head(udpq[p])]
    /\ ppc' = [ppc EXCEPT ![p] = "udp"]
    /\ udpq' = [udpq EXCEPT ![p] = Tail(@)]
    /\ UNCHANGED <<queueVars, centerVars, pkg, known, conns, clientVars,
                   down, backlog, answer, tcpq, inbox>>

\* A datagram typed as a text and read as a number is nobody's number.
UdpText(p) ==
    /\ pkg[p] = "up" /\ ppc[p] = "udp" /\ udpq[p] # <<>>
    /\ IF held[p].part = "number" THEN Forward(p, held[p].to, Head(udpq[p]))
                                  ELSE UNCHANGED inbox
    /\ ppc' = [ppc EXCEPT ![p] = "poll"]
    /\ held' = [held EXCEPT ![p] = None]
    /\ udpq' = [udpq EXCEPT ![p] = Tail(@)]
    /\ UNCHANGED <<queueVars, centerVars, pkg, known, conns, clientVars,
                   down, backlog, answer, tcpq>>

\* talk_with_client reads two records of one connection and waits for the
\* second as long as it takes.
TcpNumber(p, c) ==
    /\ Polls(p) /\ c \in conns[p] /\ tcpq[c] # <<>>
    /\ held' = [held EXCEPT ![p] = Head(tcpq[c])]
    /\ ppc' = [ppc EXCEPT ![p] = "tcp"]
    /\ tcpq' = [tcpq EXCEPT ![c] = Tail(@)]
    /\ UNCHANGED <<queueVars, centerVars, pkg, known, conns, clientVars,
                   down, udpq, backlog, answer, inbox>>

\* At the end of the connection both records are empty and match no client.
HangUp(p, c) ==
    /\ Polls(p) /\ c \in conns[p] /\ tcpq[c] = <<>> /\ cpc[c] = "gone"
    /\ conns' = [conns EXCEPT ![p] = @ \ {c}]
    /\ UNCHANGED <<queueVars, centerVars, pkg, ppc, held, known, clientVars, linkVars>>

\* Mutant: the second record comes from any connection that has one.
TcpTextAny(p) ==
    /\ pkg[p] = "up" /\ ppc[p] = "tcp"
    /\ \E c \in conns[p] :
         /\ tcpq[c] # <<>>
         /\ Forward(p, held[p].to, Head(tcpq[c]))
         /\ tcpq' = [tcpq EXCEPT ![c] = Tail(@)]
    /\ ppc' = [ppc EXCEPT ![p] = "poll"]
    /\ held' = [held EXCEPT ![p] = None]
    /\ UNCHANGED <<queueVars, centerVars, pkg, known, conns, clientVars,
                   down, udpq, backlog, answer>>

TcpText(p) ==
    /\ pkg[p] = "up" /\ ppc[p] = "tcp"
    /\ LET c == held[p].from IN
         \/ /\ tcpq[c] # <<>>
            /\ Forward(p, held[p].to, Head(tcpq[c]))
            /\ tcpq' = [tcpq EXCEPT ![c] = Tail(@)]
            /\ UNCHANGED conns
         \/ /\ tcpq[c] = <<>> /\ cpc[c] = "gone"
            /\ Forward(p, held[p].to, [held[p] EXCEPT !.part = "empty"])
            /\ conns' = [conns EXCEPT ![p] = @ \ {c}]
            /\ UNCHANGED tcpq
    /\ ppc' = [ppc EXCEPT ![p] = "poll"]
    /\ held' = [held EXCEPT ![p] = None]
    /\ UNCHANGED <<queueVars, centerVars, pkg, known, clientVars, down, udpq, backlog, answer>>

Package(p) ==
    \/ StoreNewClient(p) \/ HandleClientTcp(p) \/ UdpNumber(p) \/ UdpText(p) \/ TcpText(p)
    \/ \E c \in Clients : TcpNumber(p, c) \/ HangUp(p, c)

-----------------------------------------------------------------------------
(* Clients *)

\* main up to the prompt, for a client that could bind its address: with one
\* in use it would go on without hearing anything.
Connect(c) ==
    /\ cpc[c] = "off" /\ nc # "dead"
    /\ \A d \in Clients : Running(d) => AddrOf[d] # AddrOf[c]
    /\ Goto(c, "choose")
    /\ waitingC' = Append(waitingC, c)
    /\ UNCHANGED <<waitingP, introduced, centerVars, packageVars, kind, request, addressee,
                   said, pairVars, linkVars>>

\* A write to a center that has closed the connection may go unnoticed or kill.
Write(c, next) ==
    Goto(c, next) \/ ((answer[c] = "no" \/ nc = "dead") /\ Goto(c, "gone"))

\* The user types a package number, which is sent at once.
Choose(c) ==
    /\ cpc[c] = "choose"
    /\ \E n \in PackNos : request' = [request EXCEPT ![c] = n]
    /\ Write(c, "introduce")
    /\ UNCHANGED <<queueVars, centerVars, packageVars, kind, addressee, said, pairVars,
                   linkVars>>

\* The function and the five records follow.
Introduce(c) ==
    /\ cpc[c] = "introduce"
    /\ introduced' = introduced \cup {c}
    /\ Write(c, "answer")
    /\ UNCHANGED <<waitingP, waitingC, centerVars, packageVars, kind, request, addressee, said,
                   pairVars, linkVars>>

\* tcp_recieve of the address; a live client then connects.  It exits if the
\* center closed the connection or nobody listens.
Answered(c) ==
    /\ cpc[c] = "answer" /\ (answer[c] # None \/ nc = "dead")
    /\ IF answer[c] \in Packages /\ (kind[c] = "paid" \/ pkg[answer[c]] = "up")
       THEN /\ Goto(c, "talk")
            /\ backlog' = IF kind[c] = "live"
                          THEN [backlog EXCEPT ![answer[c]] = Append(@, c)] ELSE backlog
       ELSE Goto(c, "gone") /\ UNCHANGED backlog
    /\ UNCHANGED <<queueVars, centerVars, packageVars, kind, request, addressee, said, pairVars,
                   down, udpq, answer, tcpq, inbox>>

\* What becomes of a record: it reaches the package; or the package has left,
\* and a paid client never knows, a live one is killed by the reset sooner or
\* later.
Say(c, r, next) ==
    LET p == answer[c] IN
    IF pkg[p] = "up"
    THEN /\ Goto(c, next)
         /\ IF kind[c] = "paid"
            THEN udpq' = [udpq EXCEPT ![p] = Append(@, r)] /\ UNCHANGED tcpq
            ELSE tcpq' = [tcpq EXCEPT ![c] = Append(@, r)] /\ UNCHANGED udpq
    ELSE /\ Goto(c, next) \/ (kind[c] = "live" /\ Goto(c, "gone"))
         /\ UNCHANGED <<udpq, tcpq>>

\* History: a number, or a text, of a paid client at its package.
Opens(c) ==
    IF kind[c] = "paid"
    THEN /\ open' = [open EXCEPT ![answer[c]] = c]
         /\ crossed' = crossed \cup {p \in Packages : p = answer[c] /\ open[p] # None}
    ELSE UNCHANGED pairVars

Closes(c) ==
    IF kind[c] = "paid"
    THEN /\ open' = [open EXCEPT ![answer[c]] = None]
         /\ crossed' = crossed \cup {p \in Packages : p = answer[c] /\ open[p] # c}
    ELSE UNCHANGED pairVars

SayNumber(c, n) ==
    /\ cpc[c] = "talk" /\ said[c] < MaxSay
    /\ Say(c, [part |-> "number", from |-> c, to |-> n], "text")
    /\ addressee' = [addressee EXCEPT ![c] = n]
    /\ said' = [said EXCEPT ![c] = @ + 1]
    /\ Opens(c)
    /\ UNCHANGED <<queueVars, centerVars, packageVars, kind, request,
                   down, backlog, answer, inbox>>

SayText(c) ==
    /\ cpc[c] = "text"
    /\ Say(c, [part |-> "text", from |-> c, to |-> addressee[c]], "talk")
    /\ Closes(c)
    /\ UNCHANGED <<queueVars, centerVars, packageVars, kind, request, addressee, said,
                   down, backlog, answer, inbox>>

\* Nothing is received while the user is typing a text.  A live client exits
\* when it gets an empty string.
UdpRecv(c) ==
    /\ cpc[c] = "talk" /\ inbox[c] # <<>>
    /\ inbox' = [inbox EXCEPT ![c] = Tail(@)]
    /\ IF kind[c] = "live" /\ Head(inbox[c]).part = "empty" THEN Goto(c, "gone")
                                                            ELSE UNCHANGED cpc
    /\ UNCHANGED <<queueVars, centerVars, packageVars, kind, request, addressee, said, pairVars,
                   down, udpq, backlog, answer, tcpq>>

\* "-1" at the prompt, or ^C anywhere.
Quit(c) ==
    /\ cpc[c] = "talk" \/ (Running(c) /\ c \in Leavers)
    /\ Goto(c, "gone")
    /\ UNCHANGED <<queueVars, centerVars, packageVars, kind, request, addressee, said, pairVars,
                   linkVars>>

Talk(c) == SayText(c) \/ \E n \in Numbers : SayNumber(c, n)

Client(c) == Connect(c) \/ Choose(c) \/ Introduce(c) \/ Answered(c) \/ Talk(c) \/ UdpRecv(c)
             \/ Quit(c)

Next ==
    \/ Center
    \/ \E p \in Packages : StartPackage(p) \/ IntroducePackage(p) \/ LeavePackage(p) \/ Package(p)
    \/ \E c \in Clients : Client(c)

\* The center and the packages poll and run through all ready descriptors in
\* turn, so none is passed over for ever; a process that is not blocked goes on
\* with what it sends; every user answers a prompt once begun.  Nobody has to start, to write or to leave.
Fairness ==
    /\ WF_vars(Center)
    /\ \A p \in Packages :
         /\ WF_vars(IntroducePackage(p))
         /\ SF_vars(StoreNewClient(p)) /\ SF_vars(HandleClientTcp(p)) /\ SF_vars(UdpNumber(p))
         /\ WF_vars(UdpText(p)) /\ WF_vars(TcpText(p))
         /\ \A c \in Clients : SF_vars(TcpNumber(p, c)) /\ SF_vars(HangUp(p, c))
    /\ \A c \in Clients :
         /\ WF_vars(Choose(c)) /\ WF_vars(Introduce(c))
         /\ WF_vars(Answered(c)) /\ WF_vars(SayText(c))

Spec == Init /\ [][Next]_vars
FairSpec == Spec /\ Fairness
=============================================================================
