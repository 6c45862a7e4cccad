# Verification of CN-assignments

TLA+ models, TLC runs and TLAPS proofs for the systems in this repository: the programs of a computer
networks course, each directory a small system of C processes that talk over sockets, queues, signals
and files.  There is no common code; what is worth verifying is how the processes of one directory
interact.  Twelve systems are modelled and checked: ESS, the cricket match, the relay, two signal rings,
a toll plaza, the dispatcher of services, a ring of semaphores, and four servers (chat, popen, inetd, a
judge of programs).  The safety of all of them is proved, for any number of processes or, in the signal rings, of turns; liveness
is model-checked.  The rest is listed with the reason why there is nothing to model, or nothing to add.

Contents: [1 inventory](#1-inventory) · [2 how the code is modelled](#2-how-the-code-is-modelled) ·
[3 ESS](#3-ess) · [4 cricket](#4-cricket) · [5 relay](#5-relay) · [6 signal rings](#6-signal-rings) ·
[7 services](#7-services) · [8 servers](#8-servers) · [9 runs](#9-runs) · [10 findings](#10-findings) ·
[11 proofs](#11-proofs) · [12 plan](#12-plan)

## 1 Inventory

### Modelled

| system | processes and state | operations | interaction | what is hard | what makes it correct |
|---|---|---|---|---|---|
| `12-02-22-ESS` | `client.c` (any number; queue id, TCP descriptor, unix socket, a pending request), `server.c` (listening socket, one connection served), `delete_queue.c` | create or find the queue, connect, post and wait, talk, look into the queue, pass the descriptor, leave | System V queue, unix sockets with `SCM_RIGHTS`, one shared TCP stream | clients started, killed and leaving at any step; queue removed under requests; echoes read by somebody else; the server leaves a connection it never closes | one client has the right to the stream; whoever has it can be found through the queue; echoes go to who wrote; a waiting client is served |
| `16-03-22-NIT-Cricket-Assignment` | `umpire.c`, `bowler.c`, `batsman.c`, `fielder.c`; score, wickets, the offset of one shared open file | give, bowl, bat, field, judge, return the ball | the open file's descriptor travels as "the ball"; SIGUSR1/SIGUSR2; raw sockets; one unix stream for runs and descriptors | signals that come before the wait for them; waits that expire; a shared file offset; an untyped stream | one process has the ball; the ball read is the ball bowled; runs and descriptors never mistaken; one "out" per catch |
| `29-03-22-Mid-lab` | `NC.c` (tables of packages and clients), `P.c` (known clients, poll table), `C.c` (live over TCP, paid over UDP) | register, look up, broadcast, forward, leave | TCP registration, TCP or UDP messages of two records, UDP delivery | a blocking read in the center, exits in the middle of a broadcast, datagrams of two clients interleaved, ends of connections | packages know every later client; nobody is told of a package that does not know it; texts go where they were sent; requests are answered |
| `14-01-22-signal-sem-shm/signals` (copied in `14-01-22-assignments`) | `P1.c`-`P4.c`; pids of the neighbours, handlers, masks | clean up, find the neighbours, signal round the ring to the right and back, three times each | System V queue, SIGUSR1/SIGUSR2, named semaphores | signals before their handler, pending ones that swallow others, `sem_wait` cut short by a signal, leftovers of an earlier run | signals go round one at a time, none is lost, everybody ends |
| `14-01-22-signal-sem-shm/group-signaling` | the same discovery; `allPIDs` of P1, the group id of the others | introduce oneself, form the group, tell its id | the same queue, types 1 to 4 used again for another purpose | a pid of the discovery taken for the group id | P2 to P4 end with the pid of P1 |
| `14-01-22-signal-sem-shm/synchronization-semaphores` | two semaphores per process | remove the old names, open, post, wait | named semaphores S12 .. S41 | a process that opens a name before P1 has removed it | one turn, in the order of the ring |
| `04-03-22-Mid-solutions/q1` | dispensers D1-D3, booths B1 and B2 with a total, vehicles V | connect, draw a booth, pass the descriptor, ask, add up, let go | TCP from vehicle to dispenser, unix streams from dispensers to booths | writers killed by SIGPIPE, ends of dispensers taken for vehicles, descriptors dropped with a closed lane | totals are what was typed at that booth; a vehicle gets away |
| `18-02-22-Assignment` (F, S0-S3, client) | F's table of ports, services started from it, threads of a service | announce, bind, start, pass a client on, answer | UDP, TCP, unix streams with descriptors, inherited descriptors | announcements that cannot be followed, services that die under their clients, descriptors that stay open in others | answers are from the service of the port that was dialled; lines are answered |
| `18-02-22-Assignment/q3` | `clientFDs[startClient..endClient]`, children that echo | pass on what writers write, accept, hand the eldest client to a child | pipes, a FIFO, TCP, SIGUSR1 from P4 | the signal between any two calls; a client that changes hands in the middle of a text; an entry written past its array | every client sees the texts in order, then its echoes |
| `04-02-22-chat-sockets` | slots of clients in the poll table | accept, broadcast, give a slot up | TCP, one loop | broadcasts to clients that have left, SIGPIPE in the middle of one | everybody but the sender gets each line, in one order |
| `03-02-22-ISS-inetd-conf`, `27-01-22-Socket-with-poll/multi-sfd-poll-server` | listening ports, a child (or a thread with a child) per connection | accept, fork, run the service on the connection | TCP, UDP, processes | answers longer than one read, callers that leave | each caller is answered by the service it dialled, read by read |
| `28-01-22-NITW-GDB` | `P.cpp`, `P.exe`, the record kept back | receive a file, compile, run, compare, answer | TCP, records between marks | a file that contains a mark, clients and server that end in the middle, executables of an earlier client | a verdict is about the file that was sent |

### Not modelled

| system | why |
|---|---|
| `14-01-22-signal-sem-shm/semaphore-shared-memory` | two processes in turns of two semaphores that print what the other wrote: `SemaphoreRing` with `N = 2` |
| `04-03-22-Mid-solutions/q3` | `AT.c` and `C.c` are empty, `R.c` does not link, `J.c` reads uninitialised variables: there is no system |
| `10-01-22-popen-threads/chat-server` | one FIFO with several readers and writers at each end: with a second client packets interleave and nothing can be promised |
| `27-01-22-Socket-with-poll/server-client-identification` | a thread is given the address of `nsFD`, which the next `accept` overwrites, so that a thread can serve another's client and leave its own without one: a race of two actions in a program that promises nothing else |
| `08-01-22-pipe-comms`, `10-01-22-popen-threads/capitalize` | one direction, one reader, sequential |
| `11-01-22-poll-msgq-assign`, `msg-queues`, `10-01-22-poll-msgq-pratice` | one-way queues: only the kernel's queue would be modelled |
| `26-01-22-Socket`, `29-01-22-UDP-example`, `10-02-22-unix-socket-practice`, `test-dir`, `kashi-functions`, `07-01-22-process-pipe`, `first-assignment` | exercises of one or two calls; what is interesting in them is in the systems above |
| `05-04-22-pcap-intro`, `16-03-22-Raw-Sock-Intro`, `17-03-22-packet-sniffer`, `21-03-22-ARP-Poisioning`, `30-03-22-TCP-header`, `device-drivers` | packets laid out, sent or printed: input and output, no state |

Parts of modelled systems that are left out are named in their sections; the two that are more than printing are
the connection phase of the match and the lines typed at the relay's packages.

`PROJECT.json` lists all of these as components, and under `hazards` the places in the code that a test would
hardly reach, with the property that watches each.

## 2 How the code is modelled

One action is one system call, or a run of calls no other process can see between, of one process; the
variable that says where a process is (`pc`, `umpire`, `ppc`, `cpc`, ...) names the call it makes next.
A call that blocks is an action with the guard under which it returns.  A read that finds the end of a
stream, a connect nobody listens for, a write whose reader is gone are actions of their own.  A process
that ends takes with it what the kernel takes: descriptors, sockets, addresses; queues and files stay.
Signals without a handler that waits are lost exactly where the code loses them.  Texts are values of
small sets: what a line says matters only where the code compares it.  Messages of fixed size (128
bytes everywhere) are units.  Definitions carry the names of the functions; `PROJECT.json` maps each to
its lines.

Definitions whose comment says *mutant* are not part of a model.  They are what the code would
be with a plausible mistake, and each checked property is violated when one of them takes its
original's place.

Every module has a type invariant (`TypeOK`, `TollTypeOK`, ...).  Where it is not proved (11) it is
documentation; it held in every state of the runs while the modules were written.

## 3 ESS

`EchoServer.tla` is `server.c` and the two ends of a TCP connection.  `ESS.tla` extends it with
`client.c` and `delete_queue.c`.  `ExclusiveHolder.tla` says in four actions what the clients promise
each other: the right to talk is with one client at most, is taken only when free, and passes only to a
client that asks.  `ESSProperties.tla` states the properties and the refinement (`ImplementsHolder`:
`holder` is the client with the `Token`, `asking` the clients with a listening unix socket).

State: `pc[c]`; `mQId[c]`, `sFD[c]`, `clientPresent[c]`, `nextMessage[c]` are the variables of `main`;
`fds[c]` every descriptor the process has open, because `send_fd` does not close its own and the server
sees the end of a stream only when the last copy is gone; `mqId`, `mq` the kernel's queue; `bound`,
`link`, `giver`, `gift` the unix sockets and the descriptor on its way.  A `Token` is with a client that
owns the stream, to which the descriptor was sent, or whose giver died and which therefore goes on with
no descriptor.

Left out: what `dealWithServ` does at the end of standard input (it uses an unset buffer), a full
listen queue, the parsing of arguments, the announcements on the screen.

Bounds: three clients (one owner, one that waits, one that arrives), one connection name in use at a
time (`Conns`; names are reused once free), `MaxUnread = 1` text not yet echoed, two requests in the queue
(`msgsnd` blocks beyond), one more queue identifier than clients, so that a client can hold a stale one.

Fairness: weak fairness of the server and of each client's own calls (`FairSpec`) - the scheduler.
Liveness also needs users who type, an assumption on people that only `DiligentSpec` makes.

## 4 Cricket

`Cricket.tla` is the match from the first ball on.  The umpire gives the open file to the bowler
(`GiveBall`), waits for its SIGUSR1 and then, at most so long, for the batsman's SIGUSR2, reads the runs,
waits for a fielder's "out" where the shot is no boundary, and takes the file back.  `file`, `offset`
and `pointer` are the shared open file: bowler and batsman move one offset.  `stream` is the unix stream from batsman
to umpire, in which an int and a descriptor (`Fd`) are told apart only by where the umpire is in its loop.  `Late` allows a
wait to expire at any time; `unheard`, `timeouts`, `outs`, `delivery`, `faced` are history.

Left out: the connection phase (`uds_set_server`, `uds_set_client`, `accept_connection`), the notices
to bowler and batsman (they only print), open descriptors that pile up.  Fielder numbers are 1 to 4.

Bounds: `MaxBalls` balls (4 in one run, 2 in the other), two batsmen, runs from a set with a boundary, an
ordinary shot and the shots where the ranges of two fielders meet; the first run has one fielder, the
second all four.  Four balls are two batsmen with a ball each and a timeout between, then one more of each.

Fairness: weak fairness of each process.  `BallIsSettled` excepts a missed SIGUSR1, at which the code
stops for good.

## 5 Relay

`Relay.tla` has one section per program.  The center (`AcceptPackage`, `ReadPackage`, `PackageHungUp`,
`AcceptClient`, `ClientHungUp`, `Refuse`, `ReadClient`, `TellPackage`, `BreakOff`, `AnswerClient`, `NoticeLeft`) is
`accept_package`, `accept_client` and `deal_with_free` of `NC.c`.  Both are cut where they block, for the five
records of a package, for the number a client's user types and for the six records after it, and where the center can
die: every failed read or write exits, so a process that ends before its last record takes the center with it
(`PackageHungUp`, `ClientHungUp`).  The broadcast is a step for each descriptor, the answer comes after it.  `packs`, `registered` are
`package_info` and `client_info`; `slots` is `poll_fds` from index 2, with `None` for descriptor -1.
`down[p]` holds what a package has not read yet; records left unread by a package that exits mean its
connection is reset, which the center's test `revents == POLLIN` never sees.  A package (`P.c`) connects (`StartPackage`), sends its
five records (`IntroducePackage`; it may be killed before), then polls, and between the two records of a message it is in `"udp"` or `"tcp"` and does nothing else.  A client
(`C.c`) is at the prompt for the package (`Choose`), sends its records (`Introduce`), waits for the answer, is at the
prompt, or between number and text; the records a process sends in a row are one step, since the center waits for the
last of them whatever comes in between; `kind` is what `rand()` chose.

Left out: the lines typed at a package, which reach nothing but screens; numbers that equal another
client's address or port (`strcmp` runs over all five fields); clients whose address is taken.  What
the packages do once the center is gone (they store empty clients until the table overflows) is a crash
at any later time.

`Addressed` says of each record a user is handed that it was sent to the number of a registered client with the
user's address, and that it is a text.  The empty record a package makes up for a live client that ended between number
and text (`P.c:282`) is admitted as just that: its sender is gone and typed this number last.  Paid clients of a package
where a number and its text were once parted (`crossed`) are excepted, because there numbers do go out as texts.
`CenterDiesOfLeavers` names all that ends the center: the client it serves, a package that ended before its
fifth record, the package it is telling.

Bounds: `relay_leaving` two packages with numbers 1 and 2 of which one may be killed, two clients of
either kind of which one may be killed, one message each: the killed package can end before it has introduced
itself, or have registered before or after the other, and be at any point when a client registers.  `relay_talking` one package, nobody
killed, number 9 that no package has.

Fairness: the center weakly; each source of a package's poll loop strongly, since the loop runs through all
ready descriptors before it polls again, so none is passed over for ever; users answer a prompt once
they began, but need not begin.

## 6 Signal rings

`SignalRing.tla` writes each `main` down as the sequence of calls it makes (`P1`, `P2`, `Follower` for P3 and
P4), in four parts: `meet` up to the first loop, `forward` and `back` for the loops, `turn` between them.
`phase`, `at` and `i` are the place of a process in its program and the loop counter; one action per call
(`SemWait`, `SendSignal`, `MsgRcv`, `MaskSignal`, ...) says what the call does, `Deliver` runs a handler.
The two conversions that matter are in: `atoi` of a message nobody filled in, and pid 0, which `kill` takes
for the caller's own group (each program has a terminal of its own).  One signal of a kind is pending at
most.  No handler is installed with `SA_RESTART`: `sem_wait` and `msgrcv` return when one has run, and the
code does not look at what they return.

`programs`, chosen at the start, says which directory's programs run; `grouped` is short for the second.  Those of `group-signaling` have the part `meet` only:
they mask SIGUSR2 first, wait for their left neighbour with SIGUSR1 masked (`GetLeft`), introduce themselves
to P1 in messages of type 18 and receive its pid, the id of the group, under their own number, the type under which
the discovery sent pids too.  `GroupTold` says that the two are never confused.  `setpgid` fails for processes that are
not children of the caller, which the code prints and no more; the SIGUSR2 to the group that P2 to P4 then send is left out.

What an earlier run left behind is generation 0 of the semaphores and of the queue; P2 removes it.
`StaleTypes` and `StalePosts` say what is there, `Early` who may be started before P2 is done, and `stale`
records who really got hold of something old.  The properties are about runs in which nobody did
(`Clean`), except `NobodyKilled`, which says that for all starts (11 says for which it is proved).  With something old almost anything can happen, and TLC shows it: a P1 that was early
and finds an old semaphore at 1 sends its first turn into P2's `msgrcv`, which fails, and P2 signals itself
and makes itself its own left neighbour.

`RoundRobin.tla` is the abstract specification: the log of signals, which P1 starts and which grows in
the order of the ring.  `ImplementsRoundRobin` says that the programs implement it, with `sends` for the log.

`Prompt` is an assumption on the kernel that the code needs: a process handles a signal before its next
call.  POSIX does not promise it.  With `Prompt = FALSE` P2 takes its semaphore first, enters `msgrcv`, and
only then gets the signal its left neighbour sent before posting; `NoSignalLost`, `HeardInTurn` and `LeftKnown`
all fail.  On one machine it takes a window of microseconds; a mask around `getLeftFunc` and
`getRightFunc`, as `group-signaling` has around the first, would close it.

Coarser than the code: `sem_open` of the three names is one step, and so is P2's loop of `sem_unlink`; a
process that opens names in the middle of that loop is not explored.

Bounds: two turns of each loop instead of three, so that every loop is left and repeated and a second
signal can meet a first; P1 may be early; a message of type 2 is left over, no semaphore.
Fairness: as long as some process can go on, some process does.  Every step is progress, so no
process needs fairness of its own.

`SemaphoreRing.tla` is `synchronization-semaphores`: no signals, one loop, and a discovery by names alone.  It
is written for any number of processes (`N`; 4 in the code) so that it can be proved about.  P1 removes the names of an
earlier run one after the other while the others start: `unlinked` counts them, `Current` is what `sem_open`
finds, `outdated` remembers who got an old semaphore.  `OneTurn` and `InOrder` are about runs in which nobody did; with an old
semaphore at 1 two processes have a turn at once.  A user enters a character before each post.
Bounds: three turns each, semaphore 2 left at 1, so that a process that
opens it too early takes a turn.  Fairness: each process weakly, its user included, for `EverybodyPosts`.

## 7 Services

`Toll.tla`, `Dispatcher.tla` and `SemaphoreRing.tla` share one run, `services`.  They have nothing to do with each other: the
bench module `MCServices` chooses one program at the start (`program`) and only that one moves, so the run is three
runs one after the other.  The fairness of the two that stand still is vacuous: none of their actions is enabled there.

**Toll plaza** (`Toll.tla`).  A dispenser (`DispenserStarts`, `DispenserTakes`, `DispenserSends`) is `main` and `serve_vehicle` of
`D1.c` to `D3.c`; it connects to both booths or ends, and the first booth then counts a connection of nobody (`Ghost`).
A booth (`BoothOpens` .. `BoothCloses`) is `B1.c`, `B2.c`: it accepts as many dispensers as there are, then polls their lanes; the end of
a dispenser arrives beside the last descriptor or alone (`BoothSticks`: `recv_fd` returns -1 and the booth
asks descriptor -1 for ever).  A vehicle is `V.c`.  Nobody closes a descriptor, so a vehicle sees the end of its connection
only when everybody who holds it has ended (`Closed`).  The second write to a vehicle that has left
ends the booth (SIGPIPE), a descriptor for a booth that has ended ends the dispenser.  Left out: `sleep`, the amounts' formatting; amounts are 0 (what `atoi` makes
of no number) or two others.  Bounds: two dispensers, two booths, two vehicles of which one may leave.  Fairness: each
program weakly; a driver who is asked again and again pays in the end (strongly), since the code has no timeout and a driver
who never pays holds the booth.

**Dispatcher** (`Dispatcher.tla`).  `S0Sends` is S0, whose `sendUdp` appends to a buffer it never clears: F may read the message
that is still in front of it (`onStack`), or garbage.  `FReceives` is `createService` of `F.c`; a port that is bound already ends F.  F then waits in `acceptUSD`
until the program it started connects, for ever if nothing can be executed.  `FForwards` hands a client's
descriptor to the service of its port, `ServiceTakes`, `ThreadAnswers` and `ThreadMeetsEnd` are `S1.c` to `S3.c`.  Nobody
closes anything, and what F starts inherits all F has: `Open` and `CutOff` say who still holds a listener or a connection.
`misled` remembers that F acted on an announcement it could not follow; liveness excepts it, and customers that leave without "exit", whose
thread ends the whole service by SIGPIPE.  Left out: the text of a line and what S1, S2, S3 make of it (`kind` says which
service answered).  Bounds: two ports, two kinds of service, two announcements, two customers with one line each, one of whom may leave.

## 8 Servers

`Chat.tla`, `PopenServer.tla`, `Inetd.tla` and `Judge.tla` share the run `conversations` in the same way
(`MCConversations`).  Their properties are invariants.

**Chat** (`Chat.tla`, `04-02-22-chat-sockets`).  `ChatPoll` is the call of `poll` with the `accept` after it; `ready` are the
`revents` still to be looked at, `ChatPass` and `ChatForget` the two branches of the loop body, `sendToAllClients` the broadcast, which
SIGPIPE can end in the middle.  An empty line looks like the end of the connection, a client's slot is never used again.
`OneConversation` relates what each client got to one log of what the server passed on.  Bounds: three clients, two of
them with one line and one with two, one that may be killed; the table's 100 entries are not modelled.

**Popen server** (`PopenServer.tla`, `18-02-22-Assignment/q3`).  The server's loop is `PopenPoll`, `PopenReads`, `PopenSends`, `PopenTurns`,
`PopenAccepts`; `sigHandler` runs wherever SIGUSR1 is not masked and hands the eldest client to a child
(`EchoAnswers`).  The listener is entry 4 of an array of four: `overlaid` says whether, as in the build kept beside
the source, that entry lies over `currEnd`, so that the server takes one client only when it has none and then
never another; both layouts are explored.  `EchoAnswers` is `echo.c`, which reads with
`scanf` and answers every word, on whichever line it was typed, until one is "exit" (`childOver`).  The client has two loops:
`MemberListens` reads news until "toEcho"; `MemberTypes` sends a line of any words, `MemberReads` is the one `read` that follows it,
of as many answers as have come.  After a line of two words the client is an answer behind, after a blank one it waits for an
answer that only an earlier line can bring.  `NewsThenEchoes`: a client gets every text from its entry to its handing over,
in order and once, then "toEcho", then the answer to the first word it typed, to the second and so on, none left out.
Lines are shorter than 128 bytes; of longer ones pieces would be printed one by one.  A word that reads "toEcho" is like
any other, since the second loop does not look for it.  Bounds: two clients of which one may be killed, two writers
with two texts between them, two signals, two words per client, on lines of none, one or two: enough to be an answer behind, and to read two at once.

**inetd** (`Inetd.tla`, `03-02-22-ISS-inetd-conf` and, with `multi`, `27-01-22-Socket-with-poll/multi-sfd-poll-server`).
`AcceptTcp` is accept, fork and `execl`; `AcceptForThread` and `handleFunc` are the earlier form.  A UDP port is polled for
POLLOUT, which always holds, and the write fails: `WriteUdp` changes nothing.  The client reads once per word, 128
bytes at most; bytes come in units, two to a read, and a long word's answer is three.  `ReadsFollowWords` bounds how far the reads
fall behind the words: one answer for each long word.  Left out: the configuration file, words over 199 bytes (they
overflow the client's buffer).  Bounds: two TCP services and a UDP one, two callers of which one may be killed, three words each.

**Judge** (`Judge.tla`, `28-01-22-NITW-GDB`).  `Accepts` .. `Runs` are `main`, `recieveFile`, `compileProgram` and
`executeProgram` of `server.c`; `recieveFile` keeps one record back (`temp`) and writes it when the next has come.
`Submits` .. `ReadsVerdict` are `client.c`.  The server takes a record as a C string, and `Str` is what is left of it:
`strcmp` compares that much, and `strcpy` keeps that much for `P.cpp` (`temp`).  A record that reads "ENDING", or begins with a zero
byte, inside a file ends it; the client that is still sending then meets a closed connection.  `JudgedAsSent`: the verdict is about the records of the
file that was sent, in order, none missing, each up to its first zero byte - for a text file, the file - and all of them unless one reads like
a mark; never about an earlier client's `P.cpp` or `P.exe`.  How outputs are compared is
abstracted to pass or fail.  Bounds: two submitters, of which one may be killed, five files: none, one and two records, one with
"ENDING" and more behind a zero byte in the middle, one with a blank record; one kind of record has a zero byte inside.

## 9 Runs

| run | question | outcome |
|---|---|---|
| `ess_sharing` | any user input, any kill, restarts: who owns the stream, is the owner found, whose echo is read, is the single holder implemented | holds |
| `ess_polite` | users who type and stay: is every waiting client served, every line echoed | holds |
| `ess_norequestremoved`, `ess_waitsonlyafterposting`, `ess_receivedisserved` | three statements of the ESS README | violated, see 10 |
| `cricket_match` | missed signals and expired waits: file, stream, signals, score | holds |
| `cricket_fielding` | four fielders: one "out" per catch, every ball settled | holds |
| `relay_leaving` | exits at any point: what packages know, clients are told, texts reach, the center dies of | holds |
| `relay_talking` | are requests answered and texts delivered | holds |
| `signal_ring` | after P2 has cleaned up, ring or group: turns, lost signals, interrupted waits, the group's id, the end; P1 started early | holds; all but the end and the early start also proved |
| `services` | toll: do totals add up, does every vehicle get away; dispatcher: whose answer is read, is every line answered; semaphores: one turn, in order, does everybody post | holds |
| `conversations` | chat: one conversation; popen: texts then echoes; inetd: whose answers, how far behind; judge: is the verdict about the file sent | holds |

`CHECK_DEADLOCK FALSE` everywhere: users may stop typing, matches end, programs exit.

## 10 Findings

* `client.c` removes the queue on "exit" after one `msgrcv`, with the requests of clients that still
  wait: they wait for ever (`NoRequestRemoved`; README of `12-02-22-ESS`, lines 11 and 13).
* A client whose `msgsnd` fails because the queue is gone waits all the same (`WaitsOnlyAfterPosting`).
* The server leaves a connection at an empty line or "exit"; a client that then passes the descriptor on
  passes a stream nobody reads (`ReceivedIsServed`).

Not contradicted by any statement, and therefore no findings, but seen in the models:

* match: a batsman that is too late does not end the match (`umpire.c:330`); an answer that comes before the umpire is inside
  `sigtimedwait` counts as silence;
* relay: a client that hesitates at the prompt keeps the center from everything else; a package that exits kills the center at
  the next registration, or at once if it has not sent all its records; two paid clients at one package can exchange number and text;
* toll: a vehicle that leaves without paying ends its booth, and so every dispenser that sends to that booth; a dispenser that ends leaves
  a booth asking descriptor -1 for ever;
* dispatcher: a customer that leaves without "exit" kills the service it was with, and the other customers of that service get
  no more answers; a second announcement of a port kills F; a program that cannot be started stops it for good;
* chat: a client that leaves without "exit" can kill the server in the middle of a broadcast;
* popen server: after a line of two words a client stays one answer behind;
* inetd: after an answer of more than 128 bytes a client stays one answer behind; clients of the UDP port hear nothing.

Hazards of this code that no property is about, because they lie below the level of the models:

* ESS: a request taken off the queue is overwritten or dropped at "n" followed by "exit" (`client.c:482`); `connectTcp` can fail after the queue
  was created (`client.c:65`);
* match: `pidof` of a process that is gone leaves the buffer as it was, and the signal goes to whatever number is in it
  (`umpire.c:224`); its pipes and the descriptors received stay open (`umpire.c:222`); a fielder number above 4 reads past the ranges (`fielder.c:129`);
* relay: `package_info` keeps packages that left (`NC.c:348`); a package stores empty clients once the center is gone (`P.c:222`); the
  tables hold 100 entries (`NC.c:318`);
* chat and thread server: no bound on clients (`server.c:97`); a descriptor read through the address of a variable that the main thread
  overwrites (`server-client-identification/server.c:123`); toll: a vehicle whose connection ended asks its user again (`V.c:57`).

## 11 Proofs

For every value of the constants, under the named assumptions of the modules (types of the constants,
`None` distinct from names).  Every inductive invariant was an invariant of a run on the small instance before it was proved.

* `ESSProofs`: `TypeCorrect`, `OwnerInvariant`, and from it `OneOwnerAlways`, `QueueGuardsOwnerAlways`,
  `OneGiverPerWaiterAlways`; `Implementation` (`Spec => ImplementsHolder`).  `OneOwner` alone is not
  inductive: a step that hands over needs that the receiver is the only one on its path
  (`SocketsOK`), that a pending request is some client's path (`PendingOK`) and that an untouched unix
  connection has its giver in `send_fd` (`LinksOK`); a step that connects needs that the queue exists
  whenever somebody owns the stream (`QueueGuardsOwner`).  The proof goes action by action, each handing
  the token on, dropping it or leaving it.
  - `OwnerReadsTheQueueAlways` assumes that no two clients share a path (`DistinctPaths`); without it the owner may be one that took
    another's place and never opened the queue.  `QueueInv` adds that whoever is known to an owner, by a request in the queue or one taken
    from it, got its queue id when it posted, and that the queue was not removed since.
  - `EchoBelongsToReaderAlways`, from `DescriptorsOK` (one descriptor of the stream has one user) and `EchoInv` (before the owner reads, its
    line is last on the way to the server or its echo alone on the way back; at any other time nothing on the stream will be echoed).
* `CricketProofs`: `TypeCorrect`; `MatchInvariant` (`MatchInv`: whose turn it is, what the stream holds
  in which state, how often the file was passed, what the file holds at the offset, and that a waiting
  umpire has a busy bowler); from it `FileExclusiveAlways`, `BallReadAsBowledAlways`,
  `StreamAlignedAlways`, `SignalInTurnAlways`, `NoVainWaitAlways`; `OneCatcher`: the four ranges split
  the catchable runs.  `BoundariesCountAlways` and `OneOutPerCatchAlways` are inductive once the stream is aligned: one more record at the
  end, or one less at the front, changes what a socket counts by one or not at all (`OneMore`, `OneLess`, the second by a bijection), and a ball
  in the field adds one to what the four fielders have to catch, wherever it goes (`OneCatchMore`, with `OneCatcher`).
* `RelayProofs`: `TypeCorrect`; `RelayInvariant`: a package registers once (`RegistersOnce`), its slot
  follows it (`SlotsFollow`), its log starts when it registers (`ToldLater`); from it `KnownIsLogAlways`
  and `AnsweredIsToldAlways`.  `KnownIsLog` alone is not inductive: a package accepted twice would have its
  log start again, one told before registering would have too long a log.  The core is `BroadcastKeepsLog`: a broadcast that
  gets to position k appends the client for exactly the packages up to k, and k is the end unless the center dies.
  - `CenterDiesOfLeaversAlways`, from `DeathInv`: a descriptor set to -1 was that of a package that has left, so that a
    write that fails, like a read that finds an end, is the fault of a process that is gone.
  - `AddressedAlways`, from `AddressInv`: a client comes to the center once (`ComesOnce`); what is on a connection or a port was written by a
    client that was given this package (`OwnPackage`); and, until the datagrams of two paid clients mix, what a package has not forwarded
    is numbers and texts by turns, each text for the number before it, an odd one out being that of the text its user is typing
    (`PairsInv`, `Unfinished`), which is what an empty record then stands for.  The mixing is the exception in `Addressed` itself, not an assumption: it does happen (10).
* `SemaphoreRingProofs`: `SemaphoreTypeCorrect`; `RingInv` (while nobody is `outdated`: all opened semaphores are the new
  ones, before P1 is done nothing has been posted, one process at most is at its post and then no semaphore is up, one semaphore at
  most is up and at 1, a turn once begun is not lost, and the posts so far are ordered round the place where the turn is);
  from it `OneTurnAlways` and `InOrderAlways`, for any `N >= 2`.  `InOrder` alone is not inductive: that the next to post is the one
  whose turn it is needs `OrderAtHolder` and `OrderAtSemaphore`, which say where in the ring the count drops by one.
* `JudgeProofs`: `JudgeTypeCorrect`, and from `JudgeInv` `JudgedAsSentAlways`.  `JudgedAsSent` speaks of verdicts that have been read, and is
  not inductive: a verdict on the way must be as good (`Afterwards`), the text compiled or run too (`HasRead`, `Good`), and for that what
  is between `sendProgram` and `recieveFile` must be the records from a number on, with the one before it kept back and the
  ones before that in `P.cpp` (`Unread`, `KeepsBack`).  A request is alone in its connection until it is read (`Asked`), a connection
  waits once (`Queue`), and the server's client has had its answer and nothing else (`Submitted`).  A client that is gone is the
  second case everywhere: what the server reads of it is then of no consequence, since nobody reads the verdict.
* `ServicesProofs`: dispatcher and toll plaza.
  - `AnswersInvariant`, `AnswersAreOwnAlways`.  A port belongs to the service announced for it, and what a port has been given it keeps
    (`PortOf`); a customer's descriptor goes where its port does (`Routed`); a customer has at most one line or answer under way, and it is
    the last line it typed (`InTurn`).  `FewServices` keeps the table of services within the messages that were typed, so that
    services have places to be written to.
  - `TollInvariant`, `TotalsAddUpAlways`.  A vehicle is in one place: a queue, a dispenser, a lane or a booth (`Placed`); how far vehicle and booth are
    with each other (`Conversation`: `Silent`, `Directed`, `Asked`, `Paid`); a booth bills the vehicle it serves once (`AtBooth`).  The sum of
    the bill is a recursive function on sets; that it is the amount of any element plus the sum of the rest (`SumType`) is proved by
    induction on cardinality.
* `ConversationsProofs`: chat, popen server and inetd.
  - `ChatInvariant`, `OneConversationAlways`.  A client is in one place, not accepted, in one slot or in none any more (`OnceConnected`), and lines on
    their way to the server are the sender's own (`OwnLines`).  The broadcast is a line more for exactly those served: the number of a line among
    those of others (`Nth`) grows by one at the end and changes nowhere else.
  - `PopenInvariant`, `NewsThenEchoesAlways`.  SIGUSR1 is masked while a text is sent (`MaskedWhileSending`), so that a client is handed over
    between two texts; until then it has had every text since it was accepted but the one being sent (`Owed`), afterwards those and then
    the answers to exactly the words its child has read (`Told`, `Heard`), which are the first it typed, the others being on their way in order
    (`WordsInOrder`).
  - `InetdInvariant`, `ReadsFollowWordsAlways`.  Whoever serves a caller runs the service it dialled (`RightService`); the rest of its words is on
    its way (`WordsOnTheirWay`); and `ReadEnough`, the strengthening: a caller that has read as often as the first n answers need reads
    has heard at least these.  `LongWords` is a count, and how far behind a caller may be follows from it by one read more per long word.
* `SignalRingProofs`: both rings, for any number of turns and whatever an earlier run left.
  - Every call of the eight programs has a name (`Calls`, `Index`, `Meaning`), and `Done(p, c)` is how often p has made call c: a
    function of its place.  A step of p adds one to the call it is at (`DoneStep`), so that the order of calls within a program
    becomes a chain of inequalities (`Ordered`), from the text of the programs alone.  `SignalPlaces` adds masks, handlers and what P2 has
    cleaned up, for every start; `SignalTypeCorrect` follows.
  - `SignalInvariant`: after a clean start everything the processes share is a difference of two counts (`CleanInv`).  A
    semaphore is its posts less its waits (`Counted`), what is in the queue under a type was sent and not received (`InQueue`,
    `Collected`), the signals sent to a process were handled or are pending, one at most (`OnTheWay`), and all of them are in the log (`Logged`).
    The differences are not negative: that links the chains of neighbours (`Links`) into one around the ring (`Chain`), of which two
    facts carry the rest.  `Begun`: nobody is in a loop before all have met, nor in the second before all have been through the first.
    `Bounded`: a process has been sent one signal more than it must have handled, at most; therefore no second one comes while one is pending.
  - The invariant needs all its parts at once.  That a wait is cut short only in the discovery and only by the
    introduction (`OnlyTheFirstWait`) is what keeps `Counted`, and comes from `OnTheWay`; that a signal goes to a neighbour that
    runs (`Aiming`, `Receiver`) comes from `InQueue` and `Counted`.
  - From it `EverySignalHandled` (`NoSignalLost`), `EverySignalInTurn` (`HeardInTurn`), `NeighboursFound` (`LeftKnown`),
    `GroupAgreed` (`GroupTold`), `CleanStartKillsNobody`, and `RoundsImplemented`: `Spec => ImplementsRoundRobin`.  For the last,
    neighbours in the order of the round are never more than one signal apart (`Spread`), before and after a step; so the number of signals sent
    is fixed by who sends the next (`TurnToMeet`, `TurnToKill1`, `TurnToKill2`).  The log can be emptied by nobody getting hold of
    something old once it has begun: the first signal comes after P2 has cleaned up (`CleanedBefore`, `StaysClean`).
  - All of these but the first two theorems assume `Prompt` (6): it is used once, where a process that takes its first semaphore has
    handled the signal sent before the post (`OnTheWayTaken`).  Without it the properties fail.

Induction on numbers is here a lemma on sets of naturals (`SetInduction`, `LeastElement`), proved from the library's theorem on least
elements of well-founded relations; no induction rule with an operator for its parameter is used.

Only model-checked, for the instances of the runs: `NobodyKilled` after a start that is not clean, and all liveness, which with
`ENABLED` is out of the prover's reach.  `NobodyKilled` is proved for clean starts.  For others it depends on the constants: with
`Rounds = 1`, P3 and P4 early, and old semaphores up where P3 waits first and P4 in both loops, TLC finds P4 sending SIGUSR2 to a P3 that
has no handler yet; with two turns it holds in the run, and held in a search of random behaviours with everything early and left up.
A proof would have to follow signals that cut the waits of the loops short.  No module has a `RECURSIVE` operator.

## 12 Plan

Proofs to come: `NobodyKilled` for two turns or more and every start.

Modelling to come: the connection phase of the match, in front of the first ball (which process is the bowler); the lines
typed at the relay's packages.

Runs are a few minutes each at most.  Where a new system needs a run, a run on an old one that a
theorem has made redundant goes.
