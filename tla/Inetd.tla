-------------------------------- MODULE Inetd --------------------------------
(***************************************************************************)
(* 03-02-22-ISS-inetd-conf: server.c listens on a port for each service of  *)
(* its configuration.  For a connection to a TCP port it forks, the child   *)
(* runs the service on the connection, and the parent closes it.  A UDP     *)
(* port is always ready for the write the server does on it, which fails    *)
(* since it names no receiver: the loop never waits, and UDP clients hear   *)
(* nothing.                                                                *)
(*                                                                         *)
(* The server of 27-01-22-Socket-with-poll/multi-sfd-poll-server is an      *)
(* earlier form: three TCP ports, and a thread per connection that forks.   *)
(* It keeps every connection, which no client that still reads can tell.    *)
(*                                                                         *)
(* A client sends a word and reads once, at most 128 bytes, for its answer. *)
(* Bytes come in units, of which ReadSize are 128 bytes; the answer to a    *)
(* short word is one unit, to a long word as many as LongAnswer; a word of  *)
(* more than 199 bytes would not fit the client's buffer.                   *)
(***************************************************************************)
EXTENDS Integers, Sequences, FiniteSets

CONSTANTS TcpServices,  \* echoService, smallToCapital, capitalToSmall
          UdpServices,  \* timeService
          Echo,         \* the one that prints a quote even for an empty word
          Callers,
          Droppers,     \* callers whose user may end them without "exit"
          MaxWords,     \* words each caller types; the code has no limit
          ReadSize, LongAnswer,
          NoService

ASSUME InetdAssumption ==
    /\ Droppers \subseteq Callers /\ MaxWords \in Nat
    /\ ReadSize \in Nat /\ LongAnswer \in Nat /\ 1 < ReadSize
    /\ ReadSize < LongAnswer /\ LongAnswer <= 2 * ReadSize
    /\ TcpServices \cap UdpServices = {} /\ NoService \notin TcpServices \cup UdpServices

VARIABLES
    multi,      \* the server is that of multi-sfd-poll-server
    revents,    \* services whose revents are still to be looked at
    ringing,    \* connections to a port that are not accepted
    child,      \* the service a caller's child runs, and what the child is doing
    words,      \* words on their way to the child: their lengths
    wordsRead,  \* how many the child has read
    stream,     \* units on their way to the caller
    broken,     \* it has been written to after it was gone
    caller,     \* what a caller is doing
    dialled,    \* the service whose port it connected to
    typed,      \* the words it has typed
    heardUnits  \* history: units it has read

childVars == <<child, wordsRead, broken>>
callerVars == <<caller, dialled, typed, heardUnits>>
inetdVars == <<multi, revents, ringing, childVars, words, stream, callerVars>>

Unit == [service : TcpServices, word : Nat, part : Nat]

InetdTypeOK ==
    /\ multi \in BOOLEAN /\ revents \subseteq TcpServices \cup UdpServices
    /\ ringing \in [TcpServices -> Seq(Callers)]
    /\ child \in [Callers -> [runs : TcpServices \cup {NoService},
                              state : {"none", "thread", "up", "spinning", "ended"}]]
    /\ words \in [Callers -> Seq({"short", "long", "exit"})] /\ wordsRead \in [Callers -> Nat]
    /\ stream \in [Callers -> Seq(Unit)] /\ broken \in [Callers -> BOOLEAN]
    /\ caller \in [Callers -> {"home", "prompt", "reading", "udp", "gone"}]
    /\ dialled \in [Callers -> TcpServices \cup UdpServices \cup {NoService}]
    /\ typed \in [Callers -> Seq({"short", "long", "exit"})]
    /\ heardUnits \in [Callers -> Seq(Unit)]

InetdInit ==
    /\ multi \in BOOLEAN /\ revents = {} /\ ringing = [s \in TcpServices |-> <<>>]
    /\ child = [c \in Callers |-> [runs |-> NoService, state |-> "none"]]
    /\ words = [c \in Callers |-> <<>>] /\ wordsRead = [c \in Callers |-> 0]
    /\ stream = [c \in Callers |-> <<>>] /\ broken = [c \in Callers |-> FALSE]
    /\ caller = [c \in Callers |-> "home"] /\ dialled = [c \in Callers |-> NoService]
    /\ typed = [c \in Callers |-> <<>>]
    /\ heardUnits = [c \in Callers |-> <<>>]

-----------------------------------------------------------------------------
(* server.c *)

\* poll returns at once: POLLOUT is set for every UDP service.
InetdPoll ==
    /\ revents = {}
    /\ revents' = (IF multi THEN {} ELSE UdpServices) \cup {s \in TcpServices : ringing[s] # <<>>}
    /\ revents' # {}
    /\ UNCHANGED <<ringing, childVars, words, stream, callerVars>>

\* acceptHandler for a TCP service: accept, fork, and in the child dup2 and
\* execl; the parent keeps nothing of the connection.
AcceptTcp(s) ==
    /\ ~multi /\ s \in revents /\ revents' = revents \ {s}
    /\ child' = [child EXCEPT ![Head(ringing[s])] = [runs |-> s, state |-> "up"]]
    /\ ringing' = [ringing EXCEPT ![s] = Tail(@)]
    /\ UNCHANGED <<wordsRead, broken, words, stream, callerVars>>

\* acceptHandler of the earlier form: the descriptor and the number of the
\* service are given to a thread,
AcceptForThread(s) ==
    /\ multi /\ s \in revents /\ revents' = revents \ {s}
    /\ child' = [child EXCEPT ![Head(ringing[s])] = [runs |-> s, state |-> "thread"]]
    /\ ringing' = [ringing EXCEPT ![s] = Tail(@)]
    /\ UNCHANGED <<wordsRead, broken, words, stream, callerVars>>

\* which forks, and runs the service in the child.
handleFunc(c) ==
    /\ child[c].state = "thread" /\ child' = [child EXCEPT ![c].state = "up"]
    /\ UNCHANGED <<wordsRead, broken, revents, ringing, words, stream, callerVars>>

\* acceptHandler for a UDP service: the write fails.
WriteUdp(s) ==
    /\ s \in revents \cap UdpServices /\ revents' = revents \ {s}
    /\ UNCHANGED <<ringing, childVars, words, stream, callerVars>>

-----------------------------------------------------------------------------
(* The services *)

Size(word) == IF word = "long" THEN LongAnswer ELSE 1

Answer(service, n, word) ==
    [part \in 1..Size(word) |-> [service |-> service, word |-> n, part |-> part]]

\* A word is answered in one write; "exit" ends the service.
ServiceAnswers(c) ==
    /\ child[c].state = "up" /\ words[c] # <<>>
    /\ words' = [words EXCEPT ![c] = Tail(@)]
    /\ wordsRead' = [wordsRead EXCEPT ![c] = @ + 1]
    /\ LET answer == Answer(child[c].runs, wordsRead'[c], Head(words[c]))
       IN  \/ /\ Head(words[c]) = "exit" /\ child' = [child EXCEPT ![c].state = "ended"]
              /\ UNCHANGED <<stream, broken>>
           \/ /\ Head(words[c]) # "exit" /\ caller[c] # "gone"
              /\ stream' = [stream EXCEPT ![c] = @ \o answer]
              /\ UNCHANGED <<child, broken>>
           \/ /\ Head(words[c]) # "exit" /\ caller[c] = "gone" /\ ~broken[c]
              /\ broken' = [broken EXCEPT ![c] = TRUE] /\ UNCHANGED <<stream, child>>
           \/ /\ Head(words[c]) # "exit" /\ caller[c] = "gone"
              /\ child' = [child EXCEPT ![c].state = "ended"] /\ UNCHANGED <<stream, broken>>
    /\ UNCHANGED <<revents, ringing, callerVars>>

\* The caller is gone: scanf finds no word, for ever.  Only echoService writes
\* nevertheless, and is ended by SIGPIPE.
ServiceMeetsEnd(c) ==
    /\ child[c].state = "up" /\ words[c] = <<>> /\ caller[c] = "gone"
    /\ child' = [child EXCEPT ![c].state = IF child[c].runs = Echo THEN "ended" ELSE "spinning"]
    /\ UNCHANGED <<wordsRead, broken, revents, ringing, words, stream, callerVars>>

-----------------------------------------------------------------------------
(* client.c *)

Dials(c, s) ==
    /\ caller[c] = "home" /\ (s \in UdpServices => ~multi) /\ dialled' = [dialled EXCEPT ![c] = s]
    /\ IF s \in TcpServices
       THEN /\ caller' = [caller EXCEPT ![c] = "prompt"]
            /\ ringing' = [ringing EXCEPT ![s] = Append(@, c)]
       ELSE caller' = [caller EXCEPT ![c] = "udp"] /\ UNCHANGED ringing
    /\ UNCHANGED <<revents, childVars, words, stream, typed, heardUnits>>

\* sendInputToServer; after "exit" the caller ends.
TypesWord(c, word) ==
    /\ caller[c] = "prompt" /\ Len(typed[c]) < MaxWords
    /\ caller' = [caller EXCEPT ![c] = IF word = "exit" THEN "gone" ELSE "reading"]
    /\ words' = [words EXCEPT ![c] = Append(@, word)]
    /\ typed' = [typed EXCEPT ![c] = Append(@, word)]
    /\ UNCHANGED <<revents, ringing, childVars, stream, dialled, heardUnits>>

\* Mutant: what is left of an answer is thrown away.
ReadsAndSkips(c) ==
    LET n == IF Len(stream[c]) < ReadSize THEN Len(stream[c]) ELSE ReadSize
    IN  /\ caller[c] = "reading" /\ n > 0
        /\ heardUnits' = [heardUnits EXCEPT ![c] = @ \o SubSeq(stream[c], 1, n)]
        /\ stream' = [stream EXCEPT ![c] = <<>>]
        /\ caller' = [caller EXCEPT ![c] = "prompt"]
        /\ UNCHANGED <<revents, ringing, childVars, words, dialled, typed>>

\* One read: what is there, up to 128 bytes.
Reads128(c) ==
    LET n == IF Len(stream[c]) < ReadSize THEN Len(stream[c]) ELSE ReadSize
    IN  /\ caller[c] = "reading" /\ n > 0
        /\ heardUnits' = [heardUnits EXCEPT ![c] = @ \o SubSeq(stream[c], 1, n)]
        /\ stream' = [stream EXCEPT ![c] = SubSeq(@, n + 1, Len(@))]
        /\ caller' = [caller EXCEPT ![c] = "prompt"]
        /\ UNCHANGED <<revents, ringing, childVars, words, dialled, typed>>

Drops(c) ==
    /\ c \in Droppers /\ caller[c] \in {"prompt", "reading", "udp"}
    /\ caller' = [caller EXCEPT ![c] = "gone"]
    /\ UNCHANGED <<revents, ringing, childVars, words, stream, dialled, typed,
                   heardUnits>>

-----------------------------------------------------------------------------
InetdServer ==
    \/ InetdPoll \/ \E s \in TcpServices : AcceptTcp(s) \/ AcceptForThread(s)
    \/ \E s \in UdpServices : WriteUdp(s)

InetdCaller(c) ==
    \/ \E s \in TcpServices \cup UdpServices : Dials(c, s)
    \/ \E word \in {"short", "long", "exit"} : TypesWord(c, word)
    \/ Reads128(c) \/ Drops(c)

InetdNext ==
    /\ UNCHANGED multi
    /\ \/ InetdServer
       \/ \E c \in Callers :
             handleFunc(c) \/ ServiceAnswers(c) \/ ServiceMeetsEnd(c) \/ InetdCaller(c)

InetdSpec == InetdInit /\ [][InetdNext]_inetdVars

-----------------------------------------------------------------------------
(* Properties *)

Sent(c) == heardUnits[c] \o stream[c]

\* How many of the first n words are long, and the units of their answers.
Longs(line, n) == Cardinality({k \in 1..n : line[k] = "long"})
Units(line, n) == n + (LongAnswer - 1) * Longs(line, n)

\* The answers to the first n words, one after the other.
AnswersTo(c, n, units) ==
    /\ Len(units) = Units(typed[c], n)
    /\ \A k \in 1..n : \A part \in 1..Size(typed[c][k]) :
          units[Units(typed[c], k - 1) + part] = [service |-> dialled[c], word |-> k, part |-> part]

LongWords(c) == Longs(typed[c], Len(typed[c]))

\* A caller is sent the answers of the service it dialled, each once and in the
\* order of its words.  As long as it has typed no word whose answer is longer
\* than 128 bytes each read is just the answer to the word it follows; with
\* every longer one it may fall one more answer behind, and never further (tcp
\* and recieveFromServer of client.c, acceptHandler of server.c, the services).
ReadsFollowWords ==
    \A c \in Callers :
        caller[c] # "gone" =>
            /\ AnswersTo(c, wordsRead[c], Sent(c))
            /\ caller[c] = "prompt" =>
                  /\ LongWords(c) = 0 => AnswersTo(c, Len(typed[c]), heardUnits[c])
                  /\ Len(heardUnits[c]) >= Units(typed[c], Len(typed[c]) - LongWords(c))

\* What makes ReadsFollowWords inductive.  A caller rings once, at the service it
\* dialled, and the child that serves it runs that service.
Rings(c, s) == \E k \in 1..Len(ringing[s]) : ringing[s][k] = c

RightService ==
    /\ \A s \in revents \cap TcpServices : ringing[s] # <<>>
    /\ \A c \in Callers, s \in TcpServices : Rings(c, s) => caller[c] # "home" /\ dialled[c] = s
    /\ \A c \in Callers :
          child[c].state # "none" =>
             caller[c] # "home" /\ child[c].runs = dialled[c] /\ dialled[c] \in TcpServices

\* What a service has not read yet is the rest of what the caller typed.
WordsOnTheirWay ==
    \A c \in Callers :
        /\ wordsRead[c] + Len(words[c]) = Len(typed[c])
        /\ \A k \in 1..Len(words[c]) : words[c][k] = typed[c][wordsRead[c] + k]
        /\ caller[c] # "gone" => \A k \in 1..Len(typed[c]) : typed[c][k] # "exit"
        /\ caller[c] = "home" => typed[c] = <<>>
        /\ caller[c] = "reading" => typed[c] # <<>>

\* How often a caller has read, and how many reads the first n answers take at
\* most: two for a long one.
Reads(c) == Len(typed[c]) - (IF caller[c] = "reading" THEN 1 ELSE 0)
Cost(line, n) == n + Longs(line, n)

ReadEnough ==
    \A c \in Callers :
        caller[c] # "gone" =>
            /\ AnswersTo(c, wordsRead[c], Sent(c))
            /\ \A n \in 0..Len(typed[c]) :
                  Cost(typed[c], n) <= Reads(c) => Len(heardUnits[c]) >= Units(typed[c], n)
            /\ \A n \in 1..Len(typed[c]) :
                  typed[c][n] = "long" /\ Cost(typed[c], n - 1) + 1 <= Reads(c)
                     => Len(heardUnits[c]) >= Units(typed[c], n - 1) + ReadSize

InetdInv == InetdTypeOK /\ RightService /\ WordsOnTheirWay /\ ReadEnough
=============================================================================
