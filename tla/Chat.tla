-------------------------------- MODULE Chat --------------------------------
(***************************************************************************)
(* 04-02-22-chat-sockets: a server with one poll loop that sends every line *)
(* of a client to all the others, and clients with a thread for each        *)
(* direction.  The n-th line of client c is <<c, n>>; "exit" ends a client, *)
(* and an empty line looks to the server like the end of the connection.    *)
(***************************************************************************)
EXTENDS Integers, Sequences, FiniteSets, FiniteSetsExt

CONSTANTS Chatters,
          Quitters,   \* clients whose user may end them without "exit"
          MaxLines,   \* lines each user types at most; the code has no limit
          Nobody      \* descriptor -1

ASSUME ChatAssumption ==
    /\ Quitters \subseteq Chatters /\ Nobody \notin Chatters
    /\ MaxLines \in [Chatters -> Nat]

VARIABLES
    chatServer, \* "up" or "dead"
    knocking,   \* connections the server has not accepted yet
    nsFDs,      \* the clients in the order they were accepted, or Nobody
    ready,      \* those whose revents of that poll are still to be looked at
    chatter,    \* what a client is doing
    up, down,   \* records on their way from and to a client
    unread,     \* a client that is gone has been written to
    lines,      \* lines a client has typed
    heard,      \* history: what a client printed
    log,        \* history: what the server passed on, with the number it named
    since       \* history: how much of it there was when a client was accepted

chatVars == <<chatServer, knocking, nsFDs, ready, chatter, up, down, unread,
              lines, heard, log, since>>

Texts == {"text", "empty", "exit"}
Line == [by : Chatters, n : Nat, text : Texts]
Record == [from : Nat, line : Line]

ChatTypeOK ==
    /\ chatServer \in {"up", "dead"}
    /\ knocking \in Seq(Chatters) /\ nsFDs \in Seq(Chatters \cup {Nobody})
    /\ ready \subseteq 1..Len(nsFDs)
    /\ chatter \in [Chatters -> {"home", "on", "gone"}]
    /\ up \in [Chatters -> Seq(Line)]
    /\ down \in [Chatters -> Seq(Record)] /\ heard \in [Chatters -> Seq(Record)]
    /\ unread \in [Chatters -> BOOLEAN] /\ lines \in [Chatters -> Nat]
    /\ log \in Seq(Record) /\ since \in [Chatters -> 0..Len(log)]

ChatInit ==
    /\ chatServer = "up" /\ knocking = <<>> /\ nsFDs = <<>> /\ ready = {}
    /\ chatter = [c \in Chatters |-> "home"]
    /\ up = [c \in Chatters |-> <<>>] /\ down = [c \in Chatters |-> <<>>]
    /\ unread = [c \in Chatters |-> FALSE] /\ lines = [c \in Chatters |-> 0]
    /\ heard = [c \in Chatters |-> <<>>] /\ log = <<>> /\ since = [c \in Chatters |-> 0]

-----------------------------------------------------------------------------
(* Server *)

\* Something to read, which the end of the connection is too.
Readable(k) == nsFDs[k] # Nobody /\ (up[nsFDs[k]] # <<>> \/ chatter[nsFDs[k]] = "gone")

\* poll, of all clients accepted so far; then one more is accepted.
ChatPoll ==
    /\ chatServer = "up" /\ ready = {}
    /\ knocking # <<>> \/ \E k \in 1..Len(nsFDs) : Readable(k)
    /\ ready' = {k \in 1..Len(nsFDs) : Readable(k)}
    /\ IF knocking = <<>> THEN UNCHANGED <<knocking, nsFDs, since>>
       ELSE /\ knocking' = Tail(knocking) /\ nsFDs' = Append(nsFDs, Head(knocking))
            /\ since' = [since EXCEPT ![Head(knocking)] = Len(log)]
    /\ UNCHANGED <<chatServer, chatter, up, down, unread, lines, heard, log>>

\* Mutant: the loop ends at the first client that is gone.
sendToAllUntilGap(k, record) ==
    LET others == {j \in 1..Len(nsFDs) : /\ nsFDs[j] \notin {Nobody, nsFDs[k]}
                                         /\ \A i \in 1..j : nsFDs[i] # Nobody}
        gone == {j \in others : chatter[nsFDs[j]] = "gone"}
        Reach(js) ==
            /\ down' = [c \in Chatters |-> IF \E j \in js \ gone : nsFDs[j] = c
                                           THEN Append(down[c], record) ELSE down[c]]
            /\ unread' = [c \in Chatters |-> unread[c] \/ \E j \in js \cap gone : nsFDs[j] = c]
    IN  \/ /\ \A j \in gone : ~unread[nsFDs[j]]
           /\ Reach(others) /\ UNCHANGED chatServer
        \/ \E last \in gone :
              /\ \A j \in gone : j < last => ~unread[nsFDs[j]]
              /\ Reach({j \in others : j < last}) /\ chatServer' = "dead"

\* A send to a client that is gone may still succeed once; the next is SIGPIPE,
\* after which the clients with higher numbers get nothing.
sendToAllClients(k, record) ==
    LET others == {j \in 1..Len(nsFDs) : nsFDs[j] \notin {Nobody, nsFDs[k]}}
        gone == {j \in others : chatter[nsFDs[j]] = "gone"}
        Reach(js) ==
            /\ down' = [c \in Chatters |-> IF \E j \in js \ gone : nsFDs[j] = c
                                           THEN Append(down[c], record) ELSE down[c]]
            /\ unread' = [c \in Chatters |-> unread[c] \/ \E j \in js \cap gone : nsFDs[j] = c]
    IN  \/ /\ \A j \in gone : ~unread[nsFDs[j]]
           /\ Reach(others) /\ UNCHANGED chatServer
        \/ \E last \in gone :
              /\ \A j \in gone : j < last => ~unread[nsFDs[j]]
              /\ Reach({j \in others : j < last}) /\ chatServer' = "dead"

\* A line, with the number of the client's slot, goes to all others, "exit" too.
ChatPass ==
    /\ chatServer = "up" /\ ready # {}
    /\ LET k == Min(ready)
           c == nsFDs[k]
           line == Head(up[c])
           record == [from |-> k, line |-> line]
       IN  /\ up[c] # <<>> /\ line.text # "empty"
           /\ up' = [up EXCEPT ![c] = Tail(@)]
           /\ log' = Append(log, record)
           /\ sendToAllClients(k, record)
           /\ nsFDs' = [nsFDs EXCEPT ![k] = IF line.text = "exit" THEN Nobody ELSE @]
           /\ ready' = ready \ {k}
    /\ UNCHANGED <<knocking, chatter, lines, heard, since>>

\* Nothing was read, or an empty line: the slot is given up, the descriptor stays.
ChatForget ==
    /\ chatServer = "up" /\ ready # {}
    /\ LET k == Min(ready)
           c == nsFDs[k]
       IN  /\ up[c] # <<>> => Head(up[c]).text = "empty"
           /\ up' = [up EXCEPT ![c] = IF @ = <<>> THEN @ ELSE Tail(@)]
           /\ nsFDs' = [nsFDs EXCEPT ![k] = Nobody]
           /\ ready' = ready \ {k}
    /\ UNCHANGED <<chatServer, knocking, chatter, down, unread, lines, heard,
                   log, since>>

ChatServer == ChatPoll \/ ChatPass \/ ChatForget

-----------------------------------------------------------------------------
(* Clients *)

ChatConnect(c) ==
    /\ chatServer = "up" /\ chatter[c] = "home"
    /\ chatter' = [chatter EXCEPT ![c] = "on"] /\ knocking' = Append(knocking, c)
    /\ UNCHANGED <<chatServer, nsFDs, ready, up, down, unread, lines, heard, log,
                   since>>

\* writeFunc; main ends with it, and readFunc with main.
ChatSay(c, text) ==
    /\ chatServer = "up" /\ chatter[c] = "on" /\ lines[c] < MaxLines[c]
    /\ lines' = [lines EXCEPT ![c] = @ + 1]
    /\ up' = [up EXCEPT ![c] = Append(@, [by |-> c, n |-> lines'[c], text |-> text])]
    /\ chatter' = [chatter EXCEPT ![c] = IF text = "exit" THEN "gone" ELSE @]
    /\ UNCHANGED <<chatServer, knocking, nsFDs, ready, down, unread, heard, log,
                   since>>

\* readFunc
ChatHear(c) ==
    /\ chatter[c] = "on" /\ down[c] # <<>>
    /\ heard' = [heard EXCEPT ![c] = Append(@, Head(down[c]))]
    /\ down' = [down EXCEPT ![c] = Tail(@)]
    /\ UNCHANGED <<chatServer, knocking, nsFDs, ready, chatter, up, unread, lines,
                   log, since>>

ChatQuit(c) ==
    /\ c \in Quitters /\ chatter[c] = "on"
    /\ chatter' = [chatter EXCEPT ![c] = "gone"]
    /\ UNCHANGED <<chatServer, knocking, nsFDs, ready, up, down, unread, lines,
                   heard, log, since>>

ChatClient(c) ==
    ChatConnect(c) \/ ChatHear(c) \/ ChatQuit(c) \/ \E text \in Texts : ChatSay(c, text)

ChatNext == ChatServer \/ \E c \in Chatters : ChatClient(c)

ChatSpec == ChatInit /\ [][ChatNext]_chatVars

-----------------------------------------------------------------------------
(* Properties *)

Got(c) == heard[c] \o down[c]

\* Where in log the lines are that c is to hear: those of the others since it
\* was accepted; the one at j is the n-th of them.
OfOthers(c) == {j \in (since[c] + 1)..Len(log) : log[j].line.by # c}

Nth(c, j) == Cardinality({k \in OfOthers(c) : k <= j})

Served(c) == \E k \in 1..Len(nsFDs) : nsFDs[k] = c
Knocks(c) == \E k \in 1..Len(knocking) : knocking[k] = c

\* All clients hear one conversation: whoever is served has got, in the order
\* the server read them, exactly the lines of the others since it was accepted,
\* and whoever is no longer served, or is served by a server that was killed in
\* the middle of a broadcast, a beginning of that (sendToAllClients,
\* server.c 107-124, and the poll loop).
OneConversation ==
    \A c \in Chatters :
        chatter[c] = "on" =>
            /\ Len(Got(c)) <= Cardinality(OfOthers(c))
            /\ \A j \in OfOthers(c) :
                  Nth(c, j) <= Len(Got(c)) => Got(c)[Nth(c, j)] = log[j]
            /\ Served(c) /\ chatServer = "up" => Len(Got(c)) = Cardinality(OfOthers(c))

\* What makes OneConversation inductive.  A client connects once, and is in one
\* place: not accepted, in one slot, or in none any more.
OnceConnected ==
    /\ \A j, k \in 1..Len(knocking) : knocking[j] = knocking[k] => j = k
    /\ \A j, k \in 1..Len(nsFDs) : nsFDs[j] = nsFDs[k] /\ nsFDs[j] # Nobody => j = k
    /\ \A c \in Chatters : Knocks(c) => ~Served(c)
    /\ \A c \in Chatters : chatter[c] = "home" => ~Served(c) /\ ~Knocks(c)
    /\ \A k \in ready : nsFDs[k] # Nobody

\* What has been sent to the server is the sender's own, and nothing has been
\* sent to a client that was not accepted.
OwnLines ==
    /\ \A c \in Chatters : \A k \in 1..Len(up[c]) : up[c][k].by = c
    /\ \A c \in Chatters : chatter[c] = "home" \/ Knocks(c) => Got(c) = <<>>

ChatInv == ChatTypeOK /\ OnceConnected /\ OwnLines /\ OneConversation
=============================================================================
