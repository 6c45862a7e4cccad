---------------------------- MODULE PopenServer -----------------------------
(***************************************************************************)
(* 18-02-22-Assignment/q3: server.c reads what P1 (a pipe), P2 (a FIFO), P3 *)
(* (popen) and its own user write, and sends it to all clients.  At SIGUSR1,*)
(* which P4 sends, the client that has been there longest leaves the        *)
(* audience: it gets "toEcho" and talks to a child that runs echo.c.        *)
(*                                                                         *)
(* The listener is pollFDs[4] of an array of four.  In the build kept       *)
(* beside the source that entry's events and revents are the variable       *)
(* currEnd, which main writes after poll: with no client yet the listener   *)
(* looks ready, and with one it never does.  overlaid is whether the build  *)
(* in use is like that one.                                                 *)
(*                                                                         *)
(* A client sends a line at a time, echo.c reads and answers it word by     *)
(* word.  Lines are shorter than 128 bytes, so that a read of 128 brings the *)
(* end of one answer at least; one that a read cuts counts with its end.    *)
(***************************************************************************)
EXTENDS Integers, Sequences, FiniteSets

CONSTANTS Audience,    \* clients
          Deserters,   \* clients whose user may end them at any time
          Writers,     \* P1, P2, P3 and the server's user
          MaxNews,     \* texts they write
          MaxSignals,  \* lines P4's user types
          MaxTyped,    \* words each client's user types; the code bounds none of these
          EchoLines    \* lines users type: sequences of words, none of them in a blank line

ASSUME PopenAssumption ==
    /\ Deserters \subseteq Audience /\ MaxNews \in Nat /\ MaxSignals \in Nat
    /\ MaxTyped \in Nat /\ EchoLines \subseteq Seq({"word", "exit"})

VARIABLES
    overlaid,    \* see above; the same throughout a run
    popen,       \* what the server is doing
    readable,    \* Writers whose revents are still to be looked at
    listenerSet, \* and whether those of the listener are set
    usr1,        \* SIGUSR1 is pending
    masked,      \* and blocked
    queued,      \* connections that are not accepted
    clientFDs,   \* accepted clients in order; the last is endClient
    startClient, \* how many of them have been handed to a child
    i,           \* the next to get the text in buffPoll
    said, raised,\* texts written, signals sent so far
    member,      \* what a client is doing
    toMember, toEcho, \* records on their way to a client, words to its child
    childOver,   \* clients whose child has read "exit"
    wasted,      \* a client that is gone has been written to
    saidTo,      \* words typed by a client's user
    printed,     \* history: what a client printed
    entered, left_at  \* history: texts written before it was accepted, and handed over

clientVars == <<member, saidTo, printed>>
popenVars == <<overlaid, popen, readable, listenerSet, usr1, masked, queued, clientFDs,
               startClient, i, said, raised, clientVars, toMember, toEcho, childOver, wasted,
               entered, left_at>>

News(n) == [kind |-> "news", n |-> n]
ToEcho == [kind |-> "toEcho", n |-> 0]
Echoed(n) == [kind |-> "echo", n |-> n]
Output == [kind : {"news", "toEcho", "echo"}, n : Nat]
TypedWord == [n : Nat, text : {"word", "exit"}]

PopenTypeOK ==
    /\ overlaid \in BOOLEAN /\ popen \in {"poll", "pass", "send", "accept", "dead"}
    /\ readable \subseteq Writers /\ listenerSet \in BOOLEAN
    /\ usr1 \in BOOLEAN /\ masked \in BOOLEAN
    /\ queued \in Seq(Audience) /\ clientFDs \in Seq(Audience)
    /\ startClient \in 0..Len(clientFDs) /\ i \in Nat
    /\ said \in Nat /\ raised \in Nat
    /\ member \in [Audience -> {"home", "listening", "echoing", "waiting", "gone"}]
    /\ toMember \in [Audience -> Seq(Output)] /\ printed \in [Audience -> Seq(Output)]
    /\ toEcho \in [Audience -> Seq(TypedWord)] /\ childOver \subseteq Audience
    /\ wasted \in [Audience -> BOOLEAN] /\ saidTo \in [Audience -> Nat]
    /\ entered \in [Audience -> Nat] /\ left_at \in [Audience -> Nat]

PopenInit ==
    /\ overlaid \in BOOLEAN /\ popen = "poll" /\ readable = {} /\ listenerSet = FALSE
    /\ usr1 = FALSE /\ masked = FALSE /\ queued = <<>> /\ clientFDs = <<>>
    /\ startClient = 0 /\ i = 0 /\ said = 0 /\ raised = 0
    /\ member = [c \in Audience |-> "home"]
    /\ toMember = [c \in Audience |-> <<>>] /\ printed = [c \in Audience |-> <<>>]
    /\ toEcho = [c \in Audience |-> <<>>] /\ childOver = {}
    /\ wasted = [c \in Audience |-> FALSE]
    /\ saidTo = [c \in Audience |-> 0]
    /\ entered = [c \in Audience |-> 0] /\ left_at = [c \in Audience |-> 0]

\* A write of the server: to a client that is gone the second one is SIGPIPE.
Post(c, record, after) ==
    \/ /\ member[c] # "gone" /\ popen' = after /\ UNCHANGED wasted
       /\ toMember' = [toMember EXCEPT ![c] = Append(@, record)]
    \/ /\ member[c] = "gone" /\ ~wasted[c] /\ popen' = after /\ UNCHANGED toMember
       /\ wasted' = [wasted EXCEPT ![c] = TRUE]
    \/ /\ member[c] = "gone" /\ popen' = "dead" /\ UNCHANGED <<toMember, wasted>>

-----------------------------------------------------------------------------
(* The server's main loop *)

Watched == IF overlaid THEN clientFDs = <<>> ELSE TRUE

\* poll returns when something can be read.
PopenPoll ==
    /\ popen = "poll"
    /\ \E ws \in SUBSET Writers :
          /\ Cardinality(ws) <= MaxNews - said
          /\ ws # {} \/ (Watched /\ queued # <<>>)
          /\ readable' = ws
    /\ listenerSet' = IF overlaid THEN clientFDs = <<>> ELSE queued # <<>>
    /\ popen' = "pass"
    /\ UNCHANGED <<overlaid, usr1, masked, queued, clientFDs, startClient, i, said,
                   raised, clientVars, toMember, toEcho, childOver, wasted, entered,
                   left_at>>

\* Mutant: maskSignal is left out.
PopenReadsUnmasked ==
    /\ popen = "pass"
    /\ \E w \in readable : readable' = readable \ {w}
    /\ popen' = "send" /\ said' = said + 1 /\ i' = startClient + 1
    /\ UNCHANGED <<masked, overlaid, listenerSet, usr1, queued, clientFDs,
                   startClient, raised, clientVars, toMember, toEcho, childOver,
                   wasted, entered, left_at>>

\* A text is read; from here to the last client SIGUSR1 is masked.
PopenReads ==
    /\ popen = "pass"
    /\ \E w \in readable : readable' = readable \ {w}
    /\ popen' = "send" /\ masked' = TRUE /\ said' = said + 1 /\ i' = startClient + 1
    /\ UNCHANGED <<overlaid, listenerSet, usr1, queued, clientFDs, startClient,
                   raised, clientVars, toMember, toEcho, childOver, wasted, entered,
                   left_at>>

PopenSends ==
    /\ popen = "send"
    /\ IF i <= Len(clientFDs)
       THEN /\ Post(clientFDs[i], News(said), "send") /\ i' = i + 1 /\ UNCHANGED masked
       ELSE /\ popen' = "pass" /\ masked' = FALSE /\ UNCHANGED <<toMember, wasted, i>>
    /\ UNCHANGED <<overlaid, readable, listenerSet, usr1, queued, clientFDs,
                   startClient, said, raised, clientVars, toEcho, childOver, entered,
                   left_at>>

\* The listener is the last entry: accept, with SIGUSR1 masked, waits for a
\* client if there is none.
PopenTurns ==
    /\ popen = "pass" /\ readable = {}
    /\ popen' = IF listenerSet THEN "accept" ELSE "poll"
    /\ masked' = listenerSet
    /\ UNCHANGED <<overlaid, readable, listenerSet, usr1, queued, clientFDs,
                   startClient, i, said, raised, clientVars, toMember, toEcho,
                   childOver, wasted, entered, left_at>>

PopenAccepts ==
    /\ popen = "accept" /\ queued # <<>>
    /\ clientFDs' = Append(clientFDs, Head(queued)) /\ queued' = Tail(queued)
    /\ entered' = [entered EXCEPT ![Head(queued)] = said]
    /\ popen' = "poll" /\ masked' = FALSE
    /\ UNCHANGED <<overlaid, readable, listenerSet, usr1, startClient, i, said,
                   raised, clientVars, toMember, toEcho, childOver, wasted, left_at>>

\* The server's user types "exit", or ends it.
PopenExits ==
    /\ popen # "dead" /\ popen' = "dead"
    /\ UNCHANGED <<overlaid, readable, listenerSet, usr1, masked, queued, clientFDs,
                   startClient, i, said, raised, clientVars, toMember, toEcho,
                   childOver, wasted, entered, left_at>>

-----------------------------------------------------------------------------
(* SIGUSR1 and the children *)

\* P4; a second signal while one is pending is lost.
P4Signals ==
    /\ popen # "dead" /\ raised < MaxSignals /\ raised' = raised + 1 /\ usr1' = TRUE
    /\ UNCHANGED <<overlaid, popen, readable, listenerSet, masked, queued, clientFDs,
                   startClient, i, said, clientVars, toMember, toEcho, childOver,
                   wasted, entered, left_at>>

\* sigHandler, at any point where the signal is not masked.
sigHandler ==
    /\ popen # "dead" /\ usr1 /\ ~masked /\ usr1' = FALSE
    /\ startClient < Len(clientFDs)
    /\ LET c == clientFDs[startClient + 1]
       IN  /\ startClient' = startClient + 1
           /\ Post(c, ToEcho, popen)
           /\ left_at' = [left_at EXCEPT ![c] = said]
    /\ UNCHANGED <<overlaid, readable, listenerSet, masked, queued, clientFDs, i,
                   said, raised, clientVars, toEcho, childOver, entered>>

\* With nobody to hand over it returns, and so does poll if it was waiting: with
\* no revents, but the listener's are set where they are currEnd.
sigHandlerIdle ==
    /\ popen # "dead" /\ usr1 /\ ~masked /\ usr1' = FALSE
    /\ startClient >= Len(clientFDs)
    /\ \/ UNCHANGED <<popen, listenerSet>>
       \/ /\ popen = "poll" /\ popen' = "pass"
          /\ listenerSet' = (overlaid /\ clientFDs = <<>>)
    /\ UNCHANGED <<overlaid, readable, masked, queued, clientFDs, startClient, i,
                   said, raised, clientVars, toMember, toEcho, childOver, wasted,
                   entered, left_at>>

HandedOver(c) == \E k \in 1..startClient : clientFDs[k] = c

\* echo.c: scanf reads the next word, on whichever line it is.
EchoAnswers(c) ==
    /\ HandedOver(c) /\ c \notin childOver /\ toEcho[c] # <<>>
    /\ LET word == Head(toEcho[c])
       IN  /\ childOver' = childOver \cup {d \in {c} : word.text = "exit"}
           /\ toMember' = IF word.text = "exit" \/ member[c] = "gone" THEN toMember
                          ELSE [toMember EXCEPT ![c] = Append(@, Echoed(word.n))]
    /\ toEcho' = [toEcho EXCEPT ![c] = Tail(@)]
    /\ UNCHANGED <<overlaid, popen, readable, listenerSet, usr1, masked, queued,
                   clientFDs, startClient, i, said, raised, clientVars, wasted,
                   entered, left_at>>

-----------------------------------------------------------------------------
(* Clients *)

MemberConnects(c) ==
    /\ popen # "dead" /\ member[c] = "home"
    /\ member' = [member EXCEPT ![c] = "listening"] /\ queued' = Append(queued, c)
    /\ UNCHANGED <<overlaid, popen, readable, listenerSet, usr1, masked, clientFDs,
                   startClient, i, said, raised, saidTo, printed, toMember, toEcho,
                   childOver, wasted, entered, left_at>>

\* The first n of what is on its way are read.
Takes(c, n) ==
    /\ printed' = [printed EXCEPT ![c] = @ \o SubSeq(toMember[c], 1, n)]
    /\ toMember' = [toMember EXCEPT ![c] = SubSeq(@, n + 1, Len(@))]
    /\ UNCHANGED <<overlaid, popen, readable, listenerSet, usr1, masked, queued,
                   clientFDs, startClient, i, said, raised, saidTo, toEcho, childOver,
                   wasted, entered, left_at>>

\* The first loop of client.c: until "toEcho" everything is news.
MemberListens(c) ==
    /\ member[c] = "listening" /\ toMember[c] # <<>>
    /\ Takes(c, 1)
    /\ member' = IF Head(toMember[c]) = ToEcho THEN [member EXCEPT ![c] = "echoing"]
                                              ELSE member

\* The second loop: one read for each line, of as many answers as have come.
MemberReads(c) ==
    /\ member[c] = "waiting"
    /\ \E n \in 1..Len(toMember[c]) : Takes(c, n)
    /\ member' = [member EXCEPT ![c] = "echoing"]

\* Neither the server nor the child is there any more.
Deserted(c) == popen = "dead" /\ c \in childOver

\* "exit" on a line of its own, without blanks, ends the client; so does a write
\* on a connection that has been reset.
MemberTypes(c, line) ==
    /\ member[c] = "echoing" /\ saidTo[c] + Len(line) <= MaxTyped
    /\ saidTo' = [saidTo EXCEPT ![c] = @ + Len(line)]
    /\ toEcho' = [toEcho EXCEPT ![c] =
                     @ \o [k \in 1..Len(line) |-> [n |-> saidTo[c] + k, text |-> line[k]]]]
    /\ \/ member' = [member EXCEPT ![c] = "waiting"]
       \/ /\ line = <<"exit">> \/ Deserted(c)
          /\ member' = [member EXCEPT ![c] = "gone"]
    /\ UNCHANGED <<overlaid, popen, readable, listenerSet, usr1, masked, queued,
                   clientFDs, startClient, i, said, raised, printed, toMember,
                   childOver, wasted, entered, left_at>>

\* The second loop ignores what read returns.
MemberMeetsEnd(c) ==
    /\ member[c] = "waiting" /\ Deserted(c) /\ toMember[c] = <<>>
    /\ member' = [member EXCEPT ![c] = "echoing"]
    /\ UNCHANGED <<overlaid, popen, readable, listenerSet, usr1, masked, queued,
                   clientFDs, startClient, i, said, raised, saidTo, printed, toMember,
                   toEcho, childOver, wasted, entered, left_at>>

\* The user ends the client, or it reads the end of the connection; it need not,
\* as a child that was forked meanwhile may still hold the connection.
MemberGoes(c) ==
    /\ member[c] \in {"listening", "echoing", "waiting"}
    /\ \/ c \in Deserters
       \/ member[c] = "listening" /\ popen = "dead" /\ toMember[c] = <<>>
    /\ member' = [member EXCEPT ![c] = "gone"]
    /\ UNCHANGED <<overlaid, popen, readable, listenerSet, usr1, masked, queued,
                   clientFDs, startClient, i, said, raised, saidTo, printed, toMember,
                   toEcho, childOver, wasted, entered, left_at>>

-----------------------------------------------------------------------------
PopenMain ==
    PopenPoll \/ PopenReads \/ PopenSends \/ PopenTurns \/ PopenAccepts \/ PopenExits

PopenClient(c) ==
    \/ MemberConnects(c) \/ MemberListens(c) \/ MemberReads(c) \/ MemberMeetsEnd(c)
    \/ MemberGoes(c) \/ \E line \in EchoLines : MemberTypes(c, line)

PopenNext ==
    \/ PopenMain \/ P4Signals \/ sigHandler \/ sigHandlerIdle
    \/ \E c \in Audience : PopenClient(c) \/ EchoAnswers(c)

PopenSpec == PopenInit /\ [][PopenNext]_popenVars

-----------------------------------------------------------------------------
(* Properties *)

Delivered(c) == printed[c] \o toMember[c]

\* n texts in order from the one after first, then, if anything, "toEcho", then
\* the answers to the first words the client typed, one for each.
Story(got, first, n) ==
    /\ \A k \in 1..n : got[k] = News(first + k)
    /\ n < Len(got) => got[n + 1] = ToEcho
    /\ \A k \in (n + 2)..Len(got) : got[k] = Echoed(k - (n + 1))

Until(c) == IF HandedOver(c) THEN left_at[c] ELSE said

\* A client gets the texts from its acceptance to its hand-over, each once and
\* in order, then "toEcho", then nothing but answers to its own words: to the
\* first, the second and so on, whatever lines they were typed on and however
\* many of them a read brings.  No text is missing when it is handed over
\* (sigHandler and the masks in main of q3/server.c, echo.c, the two loops of
\* q3/client.c).
NewsThenEchoes ==
    \A c \in Audience : \E n \in 0..Len(Delivered(c)) :
        /\ Story(Delivered(c), entered[c], n)
        /\ entered[c] + n <= Until(c)
        /\ HandedOver(c) /\ member[c] # "gone"
              => entered[c] + n = left_at[c] /\ n < Len(Delivered(c))

\* What makes NewsThenEchoes inductive.  A client connects once, and gets nothing
\* before it is accepted.
Accepted(c) == \E k \in 1..Len(clientFDs) : clientFDs[k] = c
IsQueued(c) == \E k \in 1..Len(queued) : queued[k] = c

OneEntry ==
    /\ \A j, k \in 1..Len(clientFDs) : clientFDs[j] = clientFDs[k] => j = k
    /\ \A j, k \in 1..Len(queued) : queued[j] = queued[k] => j = k
    /\ \A c \in Audience : IsQueued(c) => ~Accepted(c)
    /\ \A c \in Audience : member[c] = "home" => ~Accepted(c) /\ ~IsQueued(c)
    /\ \A c \in Audience : ~Accepted(c) => Delivered(c) = <<>>

\* SIGUSR1 is masked while a text is sent, to clients that were not handed over.
MaskedWhileSending ==
    /\ popen \in {"send", "accept"} => masked
    /\ popen = "send" => startClient < i

\* The words on their way to a child are the last that were typed, and nobody
\* types before the hand-over.
WordsInOrder ==
    \A c \in Audience :
        /\ Len(toEcho[c]) <= saidTo[c]
        /\ \A k \in 1..Len(toEcho[c]) : toEcho[c][k].n = (saidTo[c] - Len(toEcho[c])) + k
        /\ member[c] \in {"home", "listening"} => saidTo[c] = 0

\* The text that is being sent has still to be sent to c.
Owed(c) == IF popen = "send" /\ \E k \in i..Len(clientFDs) : clientFDs[k] = c THEN 1 ELSE 0

\* How many words of c a child has read.
Heard(c) == saidTo[c] - Len(toEcho[c])

Told(c, n) ==
    /\ Story(Delivered(c), entered[c], n) /\ entered[c] + n <= Until(c)
    /\ IF HandedOver(c)
       THEN member[c] # "gone" =>
               /\ entered[c] + n = left_at[c] /\ n < Len(Delivered(c))
               /\ c \notin childOver => Len(Delivered(c)) = n + 1 + Heard(c)
       ELSE /\ n = Len(Delivered(c)) /\ member[c] \in {"home", "listening", "gone"}
            /\ Accepted(c) /\ member[c] # "gone" /\ popen # "dead"
                  => entered[c] + n + Owed(c) = said

AllTold == \A c \in Audience : \E n \in 0..Len(Delivered(c)) : Told(c, n)

PopenInv == PopenTypeOK /\ OneEntry /\ MaskedWhileSending /\ WordsInOrder /\ AllTold
=============================================================================
