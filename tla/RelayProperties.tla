-------------------------- MODULE RelayProperties --------------------------
(***************************************************************************)
(* What the name center, the packages and the clients of 29-03-22-Mid-lab   *)
(* should guarantee.                                                       *)
(***************************************************************************)
EXTENDS Relay, SequencesExt

\* The clients a package has been told of, in order, read or not.
Told(p) == known[p] \o down[p]

\* The clients that registered after package p did, up to the n-th of all.
Since(p, n) == SubSeq(registered, since[p] + 1, n)

-----------------------------------------------------------------------------
(* Safety *)

\* A registered package is told of every client that registers after it, in
\* that order and once each; only while the center is telling the packages of
\* the last one, or if it died doing so, may it miss that one
\* (NC.c 364-376, P.c 215-226).
KnownIsLog ==
    \A p \in Range(packs) :
       \/ Told(p) = Since(p, Len(registered))
       \/ nc \in {"tell", "dead"} /\ Told(p) = Since(p, Len(registered) - 1)

\* A client that got a package's address is one the package knows or is about
\* to read of: what other clients send it there can reach it (NC.c 368-387:
\* the broadcast comes before the answer).
AnsweredIsTold ==
    \A c \in Clients : answer[c] \in Packages => c \in Range(Told(answer[c]))

\* What a package hands to a user was sent by one client to the number of a
\* registered client with the user's address, and it is a text; or it is the
\* empty record that stands for the text of a live client which ended after
\* typing that number, and before the text.  The exception are paid clients of
\* a package where, once, something else came between the number and the text
\* of one of them (P.c 228-252 and 269-301).
Addressed ==
    \A d \in Clients : \A r \in Range(inbox[d]) :
       kind[r.from] = "live" \/ answer[r.from] \notin crossed =>
          /\ \/ r.part = "text"
             \/ /\ r.part = "empty"
                /\ kind[r.from] = "live" /\ cpc[r.from] = "gone" /\ addressee[r.from] = r.to
          /\ \E e \in Range(registered) : AddrOf[e] = AddrOf[d] /\ NumberOf[e] = r.to

\* The center dies of nothing but the end of the client it serves, of a package
\* that ended before it had sent its records, or of the package it is just
\* telling of a client (NC.c 235-254: every failed read or write exits).
CenterDiesOfLeavers ==
    nc = "dead" =>
       \/ cur \in Clients /\ cpc[cur] = "gone"
       \/ cur \in Packages \ introduced /\ pkg[cur] = "left"
       \/ pos \in 1..Len(packs) /\ pkg[packs[pos]] = "left"

-----------------------------------------------------------------------------
(* What makes KnownIsLog inductive *)

\* A package registers once: while it waits, or is being accepted, or has not
\* started, it is in no table.
RegistersOnce ==
    /\ \A i, j \in 1..Len(packs) : packs[i] = packs[j] => i = j
    /\ \A i, j \in 1..Len(waitingP) : waitingP[i] = waitingP[j] => i = j
    /\ \A i \in 1..Len(waitingP) : waitingP[i] \notin Range(packs)
    /\ \A p \in Packages : pkg[p] = "off" =>
          p \notin Range(packs) /\ \A i \in 1..Len(waitingP) : waitingP[i] # p
    /\ nc = "package" =>
          /\ pkg[cur] # "off" /\ cur \notin Range(packs)
          /\ \A i \in 1..Len(waitingP) : waitingP[i] # cur

\* poll_fds follows package_info (NC.c 312-321, 521).
SlotsFollow ==
    /\ Len(slots) = Len(packs)
    /\ \A i \in 1..Len(slots) : slots[i] \in {packs[i], None}

\* Nothing is told before a package is registered, and its log starts then.
ToldLater ==
    \A p \in Packages :
       /\ since[p] \in 0..Len(registered)
       /\ p \notin Range(packs) => known[p] = <<>> /\ down[p] = <<>>

\* The broadcast is about the client that registered last, after every package.
Telling ==
    /\ nc = "tell" => pos # 0
    /\ pos # 0 =>
          /\ nc \in {"tell", "dead"}
          /\ registered # <<>> /\ registered[Len(registered)] = cur
          /\ \A p \in Range(packs) : since[p] < Len(registered)

\* Exactly the packages from position pos on miss it.
LogAt(i) ==
    Told(packs[i]) =
       Since(packs[i], IF pos # 0 /\ pos <= i THEN Len(registered) - 1 ELSE Len(registered))

Logs == \A i \in 1..Len(packs) : LogAt(i)

RelayInv ==
    TypeOK /\ RegistersOnce /\ SlotsFollow /\ ToldLater /\ Telling /\ Logs /\ AnsweredIsTold

-----------------------------------------------------------------------------
(* What makes CenterDiesOfLeavers inductive *)

\* A descriptor the center set to -1 was that of a package that has left
\* (NC.c 245-252).
EmptySlotsLeft == \A i \in 1..Len(slots) : slots[i] = None => pkg[packs[i]] = "left"

DeathInv == EmptySlotsLeft /\ CenterDiesOfLeavers

-----------------------------------------------------------------------------
(* What makes Addressed inductive *)

\* A client comes to the center once, and is named a package there at most.
ComesOnce ==
    /\ \A i, j \in 1..Len(waitingC) : waitingC[i] = waitingC[j] => i = j
    /\ \A i \in 1..Len(waitingC) :
          /\ answer[waitingC[i]] = None /\ cpc[waitingC[i]] # "off"
          /\ nc \in {"client", "tell"} => waitingC[i] # cur
    /\ nc \in {"client", "tell"} => answer[cur] = None /\ cpc[cur] # "off"
    /\ \A c \in Clients : /\ cpc[c] = "off" => answer[c] = None
                          /\ cpc[c] \in {"talk", "text"} => answer[c] \in Packages

Entering(c) == cpc[c] \in {"off", "choose", "introduce", "answer"}

\* Whoever wrote to a package was named it, and is not still at the center.
LiveAt(c, p) == answer[c] = p /\ kind[c] = "live" /\ ~Entering(c)

PaidAt(c, p) == answer[c] = p /\ kind[c] = "paid" /\ ~Entering(c)

OwnToPackage(p) ==
    /\ \A c \in conns[p] \cup Range(backlog[p]) : LiveAt(c, p)
    /\ \A i \in 1..Len(udpq[p]) : PaidAt(udpq[p][i].from, p)
    /\ ppc[p] = "tcp" => held[p].from \in conns[p]
    /\ ppc[p] = "udp" => PaidAt(held[p].from, p)
    /\ open[p] # None => PaidAt(open[p], p)

OwnToClient(c) ==
    /\ tcpq[c] # <<>> => answer[c] \in Packages /\ ~Entering(c)
    /\ \A i \in 1..Len(tcpq[c]) : tcpq[c][i].from = c

FromWriters(c) == \A r \in Range(inbox[c]) : answer[r.from] \in Packages /\ ~Entering(r.from)

OwnPackage ==
    /\ \A p \in Packages : OwnToPackage(p)
    /\ \A c \in Clients : OwnToClient(c) /\ FromWriters(c)

\* What a live client wrote, and a package did not forward yet; the same for
\* the datagrams of a package.
OnConnection(c) ==
    LET p == answer[c]
    IN  IF ppc[p] = "tcp" /\ held[p].from = c THEN <<held[p]>> \o tcpq[c] ELSE tcpq[c]

OnPort(p) == IF ppc[p] = "udp" THEN <<held[p]>> \o udpq[p] ELSE udpq[p]

\* Numbers and texts take turns, each text is for the number before it.
Paired(s) ==
    \A i \in 1..Len(s) :
       IF i % 2 = 1 THEN s[i].part = "number"
                    ELSE s[i].part = "text" /\ s[i].to = s[i - 1].to

\* A number without a text is the one its client typed last.
Unfinished(s, c) ==
    /\ cpc[c] = "talk" => Len(s) % 2 = 0
    /\ cpc[c] = "text" => Len(s) % 2 = 1
    /\ Len(s) % 2 = 1 => s[Len(s)].to = addressee[c]

ConnPairs(c) ==
    kind[c] = "live" /\ answer[c] \in Packages /\ pkg[answer[c]] = "up" =>
       Paired(OnConnection(c)) /\ Unfinished(OnConnection(c), c)

PortPairs(p) ==
    pkg[p] = "up" /\ p \notin crossed =>
       /\ Paired(OnPort(p))
       /\ Len(OnPort(p)) % 2 = 1 <=> open[p] # None
       /\ open[p] # None => OnPort(p)[Len(OnPort(p))].to = addressee[open[p]]

PairsInv == (\A c \in Clients : ConnPairs(c)) /\ \A p \in Packages : PortPairs(p)

AddressInv == ComesOnce /\ OwnPackage /\ PairsInv /\ Addressed

-----------------------------------------------------------------------------
(* Liveness *)

\* Every client that asked for a package hears of one, or exits: the center
\* comes back to the queue of clients as long as users answer its prompt.
AnswerComes == \A c \in Clients : cpc[c] = "answer" ~> cpc[c] # "answer"

\* A text on a live client's connection gets to the client it is for, once the
\* package knows that one, however busy the package is.
TextFor(c, d) == \E r \in Range(tcpq[c]) : r.part = "text" /\ r.to = NumberOf[d]

LiveTextArrives ==
    \A c, d \in Clients : \A p \in Packages :
       TextFor(c, d) /\ answer[c] = p /\ d \in Range(known[p])
         ~> pkg[p] = "left" \/ ~Running(d) \/ \E r \in Range(inbox[d]) : r.from = c
=============================================================================
