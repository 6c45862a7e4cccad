----------------------------- MODULE RelayProofs -----------------------------
(***************************************************************************)
(* Proofs about the relay: for any packages and clients, whoever leaves.    *)
(***************************************************************************)
EXTENDS RelayProperties, FiniteSetTheorems, TLAPS

LEMMA SeqTypes ==
  ASSUME NEW S, NEW s \in Seq(S)
  PROVE  /\ Len(s) \in Nat
         /\ <<>> \in Seq(S)
         /\ s # <<>> => Head(s) \in S /\ Tail(s) \in Seq(S)
         /\ \A x \in S : Append(s, x) \in Seq(S)
  OBVIOUS

LEMMA ExceptType ==
  ASSUME NEW A, NEW S, NEW f \in [A -> S], NEW a, NEW x, a \in A => x \in S
  PROVE  [f EXCEPT ![a] = x] \in [A -> S]
  OBVIOUS

LEMMA SeqReplicate ==
  ASSUME NEW S, NEW s \in Seq(S), NEW n \in Nat, NEW x \in S
  PROVE  s \o [i \in 1..n |-> x] \in Seq(S)
  <1>1. [i \in 1..n |-> x] \in Seq(S)
    OBVIOUS
  <1>. QED
    BY <1>1

\* Reading the head of t moves it to the end of s.
LEMMA MoveHead ==
  ASSUME NEW S, NEW s \in Seq(S), NEW t \in Seq(S), t # <<>>
  PROVE  Append(s, Head(t)) \o Tail(t) = s \o t
  OBVIOUS

LEMMA ConcatAt ==
  ASSUME NEW S, NEW q \in Seq(S), NEW s \in Seq(S), NEW i \in 1..(Len(q) + Len(s))
  PROVE  (q \o s)[i] = IF i <= Len(q) THEN q[i] ELSE s[i - Len(q)]
  OBVIOUS

LEMMA AppendRight ==
  ASSUME NEW s \in Seq(Clients), NEW t \in Seq(Clients), NEW x \in Clients
  PROVE  s \o Append(t, x) = Append(s \o t, x)
  OBVIOUS

\* What an append does to the part of a sequence after position m.
LEMMA SubSeqAppend ==
  ASSUME NEW r \in Seq(Clients), NEW x \in Clients, NEW m \in 0..Len(r)
  PROVE  /\ Len(Append(r, x)) = Len(r) + 1
         /\ SubSeq(Append(r, x), m + 1, Len(r) + 1) = Append(SubSeq(r, m + 1, Len(r)), x)
         /\ SubSeq(Append(r, x), m + 1, Len(r)) = SubSeq(r, m + 1, Len(r))
  <1>1. Len(Append(r, x)) = Len(r) + 1
    OBVIOUS
  <1>2. SubSeq(Append(r, x), m + 1, Len(r) + 1) = Append(SubSeq(r, m + 1, Len(r)), x)
    <2> DEFINE k == Len(r) - m
               t == SubSeq(r, m + 1, Len(r))
               u == SubSeq(Append(r, x), m + 1, Len(r) + 1)
    <2>1. k \in Nat /\ t \in Seq(Clients) /\ Len(t) = k /\ \A i \in 1..k : t[i] = r[m + i]
      OBVIOUS
    <2>2. u \in Seq(Clients) /\ Len(u) = k + 1 /\ \A i \in 1..k+1 : u[i] = Append(r, x)[m + i]
      OBVIOUS
    <2>3. \A i \in 1..k+1 : u[i] = Append(t, x)[i]
      BY <2>1, <2>2
    <2>4. Append(t, x) \in Seq(Clients) /\ Len(Append(t, x)) = k + 1
      BY <2>1
    <2>. HIDE DEF k, t, u
    <2>5. u = Append(t, x)
      BY <2>1, <2>2, <2>3, <2>4
    <2>. QED
      BY <2>5 DEF t, u
  <1>3. SubSeq(Append(r, x), m + 1, Len(r)) = SubSeq(r, m + 1, Len(r))
    OBVIOUS
  <1>. QED
    BY <1>1, <1>2, <1>3

\* What ends with the last element is what ends before it and that one.
LEMMA SubSeqLast ==
  ASSUME NEW r \in Seq(Clients), NEW m \in Nat, m < Len(r)
  PROVE  SubSeq(r, m + 1, Len(r)) = Append(SubSeq(r, m + 1, Len(r) - 1), r[Len(r)])
  <1> DEFINE k == Len(r) - m
             t == SubSeq(r, m + 1, Len(r) - 1)
             u == SubSeq(r, m + 1, Len(r))
             x == r[Len(r)]
  <1>0. Len(r) \in Nat /\ k \in Nat \ {0} /\ x \in Clients /\ m + k = Len(r)
    OBVIOUS
  <1>1. t \in Seq(Clients) /\ Len(t) = k - 1 /\ \A i \in 1..k-1 : t[i] = r[m + i]
    OBVIOUS
  <1>2. u \in Seq(Clients) /\ Len(u) = k /\ \A i \in 1..k : u[i] = r[m + i]
    OBVIOUS
  <1>3. Append(t, x) \in Seq(Clients) /\ Len(Append(t, x)) = k
        /\ \A i \in 1..k : Append(t, x)[i] = IF i = k THEN x ELSE t[i]
    <2>. HIDE DEF t, u, k, x
    <2>1. /\ Append(t, x) \in Seq(Clients) /\ Len(Append(t, x)) = Len(t) + 1
          /\ \A i \in 1..Len(t)+1 : Append(t, x)[i] = IF i = Len(t) + 1 THEN x ELSE t[i]
      BY <1>0, <1>1
    <2>. QED
      BY <1>0, <1>1, <2>1
  <1>. HIDE DEF t, u, k
  <1>4. \A i \in 1..k : u[i] = Append(t, x)[i]
    <2> SUFFICES ASSUME NEW i \in 1..k PROVE u[i] = Append(t, x)[i]
      OBVIOUS
    <2>1. CASE i = k
      BY <1>0, <1>2, <1>3, <2>1
    <2>2. CASE i # k
      <3>1. i \in 1..k-1
        BY <1>0, <2>2
      <3>. QED
        BY <1>1, <1>2, <1>3, <2>2, <3>1
    <2>. QED
      BY <2>1, <2>2
  <1>5. u = Append(t, x)
    BY <1>2, <1>3, <1>4
  <1>. QED
    BY <1>5 DEF t, u

-----------------------------------------------------------------------------
(* Types *)

LEMMA CopiesType ==
  ASSUME NEW p \in Packages, NEW n, NEW d, known[p] \in Seq(Clients)
  PROVE  Copies(p, n, d) \in Nat
  <1> DEFINE I == {i \in DOMAIN known[p] : /\ NumberOf[known[p][i]] = n
                                           /\ AddrOf[known[p][i]] = AddrOf[d]}
  <1>1. DOMAIN known[p] = 1..Len(known[p]) /\ Len(known[p]) \in Nat
    OBVIOUS
  <1>2. IsFiniteSet(DOMAIN known[p])
    BY <1>1, FS_Interval
  <1>3. IsFiniteSet(I)
    BY <1>2, FS_Subset
  <1>. QED
    BY <1>3, FS_CardinalityType DEF Copies

\* Forwarding a record leaves a sequence of records in every inbox.
LEMMA ForwardType ==
  ASSUME TypeOK, NEW p \in Packages, NEW n, NEW r \in Record, Forward(p, n, r)
  PROVE  inbox' \in [Clients -> Seq(Record)]
  <1> SUFFICES ASSUME NEW d \in Clients
               PROVE  inbox[d] \o [i \in 1..Copies(p, n, d) |-> r] \in Seq(Record)
    BY DEF Forward, TypeOK
  <1>1. Copies(p, n, d) \in Nat
    BY CopiesType DEF TypeOK
  <1>2. inbox[d] \in Seq(Record)
    BY DEF TypeOK
  <1>. HIDE DEF Copies
  <1>. QED
    BY <1>1, <1>2, SeqReplicate

LEMMA InitType == Init => TypeOK
  <1> SUFFICES ASSUME Init PROVE TypeOK
    OBVIOUS
  <1> USE DEF Init
  <1>1. \A S : <<>> \in Seq(S)
    OBVIOUS
  <1>2. /\ waitingP \in Seq(Packages) /\ waitingC \in Seq(Clients) /\ packs \in Seq(Packages)
        /\ slots \in Seq(Packages \cup {None}) /\ registered \in Seq(Clients)
    BY <1>1
  <1>3. /\ known \in [Packages -> Seq(Clients)] /\ down \in [Packages -> Seq(Clients)]
        /\ udpq \in [Packages -> Seq(Record)] /\ backlog \in [Packages -> Seq(Clients)]
        /\ tcpq \in [Clients -> Seq(Record)] /\ inbox \in [Clients -> Seq(Record)]
    BY <1>1
  <1>4. kind \in [Clients -> {"live", "paid"}]
    BY RelayAssumption
  <1>. QED
    BY <1>2, <1>3, <1>4 DEF TypeOK, CPC

LEMMA CenterType == TypeOK /\ Center => TypeOK'
  <1> SUFFICES ASSUME TypeOK, Center PROVE TypeOK'
    OBVIOUS
  <1> USE DEF TypeOK, queueVars, packageVars, clientVars, pairVars, linkVars
  <1>1. CASE AcceptPackage
    <2>1. waitingP' \in Seq(Packages) /\ cur' \in Packages
      BY <1>1, SeqTypes DEF AcceptPackage
    <2>. QED
      BY <1>1, <2>1 DEF AcceptPackage
  <1>2. CASE AcceptClient
    <2>1. waitingC' \in Seq(Clients) /\ cur' \in Clients
      BY <1>2, SeqTypes DEF AcceptClient
    <2>. QED
      BY <1>2, <2>1 DEF AcceptClient
  <1>3. CASE ClientHungUp \/ PackageHungUp \/ BreakOff \/ Refuse
    <2>1. answer' \in [Clients -> Packages \cup {"no", None}]
      BY <1>3 DEF ClientHungUp, PackageHungUp, BreakOff, Refuse
    <2>2. nc' \in {"poll", "dead"} /\ cur' = cur
      BY <1>3 DEF ClientHungUp, PackageHungUp, BreakOff, Refuse
    <2>. QED
      BY <1>3, <2>1, <2>2 DEF ClientHungUp, PackageHungUp, BreakOff, Refuse
  <1>4. CASE ReadPackage
    <2>1. /\ packs' \in Seq(Packages) /\ slots' \in Seq(Packages \cup {None})
          /\ since' \in [Packages -> Nat]
      BY <1>4, SeqTypes DEF ReadPackage
    <2>. QED
      BY <1>4, <2>1 DEF ReadPackage
  <1>5. CASE ReadClient
    <2>1. registered' \in Seq(Clients) /\ pos' \in Nat
      BY <1>5, SeqTypes DEF ReadClient
    <2>. QED
      BY <1>5, <2>1 DEF ReadClient
  <1>6. CASE TellPackage
    <2>1. slots[pos] \in Packages => Append(down[slots[pos]], cur) \in Seq(Clients)
      BY <1>6, SeqTypes DEF TellPackage
    <2>2. down' \in [Packages -> Seq(Clients)]
      <3>1. down \in [Packages -> Seq(Clients)]
        OBVIOUS
      <3>2. down' = [down EXCEPT ![slots[pos]] = Append(down[slots[pos]], cur)]
        BY <1>6 DEF TellPackage
      <3>. QED
        BY <2>1, <3>1, <3>2, ExceptType
    <2>3. pos' \in Nat
      BY <1>6 DEF TellPackage
    <2>. QED
      BY <1>6, <2>2, <2>3 DEF TellPackage
  <1>7. CASE AnswerClient
    <2>1. PICK i \in Matches : answer' = [answer EXCEPT ![cur] = packs[i]]
      BY <1>7 DEF AnswerClient
    <2>2. packs[i] \in Packages
      BY DEF Matches
    <2>3. nc' \in {"poll", "dead"} /\ pos' \in Nat
      BY <1>7 DEF AnswerClient
    <2>. QED
      BY <1>7, <2>1, <2>2, <2>3 DEF AnswerClient
  <1>8. CASE NoticeLeft
    <2>1. slots' \in Seq(Packages \cup {None})
      BY <1>8 DEF NoticeLeft
    <2>. QED
      BY <1>8, <2>1 DEF NoticeLeft
  <1>. QED
    BY <1>1, <1>2, <1>3, <1>4, <1>5, <1>6, <1>7, <1>8 DEF Center

LEMMA PackageType ==
  ASSUME TypeOK, NEW p \in Packages, StartPackage(p) \/ IntroducePackage(p) \/ LeavePackage(p) \/ Package(p)
  PROVE  TypeOK'
  <1> USE DEF TypeOK, queueVars, centerVars, clientVars, pairVars, linkVars
  <1>1. CASE StartPackage(p)
    <2>1. waitingP' \in Seq(Packages)
      BY <1>1, SeqTypes DEF StartPackage
    <2>. QED
      BY <1>1, <2>1 DEF StartPackage
  <1>2. CASE LeavePackage(p)
    <2>1. <<>> \in Seq(Record) /\ <<>> \in Seq(Clients)
      OBVIOUS
    <2>. QED
      BY <1>2, <2>1 DEF LeavePackage
  <1>3. CASE StoreNewClient(p)
    <2>1. Head(down[p]) \in Clients /\ Tail(down[p]) \in Seq(Clients)
      BY <1>3, SeqTypes DEF StoreNewClient
    <2>2. Append(known[p], Head(down[p])) \in Seq(Clients)
      BY <2>1, SeqTypes
    <2>. QED
      BY <1>3, <2>1, <2>2 DEF StoreNewClient
  <1>4. CASE HandleClientTcp(p)
    <2>1. Head(backlog[p]) \in Clients /\ Tail(backlog[p]) \in Seq(Clients)
      BY <1>4, SeqTypes DEF HandleClientTcp
    <2>. QED
      BY <1>4, <2>1 DEF HandleClientTcp
  <1>5. CASE UdpNumber(p)
    <2>1. Head(udpq[p]) \in Record /\ Tail(udpq[p]) \in Seq(Record)
      BY <1>5, SeqTypes DEF UdpNumber
    <2>. QED
      BY <1>5, <2>1 DEF UdpNumber
  <1>6. CASE UdpText(p)
    <2>1. Head(udpq[p]) \in Record /\ Tail(udpq[p]) \in Seq(Record)
      BY <1>6, SeqTypes DEF UdpText
    <2>2. inbox' \in [Clients -> Seq(Record)]
      BY <1>6, <2>1, ForwardType DEF UdpText
    <2>. QED
      BY <1>6, <2>1, <2>2 DEF UdpText
  <1>7. CASE TcpText(p)
    <2>1. held[p] \in Record /\ held[p].from \in Clients
      BY <1>7 DEF TcpText, Record
    <2>2. [held[p] EXCEPT !.part = "empty"] \in Record
      BY <2>1 DEF Record
    <2>3. tcpq[held[p].from] # <<>> => Head(tcpq[held[p].from]) \in Record
                                       /\ Tail(tcpq[held[p].from]) \in Seq(Record)
      BY <2>1, SeqTypes
    <2>4. inbox' \in [Clients -> Seq(Record)]
      BY <1>7, <2>2, <2>3, ForwardType DEF TcpText
    <2>5. tcpq' \in [Clients -> Seq(Record)]
      BY <1>7, <2>1, <2>3 DEF TcpText
    <2>6. conns' \in [Packages -> SUBSET Clients]
      <3>1. conns' = conns \/ conns' = [conns EXCEPT ![p] = @ \ {held[p].from}]
        BY <1>7 DEF TcpText
      <3>2. conns \in [Packages -> SUBSET Clients]
        OBVIOUS
      <3>. HIDE DEF TypeOK
      <3>. QED
        BY <3>1, <3>2
    <2>. QED
      BY <1>7, <2>4, <2>5, <2>6 DEF TcpText
  <1>8. CASE \E c \in Clients : TcpNumber(p, c)
    <2>1. PICK c \in Clients : TcpNumber(p, c)
      BY <1>8
    <2>2. Head(tcpq[c]) \in Record /\ Tail(tcpq[c]) \in Seq(Record)
      BY <2>1, SeqTypes DEF TcpNumber
    <2>. QED
      BY <2>1, <2>2 DEF TcpNumber
  <1>9. CASE \E c \in Clients : HangUp(p, c)
    <2>1. PICK c \in Clients : HangUp(p, c)
      BY <1>9
    <2>2. conns[p] \ {c} \in SUBSET Clients
      OBVIOUS
    <2>3. conns' \in [Packages -> SUBSET Clients]
      BY <2>1, <2>2, ExceptType DEF HangUp
    <2>. QED
      BY <2>1, <2>3 DEF HangUp
  <1>10. CASE IntroducePackage(p)
    BY <1>10 DEF IntroducePackage, packageVars
  <1>. QED
    BY <1>1, <1>2, <1>3, <1>4, <1>5, <1>6, <1>7, <1>8, <1>9, <1>10 DEF Package

\* A record a client sends arrives on one of two queues or nowhere.
LEMMA SayType ==
  ASSUME TypeOK, NEW c \in Clients, NEW r \in Record, NEW next \in CPC, Say(c, r, next)
  PROVE  /\ cpc' \in [Clients -> CPC]
         /\ \A d \in Clients : cpc'[d] = "text" => cpc[d] = "text" \/ (d = c /\ next = "text")
         /\ udpq' \in [Packages -> Seq(Record)]
         /\ tcpq' \in [Clients -> Seq(Record)]
  <1>0. cpc' = [cpc EXCEPT ![c] = next] \/ cpc' = [cpc EXCEPT ![c] = "gone"]
    BY DEF Say, Goto
  <1>1. /\ cpc' \in [Clients -> CPC]
        /\ \A d \in Clients : cpc'[d] = "text" => cpc[d] = "text" \/ (d = c /\ next = "text")
    <2>1. cpc \in [Clients -> CPC] /\ "gone" \in CPC
      BY DEF TypeOK, CPC
    <2>2. cpc' \in [Clients -> CPC]
      BY <1>0, <2>1, ExceptType
    <2>3. ASSUME NEW d \in Clients, cpc'[d] = "text"
          PROVE  cpc[d] = "text" \/ (d = c /\ next = "text")
      <3>1. CASE cpc' = [cpc EXCEPT ![c] = next]
        BY <2>1, <2>3, <3>1
      <3>2. CASE cpc' = [cpc EXCEPT ![c] = "gone"]
        BY <2>1, <2>3, <3>2
      <3>. QED
        BY <1>0, <3>1, <3>2
    <2>. QED
      BY <2>2, <2>3
  <1>2. \A q \in Packages : Append(udpq[q], r) \in Seq(Record)
    BY SeqTypes DEF TypeOK
  <1>3. Append(tcpq[c], r) \in Seq(Record)
    BY SeqTypes DEF TypeOK
  <1>4. udpq' \in [Packages -> Seq(Record)]
    <2>1. udpq' = udpq \/ udpq' = [udpq EXCEPT ![answer[c]] = Append(@, r)]
      BY DEF Say
    <2>2. udpq \in [Packages -> Seq(Record)]
      BY DEF TypeOK
    <2>3. answer[c] \in Packages => Append(udpq[answer[c]], r) \in Seq(Record)
      BY <1>2
    <2>4. [udpq EXCEPT ![answer[c]] = Append(@, r)] \in [Packages -> Seq(Record)]
      BY <2>2, <2>3, ExceptType
    <2>. QED
      BY <2>1, <2>2, <2>4
  <1>5. tcpq' \in [Clients -> Seq(Record)]
    BY <1>3 DEF Say, TypeOK
  <1>. QED
    BY <1>1, <1>4, <1>5

\* What is kept of the order of numbers and texts at packages.
LEMMA PairsType ==
  ASSUME TypeOK, NEW c \in Clients, Opens(c) \/ Closes(c)
  PROVE  open' \in [Packages -> Clients \cup {None}] /\ crossed' \subseteq Packages
  <1>1. open \in [Packages -> Clients \cup {None}] /\ crossed \subseteq Packages
    BY DEF TypeOK
  <1>2. \/ UNCHANGED pairVars
        \/ \E x \in {c, None} : /\ open' = [open EXCEPT ![answer[c]] = x]
                                /\ crossed' = crossed \cup {p \in Packages : p = answer[c] /\ open[p] # None}
                                   \/ crossed' = crossed \cup {p \in Packages : p = answer[c] /\ open[p] # c}
    BY DEF Opens, Closes
  <1>. QED
    BY <1>1, <1>2 DEF pairVars

LEMMA ClientType ==
  ASSUME TypeOK, NEW c \in Clients, Client(c)
  PROVE  TypeOK'
  <1> USE DEF TypeOK, CPC, queueVars, centerVars, packageVars, pairVars, linkVars
  <1>1. CASE Connect(c)
    <2>1. waitingC' \in Seq(Clients)
      BY <1>1, SeqTypes DEF Connect
    <2>. QED
      BY <1>1, <2>1 DEF Connect, Goto
  <1>2. CASE Choose(c) \/ Introduce(c)
    <2>1. PICK l \in CPC \ {"text"} : Goto(c, l)
      BY <1>2 DEF Choose, Introduce, Write
    <2>2. cpc' \in [Clients -> CPC] /\ \A d \in Clients : cpc'[d] = "text" => cpc[d] = "text"
      BY <2>1 DEF Goto
    <2>3. request' \in [Clients -> PackNos \cup {None}] /\ introduced' \subseteq Packages \cup Clients
      BY <1>2 DEF Choose, Introduce
    <2>4. UNCHANGED <<waitingP, waitingC, centerVars, packageVars, kind, addressee, said, pairVars,
                      linkVars>>
      BY <1>2 DEF Choose, Introduce
    <2>. QED
      BY <2>2, <2>3, <2>4
  <1>3. CASE Answered(c)
    <2>1. backlog' \in [Packages -> Seq(Clients)]
      <3>1. \A q \in Packages : Append(backlog[q], c) \in Seq(Clients)
        BY SeqTypes
      <3>. QED
        BY <1>3, <3>1 DEF Answered
    <2>. QED
      BY <1>3, <2>1 DEF Answered, Goto
  <1>4. CASE \E n \in Numbers : SayNumber(c, n)
    <2>1. PICK n \in Numbers : SayNumber(c, n)
      BY <1>4
    <2>2. [part |-> "number", from |-> c, to |-> n] \in Record
      BY DEF Record
    <2>3. /\ cpc' \in [Clients -> CPC]
          /\ \A d \in Clients : cpc'[d] = "text" => cpc[d] = "text" \/ d = c
          /\ udpq' \in [Packages -> Seq(Record)]
          /\ tcpq' \in [Clients -> Seq(Record)]
      BY <2>1, <2>2, SayType DEF SayNumber
    <2>4. said' \in [Clients -> Nat]
      <3>0. said \in [Clients -> Nat]
        OBVIOUS
      <3>1. said \in [Clients -> Nat] /\ said[c] + 1 \in Nat
        BY ONLY <3>0, c \in Clients
      <3>2. said' = [said EXCEPT ![c] = said[c] + 1]
        BY <2>1 DEF SayNumber
      <3>. QED
        BY <3>1, <3>2, ExceptType
    <2>6. open' \in [Packages -> Clients \cup {None}] /\ crossed' \subseteq Packages
      BY <2>1, PairsType DEF SayNumber
    <2>5. /\ addressee' \in [Clients -> Numbers \cup {None}]
          /\ \A d \in Clients : cpc'[d] = "text" => addressee'[d] \in Numbers
      BY <2>1, <2>3 DEF SayNumber
    <2>7. UNCHANGED <<queueVars, centerVars, packageVars, kind, request, down, backlog, answer, inbox>>
      BY <2>1 DEF SayNumber
    <2>. QED
      BY <2>3, <2>4, <2>5, <2>6, <2>7
  <1>5. CASE SayText(c)
    <2>1. [part |-> "text", from |-> c, to |-> addressee[c]] \in Record
      BY <1>5 DEF Record, SayText
    <2>2. /\ cpc' \in [Clients -> CPC]
          /\ \A d \in Clients : cpc'[d] = "text" => cpc[d] = "text"
          /\ udpq' \in [Packages -> Seq(Record)]
          /\ tcpq' \in [Clients -> Seq(Record)]
      BY <1>5, <2>1, SayType DEF SayText
    <2>3. UNCHANGED <<queueVars, centerVars, packageVars, kind, request, addressee, said,
                      down, backlog, answer, inbox>>
      BY <1>5 DEF SayText
    <2>4. open' \in [Packages -> Clients \cup {None}] /\ crossed' \subseteq Packages
      BY <1>5, PairsType DEF SayText
    <2>. QED
      BY <2>2, <2>3, <2>4
  <1>6. CASE UdpRecv(c)
    <2>1. inbox' \in [Clients -> Seq(Record)]
      BY <1>6, SeqTypes DEF UdpRecv
    <2>. QED
      BY <1>6, <2>1 DEF UdpRecv, Goto
  <1>7. CASE Quit(c)
    BY <1>7 DEF Quit, Goto
  <1>. QED
    BY <1>1, <1>2, <1>3, <1>4, <1>5, <1>6, <1>7 DEF Client, Talk

LEMMA NextType == TypeOK /\ [Next]_vars => TypeOK'
  <1>1. TypeOK /\ UNCHANGED vars => TypeOK'
    BY DEF vars, queueVars, centerVars, packageVars, clientVars, pairVars, linkVars, TypeOK
  <1>. QED
    BY <1>1, CenterType, PackageType, ClientType DEF Next

\* Every record, queue and table entry of the system has its type, for any
\* packages, clients and numbers (Relay.tla, TypeOK).
THEOREM TypeCorrect == Spec => []TypeOK
  BY InitType, NextType, PTL DEF Spec

-----------------------------------------------------------------------------
(* What packages are told *)

LEMMA RangeAppend ==
  ASSUME NEW S, NEW s \in Seq(S), NEW x \in S
  PROVE  Range(Append(s, x)) = Range(s) \cup {x}
  <1>1. \A i \in 1..Len(s) : Append(s, x)[i] = s[i]
    OBVIOUS
  <1>2. Len(Append(s, x)) = Len(s) + 1 /\ Append(s, x)[Len(s) + 1] = x /\ Len(s) \in Nat
    OBVIOUS
  <1>3. DOMAIN Append(s, x) = 1..Len(s)+1 /\ DOMAIN s = 1..Len(s)
    OBVIOUS
  <1>. QED
    BY <1>1, <1>2, <1>3 DEF Range

LEMMA ToldType == TypeOK => \A p \in Packages : Told(p) \in Seq(Clients)
  BY DEF TypeOK, Told

\* What a step of a broadcast adds to what a package was told.
LEMMA TellStep ==
  ASSUME TypeOK, TellPackage, NEW p \in Packages
  PROVE  Told(p)' = IF slots[pos] = p THEN Append(Told(p), cur) ELSE Told(p)
  <1>1. known[p] \in Seq(Clients) /\ down[p] \in Seq(Clients) /\ cur \in Clients
    BY DEF TypeOK, TellPackage
  <1>2. known[p] \o Append(down[p], cur) = Append(known[p] \o down[p], cur)
    BY <1>1, AppendRight
  <1>3. down'[p] = IF slots[pos] = p THEN Append(down[p], cur) ELSE down[p]
    BY DEF TellPackage, TypeOK
  <1>4. Told(p)' = known[p] \o down'[p] /\ Told(p) = known[p] \o down[p]
    BY DEF Told, TellPackage, packageVars
  <1>. QED
    BY <1>2, <1>3, <1>4

\* A step of a package, or of a client, changes nothing that was told.
LEMMA PackageToldStep ==
  ASSUME TypeOK, NEW q \in Packages, StartPackage(q) \/ IntroducePackage(q) \/ LeavePackage(q) \/ Package(q)
  PROVE  \A p \in Packages : Told(p)' = Told(p)
  <1>1. CASE StoreNewClient(q)
    <2> SUFFICES ASSUME NEW p \in Packages PROVE Told(p)' = Told(p)
      OBVIOUS
    <2>1. CASE p = q
      <3>1. known[q] \in Seq(Clients) /\ down[q] \in Seq(Clients) /\ down[q] # <<>>
        BY <1>1 DEF TypeOK, StoreNewClient
      <3>2. Append(known[q], Head(down[q])) \o Tail(down[q]) = known[q] \o down[q]
        BY <3>1, MoveHead
      <3>3. known'[q] = Append(known[q], Head(down[q])) /\ down'[q] = Tail(down[q])
        BY <1>1 DEF StoreNewClient, TypeOK
      <3>. QED
        BY <2>1, <3>2, <3>3 DEF Told
    <2>2. CASE p # q
      BY <1>1, <2>2 DEF StoreNewClient, Told, TypeOK
    <2>. QED
      BY <2>1, <2>2
  <1>2. CASE ~StoreNewClient(q)
    <2>1. known' = known /\ down' = down
      BY <1>2 DEF StartPackage, IntroducePackage, LeavePackage, Package, HandleClientTcp, UdpNumber, UdpText,
                  TcpText, TcpNumber, HangUp, packageVars, linkVars
    <2>. QED
      BY <2>1 DEF Told
  <1>. QED
    BY <1>1, <1>2

\* All a package's or a client's step does to the center's tables.
LEMMA OutsideStep ==
  ASSUME (\E q \in Packages : StartPackage(q) \/ IntroducePackage(q) \/ LeavePackage(q) \/ Package(q))
         \/ \E c \in Clients : Client(c)
  PROVE  UNCHANGED <<nc, cur, packs, slots, pos, registered, since, answer>>
  BY DEF StartPackage, IntroducePackage, LeavePackage, Package, StoreNewClient, HandleClientTcp, UdpNumber,
         UdpText, TcpText, TcpNumber, HangUp, Client, Connect, Choose, Introduce, Write, Answered, Talk,
         SayNumber, SayText, UdpRecv, Quit, linkVars, centerVars

-----------------------------------------------------------------------------
(* The invariant *)

LEMMA InitInv == Init => RelayInv
  <1> SUFFICES ASSUME Init PROVE RelayInv
    OBVIOUS
  <1>1. packs = <<>> /\ Range(packs) = {} /\ Len(waitingP) = 0 /\ Len(packs) = 0 /\ Len(slots) = 0
    BY DEF Init, Range
  <1>2. RegistersOnce /\ SlotsFollow /\ Telling /\ Logs
    BY <1>1 DEF Init, RegistersOnce, SlotsFollow, Telling, Logs
  <1>3. ToldLater
    BY DEF Init, ToldLater
  <1>4. AnsweredIsTold
    BY RelayAssumption DEF Init, AnsweredIsTold
  <1>. QED
    BY <1>2, <1>3, <1>4, InitType DEF RelayInv

LEMMA PacksType ==
  ASSUME TypeOK, SlotsFollow
  PROVE  /\ packs \in Seq(Packages) /\ Len(packs) \in Nat /\ Len(slots) = Len(packs)
         /\ \A i \in 1..Len(packs) : packs[i] \in Packages /\ packs[i] \in Range(packs)
         /\ \A p \in Range(packs) : p \in Packages /\ \E i \in 1..Len(packs) : packs[i] = p
  <1>1. packs \in Seq(Packages) /\ Len(packs) \in Nat /\ DOMAIN packs = 1..Len(packs)
        /\ Len(slots) = Len(packs)
    BY DEF TypeOK, SlotsFollow
  <1>. QED
    BY <1>1 DEF Range

\* A record that reaches nobody's log: most steps.
LEMMA SameLogs ==
  ASSUME Logs, TypeOK, SlotsFollow, UNCHANGED <<packs, pos, registered, since>>,
         \A p \in Packages : Told(p)' = Told(p)
  PROVE  Logs'
  <1> SUFFICES ASSUME NEW i \in 1..Len(packs) PROVE LogAt(i)'
    BY DEF Logs
  <1>1. packs[i] \in Packages /\ Told(packs[i])' = Told(packs[i])
    BY PacksType
  <1>2. LogAt(i)
    BY DEF Logs
  <1>. QED
    BY <1>1, <1>2 DEF LogAt, Since, Told

LEMMA SameTables ==
  ASSUME RelayInv, TypeOK',
         UNCHANGED <<nc, cur, packs, slots, pos, registered, since, answer>>,
         \A p \in Packages : Told(p)' = Told(p)
  PROVE  SlotsFollow' /\ Telling' /\ Logs' /\ AnsweredIsTold'
  <1>1. Logs'
    BY SameLogs DEF RelayInv
  <1>2. AnsweredIsTold'
    BY DEF RelayInv, AnsweredIsTold
  <1>3. SlotsFollow' /\ Telling'
    BY DEF RelayInv, SlotsFollow, Telling, Range
  <1>. QED
    BY <1>1, <1>2, <1>3

\* The head of the queue is taken in hand.
LEMMA AcceptPackageInv ==
  ASSUME RelayInv, AcceptPackage
  PROVE  RegistersOnce'
  <1> DEFINE h == Head(waitingP)
  <1>1. TypeOK /\ RegistersOnce
    BY DEF RelayInv
  <1>2. waitingP \in Seq(Packages) /\ waitingP # <<>>
    BY <1>1 DEF TypeOK, AcceptPackage
  <1>3. h \in Packages /\ h = waitingP[1] /\ Len(waitingP) \in Nat /\ 1 \in 1..Len(waitingP)
    BY <1>2
  <1>4. h \notin Range(packs) /\ pkg[h] # "off"
    BY <1>1, <1>3 DEF RegistersOnce
  <1>5. \A i \in 1..Len(waitingP'): /\ waitingP'[i] = waitingP[i + 1]
                                    /\ i + 1 \in 1..Len(waitingP) /\ i + 1 # 1
    BY <1>2 DEF AcceptPackage
  <1>6. pkg' = pkg /\ packs' = packs /\ nc' = "package" /\ cur' = h
    BY DEF AcceptPackage, packageVars
  <1>7. \A i, j \in 1..Len(waitingP') : waitingP'[i] = waitingP'[j] => i = j
    BY <1>1, <1>5 DEF RegistersOnce
  <1>8. \A i \in 1..Len(waitingP') : waitingP'[i] \notin Range(packs) /\ waitingP'[i] # h
    BY <1>1, <1>3, <1>5 DEF RegistersOnce
  <1>9. \A p \in Packages : pkg[p] = "off" =>
           p \notin Range(packs) /\ \A i \in 1..Len(waitingP') : waitingP'[i] # p
    BY <1>1, <1>5 DEF RegistersOnce
  <1>10. \A i, j \in 1..Len(packs) : packs[i] = packs[j] => i = j
    BY <1>1 DEF RegistersOnce
  <1>. QED
    BY <1>4, <1>6, <1>7, <1>8, <1>9, <1>10 DEF RegistersOnce, Range

\* A package gets its place in the tables.
LEMMA ReadPackageInv ==
  ASSUME RelayInv, ReadPackage
  PROVE  RegistersOnce' /\ SlotsFollow' /\ ToldLater' /\ Telling' /\ Logs' /\ AnsweredIsTold'
  <1>1. TypeOK /\ RegistersOnce /\ SlotsFollow /\ ToldLater /\ Telling /\ Logs /\ AnsweredIsTold
    BY DEF RelayInv
  <1>2. /\ packs \in Seq(Packages) /\ slots \in Seq(Packages \cup {None})
        /\ registered \in Seq(Clients) /\ Len(registered) \in Nat
        /\ since \in [Packages -> Nat] /\ nc = "package" /\ cur \in Packages /\ pos = 0
    BY <1>1, SeqTypes DEF TypeOK, ReadPackage, Telling
  <1>3. /\ packs' = Append(packs, cur) /\ slots' = Append(slots, cur) /\ nc' = "poll"
        /\ since' = [since EXCEPT ![cur] = Len(registered)]
        /\ UNCHANGED <<waitingP, pkg, cur, pos, registered, known, down, answer>>
    BY DEF ReadPackage, queueVars, packageVars, linkVars
  <1>4. Range(packs)' = Range(packs) \cup {cur}
    <2>1. Range(Append(packs, cur)) = Range(packs) \cup {cur}
      BY <1>2, RangeAppend
    <2>. QED
      BY <1>3, <2>1 DEF Range
  <1>5. /\ cur \notin Range(packs) /\ pkg[cur] # "off"
        /\ \A i \in 1..Len(waitingP) : waitingP[i] # cur
    BY <1>1, <1>2 DEF RegistersOnce
  <1>6. Len(packs) \in Nat /\ \A i \in 1..Len(packs) : packs[i] \in Packages /\ packs[i] \in Range(packs)
    BY <1>1, PacksType
  <1>7. Len(packs') = Len(packs) + 1
        /\ \A i \in 1..Len(packs') : packs'[i] = IF i = Len(packs) + 1 THEN cur ELSE packs[i]
    BY <1>2, <1>3
  <1>8. RegistersOnce'
    <2>1. \A i, j \in 1..Len(packs') : packs'[i] = packs'[j] => i = j
      BY <1>1, <1>5, <1>6, <1>7 DEF RegistersOnce
    <2>2. \A i, j \in 1..Len(waitingP) : waitingP[i] = waitingP[j] => i = j
      BY <1>1 DEF RegistersOnce
    <2>3. \A i \in 1..Len(waitingP) : waitingP[i] \notin Range(packs)'
      BY <1>1, <1>4, <1>5 DEF RegistersOnce
    <2>4. \A p \in Packages : pkg[p] = "off" =>
             p \notin Range(packs)' /\ \A i \in 1..Len(waitingP) : waitingP[i] # p
      BY <1>1, <1>4, <1>5 DEF RegistersOnce
    <2>. QED
      BY <1>3, <2>1, <2>2, <2>3, <2>4 DEF RegistersOnce
  <1>9. SlotsFollow'
    <2>2. Len(slots) = Len(packs) /\ \A i \in 1..Len(slots) : slots[i] \in {packs[i], None}
      BY <1>1 DEF SlotsFollow
    <2>. QED
      BY <1>2, <1>3, <2>2 DEF SlotsFollow
  <1>10. ToldLater'
    <2>. SUFFICES ASSUME NEW p \in Packages
                  PROVE  /\ since'[p] \in 0..Len(registered)
                         /\ p \notin Range(packs)' => known[p] = <<>> /\ down[p] = <<>>
      BY <1>3 DEF ToldLater
    <2>. QED
      BY <1>1, <1>2, <1>3, <1>4 DEF ToldLater
  <1>11. Telling'
    BY <1>2, <1>3 DEF Telling
  <1>12. Logs'
    <2> SUFFICES ASSUME NEW i \in 1..Len(packs') PROVE LogAt(i)'
      BY DEF Logs
    <2>1. CASE i = Len(packs) + 1
      <3>1. known[cur] = <<>> /\ down[cur] = <<>> /\ packs'[i] = cur
        BY <1>1, <1>2, <1>5, <1>7, <2>1 DEF ToldLater
      <3>2. Told(cur)' = <<>>
        BY <1>3, <3>1 DEF Told
      <3>3. since'[cur] = Len(registered)
        BY <1>2, <1>3
      <3>4. SubSeq(registered, Len(registered) + 1, Len(registered)) = <<>>
        BY <1>2
      <3>5. known'[packs'[i]] \o down'[packs'[i]] = <<>>
        BY <1>3, <3>1
      <3>. QED
        BY <1>2, <1>3, <3>1, <3>3, <3>4, <3>5 DEF LogAt, Since, Told
    <2>2. CASE i # Len(packs) + 1
      <3>1. i \in 1..Len(packs) /\ packs'[i] = packs[i]
        BY <1>6, <1>7, <2>2
      <3>2. LogAt(i) /\ packs[i] # cur /\ packs[i] \in Packages
        BY <1>1, <1>5, <1>6, <3>1 DEF Logs
      <3>3. since'[packs[i]] = since[packs[i]]
        BY <1>2, <1>3, <3>2
      <3>. QED
        BY <1>2, <1>3, <3>1, <3>2, <3>3 DEF LogAt, Told, Since
    <2>. QED
      BY <2>1, <2>2
  <1>13. AnsweredIsTold'
    BY <1>1, <1>3 DEF AnsweredIsTold, Told, Range
  <1>. QED
    BY <1>8, <1>9, <1>10, <1>11, <1>12, <1>13

\* A client is entered in client_info: from here on every package misses it.
LEMMA ReadClientInv ==
  ASSUME RelayInv, ReadClient
  PROVE  RegistersOnce' /\ SlotsFollow' /\ ToldLater' /\ Telling' /\ Logs' /\ AnsweredIsTold'
  <1>1. TypeOK /\ RegistersOnce /\ SlotsFollow /\ ToldLater /\ Telling /\ Logs /\ AnsweredIsTold
    BY DEF RelayInv
  <1> DEFINE r == registered
  <1>2. r \in Seq(Clients) /\ Len(r) \in Nat /\ nc = "client" /\ cur \in Clients /\ pos = 0
    BY <1>1, SeqTypes DEF TypeOK, ReadClient, Telling
  <1>3. /\ registered' = Append(registered, cur) /\ nc' = "tell" /\ pos' = 1
        /\ UNCHANGED <<waitingP, pkg, cur, packs, slots, since, known, down, answer>>
    BY DEF ReadClient, queueVars, packageVars, linkVars
  <1>4. Len(registered') = Len(r) + 1 /\ registered'[Len(r) + 1] = cur /\ registered' # <<>>
    BY <1>2, <1>3
  <1>5. \A p \in Packages : since[p] \in 0..Len(r)
    BY <1>1 DEF ToldLater
  <1>6. \A p \in Range(packs) : p \in Packages
    BY <1>1, PacksType
  <1>7. RegistersOnce' /\ SlotsFollow'
    <2>1. /\ waitingP' = waitingP /\ pkg' = pkg /\ packs' = packs /\ slots' = slots
          /\ Range(packs)' = Range(packs) /\ nc' # "package"
      BY <1>3 DEF Range
    <2>2. RegistersOnce'
      BY <1>1, <2>1 DEF RegistersOnce
    <2>3. SlotsFollow'
      BY <1>1, <2>1 DEF SlotsFollow
    <2>. QED
      BY <2>2, <2>3
  <1>8. ToldLater'
    <2>. SUFFICES ASSUME NEW p \in Packages
                  PROVE  /\ since[p] \in 0..Len(registered')
                         /\ p \notin Range(packs) => known[p] = <<>> /\ down[p] = <<>>
      BY <1>3 DEF ToldLater, Range
    <2>. QED
      BY <1>1, <1>2, <1>4, <1>5 DEF ToldLater
  <1>9. Telling'
    <2>1. \A p \in Range(packs) : since[p] < Len(registered')
      BY <1>2, <1>4, <1>5, <1>6
    <2>. QED
      BY <1>3, <1>4, <2>1 DEF Telling, Range
  <1>10. Logs'
    <2> SUFFICES ASSUME NEW i \in 1..Len(packs) PROVE LogAt(i)'
      BY <1>3 DEF Logs
    <2>1. LogAt(i) /\ packs[i] \in Packages
      BY <1>1, PacksType DEF Logs
    <2>2. SubSeq(Append(r, cur), since[packs[i]] + 1, Len(r)) = SubSeq(r, since[packs[i]] + 1, Len(r))
      BY <1>2, <1>5, <2>1, SubSeqAppend
    <2>3. pos' # 0 /\ pos' <= i /\ Len(registered') - 1 = Len(r)
      BY <1>2, <1>3, <1>4
    <2>. QED
      BY <1>2, <1>3, <2>1, <2>2, <2>3 DEF LogAt, Since, Told
  <1>11. AnsweredIsTold'
    BY <1>1, <1>3 DEF AnsweredIsTold, Told, Range
  <1>. QED
    BY <1>7, <1>8, <1>9, <1>10, <1>11

\* One more package is told, the one at position pos (NC.c 370-376).
LEMMA TellPackageInv ==
  ASSUME RelayInv, TellPackage
  PROVE  RegistersOnce' /\ SlotsFollow' /\ ToldLater' /\ Telling' /\ Logs' /\ AnsweredIsTold'
  <1>1. TypeOK /\ RegistersOnce /\ SlotsFollow /\ ToldLater /\ Telling /\ Logs /\ AnsweredIsTold
    BY DEF RelayInv
  <1> DEFINE r == registered
  <1>2. /\ r \in Seq(Clients) /\ Len(r) \in Nat /\ nc = "tell" /\ cur \in Clients
        /\ pos \in Nat /\ pos # 0 /\ pos <= Len(slots) /\ slots[pos] # None
    BY <1>1, SeqTypes DEF TypeOK, TellPackage, Telling
  <1>3. /\ pos' = pos + 1
        /\ UNCHANGED <<waitingP, pkg, nc, cur, packs, slots, registered, since, known, answer>>
    BY DEF TellPackage, queueVars, packageVars
  <1>4. /\ packs \in Seq(Packages) /\ Len(packs) \in Nat /\ Len(slots) = Len(packs)
        /\ \A i \in 1..Len(packs) : packs[i] \in Packages /\ packs[i] \in Range(packs)
    BY <1>1, PacksType
  <1>5. pos \in 1..Len(packs) /\ slots[pos] = packs[pos]
    BY <1>1, <1>2, <1>4 DEF SlotsFollow
  <1>6. \A p \in Packages : Told(p)' = IF p = packs[pos] THEN Append(Told(p), cur) ELSE Told(p)
    BY <1>1, <1>5, TellStep
  <1>7. RegistersOnce' /\ SlotsFollow'
    BY <1>1, <1>3 DEF RegistersOnce, SlotsFollow, Range
  <1>8. ToldLater'
    <2>1. \A p \in Packages : p \notin Range(packs) => down'[p] = down[p]
      BY <1>1, <1>4, <1>5 DEF TellPackage, TypeOK
    <2>. SUFFICES ASSUME NEW p \in Packages
                  PROVE  /\ since[p] \in 0..Len(registered)
                         /\ p \notin Range(packs) => known[p] = <<>> /\ down'[p] = <<>>
      BY <1>3 DEF ToldLater, Range
    <2>. QED
      BY <1>1, <2>1 DEF ToldLater
  <1>9. Telling'
    BY <1>1, <1>2, <1>3 DEF Telling, Range
  <1>10. Logs'
    <2> SUFFICES ASSUME NEW i \in 1..Len(packs) PROVE LogAt(i)'
      BY <1>3 DEF Logs
    <2>1. LogAt(i)
      BY <1>1 DEF Logs
    <2>2. CASE i = pos
      <3>1. since[packs[i]] \in Nat /\ since[packs[i]] < Len(r) /\ r[Len(r)] = cur
        BY <1>1, <1>2, <1>4 DEF Telling, TypeOK
      <3>2. SubSeq(r, since[packs[i]] + 1, Len(r))
               = Append(SubSeq(r, since[packs[i]] + 1, Len(r) - 1), r[Len(r)])
        BY <1>2, <3>1, SubSeqLast
      <3>3. Told(packs[i]) = SubSeq(r, since[packs[i]] + 1, Len(r) - 1)
        <4>1. pos # 0 /\ pos <= i
          BY <1>2, <2>2
        <4>2. Told(packs[i]) = Since(packs[i], Len(registered) - 1)
          BY <2>1, <4>1 DEF LogAt
        <4>. QED
          BY <4>2 DEF Since
      <3>4. Told(packs[i])' = Append(Told(packs[i]), cur)
        BY <1>3, <1>4, <1>6, <2>2 DEF Told
      <3>5. ~(pos' <= i)
        BY <1>2, <1>3, <2>2
      <3>. QED
        BY <1>3, <3>1, <3>2, <3>3, <3>4, <3>5 DEF LogAt, Since
    <2>3. CASE i # pos
      <3>1. packs[i] # packs[pos]
        BY <1>1, <1>5, <2>3 DEF RegistersOnce
      <3>2. Told(packs[i])' = Told(packs[i])
        BY <1>3, <1>4, <1>6, <3>1 DEF Told
      <3>3. (pos # 0 /\ pos <= i) <=> (pos' # 0 /\ pos' <= i)
        BY <1>2, <1>3, <2>3
      <3>. QED
        BY <1>3, <2>1, <3>2, <3>3 DEF LogAt, Since
    <2>. QED
      BY <2>2, <2>3
  <1>11. AnsweredIsTold'
    <2> SUFFICES ASSUME NEW c \in Clients, answer[c] \in Packages
                 PROVE  c \in Range(Told(answer[c]))'
      BY <1>3 DEF AnsweredIsTold
    <2> DEFINE p == answer[c]
    <2>1. c \in Range(Told(p)) /\ Told(p) \in Seq(Clients)
      BY <1>1, ToldType DEF AnsweredIsTold
    <2>2. Told(p)' = known'[p] \o down'[p]
      BY <1>3 DEF Told
    <2>. HIDE DEF p
    <2>3. Range(Append(Told(p), cur)) = Range(Told(p)) \cup {cur}
      BY <1>2, <2>1, RangeAppend
    <2>4. \A q \in Packages : q = p => c \in Range(known'[q] \o down'[q])
      BY <1>6, <2>1, <2>3 DEF Told
    <2>. QED
      BY <1>3, <2>4 DEF p, Told, Range
  <1>. QED
    BY <1>7, <1>8, <1>9, <1>10, <1>11

\* When the client is answered no package misses it any more.
LEMMA AnswerClientInv ==
  ASSUME RelayInv, AnswerClient
  PROVE  RegistersOnce' /\ SlotsFollow' /\ ToldLater' /\ Telling' /\ Logs' /\ AnsweredIsTold'
  <1>1. TypeOK /\ RegistersOnce /\ SlotsFollow /\ ToldLater /\ Telling /\ Logs /\ AnsweredIsTold
    BY DEF RelayInv
  <1> DEFINE r == registered
  <1>2. /\ r \in Seq(Clients) /\ Len(r) \in Nat /\ nc = "tell" /\ cur \in Clients
        /\ pos \in Nat /\ pos # 0 /\ pos > Len(slots)
    BY <1>1, SeqTypes DEF TypeOK, AnswerClient, Telling
  <1>3. /\ pos' = 0 /\ nc' \in {"poll", "dead"}
        /\ UNCHANGED <<waitingP, pkg, cur, packs, slots, registered, since, known, down>>
    BY DEF AnswerClient, queueVars, packageVars
  <1>4. /\ packs \in Seq(Packages) /\ Len(packs) \in Nat /\ Len(slots) = Len(packs)
        /\ \A i \in 1..Len(packs) : packs[i] \in Packages /\ packs[i] \in Range(packs)
    BY <1>1, PacksType
  <1>5. \A i \in 1..Len(packs) : Told(packs[i]) = Since(packs[i], Len(r)) /\ ~(pos <= i)
    BY <1>1, <1>2, <1>4 DEF Logs, LogAt
  <1>6. RegistersOnce' /\ SlotsFollow' /\ ToldLater' /\ Telling'
    BY <1>1, <1>3 DEF RegistersOnce, SlotsFollow, ToldLater, Telling, Range
  <1>7. Logs'
    <2> SUFFICES ASSUME NEW i \in 1..Len(packs) PROVE LogAt(i)'
      BY <1>3 DEF Logs
    <2>. QED
      BY <1>3, <1>5 DEF LogAt, Since, Told
  <1>8. PICK i \in Matches : answer' = [answer EXCEPT ![cur] = packs[i]]
    BY DEF AnswerClient
  <1>9. cur \in Range(Told(packs[i]))
    <2>1. i \in 1..Len(packs)
      BY DEF Matches
    <2>2. since[packs[i]] \in Nat /\ since[packs[i]] < Len(r) /\ r[Len(r)] = cur
      BY <1>1, <1>2, <1>4, <2>1 DEF Telling, TypeOK
    <2>3. SubSeq(r, since[packs[i]] + 1, Len(r))
             = Append(SubSeq(r, since[packs[i]] + 1, Len(r) - 1), cur)
      BY <1>2, <2>2, SubSeqLast
    <2>4. SubSeq(r, since[packs[i]] + 1, Len(r) - 1) \in Seq(Clients)
      BY <1>2, <2>2
    <2>5. Range(Append(SubSeq(r, since[packs[i]] + 1, Len(r) - 1), cur))
             = Range(SubSeq(r, since[packs[i]] + 1, Len(r) - 1)) \cup {cur}
      <3> DEFINE u == SubSeq(r, since[packs[i]] + 1, Len(r) - 1)
      <3>1. u \in Seq(Clients) /\ cur \in Clients
        BY <1>2, <2>4
      <3>. HIDE DEF u
      <3>2. Range(Append(u, cur)) = Range(u) \cup {cur}
        BY <3>1, RangeAppend
      <3>. QED
        BY <3>2 DEF u
    <2>6. Told(packs[i]) = Append(SubSeq(r, since[packs[i]] + 1, Len(r) - 1), cur)
      BY <1>5, <2>1, <2>3 DEF Since
    <2>. QED
      BY <2>5, <2>6
  <1>10. AnsweredIsTold'
    <2> SUFFICES ASSUME NEW c \in Clients, answer'[c] \in Packages
                 PROVE  c \in Range(Told(answer[c]))'
      BY DEF AnsweredIsTold
    <2>1. CASE c = cur
      <3>1. answer'[c] = packs[i]
        BY <1>1, <1>8, <2>1 DEF TypeOK
      <3>. QED
        BY <1>3, <1>9, <2>1, <3>1 DEF Told, Range
    <2>2. CASE c # cur
      <3>1. answer'[c] = answer[c]
        BY <1>1, <1>8, <2>2 DEF TypeOK
      <3>2. c \in Range(Told(answer[c]))
        BY <1>1, <3>1 DEF AnsweredIsTold
      <3>. QED
        BY <1>3, <3>1, <3>2 DEF Told, Range
    <2>. QED
      BY <2>1, <2>2
  <1>. QED
    BY <1>6, <1>7, <1>10

LEMMA CenterInv == RelayInv /\ Center => RelayInv'
  <1> SUFFICES ASSUME RelayInv, Center PROVE RelayInv'
    OBVIOUS
  <1>1. TypeOK /\ RegistersOnce /\ SlotsFollow /\ ToldLater /\ Telling /\ Logs /\ AnsweredIsTold
    BY DEF RelayInv
  <1>2. TypeOK'
    BY <1>1, CenterType
  <1>3. CASE ReadPackage \/ ReadClient \/ TellPackage \/ AnswerClient
    BY <1>2, <1>3, ReadPackageInv, ReadClientInv, TellPackageInv, AnswerClientInv DEF RelayInv
  <1>4. CASE AcceptPackage \/ PackageHungUp \/ AcceptClient \/ ClientHungUp \/ Refuse
             \/ BreakOff \/ NoticeLeft
    <2> USE DEF AcceptPackage, PackageHungUp, AcceptClient, ClientHungUp, Refuse, BreakOff, NoticeLeft
    <2>1. UNCHANGED <<pkg, packs, pos, registered, since, known, down>>
      BY <1>4 DEF packageVars, linkVars
    <2>2. RegistersOnce'
      <3>1. CASE AcceptPackage
        BY <3>1, AcceptPackageInv
      <3>2. CASE ~AcceptPackage
        <4>1. waitingP' = waitingP /\ nc' # "package"
          BY <1>4, <3>2 DEF queueVars
        <4>. QED
          BY <1>1, <2>1, <4>1 DEF RegistersOnce, Range
      <3>. QED
        BY <3>1, <3>2
    <2>3. ToldLater'
      BY <1>1, <2>1 DEF ToldLater, Range
    <2>4. SlotsFollow'
      <3>1. slots' = slots \/ \E i \in 1..Len(slots) : slots' = [slots EXCEPT ![i] = None]
        BY <1>4
      <3>2. slots \in Seq(Packages \cup {None})
        BY <1>1 DEF TypeOK
      <3>. QED
        BY <1>1, <2>1, <3>1, <3>2 DEF SlotsFollow
    <2>5. \A p \in Packages : Told(p)' = Told(p)
      BY <2>1 DEF Told
    <2>6. Logs'
      BY <1>1, <2>1, <2>5, SameLogs
    <2>7. Telling'
      <3>1. CASE BreakOff
        BY <1>1, <2>1, <3>1 DEF Telling, Range
      <3>2. CASE ~BreakOff
        <4>1. nc \notin {"tell", "dead"} /\ nc' # "tell"
          BY <1>4, <3>2
        <4>. QED
          BY <1>1, <2>1, <4>1 DEF Telling
      <3>. QED
        BY <3>1, <3>2
    <2>8. AnsweredIsTold'
      <3>1. \A c \in Clients : answer'[c] \in Packages => answer'[c] = answer[c]
        BY <1>1, <1>4, RelayAssumption DEF linkVars, TypeOK
      <3>. QED
        BY <1>1, <2>1, <3>1 DEF AnsweredIsTold, Told, Range
    <2>. QED
      BY <1>2, <2>2, <2>3, <2>4, <2>6, <2>7, <2>8 DEF RelayInv
  <1>. QED
    BY <1>3, <1>4 DEF Center

LEMMA PackageInv ==
  ASSUME RelayInv, NEW q \in Packages, StartPackage(q) \/ IntroducePackage(q) \/ LeavePackage(q) \/ Package(q)
  PROVE  RelayInv'
  <1>1. TypeOK /\ RegistersOnce /\ SlotsFollow /\ ToldLater
    BY DEF RelayInv
  <1>2. TypeOK' /\ \A p \in Packages : Told(p)' = Told(p)
    BY <1>1, PackageType, PackageToldStep
  <1>3. UNCHANGED <<nc, cur, packs, slots, pos, registered, since, answer>>
    BY OutsideStep
  <1>4. SlotsFollow' /\ Telling' /\ Logs' /\ AnsweredIsTold'
    BY <1>2, <1>3, SameTables
  <1>6. RegistersOnce'
    <2>1. CASE StartPackage(q)
      <3>1. waitingP' = Append(waitingP, q) /\ pkg[q] = "off" /\ pkg' = [pkg EXCEPT ![q] = "up"]
        BY <2>1 DEF StartPackage
      <3>2. waitingP \in Seq(Packages) /\ pkg \in [Packages -> {"off", "up", "left"}]
        BY <1>1 DEF TypeOK
      <3>3. \A i \in 1..Len(waitingP) : waitingP[i] # q
        BY <1>1, <3>1 DEF RegistersOnce
      <3>4. Len(waitingP') = Len(waitingP) + 1 /\ Len(waitingP) \in Nat
            /\ \A i \in 1..Len(waitingP') :
                  waitingP'[i] = IF i = Len(waitingP) + 1 THEN q ELSE waitingP[i]
        BY <3>1, <3>2
      <3>5. Range(packs)' = Range(packs)
        BY <1>3 DEF Range
      <3>6. q \notin Range(packs)
        BY <1>1, <3>1 DEF RegistersOnce
      <3>7. \A i, j \in 1..Len(waitingP') : waitingP'[i] = waitingP'[j] => i = j
        BY <1>1, <3>3, <3>4 DEF RegistersOnce
      <3>8. \A i \in 1..Len(waitingP') : waitingP'[i] \notin Range(packs)
        BY <1>1, <3>4, <3>6 DEF RegistersOnce
      <3>9. \A p \in Packages : pkg'[p] = "off" =>
               p \notin Range(packs) /\ \A i \in 1..Len(waitingP') : waitingP'[i] # p
        BY <1>1, <3>1, <3>2, <3>4 DEF RegistersOnce
      <3>10. \A i, j \in 1..Len(packs) : packs[i] = packs[j] => i = j
        BY <1>1 DEF RegistersOnce
      <3>11. nc = "package" =>
                /\ pkg'[cur] # "off" /\ cur \notin Range(packs)
                /\ \A i \in 1..Len(waitingP') : waitingP'[i] # cur
        <4>1. nc = "package" => cur \in Packages
          BY <1>1 DEF TypeOK
        <4>2. nc = "package" => pkg[cur] # "off" /\ cur \notin Range(packs)
                                /\ \A i \in 1..Len(waitingP) : waitingP[i] # cur
          BY <1>1 DEF RegistersOnce
        <4>3. nc = "package" => cur # q
          BY <3>1, <4>2
        <4>. QED
          BY <3>1, <3>2, <3>4, <4>1, <4>2, <4>3
      <3>. QED
        BY <1>3, <3>5, <3>7, <3>8, <3>9, <3>10, <3>11 DEF RegistersOnce
    <2>2. CASE IntroducePackage(q) \/ LeavePackage(q) \/ Package(q)
      <3>1. waitingP' = waitingP
        BY <2>2 DEF IntroducePackage, LeavePackage, Package, StoreNewClient, HandleClientTcp, UdpNumber, UdpText,
                    TcpText, TcpNumber, HangUp, queueVars
      <3>2. \A p \in Packages : pkg'[p] = "off" => pkg[p] = "off"
        BY <1>1, <2>2 DEF IntroducePackage, packageVars, LeavePackage, Package, StoreNewClient, HandleClientTcp, UdpNumber,
                    UdpText, TcpText, TcpNumber, HangUp, TypeOK
      <3>3. nc = "package" => cur \in Packages
        BY <1>1 DEF TypeOK
      <3>. QED
        BY <1>1, <1>3, <3>1, <3>2, <3>3 DEF RegistersOnce, Range
    <2>. QED
      BY <2>1, <2>2
  <1>7. ToldLater'
    <2>1. \A p \in Packages : known[p] = <<>> /\ down[p] = <<>> => known'[p] = <<>> /\ down'[p] = <<>>
      BY <1>1 DEF StartPackage, IntroducePackage, LeavePackage, Package, StoreNewClient, HandleClientTcp, UdpNumber,
                  UdpText, TcpText, TcpNumber, HangUp, packageVars, linkVars, TypeOK
    <2>. QED
      BY <1>1, <1>3, <2>1 DEF ToldLater, Range
  <1>. QED
    BY <1>2, <1>4, <1>6, <1>7 DEF RelayInv

LEMMA ClientInv ==
  ASSUME RelayInv, NEW d \in Clients, Client(d)
  PROVE  RelayInv'
  <1>1. TypeOK /\ RegistersOnce /\ SlotsFollow /\ ToldLater
    BY DEF RelayInv
  <1>2. TypeOK'
    BY <1>1, ClientType
  <1>3. UNCHANGED <<nc, cur, packs, slots, pos, registered, since, answer>>
    BY OutsideStep
  <1>4. UNCHANGED <<waitingP, pkg, known, down>>
    BY DEF Client, Connect, Choose, Introduce, Write, Answered, Talk, SayNumber, SayText, UdpRecv, Quit,
           queueVars, packageVars, linkVars
  <1>5. \A p \in Packages : Told(p)' = Told(p)
    BY <1>4 DEF Told
  <1>6. SlotsFollow' /\ Telling' /\ Logs' /\ AnsweredIsTold'
    BY <1>2, <1>3, <1>5, SameTables
  <1>7. RegistersOnce' /\ ToldLater'
    BY <1>1, <1>3, <1>4 DEF RegistersOnce, ToldLater, Range
  <1>. QED
    BY <1>2, <1>6, <1>7 DEF RelayInv

\* The invariant behind the two theorems below: a package registers once, its
\* slot follows it, its log starts when it registers, and during a broadcast
\* exactly those that come later in poll_fds miss the new client.
THEOREM RelayInvariant == Spec => []RelayInv
  <1>1. ASSUME RelayInv, UNCHANGED vars PROVE RelayInv'
    <2>1. TypeOK /\ RegistersOnce /\ SlotsFollow /\ ToldLater
      BY <1>1 DEF RelayInv
    <2>2. TypeOK'
      BY <1>1, <2>1, NextType
    <2>3. /\ UNCHANGED <<nc, cur, packs, slots, pos, registered, since, answer>>
          /\ UNCHANGED <<waitingP, pkg, known, down>>
      BY <1>1 DEF vars, queueVars, centerVars, packageVars, linkVars
    <2>4. SlotsFollow' /\ Telling' /\ Logs' /\ AnsweredIsTold'
      BY <1>1, <2>2, <2>3, SameTables DEF Told
    <2>5. RegistersOnce' /\ ToldLater'
      BY <2>1, <2>3 DEF RegistersOnce, ToldLater, Range
    <2>. QED
      BY <2>2, <2>4, <2>5 DEF RelayInv
  <1>2. RelayInv /\ [Next]_vars => RelayInv'
    BY <1>1, CenterInv, PackageInv, ClientInv DEF Next
  <1>. QED
    BY <1>2, InitInv, PTL DEF Spec

LEMMA LogsKnown == RelayInv => KnownIsLog
  <1> SUFFICES ASSUME RelayInv, NEW p \in Range(packs)
               PROVE  \/ Told(p) = Since(p, Len(registered))
                      \/ nc \in {"tell", "dead"} /\ Told(p) = Since(p, Len(registered) - 1)
    BY DEF KnownIsLog
  <1>1. PICK i \in 1..Len(packs) : packs[i] = p
    BY PacksType DEF RelayInv
  <1>2. LogAt(i)
    BY DEF RelayInv, Logs
  <1>. QED
    BY <1>1, <1>2 DEF LogAt, RelayInv, Telling

\* However many packages and clients there are and whoever leaves, what a
\* package knows or has still to read is the center's list from the package's
\* registration on (NC.c 362-376, P.c 215-226).
THEOREM KnownIsLogAlways == Spec => []KnownIsLog
  <1>1. RelayInv => KnownIsLog
    BY LogsKnown
  <1>. QED
    BY <1>1, RelayInvariant, PTL

\* No client is given the address of a package that has not been told of it
\* (NC.c 368-388).
THEOREM AnsweredIsToldAlways == Spec => []AnsweredIsTold
  BY RelayInvariant, PTL DEF RelayInv

-----------------------------------------------------------------------------
(* What the center dies of *)

\* A package that has left, or a client that is gone, does not come back, and a
\* package that has left sends no records any more.
LEMMA LeftForGood ==
  ASSUME TypeOK, [Next]_vars
  PROVE  /\ \A p \in Packages : pkg[p] = "left" => pkg'[p] = "left"
         /\ \A c \in Clients : cpc[c] = "gone" => cpc'[c] = "gone"
         /\ \A p \in Packages \ introduced : pkg[p] = "left" => p \notin introduced'
  <1> USE DEF TypeOK
  <1>1. CASE Center
    BY <1>1 DEF Center, AcceptPackage, ReadPackage, PackageHungUp, AcceptClient,
        ClientHungUp, Refuse, ReadClient, TellPackage, BreakOff, AnswerClient, NoticeLeft, queueVars, packageVars, clientVars, pairVars
  <1>2. ASSUME NEW q \in Packages, StartPackage(q) \/ IntroducePackage(q) \/ LeavePackage(q) \/ Package(q)
        PROVE  \A p \in Packages : /\ pkg[p] = "left" => pkg'[p] = "left"
                                   /\ pkg[p] = "left" /\ p \notin introduced => p \notin introduced'
    BY <1>2 DEF StartPackage, IntroducePackage, LeavePackage, Package, StoreNewClient, HandleClientTcp, UdpNumber,
                UdpText, TcpText, TcpNumber, HangUp, packageVars, queueVars
  <1>3. ASSUME NEW q \in Packages, StartPackage(q) \/ IntroducePackage(q) \/ LeavePackage(q) \/ Package(q)
        PROVE  cpc' = cpc
    BY <1>3 DEF StartPackage, IntroducePackage, LeavePackage, Package, StoreNewClient, HandleClientTcp, UdpNumber,
                UdpText, TcpText, TcpNumber, HangUp, clientVars, pairVars
  <1>4. ASSUME NEW d \in Clients, Client(d)
        PROVE  pkg' = pkg /\ \A c \in Clients : cpc[c] = "gone" => cpc'[c] = "gone"
    BY <1>4 DEF Client, Connect, Choose, Introduce, Write, Answered, Talk, SayNumber, SayText, Say, UdpRecv, Quit,
                Running, Goto, packageVars
  <1>5. ASSUME NEW d \in Clients, Client(d)
        PROVE  introduced' \subseteq introduced \cup {d}
    BY <1>5 DEF Client, Connect, Choose, Introduce, Answered, Talk, SayNumber, SayText, UdpRecv, Quit, queueVars
  <1>6. CASE UNCHANGED vars
    BY <1>6 DEF vars, queueVars, packageVars, clientVars, pairVars
  <1>. QED
    BY <1>1, <1>2, <1>3, <1>4, <1>5, <1>6, RelayAssumption DEF Next

\* The center alone changes its tables, and dies for good.
LEMMA DeathStep == RelayInv /\ DeathInv /\ [Next]_vars => DeathInv'
  <1> SUFFICES ASSUME RelayInv, DeathInv, [Next]_vars PROVE DeathInv'
    OBVIOUS
  <1>1. TypeOK /\ RegistersOnce /\ SlotsFollow /\ Telling
    BY DEF RelayInv
  <1>2. /\ \A p \in Packages : pkg[p] = "left" => pkg'[p] = "left"
        /\ \A c \in Clients : cpc[c] = "gone" => cpc'[c] = "gone"
        /\ \A p \in Packages \ introduced : pkg[p] = "left" => p \notin introduced'
    BY <1>1, LeftForGood
  <1>3. \A i \in 1..Len(packs) : packs[i] \in Packages /\ packs[i] \in Range(packs)
    BY <1>1, PacksType
  <1>4. Len(slots) = Len(packs) /\ \A i \in 1..Len(slots) : slots[i] \in {packs[i], None}
    BY <1>1 DEF SlotsFollow
  <1>5. CASE UNCHANGED <<nc, cur, packs, slots, pos>>
    <2>1. EmptySlotsLeft'
      BY <1>2, <1>3, <1>4, <1>5 DEF DeathInv, EmptySlotsLeft
    <2>2. CenterDiesOfLeavers'
      BY <1>2, <1>3, <1>5 DEF DeathInv, CenterDiesOfLeavers
    <2>. QED
      BY <2>1, <2>2 DEF DeathInv
  <1>6. CASE ReadPackage
    <2>1. cur \in Packages
      BY <1>1, <1>6 DEF TypeOK, ReadPackage
    <2>2. packs' = Append(packs, cur) /\ slots' = Append(slots, cur) /\ nc' = "poll" /\ pkg' = pkg
      BY <1>6 DEF ReadPackage, packageVars
    <2>3. packs \in Seq(Packages) /\ slots \in Seq(Packages \cup {None})
      BY <1>1 DEF TypeOK
    <2>4. EmptySlotsLeft'
      BY <1>4, <2>1, <2>2, <2>3, RelayAssumption DEF DeathInv, EmptySlotsLeft
    <2>. QED
      BY <2>2, <2>4 DEF DeathInv, CenterDiesOfLeavers
  <1>7. CASE AcceptPackage \/ AcceptClient \/ Refuse \/ ReadClient \/ TellPackage
    <2>1. nc' # "dead" /\ UNCHANGED <<packs, slots, pkg>>
      BY <1>7 DEF AcceptPackage, AcceptClient, Refuse, ReadClient, TellPackage, packageVars
    <2>. QED
      BY <2>1 DEF DeathInv, EmptySlotsLeft, CenterDiesOfLeavers
  <1>8. CASE ClientHungUp \/ AnswerClient
    <2>1. /\ UNCHANGED <<cur, packs, slots, pkg, cpc>> /\ cur \in Clients
          /\ nc' = "dead" => cpc[cur] = "gone"
      BY <1>1, <1>8 DEF ClientHungUp, AnswerClient, packageVars, clientVars, TypeOK
    <2>. QED
      BY <2>1 DEF DeathInv, EmptySlotsLeft, CenterDiesOfLeavers
  <1>9. CASE PackageHungUp
    <2>1. /\ UNCHANGED <<cur, packs, slots, pkg, introduced>>
          /\ cur \in Packages \ introduced /\ pkg[cur] = "left"
      BY <1>1, <1>9 DEF PackageHungUp, queueVars, packageVars, TypeOK
    <2>. QED
      BY <2>1 DEF DeathInv, EmptySlotsLeft, CenterDiesOfLeavers
  <1>10. CASE BreakOff
    <2>1. /\ UNCHANGED <<cur, packs, slots, pos, pkg>> /\ pos \in 1..Len(packs)
          /\ slots[pos] \notin {p \in Packages : pkg[p] = "up"}
      BY <1>1, <1>4, <1>10 DEF BreakOff, packageVars, TypeOK, Telling
    <2>2. pkg[packs[pos]] # "up"
      BY <1>3, <1>4, <2>1 DEF DeathInv, EmptySlotsLeft
    <2>3. pkg[packs[pos]] # "off"
      BY <1>1, <1>3, <2>1 DEF RegistersOnce
    <2>4. pkg[packs[pos]] = "left"
      BY <1>1, <1>3, <2>1, <2>2, <2>3 DEF TypeOK
    <2>5. CenterDiesOfLeavers'
      BY <2>1, <2>4 DEF CenterDiesOfLeavers
    <2>. QED
      BY <2>1, <2>5 DEF DeathInv, EmptySlotsLeft
  <1>11. CASE NoticeLeft
    <2>1. PICK i \in 1..Len(slots) : /\ slots[i] # None /\ pkg[slots[i]] = "left"
                                    /\ slots' = [slots EXCEPT ![i] = None]
      BY <1>11 DEF NoticeLeft
    <2>2. nc = "poll" /\ UNCHANGED <<nc, packs, pkg>>
      BY <1>11 DEF NoticeLeft, packageVars
    <2>3. slots \in Seq(Packages \cup {None})
      BY <1>1 DEF TypeOK
    <2>4. EmptySlotsLeft'
      BY <1>4, <2>1, <2>2, <2>3 DEF DeathInv, EmptySlotsLeft
    <2>. QED
      BY <2>2, <2>4 DEF DeathInv, CenterDiesOfLeavers
  <1>12. ASSUME ~Center PROVE UNCHANGED <<nc, cur, packs, slots, pos>>
    <2>1. CASE UNCHANGED vars
      BY <2>1 DEF vars, centerVars
    <2>. QED
      BY <1>12, <2>1, OutsideStep DEF Next
  <1>. QED
    BY <1>5, <1>6, <1>7, <1>8, <1>9, <1>10, <1>11, <1>12 DEF Center

\* The name center never dies but of the client it serves, of a package that
\* ended before it had sent its five records, or of the package it is telling
\* of a client, however many of each there are (NC.c 235-254, 304-322, 362-388).
THEOREM CenterDiesOfLeaversAlways == Spec => []CenterDiesOfLeavers
  <1>1. Init => DeathInv
    BY DEF Init, DeathInv, EmptySlotsLeft, CenterDiesOfLeavers
  <1>. QED
    BY <1>1, RelayInvariant, DeathStep, PTL DEF Spec, DeathInv

-----------------------------------------------------------------------------
(* Who is sent what *)

\* What a step of a client does to where it is.
LEMMA ClientMoves ==
  ASSUME TypeOK, ComesOnce, NEW c \in Clients, Client(c), ~Connect(c)
  PROVE  /\ UNCHANGED <<waitingC, answer, nc, cur>>
         /\ cpc[c] # "off" /\ \E l \in CPC \ {"off"} : cpc' = [cpc EXCEPT ![c] = l]
         /\ cpc'[c] \in {"talk", "text"} => answer[c] \in Packages
  <1> USE DEF Goto, Running, CPC
  <1>1. UNCHANGED <<waitingC, answer, nc, cur>>
    BY DEF Client, Choose, Introduce, Write, Answered, Talk, SayNumber, SayText, UdpRecv, Quit, queueVars,
           linkVars, centerVars
  <1>2. cpc[c] \in {"talk", "text"} => answer[c] \in Packages
    BY DEF ComesOnce
  <1>3. CASE Choose(c) \/ Introduce(c) \/ Answered(c) \/ Quit(c)
    BY <1>1, <1>2, <1>3 DEF Choose, Introduce, Write, Answered, Quit, TypeOK
  <1>4. CASE SayText(c) \/ \E n \in Numbers : SayNumber(c, n)
    BY <1>1, <1>2, <1>4 DEF SayText, SayNumber, Say, TypeOK
  <1>5. CASE UdpRecv(c)
    <2>1. cpc[c] = "talk"
      BY <1>5 DEF UdpRecv
    <2>2. cpc' = [cpc EXCEPT ![c] = "gone"] \/ cpc' = cpc
      BY <1>5 DEF UdpRecv
    <2>3. cpc = [cpc EXCEPT ![c] = "talk"]
      BY <2>1 DEF TypeOK
    <2>. QED
      BY <1>1, <1>2, <2>1, <2>2, <2>3
  <1>. QED
    BY <1>3, <1>4, <1>5 DEF Client, Talk

LEMMA ComesOnceStep ==
  ASSUME TypeOK, ComesOnce, [Next]_vars
  PROVE  ComesOnce'
  <1>1. ASSUME UNCHANGED <<waitingC, answer, cpc>>,
               nc' \in {"client", "tell"} => nc \in {"client", "tell"} /\ cur' = cur
        PROVE  ComesOnce'
    BY <1>1 DEF ComesOnce
  <1>2. CASE AcceptPackage \/ ReadPackage \/ PackageHungUp \/ ClientHungUp \/ ReadClient
             \/ TellPackage \/ BreakOff \/ NoticeLeft
    BY <1>1, <1>2 DEF AcceptPackage, ReadPackage, PackageHungUp, ClientHungUp, ReadClient,
                      TellPackage, BreakOff, NoticeLeft, queueVars, clientVars, linkVars
  <1>3. CASE AcceptClient
    <2>1. /\ waitingC # <<>> /\ waitingC' = Tail(waitingC) /\ cur' = Head(waitingC)
          /\ UNCHANGED <<answer, cpc>> /\ nc = "poll"
      BY <1>3 DEF AcceptClient, clientVars, pairVars, linkVars
    <2>2. waitingC \in Seq(Clients)
      BY DEF TypeOK
    <2>3. /\ cur' = waitingC[1] /\ 1 \in 1..Len(waitingC) /\ Len(waitingC') = Len(waitingC) - 1
          /\ Len(waitingC) \in Nat
          /\ \A i \in 1..Len(waitingC') : waitingC'[i] = waitingC[i + 1]
      BY <2>1, <2>2
    <2>4. \A i \in 1..Len(waitingC') : i + 1 \in 1..Len(waitingC) /\ i + 1 # 1
      BY <2>3
    <2>5. \A i, j \in 1..Len(waitingC') : waitingC'[i] = waitingC'[j] => i = j
      BY <2>3, <2>4 DEF ComesOnce
    <2>6. \A i \in 1..Len(waitingC') :
             /\ answer[waitingC'[i]] = None /\ cpc[waitingC'[i]] # "off" /\ waitingC'[i] # cur'
      BY <2>3, <2>4 DEF ComesOnce
    <2>7. answer[cur'] = None /\ cpc[cur'] # "off"
      BY <2>3 DEF ComesOnce
    <2>. QED
      BY <2>1, <2>5, <2>6, <2>7 DEF ComesOnce
  <1>4. CASE Refuse \/ AnswerClient
    <2>1. /\ UNCHANGED <<waitingC, cur, cpc>>
          /\ nc \in {"client", "tell"} /\ nc' \notin {"client", "tell"}
          /\ cur \in Clients /\ \E a : answer' = [answer EXCEPT ![cur] = a]
      BY <1>4 DEF Refuse, AnswerClient, queueVars, clientVars, TypeOK
    <2>2. /\ answer[cur] = None /\ cpc[cur] # "off" /\ cpc[cur] \notin {"talk", "text"}
      BY <2>1, RelayAssumption DEF ComesOnce
    <2>3. \A c \in Clients : c # cur => answer'[c] = answer[c]
      BY <2>1 DEF TypeOK
    <2>4. \A i \in 1..Len(waitingC) : waitingC[i] \in Clients /\ waitingC[i] # cur
      BY <2>1 DEF ComesOnce, TypeOK
    <2>. QED
      BY <2>1, <2>2, <2>3, <2>4 DEF ComesOnce
  <1>5. ASSUME NEW q \in Packages, StartPackage(q) \/ IntroducePackage(q) \/ LeavePackage(q) \/ Package(q)
        PROVE  ComesOnce'
    BY <1>1, <1>5 DEF StartPackage, IntroducePackage, LeavePackage, Package, StoreNewClient, HandleClientTcp,
                UdpNumber, UdpText, TcpText, TcpNumber, HangUp, queueVars, clientVars, pairVars, centerVars,
                linkVars
  <1>6. ASSUME NEW c \in Clients, Connect(c)
        PROVE  ComesOnce'
    <2>1. /\ waitingC' = Append(waitingC, c) /\ cpc[c] = "off" /\ cpc' = [cpc EXCEPT ![c] = "choose"]
          /\ UNCHANGED <<answer, nc, cur>>
      BY <1>6 DEF Connect, Goto, centerVars, linkVars
    <2>2. waitingC \in Seq(Clients) /\ cpc \in [Clients -> CPC]
      BY DEF TypeOK
    <2>3. Len(waitingC') = Len(waitingC) + 1 /\ Len(waitingC) \in Nat
          /\ \A i \in 1..Len(waitingC') :
                waitingC'[i] = IF i = Len(waitingC) + 1 THEN c ELSE waitingC[i]
      BY <2>1, <2>2
    <2>4. \A i \in 1..Len(waitingC) : waitingC[i] # c
      BY <2>1 DEF ComesOnce
    <2>5. answer[c] = None /\ (nc \in {"client", "tell"} => cur # c)
      BY <2>1 DEF ComesOnce
    <2>6. \A d \in Clients : cpc'[d] = IF d = c THEN "choose" ELSE cpc[d]
      BY <2>1, <2>2
    <2>7. \A i, j \in 1..Len(waitingC') : waitingC'[i] = waitingC'[j] => i = j
      BY <2>3, <2>4 DEF ComesOnce
    <2>8. \A i \in 1..Len(waitingC) : waitingC[i] \in Clients
      BY <2>2
    <2>9. \A i \in 1..Len(waitingC') :
             /\ answer[waitingC'[i]] = None /\ cpc'[waitingC'[i]] # "off"
             /\ nc \in {"client", "tell"} => waitingC'[i] # cur
      <3> SUFFICES ASSUME NEW i \in 1..Len(waitingC')
                   PROVE  /\ answer[waitingC'[i]] = None /\ cpc'[waitingC'[i]] # "off"
                          /\ nc \in {"client", "tell"} => waitingC'[i] # cur
        OBVIOUS
      <3>1. CASE i = Len(waitingC) + 1
        BY <2>3, <2>5, <2>6, <3>1
      <3>2. CASE i \in 1..Len(waitingC)
        BY <2>3, <2>6, <2>8, <3>2 DEF ComesOnce
      <3>. QED
        BY <2>3, <3>1, <3>2
    <2>10. nc \in {"client", "tell"} => answer[cur] = None /\ cpc'[cur] # "off"
      <3> SUFFICES ASSUME nc \in {"client", "tell"} PROVE answer[cur] = None /\ cpc'[cur] # "off"
        OBVIOUS
      <3>1. cur \in Clients
        BY DEF TypeOK
      <3>. QED
        BY <2>5, <2>6, <3>1 DEF ComesOnce
    <2>11. \A d \in Clients : /\ cpc'[d] = "off" => answer[d] = None
                             /\ cpc'[d] \in {"talk", "text"} => answer[d] \in Packages
      BY <2>6 DEF ComesOnce
    <2>. QED
      BY <2>1, <2>7, <2>9, <2>10, <2>11 DEF ComesOnce
  <1>7. ASSUME NEW c \in Clients, Client(c), ~Connect(c)
        PROVE  ComesOnce'
    <2>1. /\ UNCHANGED <<waitingC, answer, nc, cur>>
          /\ cpc'[c] \in {"talk", "text"} => answer[c] \in Packages
      BY <1>7, ClientMoves
    <2>2. PICK l \in CPC \ {"off"} : cpc' = [cpc EXCEPT ![c] = l]
      BY <1>7, ClientMoves
    <2>3. \A d \in Clients : cpc'[d] = IF d = c THEN l ELSE cpc[d]
      BY <2>2 DEF TypeOK
    <2>4. (\A i \in 1..Len(waitingC) : waitingC[i] \in Clients) /\ (nc \in {"client", "tell"} => cur \in Clients)
      BY DEF TypeOK
    <2>5. \A d \in Clients : cpc[d] # "off" => cpc'[d] # "off"
      BY <2>3
    <2>6. \A d \in Clients : /\ cpc'[d] = "off" => answer[d] = None
                             /\ cpc'[d] \in {"talk", "text"} => answer[d] \in Packages
      BY <2>1, <2>3 DEF ComesOnce
    <2>. QED
      BY <2>1, <2>4, <2>5, <2>6 DEF ComesOnce
  <1>8. CASE UNCHANGED vars
    BY <1>1, <1>8 DEF vars, queueVars, centerVars, clientVars, pairVars, linkVars
  <1>. QED
    BY <1>2, <1>3, <1>4, <1>5, <1>6, <1>7, <1>8 DEF Next, Center

LEMMA RangeHeadTail ==
  ASSUME NEW S, NEW s \in Seq(S), s # <<>>
  PROVE  Head(s) \in Range(s) /\ Range(Tail(s)) \subseteq Range(s)
  <1>1. Len(s) \in Nat /\ 1 \in 1..Len(s) /\ DOMAIN s = 1..Len(s) /\ Head(s) = s[1]
    OBVIOUS
  <1>2. DOMAIN Tail(s) = 1..Len(s) - 1 /\ \A i \in 1..Len(s) - 1 : Tail(s)[i] = s[i + 1]
    OBVIOUS
  <1>3. \A i \in 1..Len(s) - 1 : i + 1 \in DOMAIN s
    BY <1>1
  <1>. QED
    BY <1>1, <1>2, <1>3 DEF Range

\* A package knows registered clients only.
LEMMA KnownRegistered ==
  ASSUME RelayInv, NEW p \in Packages, NEW i \in DOMAIN known[p]
  PROVE  known[p][i] \in Range(registered)
  <1>1. known[p] \in Seq(Clients) /\ down[p] \in Seq(Clients) /\ registered \in Seq(Clients)
        /\ since[p] \in 0..Len(registered)
    BY DEF RelayInv, TypeOK, ToldLater
  <1>2. i \in 1..Len(known[p]) /\ known[p] # <<>>
    BY <1>1
  <1>3. p \in Range(packs)
    BY <1>2 DEF RelayInv, ToldLater
  <1>4. PICK n \in {Len(registered), Len(registered) - 1} : Told(p) = Since(p, n)
    BY <1>3, LogsKnown DEF KnownIsLog
  <1>5. i \in 1..Len(Told(p)) /\ Told(p)[i] = known[p][i]
    <2>1. Len(Told(p)) = Len(known[p]) + Len(down[p])
      BY <1>1 DEF Told
    <2>2. i \in 1..(Len(known[p]) + Len(down[p])) /\ i <= Len(known[p])
      <3>1. Len(known[p]) \in Nat /\ Len(down[p]) \in Nat
        BY <1>1
      <3>2. \A a, b \in Nat : \A j \in 1..a : j \in 1..(a + b) /\ j <= a
        OBVIOUS
      <3>. QED
        BY <1>2, <3>1, <3>2
    <2>. QED
      BY <1>1, <2>1, <2>2, ConcatAt DEF Told
  <1>6. since[p] + i \in 1..Len(registered) /\ Since(p, n)[i] = registered[since[p] + i]
    <2> DEFINE m == since[p]
    <2>1. m \in Nat /\ n \in Int /\ n <= Len(registered) /\ Len(registered) \in Nat
      BY <1>1, <1>4
    <2>2. Len(SubSeq(registered, m + 1, n)) = IF m + 1 <= n THEN n - m ELSE 0
      BY <1>1, <2>1
    <2>3. i \in 1..(n - m) /\ m + i <= n
      BY <1>4, <1>5, <2>1, <2>2 DEF Since
    <2>4. SubSeq(registered, m + 1, n)[i] = registered[m + i]
      BY <1>1, <2>1, <2>3
    <2>5. m + i \in 1..Len(registered)
      <3>1. i \in Nat /\ 1 <= i
        BY <1>2, <2>1, <2>3
      <3>2. PICK a \in Nat, l \in Nat : a = m /\ l = Len(registered)
        BY <2>1
      <3>3. a + i <= l
        BY <2>1, <2>3, <3>1, <3>2
      <3>4. a + i \in 1..l
        BY ONLY <3>1, <3>2, <3>3
      <3>. QED
        BY <3>2, <3>4
    <2>6. Since(p, n)[i] = registered[m + i]
      BY <2>4 DEF Since
    <2>. QED
      BY <2>5, <2>6
  <1>. QED
    BY <1>1, <1>4, <1>5, <1>6 DEF Range

\* Who gets what is forwarded (P.c 236-251, 282-300).
LEMMA ForwardReaches ==
  ASSUME RelayInv, NEW p \in Packages, NEW n, NEW r \in Record, Forward(p, n, r),
         NEW d \in Clients, NEW x \in Range(inbox'[d])
  PROVE  \/ x \in Range(inbox[d])
         \/ x = r /\ \E e \in Range(registered) : AddrOf[e] = AddrOf[d] /\ NumberOf[e] = n
  <1> DEFINE k == Copies(p, n, d)
             q == [i \in 1..k |-> r]
  <1>1. TypeOK /\ inbox[d] \in Seq(Record) /\ known[p] \in Seq(Clients)
    BY DEF RelayInv, TypeOK
  <1>2. k \in Nat
    BY <1>1, CopiesType
  <1>3. q \in Seq(Record) /\ Len(q) = k /\ \A i \in 1..k : q[i] = r
    <2>. HIDE DEF k
    <2>. QED
      BY <1>2
  <1>4. CASE inbox'[d] = inbox[d]
    BY <1>4
  <1>5. CASE inbox'[d] = inbox[d] \o q
    <2>. HIDE DEF q
    <2>1. Len(inbox[d] \o q) = Len(inbox[d]) + k /\ inbox[d] \o q \in Seq(Record)
          /\ Len(inbox[d]) \in Nat
      BY <1>1, <1>3
    <2>2. DOMAIN (inbox[d] \o q) = 1..(Len(inbox[d]) + Len(q))
      BY <1>3, <2>1
    <2>3. PICK j \in 1..(Len(inbox[d]) + Len(q)) : x = (inbox[d] \o q)[j]
      BY <1>5, <2>2 DEF Range
    <2>4. x = IF j <= Len(inbox[d]) THEN inbox[d][j] ELSE q[j - Len(inbox[d])]
      BY <1>1, <1>3, <2>3, ConcatAt
    <2>5. CASE j <= Len(inbox[d])
      <3>1. j \in DOMAIN inbox[d]
        BY <1>1, <2>1, <2>3, <2>5
      <3>. QED
        BY <2>4, <2>5, <3>1 DEF Range
    <2>6. CASE ~(j <= Len(inbox[d]))
      <3>. HIDE DEF k
      <3>1. j - Len(inbox[d]) \in 1..k /\ k # 0
        BY <1>2, <1>3, <2>1, <2>3, <2>6
      <3>2. x = r
        BY <1>3, <2>4, <2>6, <3>1
      <3>3. PICK i \in DOMAIN known[p] : NumberOf[known[p][i]] = n /\ AddrOf[known[p][i]] = AddrOf[d]
        BY <3>1, FS_EmptySet DEF Copies, k
      <3>. QED
        BY <3>2, <3>3, KnownRegistered
    <2>. QED
      BY <2>5, <2>6
  <1>. QED
    BY <1>4, <1>5 DEF Forward

\* A record that comes to a user was forwarded by a package for the number it
\* holds: it is the record that followed, or the end of the connection.
LEMMA Handed ==
  ASSUME RelayInv, [Next]_vars, NEW d \in Clients, NEW x \in Range(inbox'[d])
  PROVE  \/ x \in Range(inbox[d])
         \/ \E p \in Packages :
              /\ pkg[p] = "up"
              /\ \E e \in Range(registered) : AddrOf[e] = AddrOf[d] /\ NumberOf[e] = held[p].to
              /\ \/ /\ ppc[p] = "udp" /\ held[p].part = "number"
                    /\ udpq[p] # <<>> /\ x = Head(udpq[p])
                 \/ /\ ppc[p] = "tcp"
                    /\ tcpq[held[p].from] # <<>> /\ x = Head(tcpq[held[p].from])
                 \/ /\ ppc[p] = "tcp" /\ tcpq[held[p].from] = <<>> /\ cpc[held[p].from] = "gone"
                    /\ x = [held[p] EXCEPT !.part = "empty"]
  <1>1. TypeOK
    BY DEF RelayInv
  <1>2. CASE \E p \in Packages : UdpText(p)
    <2>. PICK p \in Packages : UdpText(p)
      BY <1>2
    <2>1. CASE held[p].part # "number"
      BY <2>1 DEF UdpText
    <2>2. CASE held[p].part = "number"
      <3>1. /\ Forward(p, held[p].to, Head(udpq[p])) /\ udpq[p] # <<>>
            /\ pkg[p] = "up" /\ ppc[p] = "udp" /\ udpq[p] \in Seq(Record)
        BY <1>1, <2>2 DEF UdpText, TypeOK
      <3>2. Head(udpq[p]) \in Record
        BY <3>1, SeqTypes
      <3>3. \/ x \in Range(inbox[d])
            \/ x = Head(udpq[p])
               /\ \E e \in Range(registered) : AddrOf[e] = AddrOf[d] /\ NumberOf[e] = held[p].to
        BY <3>1, <3>2, ForwardReaches
      <3>. QED
        BY <2>2, <3>1, <3>3
    <2>. QED
      BY <2>1, <2>2
  <1>3. CASE \E p \in Packages : TcpText(p)
    <2>. PICK p \in Packages : TcpText(p)
      BY <1>3
    <2> DEFINE c == held[p].from
               r == [held[p] EXCEPT !.part = "empty"]
    <2>1. /\ pkg[p] = "up" /\ ppc[p] = "tcp" /\ held[p] \in Record
          /\ \/ tcpq[c] # <<>> /\ Forward(p, held[p].to, Head(tcpq[c]))
             \/ tcpq[c] = <<>> /\ cpc[c] = "gone" /\ Forward(p, held[p].to, r)
      BY <1>1 DEF TcpText, TypeOK
    <2>2. c \in Clients /\ tcpq[c] \in Seq(Record) /\ r \in Record
      BY <1>1, <2>1 DEF Record, TypeOK
    <2>3. CASE tcpq[c] # <<>> /\ Forward(p, held[p].to, Head(tcpq[c]))
      <3>1. Head(tcpq[c]) \in Record
        BY <2>2, <2>3, SeqTypes
      <3>. HIDE DEF c, r
      <3>2. \/ x \in Range(inbox[d])
            \/ x = Head(tcpq[c])
               /\ \E e \in Range(registered) : AddrOf[e] = AddrOf[d] /\ NumberOf[e] = held[p].to
        BY <2>3, <3>1, ForwardReaches
      <3>. QED
        BY <2>1, <2>3, <3>2 DEF c
    <2>4. CASE tcpq[c] = <<>> /\ cpc[c] = "gone" /\ Forward(p, held[p].to, r)
      <3>. HIDE DEF c, r
      <3>1. \/ x \in Range(inbox[d])
            \/ x = r /\ \E e \in Range(registered) : AddrOf[e] = AddrOf[d] /\ NumberOf[e] = held[p].to
        BY <2>2, <2>4, ForwardReaches
      <3>. QED
        BY <2>1, <2>4, <3>1 DEF c, r
    <2>. QED
      BY <2>1, <2>3, <2>4
  <1>4. CASE \E c \in Clients : UdpRecv(c)
    <2>. PICK c \in Clients : UdpRecv(c)
      BY <1>4
    <2>1. inbox' = [inbox EXCEPT ![c] = Tail(@)] /\ inbox[c] # <<>> /\ inbox[c] \in Seq(Record)
      BY <1>1 DEF UdpRecv, TypeOK
    <2>2. Range(Tail(inbox[c])) \subseteq Range(inbox[c])
      BY <2>1, RangeHeadTail
    <2>3. inbox'[d] = inbox[d] \/ (d = c /\ inbox'[d] = Tail(inbox[c]))
      BY <1>1, <2>1 DEF TypeOK
    <2>. QED
      BY <2>2, <2>3
  <1>5. CASE /\ ~\E p \in Packages : UdpText(p) \/ TcpText(p)
             /\ ~\E c \in Clients : UdpRecv(c)
    <2>1. inbox' = inbox
      BY <1>5 DEF Next, Center, AcceptPackage, ReadPackage, PackageHungUp, AcceptClient,
          ClientHungUp, Refuse, ReadClient, TellPackage, BreakOff, AnswerClient, NoticeLeft, StartPackage,
          IntroducePackage, LeavePackage, Package, StoreNewClient, HandleClientTcp,
          UdpNumber, TcpNumber, HangUp, Client, Connect, Choose, Introduce, Answered,
          Talk, SayText, SayNumber, Quit, vars, linkVars
    <2>. QED
      BY <2>1
  <1>. QED
    BY <1>2, <1>3, <1>4, <1>5

-----------------------------------------------------------------------------
(* Who wrote what *)

\* What was said of a client that was named a package, and is past the answer,
\* stays true.
Settled ==
  /\ kind' = kind
  /\ \A c \in Clients : answer[c] \in Packages => answer'[c] = answer[c]
  /\ \A c \in Clients : ~Entering(c) => ~Entering(c)'

LEMMA SettledStays ==
  ASSUME TypeOK, ComesOnce, [Next]_vars
  PROVE  Settled
  <1>1. CASE Center
    <2>1. UNCHANGED <<kind, cpc>>
      BY <1>1 DEF Center, AcceptPackage, ReadPackage, PackageHungUp, AcceptClient,
          ClientHungUp, Refuse, ReadClient, TellPackage, BreakOff, AnswerClient, NoticeLeft, clientVars
    <2>2. CASE Refuse \/ AnswerClient
      <3>1. /\ nc \in {"client", "tell"} /\ cur \in Clients
            /\ \E a : answer' = [answer EXCEPT ![cur] = a]
        BY <2>2 DEF Refuse, AnswerClient, TypeOK
      <3>2. answer[cur] = None
        BY <3>1 DEF ComesOnce
      <3>3. \A c \in Clients : answer[c] \in Packages => answer'[c] = answer[c]
        BY <3>1, <3>2, RelayAssumption DEF TypeOK
      <3>. QED
        BY <2>1, <3>3 DEF Settled, Entering
    <2>3. CASE ~(Refuse \/ AnswerClient)
      <3>1. answer' = answer
        BY <1>1, <2>3 DEF Center, AcceptPackage, ReadPackage, PackageHungUp, AcceptClient,
            ClientHungUp, ReadClient, TellPackage, BreakOff, NoticeLeft, linkVars
      <3>. QED
        BY <2>1, <3>1 DEF Settled, Entering
    <2>. QED
      BY <2>2, <2>3
  <1>2. ASSUME NEW q \in Packages, StartPackage(q) \/ IntroducePackage(q) \/ LeavePackage(q) \/ Package(q)
        PROVE  Settled
    <2>1. UNCHANGED <<kind, cpc, answer>>
      BY <1>2 DEF StartPackage, IntroducePackage, LeavePackage, Package, StoreNewClient, HandleClientTcp,
             UdpNumber, UdpText, TcpText, TcpNumber, HangUp, clientVars, linkVars
    <2>. QED
      BY <2>1 DEF Settled, Entering
  <1>3. ASSUME NEW c \in Clients, Client(c)
        PROVE  Settled
    <2>1. UNCHANGED <<kind, answer>>
      BY <1>3 DEF Client, Connect, Choose, Introduce, Answered, Talk, SayText, SayNumber, UdpRecv, Quit, linkVars
    <2>2. UNCHANGED cpc \/ \E l \in CPC : Goto(c, l)
      BY <1>3 DEF Client, Connect, Choose, Introduce, Write, Answered, Talk, SayText, SayNumber, Say, UdpRecv,
             Quit, Goto, CPC
    <2>3. \A d \in Clients : d # c => cpc'[d] = cpc[d]
      BY <2>2 DEF Goto, TypeOK
    <2>4. ~Entering(c) => ~Entering(c)'
      <3>1. CASE Connect(c) \/ Choose(c) \/ Introduce(c) \/ Answered(c)
        BY <3>1 DEF Connect, Choose, Introduce, Answered, Entering
      <3>2. CASE SayText(c) \/ UdpRecv(c) \/ Quit(c) \/ \E n \in Numbers : SayNumber(c, n)
        <4>1. UNCHANGED cpc \/ \E l \in {"talk", "text", "gone"} : Goto(c, l)
          BY <3>2 DEF SayText, SayNumber, Say, UdpRecv, Quit
        <4>. QED
          BY <4>1 DEF Goto, Entering, TypeOK
      <3>. QED
        BY <1>3, <3>1, <3>2 DEF Client, Talk
    <2>. QED
      BY <2>1, <2>3, <2>4 DEF Settled, Entering
  <1>4. CASE UNCHANGED vars
    BY <1>4 DEF vars, clientVars, linkVars, Settled, Entering
  <1>. QED
    BY <1>1, <1>2, <1>3, <1>4 DEF Next

LEMMA SettledAt ==
  ASSUME Settled, NEW c \in Clients, NEW p \in Packages
  PROVE  /\ LiveAt(c, p) => LiveAt(c, p)'
         /\ PaidAt(c, p) => PaidAt(c, p)'
  BY DEF Settled, LiveAt, PaidAt

\* What a package has of clients that can write to it already had it before.
LEMMA OwnKept ==
  ASSUME TypeOK, OwnPackage, Settled, NEW p \in Packages,
         conns'[p] \cup Range(backlog'[p]) \subseteq conns[p] \cup Range(backlog[p]),
         \A i \in 1..Len(udpq'[p]) : \E j \in 1..Len(udpq[p]) : udpq'[p][i] = udpq[p][j],
         ppc'[p] = "tcp" => held'[p].from \in conns'[p],
         ppc'[p] = "udp" => \/ held'[p] = held[p] /\ ppc[p] = "udp"
                            \/ \E j \in 1..Len(udpq[p]) : held'[p] = udpq[p][j],
         open'[p] = open[p]
  PROVE  OwnToPackage(p)'
  <1>1. OwnToPackage(p)
    BY DEF OwnPackage
  <1>2. conns[p] \cup Range(backlog[p]) \subseteq Clients
    <2>1. backlog[p] \in Seq(Clients) /\ conns[p] \subseteq Clients
      BY DEF TypeOK
    <2>2. \A i \in DOMAIN backlog[p] : backlog[p][i] \in Clients
      BY <2>1
    <2>. QED
      BY <2>1, <2>2 DEF Range
  <1>3. \A j \in 1..Len(udpq[p]) : udpq[p][j].from \in Clients
    <2>1. udpq[p] \in Seq(Record)
      BY DEF TypeOK
    <2>2. \A j \in 1..Len(udpq[p]) : udpq[p][j] \in Record
      BY <2>1
    <2>. QED
      BY <2>2 DEF Record
  <1>4. ppc[p] = "udp" => held[p].from \in Clients
    BY DEF TypeOK, Record
  <1>5. open[p] # None => open[p] \in Clients
    BY DEF TypeOK
  <1>6. \A c \in conns'[p] \cup Range(backlog'[p]) : LiveAt(c, p)'
    BY <1>1, <1>2, SettledAt DEF OwnToPackage
  <1>7. \A r : \A j \in 1..Len(udpq[p]) : r = udpq[p][j] => PaidAt(r.from, p)'
    <2> SUFFICES ASSUME NEW r, NEW j \in 1..Len(udpq[p]), r = udpq[p][j] PROVE PaidAt(r.from, p)'
      OBVIOUS
    <2>1. r.from \in Clients /\ PaidAt(r.from, p)
      BY <1>1, <1>3 DEF OwnToPackage
    <2>. QED
      BY <2>1, SettledAt
  <1>8. \A i \in 1..Len(udpq'[p]) : PaidAt(udpq[p][i].from, p)'
    BY <1>7
  <1>9. ppc'[p] = "udp" => PaidAt(held[p].from, p)'
    <2>1. CASE held'[p] = held[p] /\ ppc[p] = "udp"
      <3>1. PICK c \in Clients : c = held[p].from
        BY <1>4, <2>1
      <3>2. PaidAt(c, p)'
        BY <1>1, <2>1, <3>1, SettledAt DEF OwnToPackage
      <3>. QED
        BY <2>1, <3>1, <3>2
    <2>. QED
      BY <1>7, <2>1
  <1>10. open'[p] # None => PaidAt(open[p], p)'
    <2> SUFFICES ASSUME open[p] # None PROVE PaidAt(open[p], p)'
      OBVIOUS
    <2>1. PICK c \in Clients : c = open[p]
      BY <1>5
    <2>2. PaidAt(c, p)'
      BY <1>1, <2>1, SettledAt DEF OwnToPackage
    <2>. QED
      BY <2>1, <2>2
  <1>11. Range(backlog[p])' = Range(backlog'[p])
    BY DEF Range
  <1>. QED
    BY <1>6, <1>8, <1>9, <1>10, <1>11 DEF OwnToPackage

\* The same for what is on the connection of a client.
LEMMA OwnConnKept ==
  ASSUME TypeOK, OwnPackage, Settled, NEW c \in Clients,
         tcpq'[c] # <<>> => tcpq[c] # <<>>,
         \A i \in 1..Len(tcpq'[c]) : \E j \in 1..Len(tcpq[c]) : tcpq'[c][i] = tcpq[c][j]
  PROVE  OwnToClient(c)'
  BY DEF OwnPackage, OwnToClient, Settled

LEMMA FromWritersStep ==
  ASSUME RelayInv, OwnPackage, Settled, [Next]_vars, NEW d \in Clients
  PROVE  FromWriters(d)'
  <1>0. TypeOK
    BY DEF RelayInv
  <1> SUFFICES ASSUME NEW x \in Range(inbox'[d])
               PROVE  answer'[x.from] \in Packages /\ ~Entering(x.from)'
    BY DEF FromWriters, Range
  <1>1. x.from \in Clients /\ answer[x.from] \in Packages /\ ~Entering(x.from)
    <2>1. CASE x \in Range(inbox[d])
      <3>1. inbox[d] \in Seq(Record)
        BY <1>0 DEF TypeOK
      <3>2. \A i \in DOMAIN inbox[d] : inbox[d][i] \in Record
        BY <3>1
      <3>3. x \in Record
        BY <2>1, <3>2 DEF Range
      <3>. QED
        BY <2>1, <3>3 DEF OwnPackage, FromWriters, Record
    <2>2. ASSUME NEW p \in Packages, ppc[p] = "udp", udpq[p] # <<>>, x = Head(udpq[p])
          PROVE  x.from \in Clients /\ answer[x.from] \in Packages /\ ~Entering(x.from)
      <3>1. udpq[p] \in Seq(Record)
        BY <1>0 DEF TypeOK
      <3>2. 1 \in 1..Len(udpq[p]) /\ x = udpq[p][1] /\ x \in Record
        BY <2>2, <3>1
      <3>. QED
        BY <3>2 DEF OwnPackage, OwnToPackage, PaidAt, Record
    <2>3. ASSUME NEW p \in Packages, ppc[p] = "tcp"
          PROVE  held[p].from \in Clients /\ answer[held[p].from] \in Packages /\ ~Entering(held[p].from)
      <3>1. held[p].from \in Clients
        BY <1>0, <2>3 DEF TypeOK, Record
      <3>2. LiveAt(held[p].from, p)
        BY <2>3 DEF OwnPackage, OwnToPackage
      <3>. QED
        BY <3>1, <3>2 DEF LiveAt
    <2>4. ASSUME NEW p \in Packages, ppc[p] = "tcp", tcpq[held[p].from] # <<>>,
                 x = Head(tcpq[held[p].from])
          PROVE  x.from = held[p].from
      <3>1. PICK c \in Clients : c = held[p].from
        BY <2>3, <2>4
      <3>2. tcpq[c] \in Seq(Record) /\ tcpq[c] # <<>> /\ x = Head(tcpq[c])
        BY <1>0, <2>4, <3>1 DEF TypeOK
      <3>3. 1 \in 1..Len(tcpq[c]) /\ x = tcpq[c][1]
        BY <3>2
      <3>. QED
        BY <3>1, <3>3 DEF OwnPackage, OwnToClient
    <2>5. ASSUME NEW p \in Packages, ppc[p] = "tcp", x = [held[p] EXCEPT !.part = "empty"]
          PROVE  x.from = held[p].from
      <3>1. held[p] \in Record
        BY <1>0, <2>5 DEF TypeOK
      <3>. QED
        BY <2>5, <3>1 DEF Record
    <2>. QED
      BY <2>1, <2>2, <2>3, <2>4, <2>5, Handed
  <1>. QED
    BY <1>1 DEF Settled

LEMMA OwnPackageSideStep ==
  ASSUME TypeOK, OwnPackage, Settled, NEW q \in Packages,
         StartPackage(q) \/ IntroducePackage(q) \/ LeavePackage(q) \/ Package(q)
  PROVE  (\A p \in Packages : OwnToPackage(p)') /\ \A c \in Clients : OwnToClient(c)'
  <1>1. open' = open
    BY DEF StartPackage, IntroducePackage, LeavePackage, Package, StoreNewClient, HandleClientTcp, UdpNumber,
           UdpText, TcpText, TcpNumber, HangUp, clientVars, pairVars
  <1>2. \A p \in Packages : OwnToPackage(p)
    BY DEF OwnPackage
  <1>3. \A p \in Packages \ {q} : OwnToPackage(p)'
    <2> SUFFICES ASSUME NEW p \in Packages \ {q} PROVE OwnToPackage(p)'
      OBVIOUS
    <2>1. /\ conns'[p] = conns[p] /\ backlog'[p] = backlog[p] /\ udpq'[p] = udpq[p]
          /\ ppc'[p] = ppc[p] /\ held'[p] = held[p]
      BY DEF StartPackage, IntroducePackage, LeavePackage, Package, StoreNewClient, HandleClientTcp, UdpNumber, UdpText,
             TcpText, TcpNumber, HangUp, packageVars, linkVars, TypeOK
    <2>2. ppc[p] = "tcp" => held[p].from \in conns[p]
      BY <1>2 DEF OwnToPackage
    <2>. QED
      BY <1>1, <2>1, <2>2, OwnKept
  <1>4. \A c \in Clients : OwnToClient(c)'
    <2>1. CASE tcpq' = tcpq
      BY <2>1, OwnConnKept
    <2>2. CASE \E d \in Clients : tcpq[d] # <<>> /\ tcpq' = [tcpq EXCEPT ![d] = Tail(@)]
      <3> SUFFICES ASSUME NEW c \in Clients PROVE OwnToClient(c)'
        OBVIOUS
      <3>1. PICK d \in Clients : tcpq[d] # <<>> /\ tcpq' = [tcpq EXCEPT ![d] = Tail(@)]
        BY <2>2
      <3>2. tcpq \in [Clients -> Seq(Record)]
        BY DEF TypeOK
      <3>3. tcpq'[c] # <<>> => tcpq[c] # <<>>
        BY <3>1, <3>2
      <3>4. \A i \in 1..Len(tcpq'[c]) : \E j \in 1..Len(tcpq[c]) : tcpq'[c][i] = tcpq[c][j]
        <4>1. CASE c = d
          <5>1. tcpq[c] \in Seq(Record) /\ tcpq[c] # <<>> /\ tcpq'[c] = Tail(tcpq[c])
            BY <3>1, <3>2, <4>1
          <5>2. Len(tcpq'[c]) = Len(tcpq[c]) - 1 /\ Len(tcpq[c]) \in Nat
                /\ \A i \in 1..Len(tcpq'[c]) : tcpq'[c][i] = tcpq[c][i + 1]
            BY <5>1
          <5>3. \A i \in 1..Len(tcpq'[c]) : i + 1 \in 1..Len(tcpq[c])
            BY <5>2
          <5>. QED
            BY <5>2, <5>3
        <4>2. CASE c # d
          BY <3>1, <3>2, <4>2
        <4>. QED
          BY <4>1, <4>2
      <3>. QED
        BY <3>3, <3>4, OwnConnKept
    <2>3. tcpq' = tcpq \/ \E d \in Clients : tcpq[d] # <<>> /\ tcpq' = [tcpq EXCEPT ![d] = Tail(@)]
      <3>1. CASE TcpText(q)
        <4>1. held[q].from \in Clients
          BY <3>1 DEF TcpText, TypeOK, Record
        <4>. QED
          BY <3>1, <4>1 DEF TcpText
      <3>2. CASE ~TcpText(q)
        BY <3>2 DEF StartPackage, IntroducePackage, LeavePackage, Package, StoreNewClient, HandleClientTcp, UdpNumber,
               UdpText, TcpNumber, HangUp, linkVars
      <3>. QED
        BY <3>1, <3>2
    <2>. QED
      BY <2>1, <2>2, <2>3
  <1>5. OwnToPackage(q)'
    <2>0. ppc[q] = "tcp" => held[q].from \in conns[q]
      BY <1>2 DEF OwnToPackage
    <2>1. CASE StartPackage(q) \/ IntroducePackage(q) \/ StoreNewClient(q)
      <3>1. UNCHANGED <<conns, backlog, udpq, ppc, held>>
        BY <2>1 DEF StartPackage, IntroducePackage, StoreNewClient, packageVars, linkVars
      <3>. QED
        BY <1>1, <2>0, <3>1, OwnKept
    <2>2. CASE LeavePackage(q)
      <3>1. ppc'[q] = "poll" /\ conns'[q] = {} /\ udpq'[q] = <<>> /\ backlog'[q] = <<>>
        BY <2>2 DEF LeavePackage, TypeOK
      <3>2. Range(backlog'[q]) = {} /\ Len(udpq'[q]) = 0
        BY <3>1 DEF Range
      <3>. QED
        BY <1>1, <3>1, <3>2, OwnKept
    <2>3. CASE HandleClientTcp(q)
      <3>1. /\ conns'[q] = conns[q] \cup {Head(backlog[q])} /\ backlog'[q] = Tail(backlog[q])
            /\ backlog[q] # <<>> /\ UNCHANGED <<udpq, ppc, held>> /\ backlog[q] \in Seq(Clients)
        BY <2>3 DEF HandleClientTcp, TypeOK
      <3>2. Head(backlog[q]) \in Range(backlog[q]) /\ Range(Tail(backlog[q])) \subseteq Range(backlog[q])
        BY <3>1, RangeHeadTail
      <3>3. conns'[q] \cup Range(backlog'[q]) \subseteq conns[q] \cup Range(backlog[q])
        BY <3>1, <3>2
      <3>. QED
        BY <1>1, <2>0, <3>1, <3>3, OwnKept
    <2>4. CASE UdpNumber(q) \/ UdpText(q)
      <3>1. /\ udpq[q] # <<>> /\ udpq'[q] = Tail(udpq[q]) /\ udpq[q] \in Seq(Record)
            /\ UNCHANGED <<conns, backlog>>
        BY <2>4 DEF UdpNumber, UdpText, TypeOK
      <3>2. (ppc'[q] = "udp" /\ held'[q] = udpq[q][1]) \/ ppc'[q] = "poll"
        <4>1. Head(udpq[q]) = udpq[q][1]
          BY <3>1
        <4>2. (ppc'[q] = "udp" /\ held'[q] = Head(udpq[q])) \/ ppc'[q] = "poll"
          BY <2>4 DEF UdpNumber, UdpText, TypeOK
        <4>. QED
          BY <4>1, <4>2
      <3>3. /\ Len(udpq'[q]) = Len(udpq[q]) - 1 /\ Len(udpq[q]) \in Nat
            /\ \A i \in 1..Len(udpq'[q]) : udpq'[q][i] = udpq[q][i + 1]
        BY <3>1
      <3>4. 1 \in 1..Len(udpq[q]) /\ \A i \in 1..Len(udpq'[q]) : i + 1 \in 1..Len(udpq[q])
        BY <3>1, <3>3
      <3>5. \A i \in 1..Len(udpq'[q]) : \E j \in 1..Len(udpq[q]) : udpq'[q][i] = udpq[q][j]
        BY <3>3, <3>4
      <3>. QED
        BY <1>1, <3>1, <3>2, <3>4, <3>5, OwnKept
    <2>5. ASSUME NEW c \in Clients, TcpNumber(q, c) PROVE OwnToPackage(q)'
      <3>1. /\ c \in conns[q] /\ tcpq[c] # <<>> /\ held'[q] = Head(tcpq[c]) /\ ppc'[q] = "tcp"
            /\ UNCHANGED <<conns, backlog, udpq>> /\ tcpq[c] \in Seq(Record)
        BY <2>5 DEF TcpNumber, TypeOK
      <3>2. Head(tcpq[c]).from = c
        BY <3>1 DEF OwnPackage, OwnToClient
      <3>. QED
        BY <1>1, <3>1, <3>2, OwnKept
    <2>6. ASSUME TcpText(q) \/ \E c \in Clients : HangUp(q, c) PROVE OwnToPackage(q)'
      <3>1. UNCHANGED <<backlog, udpq>> /\ conns'[q] \subseteq conns[q] /\ ppc'[q] = "poll"
        BY <2>6 DEF HangUp, TcpText, Polls, linkVars, TypeOK
      <3>. QED
        BY <1>1, <3>1, OwnKept
    <2>. QED
      BY <2>1, <2>2, <2>3, <2>4, <2>5, <2>6 DEF Package
  <1>. QED
    BY <1>3, <1>4, <1>5

\* A live client that was answered connects; any that was answered writes.
LEMMA OwnClientStep ==
  ASSUME TypeOK, ComesOnce, OwnPackage, Settled, NEW c \in Clients, Client(c)
  PROVE  (\A p \in Packages : OwnToPackage(p)') /\ \A d \in Clients : OwnToClient(d)'
  <1>1. UNCHANGED <<conns, kind, answer, ppc, held>>
    BY DEF Client, Connect, Choose, Introduce, Write, Answered, Talk, SayText, SayNumber, UdpRecv, Quit, packageVars,
           linkVars
  <1>2. \A p \in Packages : OwnToPackage(p) /\ (ppc[p] = "tcp" => held[p].from \in conns[p])
    BY DEF OwnPackage, OwnToPackage
  <1>3. CASE Connect(c) \/ Choose(c) \/ Introduce(c) \/ UdpRecv(c) \/ Quit(c)
    <2>1. UNCHANGED <<backlog, udpq, tcpq, open>>
      BY <1>3 DEF Connect, Choose, Introduce, UdpRecv, Quit, clientVars, pairVars, linkVars
    <2>. QED
      BY <1>1, <1>2, <2>1, OwnKept, OwnConnKept
  <1>4. CASE Answered(c)
    <2>1. UNCHANGED <<udpq, tcpq, open>>
      BY <1>4 DEF Answered, pairVars, linkVars
    <2>2. \/ backlog' = backlog
          \/ /\ answer[c] \in Packages /\ kind[c] = "live" /\ cpc'[c] = "talk"
             /\ backlog' = [backlog EXCEPT ![answer[c]] = Append(@, c)]
      <3>1. CASE answer[c] \in Packages /\ (kind[c] = "paid" \/ pkg[answer[c]] = "up")
        <4>1. cpc' = [cpc EXCEPT ![c] = "talk"]
              /\ backlog' = IF kind[c] = "live" THEN [backlog EXCEPT ![answer[c]] = Append(@, c)]
                                                ELSE backlog
          BY <1>4, <3>1 DEF Answered, Goto
        <4>2. cpc'[c] = "talk"
          BY <4>1 DEF TypeOK
        <4>3. CASE kind[c] = "live"
          BY <3>1, <4>1, <4>2, <4>3
        <4>4. CASE kind[c] # "live"
          BY <4>1, <4>4
        <4>. QED
          BY <4>3, <4>4
      <3>2. CASE ~(answer[c] \in Packages /\ (kind[c] = "paid" \/ pkg[answer[c]] = "up"))
        BY <1>4, <3>2 DEF Answered, Goto
      <3>. QED
        BY <3>1, <3>2
    <2>3. ASSUME NEW p \in Packages, backlog'[p] # backlog[p] PROVE OwnToPackage(p)'
      <3>1. p = answer[c] /\ kind[c] = "live" /\ cpc'[c] = "talk"
            /\ backlog'[p] = Append(backlog[p], c) /\ backlog[p] \in Seq(Clients)
        <4>1. backlog \in [Packages -> Seq(Clients)]
          BY DEF TypeOK
        <4>2. backlog' # backlog
          BY <2>3
        <4>3. /\ answer[c] \in Packages /\ kind[c] = "live" /\ cpc'[c] = "talk"
              /\ backlog' = [backlog EXCEPT ![answer[c]] = Append(@, c)]
          BY <2>2, <4>2
        <4>. QED
          BY <2>3, <4>1, <4>3
      <3>2. Range(backlog'[p]) = Range(backlog[p]) \cup {c}
        BY <3>1, RangeAppend
      <3>3. LiveAt(c, p)'
        BY <1>1, <3>1 DEF LiveAt, Entering
      <3>4. conns[p] \cup Range(backlog[p]) \subseteq Clients
        <4>1. \A i \in DOMAIN backlog[p] : backlog[p][i] \in Clients
          BY <3>1
        <4>. QED
          BY <4>1 DEF Range, TypeOK
      <3>5. \A d \in conns'[p] \cup Range(backlog'[p]) : LiveAt(d, p)'
        BY <1>1, <1>2, <3>2, <3>3, <3>4, SettledAt DEF OwnToPackage
      <3>6. /\ \A i \in 1..Len(udpq[p]) : udpq[p][i].from \in Clients
            /\ ppc[p] = "udp" => held[p].from \in Clients
            /\ open[p] # None => open[p] \in Clients
        <4>1. udpq[p] \in Seq(Record)
          BY DEF TypeOK
        <4>2. \A i \in 1..Len(udpq[p]) : udpq[p][i] \in Record
          BY <4>1
        <4>. QED
          BY <4>2 DEF Record, TypeOK
      <3>7. \A d \in Clients : PaidAt(d, p) => PaidAt(d, p)'
        BY SettledAt
      <3>8. Range(backlog[p])' = Range(backlog'[p])
        BY DEF Range
      <3>. QED
        BY <1>1, <1>2, <2>1, <3>5, <3>6, <3>7, <3>8 DEF OwnToPackage, PaidAt
    <2>4. ASSUME NEW p \in Packages, backlog'[p] = backlog[p] PROVE OwnToPackage(p)'
      BY <1>1, <1>2, <2>1, <2>4, OwnKept
    <2>. QED
      BY <2>1, <2>3, <2>4, OwnConnKept
  <1>5. CASE SayText(c) \/ \E n \in Numbers : SayNumber(c, n)
    <2> DEFINE q == answer[c]
    <2>1. cpc[c] \in {"talk", "text"} /\ q \in Packages /\ ~Entering(c) /\ backlog' = backlog
      BY <1>5 DEF SayText, SayNumber, ComesOnce, Entering, linkVars
    <2>2. PICK r \in Record, l \in {"talk", "text"} : r.from = c /\ Say(c, r, l)
      <3>1. CASE SayText(c)
        <4>1. [part |-> "text", from |-> c, to |-> addressee[c]] \in Record
          BY <3>1 DEF SayText, TypeOK, Record
        <4>. QED
          BY <3>1, <4>1 DEF SayText
      <3>2. ASSUME NEW n \in Numbers, SayNumber(c, n)
            PROVE \E r \in Record, l \in {"talk", "text"} : r.from = c /\ Say(c, r, l)
        <4>1. [part |-> "number", from |-> c, to |-> n] \in Record
          BY DEF Record
        <4>. QED
          BY <3>2, <4>1 DEF SayNumber
      <3>. QED
        BY <1>5, <3>1, <3>2
    <2>3. \/ UNCHANGED <<udpq, tcpq>>
          \/ kind[c] = "paid" /\ udpq' = [udpq EXCEPT ![q] = Append(@, r)] /\ tcpq' = tcpq
          \/ kind[c] = "live" /\ tcpq' = [tcpq EXCEPT ![c] = Append(@, r)] /\ udpq' = udpq
      BY <2>2 DEF Say, TypeOK
    <2>4. \/ open' = open
          \/ kind[c] = "paid" /\ \E x \in {c, None} : open' = [open EXCEPT ![q] = x]
      BY <1>5 DEF SayText, SayNumber, Opens, Closes, pairVars
    <2>5. kind[c] = "paid" => PaidAt(c, q)
      BY <2>1 DEF PaidAt
    <2>6. ASSUME NEW p \in Packages PROVE OwnToPackage(p)'
      <3>1. OwnToPackage(p) /\ udpq[p] \in Seq(Record)
        BY <1>2 DEF TypeOK
      <3>2. conns[p] \cup Range(backlog[p]) \subseteq Clients
        <4>1. backlog[p] \in Seq(Clients) /\ conns[p] \subseteq Clients
          BY DEF TypeOK
        <4>2. \A i \in DOMAIN backlog[p] : backlog[p][i] \in Clients
          BY <4>1
        <4>. QED
          BY <4>1, <4>2 DEF Range
      <3>3. \A d \in conns[p] \cup Range(backlog[p]) : LiveAt(d, p)'
        BY <3>1, <3>2, SettledAt DEF OwnToPackage
      <3>4. \A d \in Clients : PaidAt(d, p) => PaidAt(d, p)'
        BY SettledAt
      <3>5. \A x : (\E i \in 1..Len(udpq[p]) : x = udpq[p][i]) => PaidAt(x.from, p)'
        <4>1. \A i \in 1..Len(udpq[p]) : udpq[p][i] \in Record
          BY <3>1
        <4>. QED
          BY <3>1, <3>4, <4>1 DEF OwnToPackage, Record
      <3>6. \A i \in 1..Len(udpq'[p]) : PaidAt(udpq[p][i].from, p)'
        <4>1. CASE udpq'[p] = udpq[p]
          BY <3>5, <4>1
        <4>2. CASE udpq'[p] # udpq[p]
          <5>1. p = q /\ udpq'[p] = Append(udpq[p], r) /\ kind[c] = "paid"
            BY <2>3, <4>2 DEF TypeOK
          <5>2. Len(udpq'[p]) = Len(udpq[p]) + 1 /\ Len(udpq[p]) \in Nat
                /\ \A i \in 1..Len(udpq'[p]) :
                      udpq'[p][i] = IF i = Len(udpq[p]) + 1 THEN r ELSE udpq[p][i]
            BY <3>1, <5>1
          <5>3. PaidAt(r.from, p)'
            <6>1. PaidAt(c, p)'
              BY <2>5, <5>1, SettledAt
            <6>. QED
              BY <2>2, <6>1
          <5>4. \A i \in 1..Len(udpq'[p]) : i = Len(udpq[p]) + 1 \/ i \in 1..Len(udpq[p])
            BY <5>2
          <5>. QED
            BY <3>5, <5>2, <5>3, <5>4
        <4>. QED
          BY <4>1, <4>2
      <3>7. ppc'[p] = "udp" => PaidAt(held[p].from, p)'
        <4>1. ppc[p] = "udp" => PaidAt(held[p].from, p) /\ held[p].from \in Clients
          BY <3>1 DEF OwnToPackage, TypeOK, Record
        <4>2. \A x \in Clients : x = held[p].from => x = held'[p].from
          BY <1>1
        <4>. QED
          BY <1>1, <3>4, <4>1, <4>2
      <3>8. open'[p] # None => PaidAt(open[p], p)'
        <4>1. CASE open'[p] = open[p]
          <5>1. open[p] # None => PaidAt(open[p], p) /\ open[p] \in Clients
            BY <3>1 DEF OwnToPackage, TypeOK
          <5>2. \A x \in Clients : x = open[p] => x = open'[p]
            BY <4>1
          <5>. QED
            BY <3>4, <4>1, <5>1, <5>2
        <4>2. CASE open'[p] # open[p] /\ open'[p] # None
          <5>1. p = q /\ kind[c] = "paid" /\ open'[p] = c
            BY <2>1, <2>4, <4>2 DEF TypeOK
          <5>2. PaidAt(c, p)'
            BY <2>5, <5>1, SettledAt
          <5>. QED
            BY <5>1, <5>2
        <4>. QED
          BY <4>1, <4>2
      <3>9. Range(backlog[p])' = Range(backlog[p])
        BY <2>1 DEF Range
      <3>. QED
        BY <1>1, <1>2, <3>3, <3>6, <3>7, <3>8, <3>9 DEF OwnToPackage
    <2>7. ASSUME NEW d \in Clients PROVE OwnToClient(d)'
      <3>1. OwnToClient(d) /\ tcpq[d] \in Seq(Record)
        BY DEF OwnPackage, TypeOK
      <3>2. tcpq'[d] = tcpq[d] \/ (d = c /\ tcpq'[d] = Append(tcpq[d], r))
        BY <2>3 DEF TypeOK
      <3>3. tcpq'[d] # <<>> => answer'[d] \in Packages /\ ~Entering(d)'
        BY <1>1, <2>1, <3>1, <3>2 DEF OwnToClient, Settled
      <3>4. \A i \in 1..Len(tcpq'[d]) : tcpq'[d][i].from = d
        <4>1. CASE tcpq'[d] = tcpq[d]
          BY <3>1, <4>1 DEF OwnToClient
        <4>2. CASE d = c /\ tcpq'[d] = Append(tcpq[d], r)
          <5>1. Len(tcpq'[d]) = Len(tcpq[d]) + 1 /\ Len(tcpq[d]) \in Nat
                /\ \A i \in 1..Len(tcpq'[d]) :
                      tcpq'[d][i] = IF i = Len(tcpq[d]) + 1 THEN r ELSE tcpq[d][i]
            BY <3>1, <4>2
          <5>. QED
            BY <2>2, <3>1, <4>2, <5>1 DEF OwnToClient
        <4>. QED
          BY <3>2, <4>1, <4>2
      <3>. QED
        BY <3>3, <3>4 DEF OwnToClient
    <2>. QED
      BY <2>6, <2>7
  <1>. QED
    BY <1>3, <1>4, <1>5 DEF Client, Talk

LEMMA OwnStep == RelayInv /\ ComesOnce /\ OwnPackage /\ [Next]_vars => OwnPackage'
  <1> SUFFICES ASSUME RelayInv, ComesOnce, OwnPackage, [Next]_vars PROVE OwnPackage'
    OBVIOUS
  <1>1. TypeOK
    BY DEF RelayInv
  <1>2. Settled
    BY <1>1, SettledStays
  <1>3. CASE Center \/ UNCHANGED vars
    <2>1. UNCHANGED <<conns, backlog, udpq, ppc, held, tcpq, open>>
      BY <1>3 DEF Center, AcceptPackage, ReadPackage, PackageHungUp, AcceptClient,
          ClientHungUp, Refuse, ReadClient, TellPackage, BreakOff, AnswerClient, NoticeLeft,
          vars, packageVars, clientVars, pairVars, linkVars
    <2>2. \A p \in Packages : ppc[p] = "tcp" => held[p].from \in conns[p]
      BY DEF OwnPackage, OwnToPackage
    <2>. QED
      BY <1>1, <1>2, <2>1, <2>2, OwnKept, OwnConnKept, FromWritersStep DEF OwnPackage
  <1>4. ASSUME NEW q \in Packages, StartPackage(q) \/ IntroducePackage(q) \/ LeavePackage(q) \/ Package(q)
        PROVE  OwnPackage'
    BY <1>1, <1>2, <1>4, OwnPackageSideStep, FromWritersStep DEF OwnPackage
  <1>5. ASSUME NEW c \in Clients, Client(c)
        PROVE  OwnPackage'
    BY <1>1, <1>2, <1>5, OwnClientStep, FromWritersStep DEF OwnPackage
  <1>. QED
    BY <1>3, <1>4, <1>5 DEF Next

LEMMA PairedAppend ==
  ASSUME NEW s \in Seq(Record), NEW r \in Record, Paired(s),
         \/ Len(s) % 2 = 0 /\ r.part = "number"
         \/ Len(s) % 2 = 1 /\ r.part = "text" /\ r.to = s[Len(s)].to
  PROVE  /\ Append(s, r) \in Seq(Record) /\ Paired(Append(s, r))
         /\ Len(Append(s, r)) = Len(s) + 1 /\ Append(s, r)[Len(s) + 1] = r
  <1> DEFINE t == Append(s, r)
  <1>1. /\ t \in Seq(Record) /\ Len(s) \in Nat /\ Len(t) = Len(s) + 1 /\ t[Len(s) + 1] = r
        /\ \A i \in 1..Len(s) : t[i] = s[i]
    OBVIOUS
  <1>. HIDE DEF t
  <1>2. ASSUME NEW i \in 1..Len(t)
        PROVE  IF i % 2 = 1 THEN t[i].part = "number"
                            ELSE t[i].part = "text" /\ t[i].to = t[i - 1].to
    <2>1. CASE i \in 1..Len(s)
      <3>1. i % 2 # 1 => i - 1 \in 1..Len(s)
        BY <1>1, <2>1
      <3>. QED
        BY <1>1, <2>1, <3>1 DEF Paired
    <2>2. CASE i = Len(s) + 1
      <3>1. CASE Len(s) % 2 = 0 /\ r.part = "number"
        <4>1. i % 2 = 1
          BY <1>1, <2>2, <3>1
        <4>. QED
          BY <1>1, <2>2, <3>1, <4>1
      <3>2. CASE Len(s) % 2 = 1 /\ r.part = "text" /\ r.to = s[Len(s)].to
        <4>1. i % 2 # 1 /\ i - 1 = Len(s) /\ Len(s) \in 1..Len(s)
          BY <1>1, <2>2, <3>2
        <4>. QED
          BY <1>1, <2>2, <3>2, <4>1
      <3>. QED
        BY <3>1, <3>2
    <2>. QED
      BY <1>1, <2>1, <2>2
  <1>. QED
    BY <1>1, <1>2 DEF Paired, t

LEMMA ConcatLen ==
  ASSUME NEW h \in Record, NEW s \in Seq(Record)
  PROVE  Len(<<h>> \o s) = Len(s) + 1
  OBVIOUS

LEMMA ConcatFirst ==
  ASSUME NEW h \in Record, NEW s \in Seq(Record)
  PROVE  (<<h>> \o s)[1] = h
  OBVIOUS

LEMMA ConcatRest ==
  ASSUME NEW h \in Record, NEW s \in Seq(Record)
  PROVE  \A i \in 1..Len(s) : (<<h>> \o s)[i + 1] = s[i]
  <1>. SUFFICES ASSUME NEW i \in 1..Len(s)
                PROVE  (<<h>> \o s)[i + 1] = s[i]
    OBVIOUS
  <1>1. <<h>> \in Seq(Record) /\ Len(<<h>>) = 1
    OBVIOUS
  <1> DEFINE q == <<h>>
  <1>. HIDE DEF q
  <1>2. i + 1 \in 1..(Len(q) + Len(s)) /\ ~(i + 1 <= Len(q)) /\ (i + 1) - Len(q) = i
    BY <1>1 DEF q
  <1>. QED
    BY <1>1, <1>2, ConcatAt DEF q

LEMMA NotEmpty ==
  ASSUME NEW S, NEW s \in Seq(S), s # <<>>
  PROVE  Len(s) \in Nat /\ Len(s) # 0 /\ Head(s) = s[1]
  OBVIOUS

LEMMA TailFacts ==
  ASSUME NEW S, NEW s \in Seq(S), s # <<>>
  PROVE  /\ Len(Tail(s)) = Len(s) - 1 /\ \A i \in 1..Len(Tail(s)) : Tail(s)[i] = s[i + 1]
         /\ Len(Tail(s)) # 0 <=> Tail(s) # <<>>
  <1>1. Len(Tail(s)) = Len(s) - 1 /\ Tail(s) \in Seq(S)
    OBVIOUS
  <1>2. \A i \in 1..Len(Tail(s)) : Tail(s)[i] = s[i + 1]
    OBVIOUS
  <1>3. \A u \in Seq(S) : Len(u) # 0 <=> u # <<>>
    OBVIOUS
  <1>. QED
    BY <1>1, <1>2, <1>3

\* A number and its text are forwarded together.
LEMMA PairedDrop ==
  ASSUME NEW s \in Seq(Record), NEW h \in Record, s # <<>>, Paired(<<h>> \o s)
  PROVE  /\ Head(s).part = "text" /\ Head(s).to = h.to /\ h.part = "number"
         /\ Paired(Tail(s)) /\ Len(<<h>> \o s) % 2 = Len(Tail(s)) % 2
         /\ Tail(s) # <<>> => (<<h>> \o s)[Len(<<h>> \o s)] = Tail(s)[Len(Tail(s))]
         /\ Len(Tail(s)) % 2 = 1 => Tail(s) # <<>>
  <1> DEFINE t == <<h>> \o s
             u == Tail(s)
  <1>1. /\ Len(s) \in Nat /\ Len(s) >= 1 /\ Len(t) = Len(s) + 1 /\ t[1] = h /\ t[2] = s[1]
        /\ Head(s) = s[1] /\ \A i \in 1..Len(s) : t[i + 1] = s[i]
    <2>1. Len(s) \in Nat /\ Len(s) >= 1 /\ Head(s) = s[1]
      <3>. HIDE DEF t, u
      <3>1. Head(s) = s[1]
        BY NotEmpty
      <3>2. Len(s) \in Nat /\ Len(s) # 0
        BY NotEmpty
      <3>. QED
        BY <3>1, <3>2
    <2>2. Len(t) = Len(s) + 1 /\ t[1] = h
      BY ConcatLen, ConcatFirst
    <2>4. \A i \in 1..Len(s) : t[i + 1] = s[i]
      BY ConcatRest
    <2>. QED
      BY <2>1, <2>2, <2>4
  <1>2. Len(u) = Len(s) - 1 /\ (\A i \in 1..Len(u) : u[i] = s[i + 1]) /\ (Len(u) # 0 <=> u # <<>>)
    BY TailFacts
  <1>. HIDE DEF t, u
  <1>3. \A i \in 1..Len(u) : i + 2 \in 1..Len(t) /\ u[i] = t[i + 2] /\ (i + 2) % 2 = i % 2
    BY <1>1, <1>2
  <1>4. Paired(u)
    <2> SUFFICES ASSUME NEW i \in 1..Len(u)
                 PROVE  IF i % 2 = 1 THEN u[i].part = "number"
                                     ELSE u[i].part = "text" /\ u[i].to = u[i - 1].to
      BY DEF Paired
    <2>1. IF i % 2 = 1 THEN t[i + 2].part = "number"
                       ELSE t[i + 2].part = "text" /\ t[i + 2].to = t[i + 1].to
      <3>1. (i + 2) - 1 = i + 1
        BY <1>2
      <3>. QED
        BY <1>3, <3>1 DEF Paired, t
    <2>2. CASE i % 2 = 1
      BY <1>3, <2>1, <2>2
    <2>3. CASE i % 2 # 1
      <3>1. i - 1 \in 1..Len(u) /\ (i - 1) + 2 = i + 1
        BY <1>1, <1>2, <2>3
      <3>. QED
        BY <1>3, <2>1, <2>3, <3>1
    <2>. QED
      BY <2>2, <2>3
  <1>5. h.part = "number" /\ t[2].part = "text" /\ t[2].to = h.to
    <2>1. 1 \in 1..Len(t) /\ 2 \in 1..Len(t) /\ 1 % 2 = 1 /\ 2 % 2 # 1 /\ 2 - 1 = 1
      BY <1>1
    <2>2. /\ IF 1 % 2 = 1 THEN t[1].part = "number"
                          ELSE t[1].part = "text" /\ t[1].to = t[1 - 1].to
          /\ IF 2 % 2 = 1 THEN t[2].part = "number"
                          ELSE t[2].part = "text" /\ t[2].to = t[2 - 1].to
      BY <2>1 DEF Paired, t
    <2>. QED
      BY <1>1, <2>1, <2>2
  <1>6. Len(t) % 2 = Len(u) % 2
    BY <1>1, <1>2
  <1>7. u # <<>> => t[Len(t)] = u[Len(u)]
    BY <1>1, <1>2, <1>3
  <1>. QED
    BY <1>1, <1>2, <1>4, <1>5, <1>6, <1>7 DEF t, u

LEMMA Unhead ==
  ASSUME NEW S, NEW s \in Seq(S), s # <<>>
  PROVE  <<Head(s)>> \o Tail(s) = s
  OBVIOUS

LEMMA HeadAppend ==
  ASSUME NEW S, NEW s \in Seq(S), NEW h \in S, NEW x \in S
  PROVE  /\ <<h>> \o Append(s, x) = Append(<<h>> \o s, x)
         /\ <<h>> \o s \in Seq(S)
  OBVIOUS

\* A client goes on as it was, at least as far as what it wrote is concerned.
ClientKept(d) ==
    /\ kind'[d] = kind[d] /\ answer'[d] = answer[d] /\ addressee'[d] = addressee[d]
    /\ cpc'[d] \in {"talk", "text"} => cpc'[d] = cpc[d]

LEMMA ConnKept ==
  ASSUME NEW d \in Clients, ConnPairs(d), ClientKept(d), OnConnection(d)' = OnConnection(d),
         answer[d] \in Packages /\ pkg'[answer[d]] = "up" => pkg[answer[d]] = "up"
  PROVE  ConnPairs(d)'
  <1> DEFINE s == OnConnection(d)
  <1>. SUFFICES ASSUME kind'[d] = "live", answer'[d] \in Packages, pkg'[answer'[d]] = "up"
                PROVE  Paired(s)' /\ Unfinished(s, d)'
    BY DEF ConnPairs
  <1>1. Paired(s) /\ Unfinished(s, d)
    BY DEF ConnPairs, ClientKept
  <1>2. s' = s
    OBVIOUS
  <1>. HIDE DEF s
  <1>. QED
    BY <1>1, <1>2 DEF Paired, Unfinished, ClientKept

LEMMA PortKept ==
  ASSUME NEW p \in Packages, PortPairs(p), open'[p] = open[p],
         open[p] # None => addressee'[open[p]] = addressee[open[p]],
         OnPort(p)' = OnPort(p), p \in crossed => p \in crossed',
         pkg'[p] = "up" => pkg[p] = "up"
  PROVE  PortPairs(p)'
  <1> DEFINE s == OnPort(p)
  <1>. SUFFICES ASSUME pkg'[p] = "up", p \notin crossed'
                PROVE  /\ Paired(s)'
                       /\ (Len(s) % 2 = 1)' <=> open'[p] # None
                       /\ open'[p] # None => (s[Len(s)].to)' = addressee'[open'[p]]
    BY DEF PortPairs
  <1>1. /\ Paired(s)
        /\ Len(s) % 2 = 1 <=> open[p] # None
        /\ open[p] # None => s[Len(s)].to = addressee[open[p]]
    BY DEF PortPairs
  <1>2. s' = s
    OBVIOUS
  <1>. HIDE DEF s
  <1>. QED
    BY <1>1, <1>2 DEF Paired

\* Nothing is under way on a connection before the client is through with the
\* center, nor to a port nobody wrote to.
LEMMA NothingYet ==
  ASSUME TypeOK, OwnPackage
  PROVE  /\ \A c \in Clients : answer[c] \notin Packages \/ Entering(c) =>
               tcpq[c] = <<>> /\ \A p \in Packages : ~(ppc[p] = "tcp" /\ held[p].from = c)
         /\ \A p \in Packages : (\A c \in Clients : answer[c] # p) => OnPort(p) = <<>> /\ open[p] = None
  <1>1. ASSUME NEW c \in Clients, answer[c] \notin Packages \/ Entering(c)
        PROVE  tcpq[c] = <<>> /\ \A p \in Packages : ~(ppc[p] = "tcp" /\ held[p].from = c)
    <2>1. OwnToClient(c) /\ \A p \in Packages : OwnToPackage(p)
      BY DEF OwnPackage
    <2>. QED
      BY <1>1, <2>1 DEF OwnToClient, OwnToPackage, LiveAt
  <1>2. ASSUME NEW p \in Packages, \A c \in Clients : answer[c] # p
        PROVE  OnPort(p) = <<>> /\ open[p] = None
    <2>1. OwnToPackage(p) /\ udpq[p] \in Seq(Record) /\ open[p] \in Clients \cup {None}
          /\ (ppc[p] = "udp" => held[p].from \in Clients)
      BY DEF OwnPackage, TypeOK, Record
    <2>2. Len(udpq[p]) \in Nat /\ (Len(udpq[p]) = 0 => udpq[p] = <<>>)
          /\ \A i \in 1..Len(udpq[p]) : udpq[p][i] \in Record
      BY <2>1
    <2>3. ~(1 \in 1..Len(udpq[p])) /\ ppc[p] # "udp" /\ open[p] = None
      BY <1>2, <2>1, <2>2 DEF OwnToPackage, PaidAt, Record
    <2>. QED
      BY <2>2, <2>3 DEF OnPort
  <1>. QED
    BY <1>1, <1>2

\* Nobody was named a package that has not started.
LEMMA OffUnnamed ==
  ASSUME RelayInv, NEW p \in Packages, pkg[p] = "off", NEW c \in Clients
  PROVE  answer[c] # p
  <1>1. known[p] = <<>> /\ down[p] = <<>>
    BY DEF RelayInv, RegistersOnce, ToldLater
  <1>2. Told(p) = <<>>
    BY <1>1 DEF Told
  <1>3. Range(Told(p)) = {}
    BY <1>2 DEF Range
  <1>. QED
    BY <1>3 DEF RelayInv, AnsweredIsTold

LEMMA PairsCenterStep ==
  ASSUME TypeOK, ComesOnce, OwnPackage, PairsInv, Center
  PROVE  PairsInv'
  <1>1. UNCHANGED <<pkg, open, crossed, kind, cpc, addressee, udpq, ppc, held, tcpq>>
    BY DEF Center, AcceptPackage, ReadPackage, PackageHungUp, AcceptClient,
        ClientHungUp, Refuse, ReadClient, TellPackage, BreakOff, AnswerClient, NoticeLeft,
           packageVars, clientVars, pairVars, linkVars
  <1>2. \A c \in Clients : answer'[c] # answer[c] => answer[c] = None
    <2>1. CASE Refuse \/ AnswerClient
      <3>1. nc \in {"client", "tell"} /\ cur \in Clients /\ \E a : answer' = [answer EXCEPT ![cur] = a]
        BY <2>1 DEF Refuse, AnswerClient, TypeOK
      <3>2. answer[cur] = None
        BY <3>1 DEF ComesOnce
      <3>. QED
        BY <3>1, <3>2 DEF TypeOK
    <2>2. CASE ~(Refuse \/ AnswerClient)
      BY <2>2 DEF Center, AcceptPackage, ReadPackage, PackageHungUp, AcceptClient, ClientHungUp, ReadClient,
                  TellPackage, BreakOff, NoticeLeft, linkVars
    <2>. QED
      BY <2>1, <2>2
  <1>3. ASSUME NEW c \in Clients PROVE ConnPairs(c)'
    <2>1. CASE answer'[c] = answer[c]
      <3>1. ClientKept(c) /\ OnConnection(c)' = OnConnection(c)
        BY <1>1, <2>1 DEF ClientKept, OnConnection
      <3>. QED
        BY <1>1, <3>1, ConnKept DEF PairsInv
    <2>2. CASE answer'[c] # answer[c]
      <3>1. answer[c] = None /\ answer[c] \notin Packages /\ cpc[c] \notin {"talk", "text"}
        BY <1>2, <2>2, RelayAssumption DEF ComesOnce
      <3>2. OnConnection(c)' = <<>> \/ answer'[c] \notin Packages
        BY <1>1, <3>1, NothingYet DEF OnConnection
      <3>. QED
        BY <1>1, <3>1, <3>2 DEF ConnPairs, Paired, Unfinished
    <2>. QED
      BY <2>1, <2>2
  <1>4. ASSUME NEW p \in Packages PROVE PortPairs(p)'
    <2>1. OnPort(p)' = OnPort(p)
      BY <1>1 DEF OnPort
    <2>. QED
      BY <1>1, <2>1, PortKept DEF PairsInv
  <1>. QED
    BY <1>3, <1>4 DEF PairsInv

LEMMA PairsPackageStep ==
  ASSUME RelayInv, OwnPackage, PairsInv, NEW q \in Packages,
         StartPackage(q) \/ IntroducePackage(q) \/ LeavePackage(q) \/ Package(q)
  PROVE  PairsInv'
  <1>1. UNCHANGED <<cpc, kind, answer, addressee, open, crossed>> /\ TypeOK
    BY DEF StartPackage, IntroducePackage, LeavePackage, Package, StoreNewClient, HandleClientTcp, UdpNumber,
           UdpText, TcpText, TcpNumber, HangUp, linkVars, clientVars, pairVars, RelayInv
  <1>2. \A d \in Clients : ClientKept(d)
    BY <1>1 DEF ClientKept
  <1>5. \A p \in Packages : OwnToPackage(p)
    BY DEF OwnPackage
  <1>6. ASSUME UNCHANGED <<ppc, held, tcpq, udpq>>,
               \A p \in Packages : pkg'[p] = "up" => pkg[p] = "up"
        PROVE  PairsInv'
    <2>1. \A d \in Clients : OnConnection(d)' = OnConnection(d)
      BY <1>1, <1>6 DEF OnConnection
    <2>2. \A p \in Packages : OnPort(p)' = OnPort(p)
      BY <1>6 DEF OnPort
    <2>3. \A d \in Clients : ConnPairs(d)'
      BY <1>2, <1>6, <2>1, ConnKept DEF PairsInv
    <2>4. \A p \in Packages : PortPairs(p)'
      BY <1>1, <1>6, <2>2, PortKept DEF PairsInv
    <2>. QED
      BY <2>3, <2>4 DEF PairsInv
  <1>7. CASE StartPackage(q)
    <2>1. /\ pkg[q] = "off" /\ UNCHANGED <<ppc, held, tcpq, udpq>>
          /\ \A p \in Packages : p # q => pkg'[p] = pkg[p]
      BY <1>1, <1>7 DEF StartPackage, linkVars, TypeOK
    <2>2. \A d \in Clients : answer[d] # q
      BY <2>1, OffUnnamed
    <2>3. ASSUME NEW d \in Clients PROVE ConnPairs(d)'
      <3>1. OnConnection(d)' = OnConnection(d)
        BY <1>1, <2>1 DEF OnConnection
      <3>. QED
        BY <1>2, <2>1, <2>2, <3>1, ConnKept DEF PairsInv
    <2>4. ASSUME NEW p \in Packages PROVE PortPairs(p)'
      <3>1. OnPort(p)' = OnPort(p)
        BY <2>1 DEF OnPort
      <3>2. CASE p # q
        BY <1>1, <2>1, <3>1, <3>2, PortKept DEF PairsInv
      <3>3. CASE p = q
        <4>1. OnPort(p)' = <<>> /\ open'[p] = None
          BY <1>1, <2>2, <3>1, <3>3, NothingYet
        <4>2. Len(<<>>) % 2 # 1
          OBVIOUS
        <4>. SUFFICES ASSUME NEW v, v = <<>>, OnPort(p)' = v
                      PROVE  PortPairs(p)'
          BY <4>1
        <4>. QED
          BY <4>1, <4>2 DEF PortPairs, Paired
      <3>. QED
        BY <3>2, <3>3
    <2>. QED
      BY <2>3, <2>4 DEF PairsInv
  <1>8. CASE LeavePackage(q)
    <2>1. /\ pkg'[q] = "left" /\ tcpq' = tcpq
          /\ \A p \in Packages : p # q =>
                /\ pkg'[p] = pkg[p] /\ ppc'[p] = ppc[p] /\ held'[p] = held[p]
                /\ udpq'[p] = udpq[p]
      BY <1>1, <1>8 DEF LeavePackage, linkVars, TypeOK
    <2>2. ASSUME NEW d \in Clients PROVE ConnPairs(d)'
      <3>1. CASE answer[d] = q
        BY <1>1, <2>1, <3>1 DEF ConnPairs
      <3>2. CASE answer[d] \in Packages /\ answer[d] # q
        <4>1. OnConnection(d)' = OnConnection(d)
          BY <1>1, <2>1, <3>2 DEF OnConnection
        <4>. QED
          BY <1>2, <2>1, <3>2, <4>1, ConnKept DEF PairsInv
      <3>3. CASE answer[d] \notin Packages
        BY <1>1, <3>3 DEF ConnPairs
      <3>. QED
        BY <3>1, <3>2, <3>3
    <2>3. ASSUME NEW p \in Packages PROVE PortPairs(p)'
      <3>1. CASE p = q
        BY <2>1, <3>1 DEF PortPairs
      <3>2. CASE p # q
        <4>1. OnPort(p)' = OnPort(p)
          BY <2>1, <3>2 DEF OnPort
        <4>. QED
          BY <1>1, <2>1, <3>2, <4>1, PortKept DEF PairsInv
      <3>. QED
        BY <3>1, <3>2
    <2>. QED
      BY <2>2, <2>3 DEF PairsInv
  <1>9. CASE \/ IntroducePackage(q) \/ StoreNewClient(q) \/ HandleClientTcp(q)
             \/ \E c \in Clients : HangUp(q, c)
    <2>1. UNCHANGED <<ppc, held, tcpq, udpq, pkg>>
      BY <1>9 DEF IntroducePackage, StoreNewClient, HandleClientTcp, HangUp, packageVars, linkVars
    <2>. QED
      BY <1>6, <2>1
  <1>10. CASE UdpNumber(q)
    <2>1. /\ UNCHANGED <<pkg, tcpq>> /\ ppc[q] = "poll" /\ udpq[q] # <<>>
          /\ ppc'[q] = "udp" /\ held'[q] = Head(udpq[q]) /\ udpq'[q] = Tail(udpq[q])
          /\ udpq[q] \in Seq(Record)
          /\ \A p \in Packages : p # q =>
                ppc'[p] = ppc[p] /\ held'[p] = held[p] /\ udpq'[p] = udpq[p]
      BY <1>1, <1>10 DEF UdpNumber, Polls, TypeOK
    <2>2. ASSUME NEW d \in Clients PROVE ConnPairs(d)'
      <3>1. CASE answer[d] \in Packages
        <4>1. OnConnection(d)' = OnConnection(d)
          BY <1>1, <2>1, <3>1 DEF OnConnection
        <4>. QED
          BY <1>2, <2>1, <4>1, ConnKept DEF PairsInv
      <3>2. CASE answer[d] \notin Packages
        BY <1>1, <3>2 DEF ConnPairs
      <3>. QED
        BY <3>1, <3>2
    <2>3. ASSUME NEW p \in Packages PROVE PortPairs(p)'
      <3>1. <<Head(udpq[q])>> \o Tail(udpq[q]) = udpq[q]
        BY <2>1, Unhead
      <3>2. OnPort(p)' = OnPort(p)
        BY <2>1, <3>1 DEF OnPort
      <3>. QED
        BY <1>1, <2>1, <3>2, PortKept DEF PairsInv
    <2>. QED
      BY <2>2, <2>3 DEF PairsInv
  <1>11. CASE \E c \in Clients : TcpNumber(q, c)
    <2>. PICK c \in Clients : TcpNumber(q, c)
      BY <1>11
    <2>1. /\ UNCHANGED <<pkg, udpq>> /\ ppc[q] = "poll" /\ c \in conns[q]
          /\ tcpq[c] # <<>> /\ tcpq[c] \in Seq(Record)
          /\ ppc'[q] = "tcp" /\ held'[q] = Head(tcpq[c]) /\ tcpq'[c] = Tail(tcpq[c])
          /\ \A p \in Packages : p # q => ppc'[p] = ppc[p] /\ held'[p] = held[p]
          /\ \A d \in Clients : d # c => tcpq'[d] = tcpq[d]
      BY <1>1 DEF TcpNumber, Polls, TypeOK
    <2>2. answer[c] = q /\ Head(tcpq[c]).from = c
      <3>1. 1 \in 1..Len(tcpq[c]) /\ Head(tcpq[c]) = tcpq[c][1]
        BY <2>1
      <3>. QED
        BY <1>5, <2>1, <3>1 DEF OwnToPackage, OwnToClient, OwnPackage, LiveAt
    <2>3. ASSUME NEW d \in Clients PROVE ConnPairs(d)'
      <3>1. CASE d = c
        <4>1. <<Head(tcpq[c])>> \o Tail(tcpq[c]) = tcpq[c]
          BY <2>1, Unhead
        <4>2. OnConnection(d)' = OnConnection(d)
          BY <1>1, <2>1, <2>2, <3>1, <4>1 DEF OnConnection
        <4>. QED
          BY <1>2, <2>1, <4>2, ConnKept DEF PairsInv
      <3>2. CASE d # c /\ answer[d] \in Packages
        <4>1. OnConnection(d)' = OnConnection(d)
          BY <1>1, <2>1, <2>2, <3>2 DEF OnConnection
        <4>. QED
          BY <1>2, <2>1, <4>1, ConnKept DEF PairsInv
      <3>3. CASE answer[d] \notin Packages
        BY <1>1, <3>3 DEF ConnPairs
      <3>. QED
        BY <3>1, <3>2, <3>3
    <2>4. ASSUME NEW p \in Packages PROVE PortPairs(p)'
      <3>1. OnPort(p)' = OnPort(p)
        BY <2>1 DEF OnPort
      <3>. QED
        BY <1>1, <2>1, <3>1, PortKept DEF PairsInv
    <2>. QED
      BY <2>3, <2>4 DEF PairsInv
  <1>12. CASE UdpText(q)
    <2>1. /\ UNCHANGED <<pkg, tcpq>> /\ pkg[q] = "up" /\ ppc[q] = "udp" /\ udpq[q] # <<>>
          /\ ppc'[q] = "poll" /\ udpq'[q] = Tail(udpq[q])
          /\ udpq[q] \in Seq(Record) /\ held[q] \in Record
          /\ \A p \in Packages : p # q =>
                ppc'[p] = ppc[p] /\ held'[p] = held[p] /\ udpq'[p] = udpq[p]
      BY <1>1, <1>12 DEF UdpText, TypeOK
    <2>2. ASSUME NEW d \in Clients PROVE ConnPairs(d)'
      <3>1. CASE answer[d] \in Packages
        <4>1. OnConnection(d)' = OnConnection(d)
          BY <1>1, <2>1, <3>1 DEF OnConnection
        <4>. QED
          BY <1>2, <2>1, <4>1, ConnKept DEF PairsInv
      <3>2. CASE answer[d] \notin Packages
        BY <1>1, <3>2 DEF ConnPairs
      <3>. QED
        BY <3>1, <3>2
    <2>3. ASSUME NEW p \in Packages PROVE PortPairs(p)'
      <3>1. CASE p # q
        <4>1. OnPort(p)' = OnPort(p)
          BY <2>1, <3>1 DEF OnPort
        <4>. QED
          BY <1>1, <2>1, <3>1, <4>1, PortKept DEF PairsInv
      <3>2. CASE p = q
        <4> DEFINE s == <<held[q]>> \o udpq[q]
                   u == Tail(udpq[q])
        <4>1. OnPort(q) = s /\ OnPort(q)' = u
          BY <2>1 DEF OnPort
        <4>2. q \notin crossed => /\ Paired(s)
                                  /\ Len(s) % 2 = 1 <=> open[q] # None
                                  /\ open[q] # None => s[Len(s)].to = addressee[open[q]]
          BY <2>1, <4>1 DEF PairsInv, PortPairs
        <4>3. q \notin crossed => /\ Paired(u) /\ Len(s) % 2 = Len(u) % 2
                                  /\ u # <<>> => s[Len(s)] = u[Len(u)]
                                  /\ Len(u) % 2 = 1 => u # <<>>
          BY <2>1, <4>2, PairedDrop
        <4>. SUFFICES ASSUME NEW v, v = u, OnPort(q)' = v
                      PROVE  PortPairs(q)'
          BY <3>2, <4>1
        <4>4. q \notin crossed => /\ Paired(v)
                                  /\ Len(v) % 2 = 1 <=> open[q] # None
                                  /\ open[q] # None => v[Len(v)].to = addressee[open[q]]
          <5>. HIDE DEF s, u
          <5>. QED
            BY <4>2, <4>3
        <4>. HIDE DEF s, u
        <4>. QED
          BY <1>1, <4>4 DEF PortPairs, Paired
      <3>. QED
        BY <3>1, <3>2
    <2>. QED
      BY <2>2, <2>3 DEF PairsInv
  <1>13. CASE TcpText(q)
    <2> DEFINE c == held[q].from
    <2>1. /\ UNCHANGED <<pkg, udpq>> /\ pkg[q] = "up" /\ ppc[q] = "tcp"
          /\ ppc'[q] = "poll" /\ held[q] \in Record /\ c \in Clients
          /\ tcpq[c] \in Seq(Record)
          /\ \A p \in Packages : p # q => ppc'[p] = ppc[p] /\ held'[p] = held[p]
          /\ \A d \in Clients : d # c => tcpq'[d] = tcpq[d]
          /\ \/ tcpq[c] # <<>> /\ tcpq'[c] = Tail(tcpq[c])
             \/ tcpq[c] = <<>> /\ cpc[c] = "gone" /\ tcpq'[c] = <<>>
      <3>1. held[q] \in Record
        BY <1>1, <1>13 DEF TcpText, TypeOK
      <3>2. c \in Clients
        BY <3>1 DEF Record
      <3>. QED
        BY <1>1, <1>13, <3>1, <3>2 DEF TcpText, TypeOK
    <2>2. answer[c] = q /\ kind[c] = "live"
      BY <1>5, <2>1 DEF OwnToPackage, LiveAt
    <2>3. ASSUME NEW d \in Clients PROVE ConnPairs(d)'
      <3>1. CASE d # c /\ answer[d] \in Packages
        <4>1. OnConnection(d)' = OnConnection(d)
          BY <1>1, <2>1, <3>1 DEF OnConnection
        <4>. QED
          BY <1>2, <2>1, <4>1, ConnKept DEF PairsInv
      <3>2. CASE answer[d] \notin Packages
        BY <1>1, <3>2 DEF ConnPairs
      <3>3. CASE d = c
        <4>1. OnConnection(c) = <<held[q]>> \o tcpq[c] /\ OnConnection(d)' = tcpq'[c]
          BY <1>1, <2>1, <2>2, <3>3 DEF OnConnection
        <4>2. CASE tcpq[c] = <<>>
          <5>1. OnConnection(d)' = <<>> /\ cpc'[d] = "gone"
            BY <1>1, <2>1, <3>3, <4>1, <4>2
          <5>2. Paired(<<>>)
            BY DEF Paired
          <5>. SUFFICES ASSUME NEW v, v = <<>>, OnConnection(d)' = v
                        PROVE  ConnPairs(d)'
            BY <5>1
          <5>. QED
            BY <5>1, <5>2 DEF ConnPairs, Paired, Unfinished
        <4>3. CASE tcpq[c] # <<>>
          <5>1. Paired(<<held[q]>> \o tcpq[c]) /\ Unfinished(<<held[q]>> \o tcpq[c], c)
            BY <2>1, <2>2, <4>1 DEF PairsInv, ConnPairs
          <5> DEFINE s == <<held[q]>> \o tcpq[c]
                     u == Tail(tcpq[c])
          <5>2. /\ Paired(u) /\ Len(s) % 2 = Len(u) % 2
                /\ u # <<>> => s[Len(s)] = u[Len(u)]
                /\ Len(u) % 2 = 1 => u # <<>>
            BY <2>1, <4>3, <5>1, PairedDrop
          <5>3. Unfinished(u, c)
            <6>. HIDE DEF s, u
            <6>1. Unfinished(s, c)
              BY <5>1 DEF s
            <6>. QED
              BY <5>2, <6>1 DEF Unfinished
          <5>4. OnConnection(d)' = u
            BY <2>1, <4>1, <4>3
          <5>. SUFFICES ASSUME NEW v, v = u, OnConnection(d)' = v
                        PROVE  ConnPairs(d)'
            BY <5>4
          <5>5. Paired(v) /\ Unfinished(v, c)
            BY <5>2, <5>3
          <5>. HIDE DEF s, u
          <5>. QED
            BY <1>1, <3>3, <5>5 DEF ConnPairs, Paired, Unfinished
        <4>. QED
          BY <4>2, <4>3
      <3>. QED
        BY <3>1, <3>2, <3>3
    <2>4. ASSUME NEW p \in Packages PROVE PortPairs(p)'
      <3>1. OnPort(p)' = OnPort(p)
        BY <2>1 DEF OnPort
      <3>. QED
        BY <1>1, <2>1, <3>1, PortKept DEF PairsInv
    <2>. QED
      BY <2>3, <2>4 DEF PairsInv
  <1>. QED
    BY <1>7, <1>8, <1>9, <1>10, <1>11, <1>12, <1>13 DEF Package

\* A record written behind what is there.
LEMMA Written ==
  ASSUME NEW s \in Seq(Record), Paired(s), NEW r \in Record,
         \/ Len(s) % 2 = 0 /\ r.part = "number"
         \/ Len(s) % 2 = 1 /\ r.part = "text" /\ r.to = s[Len(s)].to
  PROVE  \A v : v = Append(s, r) =>
            /\ Paired(v) /\ v[Len(v)] = r
            /\ Len(v) % 2 = IF r.part = "number" THEN 1 ELSE 0
  <1>1. Paired(Append(s, r))
    BY PairedAppend
  <1>2. Len(s) \in Nat /\ Len(Append(s, r)) = Len(s) + 1 /\ Append(s, r)[Len(s) + 1] = r
    OBVIOUS
  <1> DEFINE t == Append(s, r)
  <1>. HIDE DEF t
  <1>3. t[Len(t)] = r /\ Len(t) % 2 = IF r.part = "number" THEN 1 ELSE 0
    BY <1>2 DEF t
  <1>. QED
    BY <1>1, <1>3 DEF t

\* What lies on a connection or at a port are records.
LEMMA UnderWayType ==
  ASSUME TypeOK
  PROVE  /\ \A c \in Clients : answer[c] \in Packages => OnConnection(c) \in Seq(Record)
         /\ \A p \in Packages : OnPort(p) \in Seq(Record)
  <1>1. \A h \in Record, s \in Seq(Record) : <<h>> \o s \in Seq(Record)
    BY HeadAppend
  <1>. QED
    BY <1>1 DEF TypeOK, OnConnection, OnPort

LEMMA PairsSayStep ==
  ASSUME RelayInv, ComesOnce, OwnPackage, PairsInv, NEW c \in Clients, NEW r \in Record, NEW l,
         Say(c, r, l), UNCHANGED <<pkg, ppc, held, kind, answer>>,
         \A d \in Clients : d # c => addressee'[d] = addressee[d],
         \/ cpc[c] = "talk" /\ r.part = "number" /\ l = "text" /\ addressee'[c] = r.to /\ Opens(c)
         \/ cpc[c] = "text" /\ r.part = "text" /\ l = "talk" /\ addressee[c] = r.to /\ Closes(c)
  PROVE  PairsInv'
  <1>. PICK q \in Packages : q = answer[c]
    BY DEF ComesOnce
  <1>1. TypeOK
    BY DEF RelayInv
  <1>2. \A d \in Clients : d # c => ClientKept(d)
    BY <1>1 DEF ClientKept, Say, Goto, TypeOK
  <1>3. \A p \in Packages : OwnToPackage(p)
    BY DEF OwnPackage
  <1>4. ASSUME NEW p \in Packages, p # q \/ kind[c] # "paid"
        PROVE  /\ open'[p] = open[p] /\ (p \in crossed => p \in crossed')
               /\ open[p] # None => addressee'[open[p]] = addressee[open[p]]
    <2>1. open'[p] = open[p] /\ (p \in crossed => p \in crossed')
      BY <1>1, <1>4 DEF TypeOK, Opens, Closes, pairVars
    <2>2. open[p] # None => open[p] \in Clients /\ open[p] # c
      BY <1>1, <1>3, <1>4 DEF TypeOK, OwnToPackage, PaidAt
    <2>. QED
      BY <2>1, <2>2
  <1>7. pkg[q] = "up" => cpc'[c] = l
    BY <1>1 DEF Say, Goto, TypeOK
  <1>8. /\ kind[c] = "live" /\ pkg[q] = "up" => tcpq' = [tcpq EXCEPT ![c] = Append(@, r)]
        /\ kind[c] # "live" \/ pkg[q] # "up" => tcpq' = tcpq
        /\ kind[c] = "paid" /\ pkg[q] = "up" => udpq' = [udpq EXCEPT ![q] = Append(@, r)]
        /\ kind[c] # "paid" \/ pkg[q] # "up" => udpq' = udpq
        /\ kind[c] \in {"live", "paid"}
    BY <1>1 DEF Say, TypeOK
  <1>9. ASSUME NEW d \in Clients PROVE ConnPairs(d)'
    <2>1. CASE answer[d] \notin Packages
      BY <2>1 DEF ConnPairs
    <2>2. CASE d # c /\ answer[d] \in Packages
      <3>1. OnConnection(d)' = OnConnection(d)
        BY <1>1, <1>8, <2>2 DEF OnConnection, TypeOK
      <3>. QED
        BY <1>2, <2>2, <3>1, ConnKept DEF PairsInv
    <2>3. CASE d = c /\ (kind[c] = "paid" \/ pkg[q] # "up")
      BY <2>3 DEF ConnPairs
    <2>4. CASE d = c /\ kind[c] = "live" /\ pkg[q] = "up"
      <3> DEFINE s == OnConnection(c)
      <3>1. s \in Seq(Record) /\ Paired(s) /\ Unfinished(s, c)
        BY <1>1, <2>4, UnderWayType DEF PairsInv, ConnPairs
      <3>2. OnConnection(c)' = Append(s, r)
        <4>. tcpq[c] \in Seq(Record)
          BY <1>1 DEF TypeOK
        <4>1. \A h \in Record : <<h>> \o Append(tcpq[c], r) = Append(<<h>> \o tcpq[c], r)
          BY HeadAppend
        <4>2. ppc[q] = "tcp" => held[q] \in Record
          BY <1>1 DEF TypeOK
        <4>3. tcpq'[c] = Append(tcpq[c], r)
          BY <1>1, <1>8, <2>4 DEF TypeOK
        <4>. QED
          BY <4>1, <4>2, <4>3 DEF OnConnection
      <3>. HIDE DEF s
      <3>3. SUFFICES ASSUME NEW v, v = Append(s, r), OnConnection(c)' = v
                     PROVE  ConnPairs(c)'
        BY <2>4, <3>2
      <3>4. Paired(v) /\ (cpc'[c] = "talk" => Len(v) % 2 = 0)
            /\ (cpc'[c] = "text" => Len(v) % 2 = 1)
            /\ (Len(v) % 2 = 1 => v[Len(v)].to = addressee'[c])
        <4>1. \/ Len(s) % 2 = 0 /\ r.part = "number"
              \/ Len(s) % 2 = 1 /\ r.part = "text" /\ r.to = s[Len(s)].to
          BY <3>1 DEF Unfinished
        <4>2. Paired(v) /\ v[Len(v)] = r /\ Len(v) % 2 = IF r.part = "number" THEN 1 ELSE 0
          BY <3>1, <3>3, <4>1, Written
        <4>. QED
          BY <1>7, <2>4, <4>2
      <3>. QED
        BY <3>3, <3>4 DEF ConnPairs, Paired, Unfinished
    <2>. QED
      BY <1>8, <2>1, <2>2, <2>3, <2>4
  <1>10. ASSUME NEW p \in Packages PROVE PortPairs(p)'
    <2>0. PortPairs(p)
      BY DEF PairsInv
    <2>1. CASE p # q \/ kind[c] # "paid"
      <3>1. OnPort(p)' = OnPort(p)
        BY <1>1, <1>8, <2>1 DEF OnPort, TypeOK
      <3>. QED
        BY <1>4, <2>0, <2>1, <3>1, PortKept
    <2>2. CASE p = q /\ pkg[q] # "up"
      BY <2>2 DEF PortPairs
    <2>3. CASE p = q /\ kind[c] = "paid" /\ pkg[q] = "up" /\ q \in crossed'
      BY <2>3 DEF PortPairs
    <2>4. CASE p = q /\ kind[c] = "paid" /\ pkg[q] = "up" /\ q \notin crossed'
      <3> DEFINE s == OnPort(q)
      <3>1. q \notin crossed /\ IF r.part = "number" THEN open[q] = None /\ open'[q] = c
                                                      ELSE open[q] = c /\ open'[q] = None
        BY <1>1, <2>4 DEF Opens, Closes, TypeOK
      <3>2. /\ s \in Seq(Record) /\ Paired(s)
            /\ Len(s) % 2 = 1 <=> open[q] # None
            /\ open[q] # None => s[Len(s)].to = addressee[open[q]]
        BY <1>1, <2>0, <2>4, <3>1, UnderWayType DEF PortPairs
      <3>3. Len(s) \in Nat /\ c # None
        <4>1. Len(s) \in Nat
          BY <3>2
        <4>. QED
          BY <4>1, RelayAssumption
      <3>4. OnPort(q)' = Append(s, r)
        <4>. udpq[q] \in Seq(Record)
          BY <1>1 DEF TypeOK
        <4>1. \A h \in Record : <<h>> \o Append(udpq[q], r) = Append(<<h>> \o udpq[q], r)
          BY HeadAppend
        <4>2. ppc[q] = "udp" => held[q] \in Record
          BY <1>1 DEF TypeOK
        <4>3. udpq'[q] = Append(udpq[q], r)
          BY <1>1, <1>8, <2>4 DEF TypeOK
        <4>. QED
          BY <1>1, <4>1, <4>2, <4>3 DEF OnPort
      <3>. HIDE DEF s
      <3>5. \/ Len(s) % 2 = 0 /\ r.part = "number"
            \/ Len(s) % 2 = 1 /\ r.part = "text" /\ r.to = s[Len(s)].to
        BY <3>1, <3>2, <3>3
      <3>6. SUFFICES ASSUME NEW v, v = Append(s, r), OnPort(q)' = v
                     PROVE  PortPairs(q)'
        BY <2>4, <3>4
      <3>7. Paired(v) /\ v[Len(v)] = r /\ Len(v) % 2 = IF r.part = "number" THEN 1 ELSE 0
        BY <3>2, <3>5, <3>6, Written
      <3>8. r.part = "number" => addressee'[c] = r.to
        OBVIOUS
      <3>9. Len(v) % 2 = 1 <=> open'[q] # None
        BY <3>1, <3>3, <3>7
      <3>10. open'[q] # None => v[Len(v)].to = addressee'[open'[q]]
        BY <3>1, <3>7, <3>8
      <3>. QED
        BY <3>6, <3>7, <3>9, <3>10 DEF PortPairs, Paired
    <2>. QED
      BY <1>8, <2>1, <2>2, <2>3, <2>4
  <1>. QED
    BY <1>9, <1>10 DEF PairsInv

LEMMA PairsClientStep ==
  ASSUME RelayInv, ComesOnce, OwnPackage, PairsInv, NEW c \in Clients, Client(c)
  PROVE  PairsInv'
  <1>1. TypeOK /\ UNCHANGED <<pkg, ppc, held, kind, answer>>
    BY DEF Client, Connect, Choose, Introduce, Write, Answered, Talk, SayText, SayNumber, UdpRecv, Quit, packageVars,
           linkVars, RelayInv
  <1>2. CASE SayText(c)
    <2>1. answer[c] \in Packages /\ cpc[c] = "text"
      BY <1>2 DEF SayText, ComesOnce
    <2> DEFINE r == [part |-> "text", from |-> c, to |-> addressee[c]]
    <2>2. r \in Record
      BY <1>1, <2>1 DEF TypeOK, Record
    <2>3. /\ Say(c, r, "talk") /\ addressee' = addressee /\ Closes(c)
          /\ cpc[c] = "text" /\ r.part = "text" /\ addressee[c] = r.to
      BY <1>2 DEF SayText
    <2>. HIDE DEF r
    <2>. QED
      BY <1>1, <2>2, <2>3, PairsSayStep
  <1>3. CASE \E n \in Numbers : SayNumber(c, n)
    <2>. PICK n \in Numbers : SayNumber(c, n)
      BY <1>3
    <2> DEFINE r == [part |-> "number", from |-> c, to |-> n]
    <2>2. r \in Record
      BY DEF Record
    <2>3. /\ Say(c, r, "text") /\ addressee' = [addressee EXCEPT ![c] = n]
          /\ cpc[c] = "talk" /\ r.part = "number" /\ r.to = n /\ Opens(c)
      BY DEF SayNumber
    <2>4. addressee'[c] = r.to /\ \A d \in Clients : d # c => addressee'[d] = addressee[d]
      BY <1>1, <2>3 DEF TypeOK
    <2>. HIDE DEF r
    <2>. QED
      BY <1>1, <2>2, <2>3, <2>4, PairsSayStep
  <1>4. CASE Connect(c) \/ Choose(c) \/ Introduce(c) \/ Answered(c) \/ UdpRecv(c) \/ Quit(c)
    <2>1. UNCHANGED <<addressee, open, crossed, udpq, tcpq>>
      BY <1>4 DEF Connect, Choose, Introduce, Write, Answered, UdpRecv, Quit, clientVars, pairVars, linkVars
    <2>2. \A d \in Clients : d # c \/ ~Entering(c) => ClientKept(d)
      BY <1>1, <1>4, <2>1 DEF Connect, Choose, Introduce, Write, Answered, UdpRecv, Quit, Goto, ClientKept, Entering,
                             TypeOK
    <2>3. ASSUME NEW d \in Clients PROVE ConnPairs(d)'
      <3>1. OnConnection(d)' = OnConnection(d)
        BY <1>1, <2>1 DEF OnConnection
      <3>2. CASE d # c \/ ~Entering(c)
        BY <1>1, <2>2, <3>1, <3>2, ConnKept DEF PairsInv
      <3>3. CASE d = c /\ Entering(c)
        <4>1. answer[c] \in Packages => OnConnection(c)' = <<>>
          BY <1>1, <3>1, <3>3, NothingYet DEF OnConnection
        <4>2. cpc'[c] # "text"
          BY <1>1, <1>4, <3>3 DEF Connect, Choose, Introduce, Write, Answered, UdpRecv, Quit, Goto, Entering, TypeOK
        <4>3. Paired(<<>>) /\ Len(<<>>) % 2 = 0
          BY DEF Paired
        <4>4. SUFFICES ASSUME NEW v, v = <<>>, OnConnection(c)' = v
                       PROVE  ConnPairs(c)'
          BY <1>1, <3>3, <4>1 DEF ConnPairs
        <4>. QED
          BY <4>2, <4>3, <4>4 DEF ConnPairs, Paired, Unfinished
      <3>. QED
        BY <3>2, <3>3
    <2>4. ASSUME NEW p \in Packages PROVE PortPairs(p)'
      <3>1. OnPort(p)' = OnPort(p)
        BY <1>1, <2>1 DEF OnPort
      <3>. QED
        BY <1>1, <2>1, <3>1, PortKept DEF PairsInv
    <2>. QED
      BY <2>3, <2>4 DEF PairsInv
  <1>. QED
    BY <1>2, <1>3, <1>4 DEF Client, Talk

\* No text comes before its number (C.c 181-198, P.c 228-252).
LEMMA PairsStep == RelayInv /\ ComesOnce /\ OwnPackage /\ PairsInv /\ [Next]_vars => PairsInv'
  <1>1. ASSUME PairsInv, UNCHANGED vars PROVE PairsInv'
    <2>1. UNCHANGED <<pkg, ppc, held, cpc, kind, answer, addressee, open, crossed, udpq, tcpq>>
      BY <1>1 DEF vars, packageVars, clientVars, pairVars, linkVars
    <2>2. \A d \in Clients : ClientKept(d) /\ OnConnection(d)' = OnConnection(d)
      BY <2>1 DEF ClientKept, OnConnection
    <2>3. \A p \in Packages : OnPort(p)' = OnPort(p)
      BY <2>1 DEF OnPort
    <2>4. \A d \in Clients : ConnPairs(d)'
      BY <1>1, <2>1, <2>2, ConnKept DEF PairsInv
    <2>5. ASSUME NEW p \in Packages PROVE PortPairs(p)'
      BY <1>1, <2>1, <2>3, PortKept DEF PairsInv
    <2>. QED
      BY <2>4, <2>5 DEF PairsInv
  <1>. QED
    BY <1>1, PairsCenterStep, PairsPackageStep, PairsClientStep DEF Next, RelayInv

-----------------------------------------------------------------------------
(* Who is handed what *)

LEMMA AddressedStep ==
  ASSUME RelayInv, ComesOnce, OwnPackage, PairsInv, Addressed, [Next]_vars
  PROVE  Addressed'
  <1>1. TypeOK
    BY DEF RelayInv
  <1>2. Range(registered) \subseteq Range(registered')
    <2>1. CASE Center
      <3>1. registered' = registered \/ (cur \in Clients /\ registered' = Append(registered, cur))
        BY <1>1, <2>1 DEF Center, AcceptPackage, ReadPackage, PackageHungUp, AcceptClient,
            ClientHungUp, Refuse, ReadClient, TellPackage, BreakOff, AnswerClient, NoticeLeft, TypeOK
      <3>2. registered \in Seq(Clients)
        BY <1>1 DEF TypeOK
      <3>3. \A c \in Clients : Range(Append(registered, c)) = Range(registered) \cup {c}
        BY <3>2, RangeAppend
      <3>. QED
        BY <3>1, <3>3
    <2>2. CASE ~Center
      BY <2>2, OutsideStep DEF Next, vars, centerVars
    <2>. QED
      BY <2>1, <2>2
  <1>3. crossed \subseteq crossed'
    <2>1. CASE \E c \in Clients : Talk(c)
      BY <2>1 DEF Talk, SayText, SayNumber, Opens, Closes, pairVars
    <2>2. CASE ~\E c \in Clients : Talk(c)
      BY <2>2 DEF Next, Center, AcceptPackage, ReadPackage, PackageHungUp, AcceptClient,
          ClientHungUp, Refuse, ReadClient, TellPackage, BreakOff, AnswerClient, NoticeLeft, StartPackage,
          IntroducePackage, LeavePackage, Package, StoreNewClient, HandleClientTcp, UdpNumber, UdpText,
          TcpText, TcpNumber, HangUp, Client, Connect, Choose, Introduce, Answered, UdpRecv, Quit, vars,
          clientVars, pairVars
    <2>. QED
      BY <2>1, <2>2
  <1>4. Settled
    BY <1>1, SettledStays
  <1>5. \A c \in Clients : cpc[c] = "gone" => cpc'[c] = "gone" /\ addressee'[c] = addressee[c]
    <2>1. CASE \E c \in Clients, n \in Numbers : SayNumber(c, n)
      BY <1>1, <2>1, LeftForGood DEF SayNumber, TypeOK
    <2>2. CASE ~\E c \in Clients, n \in Numbers : SayNumber(c, n)
      <3>1. addressee' = addressee
        BY <2>2 DEF Next, Center, AcceptPackage, ReadPackage, PackageHungUp, AcceptClient,
            ClientHungUp, Refuse, ReadClient, TellPackage, BreakOff, AnswerClient, NoticeLeft, StartPackage,
            IntroducePackage, LeavePackage, Package, StoreNewClient, HandleClientTcp, UdpNumber, UdpText,
            TcpText, TcpNumber, HangUp, Client, Connect, Choose, Introduce, Answered, Talk, SayText, UdpRecv,
            Quit, vars, clientVars
      <3>. QED
        BY <1>1, <3>1, LeftForGood
    <2>. QED
      BY <2>1, <2>2
  <1>. SUFFICES ASSUME NEW d \in Clients, NEW x \in Range(inbox'[d]),
                       kind'[x.from] = "live" \/ answer'[x.from] \notin crossed'
                PROVE  /\ \/ x.part = "text"
                          \/ /\ x.part = "empty" /\ kind'[x.from] = "live"
                             /\ cpc'[x.from] = "gone" /\ addressee'[x.from] = x.to
                       /\ \E e \in Range(registered') : AddrOf[e] = AddrOf[d] /\ NumberOf[e] = x.to
    BY DEF Addressed, Range
  \* It is enough that the record was as it should be before the step.
  <1>6. ASSUME x.from \in Clients, answer[x.from] \in Packages,
               kind[x.from] = "live" \/ answer[x.from] \notin crossed =>
                  /\ \/ x.part = "text"
                     \/ /\ x.part = "empty" /\ kind[x.from] = "live"
                        /\ cpc[x.from] = "gone" /\ addressee[x.from] = x.to
                  /\ \E e \in Range(registered) : AddrOf[e] = AddrOf[d] /\ NumberOf[e] = x.to
        PROVE  /\ \/ x.part = "text"
                  \/ /\ x.part = "empty" /\ kind'[x.from] = "live"
                     /\ cpc'[x.from] = "gone" /\ addressee'[x.from] = x.to
               /\ \E e \in Range(registered') : AddrOf[e] = AddrOf[d] /\ NumberOf[e] = x.to
    BY <1>2, <1>3, <1>4, <1>5, <1>6 DEF Settled
  <1>7. CASE x \in Range(inbox[d])
    <2>1. inbox[d] \in Seq(Record)
      BY <1>1 DEF TypeOK
    <2>2. \A i \in DOMAIN inbox[d] : inbox[d][i] \in Record
      BY <2>1
    <2>3. x.from \in Clients /\ answer[x.from] \in Packages
      BY <1>7, <2>2 DEF Range, Record, OwnPackage, FromWriters
    <2>. QED
      BY <1>6, <1>7, <2>3 DEF Addressed
  <1>8. ASSUME NEW p \in Packages, pkg[p] = "up",
               \E e \in Range(registered) : AddrOf[e] = AddrOf[d] /\ NumberOf[e] = held[p].to,
               ppc[p] = "udp", udpq[p] # <<>>, x = Head(udpq[p])
        PROVE  /\ \/ x.part = "text"
                  \/ /\ x.part = "empty" /\ kind'[x.from] = "live"
                     /\ cpc'[x.from] = "gone" /\ addressee'[x.from] = x.to
               /\ \E e \in Range(registered') : AddrOf[e] = AddrOf[d] /\ NumberOf[e] = x.to
    <2>1. udpq[p] \in Seq(Record) /\ held[p] \in Record
      BY <1>1, <1>8 DEF TypeOK
    <2>2. 1 \in 1..Len(udpq[p]) /\ x = udpq[p][1] /\ x \in Record
      BY <1>8, <2>1
    <2>3. x.from \in Clients /\ PaidAt(x.from, p)
      BY <2>2 DEF OwnPackage, OwnToPackage, Record
    <2>4. p \notin crossed => Paired(<<held[p]>> \o udpq[p])
      BY <1>8 DEF PairsInv, PortPairs, OnPort
    <2>5. p \notin crossed => x.part = "text" /\ x.to = held[p].to
      BY <1>8, <2>1, <2>4, PairedDrop
    <2>. QED
      BY <1>6, <1>8, <2>3, <2>5 DEF PaidAt
  <1>9. ASSUME NEW p \in Packages, ppc[p] = "tcp", pkg[p] = "up"
        PROVE  /\ held[p] \in Record /\ held[p].from \in Clients
               /\ answer[held[p].from] = p /\ kind[held[p].from] = "live"
               /\ tcpq[held[p].from] \in Seq(Record)
               /\ OnConnection(held[p].from) = <<held[p]>> \o tcpq[held[p].from]
               /\ Paired(OnConnection(held[p].from))
               /\ Unfinished(OnConnection(held[p].from), held[p].from)
    <2>1. held[p] \in Record
      BY <1>1, <1>9 DEF TypeOK
    <2>2. PICK c \in Clients : c = held[p].from
      BY <2>1 DEF Record
    <2>3. LiveAt(c, p)
      BY <1>9, <2>2 DEF OwnPackage, OwnToPackage
    <2>4. answer[c] = p /\ kind[c] = "live" /\ tcpq[c] \in Seq(Record)
      BY <1>1, <2>3 DEF LiveAt, TypeOK
    <2>5. OnConnection(c) = <<held[p]>> \o tcpq[c]
      BY <1>9, <2>2, <2>4 DEF OnConnection
    <2>6. Paired(OnConnection(c)) /\ Unfinished(OnConnection(c), c)
      BY <1>9, <2>4 DEF PairsInv, ConnPairs
    <2>. QED
      BY <2>1, <2>2, <2>4, <2>5, <2>6
  <1>10. ASSUME NEW p \in Packages, pkg[p] = "up",
                \E e \in Range(registered) : AddrOf[e] = AddrOf[d] /\ NumberOf[e] = held[p].to,
                ppc[p] = "tcp", tcpq[held[p].from] # <<>>, x = Head(tcpq[held[p].from])
         PROVE  /\ \/ x.part = "text"
                   \/ /\ x.part = "empty" /\ kind'[x.from] = "live"
                      /\ cpc'[x.from] = "gone" /\ addressee'[x.from] = x.to
                /\ \E e \in Range(registered') : AddrOf[e] = AddrOf[d] /\ NumberOf[e] = x.to
    <2>1. PICK c \in Clients : c = held[p].from
      BY <1>9, <1>10
    <2>2. /\ held[p] \in Record /\ tcpq[c] \in Seq(Record) /\ tcpq[c] # <<>> /\ x = Head(tcpq[c])
          /\ answer[c] = p /\ Paired(<<held[p]>> \o tcpq[c])
      BY <1>9, <1>10, <2>1
    <2>3. x.part = "text" /\ x.to = held[p].to
      BY <2>2, PairedDrop
    <2>4. 1 \in 1..Len(tcpq[c]) /\ x = tcpq[c][1]
      BY <2>2
    <2>5. x.from = c
      BY <2>4 DEF OwnPackage, OwnToClient
    <2>. QED
      BY <1>6, <1>10, <2>2, <2>3, <2>5
  <1>11. ASSUME NEW p \in Packages, pkg[p] = "up",
                \E e \in Range(registered) : AddrOf[e] = AddrOf[d] /\ NumberOf[e] = held[p].to,
                ppc[p] = "tcp", tcpq[held[p].from] = <<>>, cpc[held[p].from] = "gone",
                x = [held[p] EXCEPT !.part = "empty"]
         PROVE  /\ \/ x.part = "text"
                   \/ /\ x.part = "empty" /\ kind'[x.from] = "live"
                      /\ cpc'[x.from] = "gone" /\ addressee'[x.from] = x.to
                /\ \E e \in Range(registered') : AddrOf[e] = AddrOf[d] /\ NumberOf[e] = x.to
    <2>1. PICK c \in Clients : c = held[p].from
      BY <1>9, <1>11
    <2>2. /\ held[p] \in Record /\ answer[c] = p /\ kind[c] = "live" /\ cpc[c] = "gone"
          /\ OnConnection(c) = <<held[p]>> \o <<>> /\ Unfinished(OnConnection(c), c)
      BY <1>9, <1>11, <2>1
    <2>3. Len(OnConnection(c)) = 1 /\ OnConnection(c)[1] = held[p]
      BY <2>2
    <2>4. held[p].to = addressee[c]
      <3>1. \A v : Len(v) = 1 /\ v[1] = held[p] /\ Unfinished(v, c) => held[p].to = addressee[c]
        BY DEF Unfinished
      <3>. QED
        BY <2>2, <2>3, <3>1
    <2>5. x.part = "empty" /\ x.from = c /\ x.to = held[p].to
      BY <1>11, <2>1, <2>2 DEF Record
    <2>. QED
      BY <1>6, <1>11, <2>2, <2>4, <2>5
  <1>. QED
    BY <1>7, <1>8, <1>10, <1>11, Handed

LEMMA AddressInit == Init => AddressInv
  BY DEF Init, AddressInv, ComesOnce, OwnPackage, OwnToPackage, OwnToClient, FromWriters, Entering, PairsInv,
         ConnPairs, PortPairs, OnConnection, OnPort, Paired, Unfinished, Addressed, Range

\* However many clients write at a time, and whatever leaves and dies: a user is
\* handed texts, for the number of a registered client with the user's address,
\* and the empty record for that number of a live client that ended after it;
\* except from paid clients of a package where a number and its text were once
\* parted (P.c 228-252, 269-301).
THEOREM AddressedAlways == Spec => []Addressed
  <1>1. Init => AddressInv
    BY AddressInit
  <1>2. RelayInv /\ AddressInv /\ [Next]_vars => AddressInv'
    BY ComesOnceStep, OwnStep, PairsStep, AddressedStep DEF AddressInv, RelayInv
  <1>. QED
    BY <1>1, <1>2, RelayInvariant, PTL DEF Spec, AddressInv
=============================================================================
